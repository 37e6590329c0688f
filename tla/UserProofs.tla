-------------------------------- MODULE UserProofs --------------------------------
(***************************************************************************)
(* Theorems about the users of Accounts: what the cache says of them, and  *)
(* how a taken email is told.                                              *)
(***************************************************************************)
EXTENDS AccountsProofs

Writers == {"update_user", "delete_user"}

\* What a command of the request k, which becomes l, does to the users.
Looks(k, l) ==
    /\ UNCHANGED <<users, cachedUsers>> /\ k.op \notin Writers
    /\ k.op = "get_user" /\ Left(l) = 1 => l.data = users[k.user].data
    /\ k.op = "register" /\ Left(l) \in {1, 2} => Left(k) = 2

Hesitates(k, l) ==
    /\ UNCHANGED <<users, cachedUsers>> /\ k.op \in Writers
    /\ \/ l.refused /= "none"
       \/ /\ l.code /= "ok" /\ Left(l) = 0
          /\ \/ Left(k) >= (IF k.op = "update_user" THEN 3 ELSE 2)
             \/ Left(k) = 2 /\ ~LiveUser(k.user)
       \/ k.op = "update_user" /\ l.code = k.code /\ Left(k) = 4 /\ Left(l) = 3
       \/ k.op = "update_user" /\ l.code = k.code /\ Left(k) = 2 /\ Left(l) = 1

Inserts(k, l) ==
    /\ k.op = "register" /\ Left(k) = 3 /\ Left(l) = 2 /\ UNCHANGED cachedUsers
    /\ ~EmailIndexed(k.user, k.data.email) /\ PutUser(k.user, k.data)

Writes(k, l) ==
    /\ k.op = "update_user" /\ Left(k) = 3 /\ Left(l) = 2 /\ UNCHANGED cachedUsers
    /\ l.code = k.code /\ LiveUser(k.user)
    /\ LET data == Updated(users[k.user].data, k.data)
       IN  ~EmailIndexed(k.user, data.email) /\ PutUser(k.user, data)

Removes(k, l) ==
    /\ k.op = "delete_user" /\ Left(k) = 2 /\ Left(l) = 1 /\ UNCHANGED cachedUsers
    /\ l.code = k.code /\ RemoveUser(k.user)

Caches(k, l) ==
    /\ k.op = "get_user" /\ Left(k) = 1 /\ Left(l) = 0 /\ UNCHANGED users
    /\ CacheUser(k.user, k.data)

Uncaches(k, l) ==
    /\ k.op \in Writers /\ Left(k) = 1 /\ Left(l) = 0 /\ UNCHANGED users
    /\ l.code = k.code /\ UncacheUser(k.user)

UserEffect(k, l) ==
    \/ Looks(k, l) \/ Hesitates(k, l) \/ Inserts(k, l) \/ Writes(k, l)
    \/ Removes(k, l) \/ Caches(k, l) \/ Uncaches(k, l)

\* Where a request is after its command.
LEMMA GoesOn ==
    ASSUME Typed, NEW c \in Call, NEW command, Sends(c, command), Becomes(c, Proceeds(call[c]))
    PROVE  LET k == call[c]
               l == call'[c]
           IN  /\ Left(l) = Left(k) - 1 /\ l.code = k.code /\ l.data = k.data /\ l.op = k.op
               /\ Left(k) \in 1 .. Len(Final[k.op]) /\ Final[k.op][Left(k)] = command
               /\ k.op \in Operations
BY BecomesOne, Sent DEF SameButTodo

LEMMA GivesUp ==
    ASSUME Typed, NEW c \in Call, NEW command, Sends(c, command), NEW code,
           Becomes(c, Fails(call[c], code))
    PROVE  LET k == call[c]
               l == call'[c]
           IN  /\ Left(l) = 0 /\ l.code = code
               /\ Left(k) \in 1 .. Len(Final[k.op]) /\ Final[k.op][Left(k)] = command
               /\ k.op \in Operations
<1>1. call'[c] = Fails(call[c], code) /\ call[c] \in InFlight
  BY BecomesOne, Sending
<1>2. Fails(call[c], code).todo = <<>> /\ Fails(call[c], code).code = code /\ Len(<<>>) = 0
  BY <1>1 DEF Fails, InFlight
<1> QED BY <1>1, <1>2, Sent DEF Left

LEMMA StepLeft ==
    ASSUME Typed, NEW c \in Call, Step(c), ~Respond(c)
    PROVE  /\ Left(call[c]) \in Nat \ {0}
           /\ Left(call'[c]) \in {0, Left(call[c]) - 1}
<1> DEFINE k == call[c]
           l == call'[c]
<1>1. /\ l.todo = Tail(k.todo) \/ l.todo = <<>>
      /\ k.todo \in Seq(Commands) /\ k.todo /= <<>>
  BY StepAbout
<1>2. Len(Tail(k.todo)) = Len(k.todo) - 1 /\ Len(<<>>) = 0 /\ Len(k.todo) \in Nat \ {0}
  BY <1>1
<1> QED BY <1>1, <1>2 DEF Left

LEMMA UserEffects ==
    ASSUME Typed, NEW c \in Call, Step(c), ~Respond(c)
    PROVE  UserEffect(call[c], call'[c])
<1> DEFINE k == call[c]
           l == call'[c]
<1>1. CASE CheckEmail(c)
  <2>1. /\ Sends(c, "check_email") /\ UNCHANGED <<users, cachedUsers>>
        /\ Becomes(c, Proceeds(k)) \/ Becomes(c, Fails(k, "exists"))
    BY <1>1 DEF CheckEmail, Reads, storeVars
  <2>2. k.op \in {"register", "update_user"} /\ Left(k) = 4
    BY <2>1, Sent, Places
  <2>3. \/ Left(l) = 3 /\ l.code = k.code
        \/ Left(l) = 0 /\ l.code = "exists"
    <3>1. CASE Becomes(c, Proceeds(k))
      BY <2>1, <2>2, <3>1, GoesOn
    <3>2. CASE Becomes(c, Fails(k, "exists"))
      BY <2>1, <3>2, GivesUp
    <3> QED BY <2>1, <3>1, <3>2
  <2> QED BY <2>1, <2>2, <2>3 DEF UserEffect, Looks, Hesitates, Writers
<1>2. CASE InsertUser(c)
  <2>1. Sends(c, "insert_user") /\ UNCHANGED cachedUsers
    BY <1>2 DEF InsertUser
  <2>2. k.op = "register" /\ Left(k) = 3
    BY <2>1, Sent, Places
  <2>3. CASE EmailIndexed(k.user, k.data.email)
    <3>1. Becomes(c, Fails(k, "duplicate")) /\ UNCHANGED users
      BY <1>2, <2>3 DEF InsertUser
    <3>2. Left(l) = 0
      BY <2>1, <3>1, GivesUp
    <3> QED BY <2>1, <2>2, <3>1, <3>2 DEF UserEffect, Looks, Writers
  <2>4. CASE ~EmailIndexed(k.user, k.data.email)
    <3>1. Becomes(c, Proceeds(k)) /\ PutUser(k.user, k.data)
      BY <1>2, <2>4 DEF InsertUser
    <3> QED BY <2>1, <2>2, <2>4, <3>1, GoesOn DEF UserEffect, Inserts
  <2> QED BY <2>3, <2>4
<1>3. CASE WriteUser(c)
  <2> DEFINE data == Updated(users[k.user].data, k.data)
  <2>1. Sends(c, "write_user") /\ UNCHANGED cachedUsers
    BY <1>3 DEF WriteUser
  <2>2. k.op = "update_user" /\ Left(k) = 3
    BY <2>1, Sent, Places
  <2>3. \/ \E code \in {"not_found", "duplicate"} : UNCHANGED users /\ Becomes(c, Fails(k, code))
        \/ /\ LiveUser(k.user) /\ ~EmailIndexed(k.user, data.email)
           /\ PutUser(k.user, data) /\ Becomes(c, Proceeds(k))
    BY <1>3 DEF WriteUser
  <2>4. CASE \E code \in {"not_found", "duplicate"} : UNCHANGED users /\ Becomes(c, Fails(k, code))
    <3>1. l.code /= "ok" /\ Left(l) = 0 /\ UNCHANGED users
      BY <2>1, <2>4, GivesUp
    <3> QED BY <2>1, <2>2, <3>1 DEF UserEffect, Hesitates, Writers
  <2>5. CASE /\ LiveUser(k.user) /\ ~EmailIndexed(k.user, data.email)
             /\ PutUser(k.user, data) /\ Becomes(c, Proceeds(k))
    BY <2>1, <2>2, <2>5, GoesOn DEF UserEffect, Writes
  <2> QED BY <2>3, <2>4, <2>5
<1>4. CASE RemoveTheUser(c)
  <2>1. Sends(c, "remove_user") /\ UNCHANGED cachedUsers /\ RemoveUser(k.user)
    BY <1>4 DEF RemoveTheUser
  <2>2. k.op = "delete_user" /\ Left(k) = 2
    BY <2>1, Sent, Places
  <2>3. CASE LiveUser(k.user)
    <3>1. Becomes(c, Proceeds(k))
      BY <1>4, <2>3 DEF RemoveTheUser
    <3> QED BY <2>1, <2>2, <3>1, GoesOn DEF UserEffect, Removes
  <2>4. CASE ~LiveUser(k.user)
    <3>1. Becomes(c, Fails(k, "not_found")) /\ UNCHANGED users
      BY <1>4, <2>1, <2>4 DEF RemoveTheUser, RemoveUser
    <3>2. Left(l) = 0 /\ l.code = "not_found"
      BY <2>1, <3>1, GivesUp
    <3> QED BY <2>1, <2>2, <3>1, <3>2 DEF UserEffect, Hesitates, Writers
  <2> QED BY <2>3, <2>4
<1>5. CASE ReadCachedUser(c)
  <2> DEFINE data == cachedUsers[k.user].data
  <2>1. /\ Sends(c, "cached_user") /\ UNCHANGED <<users, cachedUsers>>
        /\ Becomes(c, Proceeds(k)) \/ Becomes(c, [k EXCEPT !.todo = <<>>, !.data = data])
    BY <1>5 DEF ReadCachedUser, Reads, storeVars
  <2>2. k.op = "get_user" /\ Left(k) = 3 /\ k \in InFlight
    BY <2>1, Sent, Places
  <2>3. CASE Becomes(c, Proceeds(k))
    BY <2>1, <2>2, <2>3, GoesOn DEF UserEffect, Looks, Writers
  <2>4. CASE Becomes(c, [k EXCEPT !.todo = <<>>, !.data = data])
    <3>1. l = [k EXCEPT !.todo = <<>>, !.data = data] /\ Len(<<>>) = 0
      BY <2>4, BecomesOne
    <3>2. l.todo = <<>>
      BY <2>2, <3>1 DEF InFlight
    <3> QED BY <2>1, <2>2, <3>1, <3>2 DEF UserEffect, Looks, Writers, Left
  <2> QED BY <2>1, <2>3, <2>4
<1>6. CASE FindUser(c)
  <2> DEFINE data == users[k.user].data
             next == Proceeds(k)
  <2>1. PICK command \in {"find_user", "reread_user"} : Sends(c, command)
    BY <1>6 DEF FindUser
  <2>2. /\ UNCHANGED <<users, cachedUsers>>
        /\ \/ LiveUser(k.user) /\ Becomes(c, [next EXCEPT !.data = data])
           \/ ~LiveUser(k.user) /\ Becomes(c, Fails(k, "not_found"))
    BY <1>6 DEF FindUser, Reads, storeVars
  <2>3. k.op \in {"get_user", "update_user"} /\ Left(k) = 2 /\ k \in InFlight /\ next \in InFlight
        /\ Left(next) = 1 /\ next.code = k.code
    BY <2>1, Sent, Places DEF SameButTodo
  <2>4. CASE LiveUser(k.user) /\ Becomes(c, [next EXCEPT !.data = data])
    <3>1. l = [next EXCEPT !.data = data]
      BY <2>4, BecomesOne
    <3> HIDE DEF next
    <3>2. l.todo = next.todo /\ l.data = data /\ l.code = next.code
      BY <2>3, <3>1 DEF InFlight
    <3>3. Left(l) = 1
      BY <2>3, <3>2 DEF Left
    <3> QED BY <2>2, <2>3, <3>2, <3>3 DEF UserEffect, Looks, Hesitates, Writers
  <2>5. CASE ~LiveUser(k.user) /\ Becomes(c, Fails(k, "not_found"))
    <3>1. Left(l) = 0 /\ l.code = "not_found"
      BY <2>1, <2>5, GivesUp
    <3> QED BY <2>2, <2>3, <2>5, <3>1 DEF UserEffect, Looks, Hesitates, Writers
  <2> QED BY <2>2, <2>4, <2>5
<1>7. CASE CacheTheUser(c)
  <2>1. /\ Sends(c, "cache_user") /\ CacheUser(k.user, k.data) /\ Becomes(c, Proceeds(k))
        /\ UNCHANGED users
    BY <1>7 DEF CacheTheUser
  <2>2. k.op = "get_user" /\ Left(k) = 1
    BY <2>1, Sent, Places
  <2> QED BY <2>1, <2>2, GoesOn DEF UserEffect, Caches
<1>8. CASE UncacheTheUser(c)
  <2>1. /\ Sends(c, "uncache_user") /\ UncacheUser(k.user) /\ Becomes(c, Proceeds(k))
        /\ UNCHANGED users
    BY <1>8 DEF UncacheTheUser
  <2>2. k.op \in Writers /\ Left(k) = 1
    BY <2>1, Sent, Places DEF Writers
  <2> QED BY <2>1, <2>2, GoesOn DEF UserEffect, Uncaches
<1>9. CASE Refuse(c)
  <2>1. /\ Sends(c, Head(k.todo)) /\ UNCHANGED <<users, cachedUsers>>
        /\ l.refused \in {"store", "cache"} /\ k \in InFlight
        /\ \/ Head(k.todo) \in ErrorIgnored /\ l.todo = Tail(k.todo)
           \/ Head(k.todo) \notin ErrorIgnored /\ l.todo = <<>>
    BY <1>9, RefuseAdvances DEF storeVars
  <2>2. /\ Left(k) \in 1 .. Len(Final[k.op]) /\ Final[k.op][Left(k)] = Head(k.todo)
        /\ k.op \in Operations /\ Left(Proceeds(k)) = Left(k) - 1
    BY <2>1, Sent
  <2>3. Proceeds(k).todo = Tail(k.todo) /\ Len(<<>>) = 0
    BY <2>1 DEF Proceeds, InFlight
  <2>4. Left(l) = 0 \/ (Head(k.todo) \in ErrorIgnored /\ Left(l) = Left(k) - 1)
    BY <2>1, <2>2, <2>3 DEF Left
  <2>5. Final["get_user"][2] = "find_user" /\ Final["register"][3] = "insert_user"
        /\ "find_user" \notin ErrorIgnored /\ "insert_user" \notin ErrorIgnored
    BY DEF Final, ErrorIgnored
  <2>6. k.op = "get_user" => Left(l) /= 1
    BY <2>2, <2>4, <2>5
  <2>7. k.op = "register" /\ Left(l) \in {1, 2} => Left(k) = 2
    BY <2>2, <2>4, <2>5 DEF Final
  <2> QED BY <2>1, <2>6, <2>7 DEF UserEffect, Looks, Hesitates
<1>10. CASE \/ FindLogin(c) \/ InsertTheToken(c) \/ ReadCachedToken(c) \/ FindToken(c)
            \/ CacheTheToken(c) \/ DeleteTheToken(c) \/ UncacheTheToken(c)
            \/ ListTokens(c) \/ UncacheListed(c) \/ DeleteAllTokens(c)
  <2>1. UNCHANGED <<users, cachedUsers>>
    BY <1>10 DEF FindLogin, InsertTheToken, ReadCachedToken, FindToken, CacheTheToken,
                 DeleteTheToken, UncacheTheToken, ListTokens, UncacheListed, DeleteAllTokens,
                 Reads, storeVars
  <2>2. PICK command \in {"find_login", "insert_token", "cached_token", "find_token",
                          "cache_token", "delete_token", "uncache_token", "list_tokens",
                          "uncache_tokens", "delete_tokens"} : Sends(c, command)
    BY <1>10 DEF FindLogin, InsertTheToken, ReadCachedToken, FindToken, CacheTheToken,
                 DeleteTheToken, UncacheTheToken, ListTokens, UncacheListed, DeleteAllTokens
  <2>3. k.op \notin Writers \cup {"get_user"} /\ (k.op = "register" => Left(k) \in {1, 2})
    <3>1. /\ Left(k) \in 1 .. Len(Final[k.op]) /\ Final[k.op][Left(k)] = command
          /\ k.op \in Operations
      BY <2>2, Sent
    <3> DEFINE n == Left(k)
               op == k.op
    <3> HIDE DEF n, op
    <3>2. n \in 1 .. Len(Final[op]) /\ Final[op][n] = command /\ op \in Operations
      BY <3>1 DEF n, op
    <3>3. op \notin Writers \cup {"get_user"} /\ (op = "register" => n \in {1, 2})
      BY <2>2, <3>2, Places DEF Writers, Issuing
    <3> QED BY <3>3 DEF n, op
  <2>4. k.op = "register" /\ Left(l) \in {1, 2} => Left(k) = 2
    BY <2>3, StepLeft
  <2> QED BY <2>1, <2>3, <2>4 DEF UserEffect, Looks
<1> QED BY <1>1, <1>2, <1>3, <1>4, <1>5, <1>6, <1>7, <1>8, <1>9, <1>10 DEF Step

-------------------------------------------------------------------------------
(* UsersFresh.                                                             *)

\* Users that nobody has registered are unknown to everybody, but for the one
\* request that registers each.
Accounted ==
    /\ \A n \in Issued : tokens[n].user \in Registered
    /\ \A u \in User \ Registered : cachedUsers[u] = NotCached
    /\ \A c \in Call :
         LET k == call[c]
         IN  /\ k.user \in User /\ k.op /= "register" => k.user \in Registered
             /\ k.op = "register" /\ Left(k) \in {1, 2} => k.user \in Registered
             /\ k.op = "register" /\ Left(k) >= 3 =>
                  k.user \notin Registered /\ \A d \in Call \ {c} : call[d].user /= k.user

\* The cache tells something else than the collection of a user, or is about to.
AboutToCache(k, u) ==
    k.op = "get_user" /\ k.user = u /\ Left(k) = 1 /\ k.data /= users[u].data

Outdated(u) == Stale(u) \/ \E c \in Call : AboutToCache(call[c], u)

Writing(u) == \E c \in Call : call[c].user = u /\ call[c].op \in Writers

\* Only a write, under way or disturbed, explains that.
Explained == \A u \in User : Outdated(u) => u \in suspect \/ Writing(u)

\* How far a write has come that nothing has disturbed.
Unwritten(k) == k.code /= "ok" \/ Left(k) >= (IF k.op = "update_user" THEN 3 ELSE 2)

WriteStage(k) ==
    Undisturbed(k) /\ k.op \in Writers =>
        /\ Unwritten(k) /\ Outdated(k.user) => k.user \in suspect
        /\ k.op = "update_user" /\ Left(k) = 2 => LiveUser(k.user)
        /\ Left(k) = 0 /\ k.code = "ok" => cachedUsers[k.user] = NotCached

WriteStages == \A c \in Call : WriteStage(call[c])


\* Nobody who has registered is forgotten, and only InsertUser registers.
LEMMA RegisteredStep ==
    ASSUME Typed, NEW c \in Call, Step(c), ~Respond(c)
    PROVE  \/ Registered' = Registered
           \/ /\ Inserts(call[c], call'[c]) /\ call[c].user \in User
              /\ Registered' = Registered \cup {call[c].user}
<1> DEFINE k == call[c]
           l == call'[c]
<1>1. UserEffect(k, l) /\ users \in [User -> UserDocument]
  BY UserEffects DEF Typed, TypeOK, StoreTypeOK
<1>2. ~Idle(c) /\ Knows(k)
  BY StepAbout DEF Typed
<1>3. k.op /= "login" => k.user \in User
  BY <1>2 DEF Knows
<1>4. \A u \in User : \A data : PutUser(u, data) => Registered' = Registered \cup {u}
  BY <1>1 DEF PutUser, Registered
<1>5. CASE UNCHANGED users
  BY <1>5 DEF Registered
<1>6. CASE Inserts(k, l)
  BY <1>3, <1>4, <1>6 DEF Inserts
<1>7. CASE Writes(k, l)
  <2>1. LiveUser(k.user) /\ k.user \in User /\ \E data : PutUser(k.user, data)
    BY <1>3, <1>7 DEF Writes
  <2>2. k.user \in Registered
    BY <2>1 DEF LiveUser, Registered
  <2>3. Registered' = Registered \cup {k.user}
    BY <1>1, <2>1 DEF PutUser, Registered
  <2> QED BY <2>2, <2>3
<1>8. CASE Removes(k, l)
  BY <1>1, <1>8 DEF Removes, RemoveUser, Registered, LiveUser, Deleted
<1> QED BY <1>1, <1>5, <1>6, <1>7, <1>8 DEF UserEffect, Looks, Hesitates, Caches, Uncaches

LEMMA UsersGoOn ==
    ASSUME Typed, [Next]_vars
    PROVE  Registered \subseteq Registered'
<1>1. ASSUME UNCHANGED users PROVE Registered' = Registered
  BY <1>1 DEF Registered
<1>2. ASSUME NEW c \in Call, RequestArrives(c) \/ Respond(c) PROVE UNCHANGED users
  BY <1>2, Arrives, ArrivedAlone, Answers DEF storeVars
<1>3. CASE Evict \/ Tick \/ UNCHANGED vars
  BY <1>1, <1>3 DEF Evict, Tick, vars, storeVars
<1> QED BY <1>1, <1>2, <1>3, RegisteredStep DEF Next

\* What happens to the keys of users.
LEMMA CachedUsersStep ==
    ASSUME Typed, [Next]_vars, NEW u \in User
    PROVE  \/ cachedUsers'[u] = NotCached
           \/ cachedUsers'[u].data = cachedUsers[u].data /\ cachedUsers[u] /= NotCached
           \/ \E c \in Call : /\ call[c].user = u /\ call[c].op = "get_user" /\ ~Idle(c)
                              /\ Step(c) /\ ~Respond(c) /\ Caches(call[c], call'[c])
<1>1. cachedUsers \in [User -> [data : Document, left : 0 .. UserCacheTTL] \cup {NotCached}]
  BY DEF Typed, TypeOK, StoreTypeOK
<1>2. ASSUME UNCHANGED cachedUsers
      PROVE  \/ cachedUsers'[u] = NotCached
             \/ cachedUsers'[u].data = cachedUsers[u].data /\ cachedUsers[u] /= NotCached
  BY <1>2
<1>3. ASSUME NEW v, UncacheUser(v)
      PROVE  \/ cachedUsers'[u] = NotCached
             \/ cachedUsers'[u].data = cachedUsers[u].data /\ cachedUsers[u] /= NotCached
  BY <1>1, <1>3 DEF UncacheUser
<1>4. ASSUME NEW c \in Call, RequestArrives(c) \/ Respond(c) PROVE UNCHANGED cachedUsers
  BY <1>4, Arrives, ArrivedAlone, Answers DEF storeVars
<1>5. ASSUME NEW c \in Call, Step(c), ~Respond(c)
      PROVE  \/ cachedUsers'[u] = NotCached
             \/ cachedUsers'[u].data = cachedUsers[u].data /\ cachedUsers[u] /= NotCached
             \/ \E d \in Call : /\ call[d].user = u /\ call[d].op = "get_user" /\ ~Idle(d)
                                /\ Step(d) /\ ~Respond(d) /\ Caches(call[d], call'[d])
  <2>1. UserEffect(call[c], call'[c]) /\ ~Idle(c)
    BY <1>5, UserEffects, StepAbout
  <2>2. CASE Caches(call[c], call'[c])
    <3>1. call[c].op = "get_user" /\ CacheUser(call[c].user, call[c].data)
      BY <2>2 DEF Caches
    <3>2. CASE call[c].user = u
      BY <1>5, <2>1, <2>2, <3>1, <3>2
    <3>3. CASE call[c].user /= u
      BY <1>1, <3>1, <3>3 DEF CacheUser
    <3> QED BY <3>2, <3>3
  <2>3. CASE Uncaches(call[c], call'[c])
    BY <1>3, <2>3 DEF Uncaches
  <2> QED BY <1>2, <2>1, <2>2, <2>3 DEF UserEffect, Looks, Hesitates, Inserts, Writes, Removes
<1>6. CASE Evict
  BY <1>2, <1>3, <1>6 DEF Evict
<1>7. CASE Tick
  <2>1. cachedUsers'[u] = CASE cachedUsers[u].left > 1 -> [cachedUsers[u] EXCEPT !.left = @ - 1]
                            [] cachedUsers[u].left = 1 -> NotCached
                            [] cachedUsers[u].left = 0 -> cachedUsers[u]
    BY <1>7 DEF Tick, PassTime
  <2>2. cachedUsers[u].left \in Nat
    BY <1>1, StoreAssumption DEF NotCached
  <2>3. CASE cachedUsers[u].left > 1
    <3>1. cachedUsers'[u] = [cachedUsers[u] EXCEPT !.left = @ - 1]
      BY <2>1, <2>2, <2>3
    <3>2. cachedUsers[u] /= NotCached
      BY <2>3 DEF NotCached
    <3> QED BY <1>1, <3>1, <3>2
  <2>4. CASE cachedUsers[u].left <= 1
    <3>1. cachedUsers'[u] \in {NotCached, cachedUsers[u]}
      BY <2>1, <2>2, <2>4
    <3> QED BY <3>1
  <2> QED BY <2>2, <2>3, <2>4
<1>8. CASE UNCHANGED vars
  BY <1>2, <1>8 DEF vars, storeVars
<1> QED BY <1>2, <1>4, <1>5, <1>6, <1>7, <1>8 DEF Next


\* A request that arrives knows a user that has registered, or is to be.
LEMMA ArrivedAccounted ==
    ASSUME Typed, Accounted, NEW c \in Call, NEW k, Arrived(c, k)
    PROVE  /\ k.op = "register" => /\ k.user \in User \ Registered /\ Left(k) = 4
                                   /\ \A d \in Call : call[d].user /= k.user
           /\ k.op /= "register" /\ k.user \in User => k.user \in Registered
<1>1. k.op \in Operations
  BY DEF Arrived, InFlight
<1>2. CASE k.op = "register"
  <2>1. k.user \in NewUsers /\ Left(k) = Len(Final["register"])
    BY <1>2 DEF Arrived
  <2>2. Len(Final["register"]) = 4
    BY DEF Final
  <2> QED BY <1>2, <2>1, <2>2 DEF NewUsers
<1>3. CASE k.op = "login"
  BY <1>3, StoreAssumption DEF Arrived
<1>4. CASE k.op \in {"refresh", "logout"}
  BY <1>4 DEF Arrived, Presentable, Accounted
<1>5. CASE k.op \in {"logout_all", "get_user", "update_user", "delete_user"}
  BY <1>5 DEF Arrived
<1> QED BY <1>1, <1>2, <1>3, <1>4, <1>5 DEF Operations

\* The user of a request, after a command.
LEMMA StepUser ==
    ASSUME Typed, NEW c \in Call, Step(c), ~Respond(c)
    PROVE  /\ call'[c].op = call[c].op
           /\ \/ call'[c].user = call[c].user
              \/ call[c].op = "login" /\ call'[c].user \in Registered \cup {NoUser}
<1>1. call'[c].op = call[c].op
  BY StepAbout
<1>2. CASE FindLogin(c)
  <2>1. call[c].op = "login"
    BY <1>2, FindLoginAdvances, Sent, Places
  <2>2. \/ call'[c].user = call[c].user
        \/ LiveUser(call'[c].user) /\ call'[c].user \in User
    BY <1>2, FindLoginAdvances
  <2> QED BY <1>1, <2>1, <2>2 DEF LiveUser, Registered
<1>3. CASE ~FindLogin(c)
  BY <1>3, StepAbout
<1> QED BY <1>2, <1>3


LEMMA AccountedInvariant ==
    Typed /\ Typed' /\ InOrder /\ Accounted /\ [Next]_vars => Accounted'
<1> SUFFICES ASSUME Typed, Typed', InOrder, Accounted, [Next]_vars PROVE Accounted'
  OBVIOUS
<1>1. Registered \subseteq Registered'
  BY UsersGoOn
<1>2. \A n \in Issued' : tokens'[n].user \in Registered'
  <2>1. \A n \in Issued : tokens'[n].user \in Registered'
    BY <1>1, TokensGoOn DEF Accounted
  <2>2. ASSUME NEW c \in Call, InsertTheToken(c)
        PROVE  tokens'[NewToken].user \in Registered'
    <3>1. /\ call[c].op \in Issuing /\ Left(call[c]) = 2 /\ Knows(call[c])
      BY <2>2, Sent, Places DEF InsertTheToken
    <3>2. call[c].user \in Registered
      BY <3>1 DEF Accounted, Knows, Issuing
    <3> QED BY <1>1, <2>2, <3>2, TokensGoOn
  <2> QED BY <2>1, <2>2, TokensGoOn
<1>3. \A u \in User \ Registered' : cachedUsers'[u] = NotCached
  <2> SUFFICES ASSUME NEW u \in User \ Registered' PROVE cachedUsers'[u] = NotCached
    OBVIOUS
  <2>1. u \notin Registered /\ cachedUsers[u] = NotCached
    BY <1>1 DEF Accounted
  <2>2. ASSUME NEW c \in Call, call[c].user = u, call[c].op = "get_user" PROVE FALSE
    BY <2>1, <2>2 DEF Accounted
  <2> QED BY <2>1, <2>2, CachedUsersStep
<1> DEFINE Fresh(c) == call'[c].user \notin Registered'
                       /\ \A d \in Call \ {c} : call'[d].user /= call'[c].user
           Fine(c) == /\ call'[c].user \in User /\ call'[c].op /= "register" =>
                           call'[c].user \in Registered'
                      /\ call'[c].op = "register" /\ Left(call'[c]) \in {1, 2} =>
                           call'[c].user \in Registered'
                      /\ call'[c].op = "register" /\ Left(call'[c]) >= 3 => Fresh(c)
<1>4. ASSUME NEW c \in Call, RequestArrives(c) PROVE \A d \in Call : Fine(d)
  <2>1. PICK k : Arrived(c, k)
    BY <1>4, Arrives
  <2>2. /\ call'[c].op = k.op /\ call'[c].todo = k.todo /\ call'[c].user = k.user
        /\ \A d \in Call \ {c} : /\ call'[d].op = call[d].op /\ call'[d].todo = call[d].todo
                                 /\ call'[d].user = call[d].user
    BY <2>1, ArrivedAlone
  <2>3. Registered' = Registered
    BY <2>1, ArrivedAlone DEF storeVars, Registered
  <2>4. /\ k.op = "register" => /\ k.user \in User \ Registered /\ Left(k) = 4
                                /\ \A d \in Call : call[d].user /= k.user
        /\ k.op /= "register" /\ k.user \in User => k.user \in Registered
    BY <2>1, ArrivedAccounted
  <2>5. Fine(c)
    BY <2>2, <2>3, <2>4 DEF Left
  <2>6. ASSUME NEW d \in Call \ {c} PROVE Fine(d)
    <3>1. /\ Left(call'[d]) = Left(call[d]) /\ call'[d].op = call[d].op
          /\ call'[d].user = call[d].user
      BY <2>2 DEF Left
    <3>2. call[d].op = "register" /\ Left(call[d]) >= 3 => k.user /= call[d].user
      <4>1. call[d].op = "register" => call[d].user \in User
        BY DEF Typed, Idle, Knows
      <4> QED BY <2>4, <4>1 DEF Accounted
    <3> QED BY <2>2, <2>3, <3>1, <3>2 DEF Accounted
  <2> HIDE DEF Fine
  <2> QED BY <2>5, <2>6
<1>5. ASSUME NEW c \in Call, Step(c), ~Respond(c) PROVE \A d \in Call : Fine(d)
  <2>1. /\ \A d \in Call \ {c} : call'[d] = call[d]
        /\ call'[c].op = call[c].op
        /\ \/ call'[c].user = call[c].user
           \/ call[c].op = "login" /\ call'[c].user \in Registered \cup {NoUser}
    BY <1>5, StepAlone, StepUser
  <2>2. \/ Registered' = Registered
        \/ /\ Inserts(call[c], call'[c]) /\ call[c].user \in User
           /\ Registered' = Registered \cup {call[c].user}
    BY <1>5, RegisteredStep
  <2>3. Left(call[c]) \in Nat \ {0} /\ Left(call'[c]) \in {0, Left(call[c]) - 1}
    BY <1>5, StepLeft
  <2>4. Fine(c)
    <3>1. CASE call[c].op /= "register"
      BY <1>1, <2>1, <3>1, StoreAssumption DEF Accounted
    <3>2. CASE call[c].op = "register"
      <4>1. call'[c].user = call[c].user
        BY <2>1, <3>2
      <4>2. Left(call'[c]) \in {1, 2} => call[c].user \in Registered'
        <5>1. UserEffect(call[c], call'[c])
          BY <1>5, UserEffects
        <5>2. Left(call'[c]) \in {1, 2} => Left(call[c]) = 2 \/ Inserts(call[c], call'[c])
          BY <3>2, <5>1 DEF UserEffect, Looks, Hesitates, Writes, Removes, Caches, Uncaches,
                            Writers
        <5>3. Left(call[c]) = 2 => call[c].user \in Registered
          BY <3>2 DEF Accounted
        <5>4. Inserts(call[c], call'[c]) => call[c].user \in Registered'
          <6> SUFFICES ASSUME Inserts(call[c], call'[c]) PROVE call[c].user \in Registered'
            OBVIOUS
          <6>1. call[c].user \in User
            BY <3>2 DEF Typed, Idle, Knows
          <6> QED BY <6>1 DEF Inserts, PutUser, Registered, Typed, TypeOK, StoreTypeOK
        <5> QED BY <1>1, <5>2, <5>3, <5>4
      <4>3. Left(call'[c]) >= 3 => Fresh(c)
        <5>1. Left(call'[c]) >= 3 => Left(call[c]) >= 3 /\ ~Inserts(call[c], call'[c])
          BY <2>3 DEF Inserts
        <5> QED BY <2>1, <2>2, <3>2, <4>1, <5>1 DEF Accounted
      <4> QED BY <2>1, <3>2, <4>1, <4>2, <4>3
    <3> QED BY <3>1, <3>2
  <2>5. ASSUME NEW d \in Call \ {c} PROVE Fine(d)
    <3>1. CASE call[d].op = "register" /\ Left(call[d]) >= 3
      <4>1. /\ call[d].user \notin Registered /\ call[d].user \in User
            /\ \A e \in Call \ {d} : call[e].user /= call[d].user
        BY <3>1 DEF Accounted, Typed, Idle, Knows
      <4>2. call'[c].user /= call[d].user
        BY <2>1, <4>1, StoreAssumption
      <4>3. call[d].user \notin Registered'
        BY <2>2, <4>1
      <4> QED BY <2>1, <3>1, <4>1, <4>2, <4>3
    <3>2. CASE ~(call[d].op = "register" /\ Left(call[d]) >= 3)
      BY <1>1, <2>1, <3>2 DEF Accounted
    <3> QED BY <3>1, <3>2
  <2> HIDE DEF Fine
  <2> QED BY <2>4, <2>5
<1>6. ASSUME NEW c \in Call, Respond(c) PROVE \A d \in Call : Fine(d)
  <2>1. call'[c] = NoCall /\ \A d \in Call \ {c} : call'[d] = call[d]
    BY <1>6, Answers
  <2>2. Registered' = Registered
    BY <1>6, Answers DEF storeVars, Registered
  <2>3. NoCall.op = "none" /\ NoCall.user = NoUser
    BY DEF NoCall
  <2>4. Fine(c)
    BY <2>1, <2>3, StoreAssumption
  <2>5. ASSUME NEW d \in Call \ {c} PROVE Fine(d)
    <3>1. call[d].op = "register" => call[d].user \in User
      BY DEF Typed, Idle, Knows
    <3> QED BY <2>1, <2>2, <2>3, <3>1, StoreAssumption DEF Accounted
  <2> HIDE DEF Fine
  <2> QED BY <2>4, <2>5
<1>7. CASE Evict \/ Tick \/ UNCHANGED vars
  <2>1. UNCHANGED <<users, call>>
    BY <1>7 DEF Evict, Tick, vars, storeVars
  <2>2. Registered' = Registered
    BY <2>1 DEF Registered
  <2> QED BY <1>2, <1>3, <2>1, <2>2 DEF Accounted
<1>8. (\A d \in Call : Fine(d)) => Accounted'
  BY <1>2, <1>3 DEF Accounted
<1> HIDE DEF Fine
<1> QED BY <1>4, <1>5, <1>6, <1>7, <1>8 DEF Next


\* Between commands, and when keys expire, nothing becomes outdated.
LEMMA OutdatedBetween ==
    ASSUME Typed, [Next]_vars, NEW u \in User, Outdated(u)',
           \/ \E c \in Call : RequestArrives(c) \/ Respond(c)
           \/ Evict \/ Tick \/ UNCHANGED vars
    PROVE  Outdated(u) /\ users' = users
<1>1. ASSUME NEW c \in Call, RequestArrives(c) PROVE Outdated(u) /\ users' = users
  <2>1. PICK k : Arrived(c, k)
    BY <1>1, Arrives
  <2>2. UNCHANGED storeVars
    BY <2>1, ArrivedAlone
  <2>3. \A d \in Call \ {c} : AboutToCache(call[d], u)' => AboutToCache(call[d], u)
    BY <2>1, <2>2, ArrivedAlone DEF AboutToCache, storeVars, Left
  <2>4. ~AboutToCache(call[c], u)'
    <3>1. call'[c].op = k.op /\ Left(call'[c]) = Left(k)
      BY <2>1, ArrivedAlone DEF Left
    <3>2. Len(Final["get_user"]) = 3
      BY DEF Final
    <3>3. k.op = "get_user" => Left(k) = 3
      BY <2>1, <3>2 DEF Arrived
    <3>4. call'[c].op = "get_user" => Left(call'[c]) = 3
      BY <3>1, <3>3
    <3>5. Left(call[c])' = Left(call'[c])
      BY DEF Left
    <3> QED BY <3>4, <3>5 DEF AboutToCache
  <2> QED BY <2>2, <2>3, <2>4 DEF Outdated, Stale, storeVars
<1>2. ASSUME NEW c \in Call, Respond(c) PROVE Outdated(u) /\ users' = users
  <2>1. UNCHANGED storeVars /\ call'[c] = NoCall /\ \A d \in Call \ {c} : call'[d] = call[d]
    BY <1>2, Answers
  <2>2. ~AboutToCache(NoCall, u)'
    BY DEF AboutToCache, NoCall
  <2> QED BY <2>1, <2>2 DEF Outdated, Stale, storeVars, AboutToCache
<1>3. CASE Evict \/ Tick \/ UNCHANGED vars
  <2>1. UNCHANGED <<users, call>>
    BY <1>3 DEF Evict, Tick, vars, storeVars
  <2>2. \A c \in Call : ~Caches(call[c], call'[c])
    BY <2>1 DEF Caches
  <2>3. Stale(u)' => Stale(u)
    BY <2>1, <2>2, CachedUsersStep DEF Stale
  <2> QED BY <2>1, <2>3 DEF Outdated, AboutToCache
<1> QED BY <1>1, <1>2, <1>3

\* A command changes the user of its request only.
LEMMA OtherUsers ==
    ASSUME Typed, NEW c \in Call, Step(c), ~Respond(c), NEW u \in User, u /= call[c].user
    PROVE  users'[u] = users[u] /\ cachedUsers'[u] = cachedUsers[u]
BY UserEffects DEF UserEffect, Looks, Hesitates, Inserts, Writes, Removes, Caches, Uncaches,
       PutUser, RemoveUser, CacheUser, UncacheUser, Typed, TypeOK, StoreTypeOK

\* Only a write makes what is cached, or about to be, outdated.
LEMMA OutdatedStep ==
    ASSUME Typed, Accounted, NEW c \in Call, Step(c), ~Respond(c), NEW u \in User, Outdated(u)'
    PROVE  \/ Outdated(u)
           \/ /\ call[c].user = u
              /\ Writes(call[c], call'[c]) \/ Removes(call[c], call'[c])
<1> DEFINE k == call[c]
           l == call'[c]
<1>1. /\ \A d \in Call \ {c} : call'[d] = call[d]
      /\ l.op = k.op /\ (l.user = k.user \/ k.op = "login")
      /\ UserEffect(k, l) /\ ~Idle(c) /\ [Next]_vars
  BY StepAlone, StepUser, StepAbout, UserEffects DEF Next
<1>2. CASE users'[u] /= users[u]
  <2>1. k.user = u
    BY <1>2, OtherUsers
  <2>2. CASE Writes(k, l) \/ Removes(k, l)
    BY <2>1, <2>2
  <2>3. CASE Inserts(k, l)
    <3>1. /\ u \in User \ Registered /\ \A d \in Call \ {c} : call[d].user /= u
          /\ cachedUsers' = cachedUsers /\ k.op = "register"
      BY <2>1, <2>3 DEF Inserts, Accounted
    <3>2. cachedUsers'[u] = NotCached
      BY <3>1 DEF Accounted
    <3>3. \A d \in Call : ~AboutToCache(call[d], u)'
      BY <1>1, <3>1 DEF AboutToCache
    <3> QED BY <3>2, <3>3 DEF Outdated, Stale
  <2>4. CASE UNCHANGED users
    BY <1>2, <2>4
  <2> QED BY <1>1, <2>2, <2>3, <2>4 DEF UserEffect, Looks, Hesitates, Caches, Uncaches
<1>3. CASE users'[u] = users[u]
  <2>1. ASSUME Stale(u)' PROVE Outdated(u)
    <3>1. CASE cachedUsers'[u].data = cachedUsers[u].data /\ cachedUsers[u] /= NotCached
      BY <1>3, <2>1, <3>1 DEF Outdated, Stale
    <3>2. CASE \E d \in Call : call[d].user = u /\ Caches(call[d], call'[d])
      <4>1. PICK d \in Call : call[d].user = u /\ Caches(call[d], call'[d])
        BY <3>2
      <4>2. cachedUsers'[u].data = call[d].data
        BY <4>1 DEF Caches, CacheUser, Typed, TypeOK, StoreTypeOK
      <4> QED BY <1>3, <2>1, <4>1, <4>2 DEF Caches, Outdated, Stale, AboutToCache
    <3> QED BY <1>1, <2>1, <3>1, <3>2, CachedUsersStep DEF Stale
  <2>2. ASSUME NEW d \in Call, AboutToCache(call[d], u)' PROVE Outdated(u)
    <3>1. CASE d /= c
      BY <1>1, <1>3, <2>2, <3>1 DEF Outdated, AboutToCache, Left
    <3>2. CASE d = c
      <4>1. k.op = "get_user" /\ Left(l) = 1 /\ l.user = u /\ l.data /= users'[u].data
        BY <1>1, <2>2, <3>2 DEF AboutToCache, Left
      <4>2. l.data = users[u].data
        BY <1>1, <4>1 DEF UserEffect, Looks, Hesitates, Inserts, Writes, Removes, Caches,
                          Uncaches, Writers
      <4> QED BY <1>3, <4>1, <4>2
    <3> QED BY <3>1, <3>2
  <2> QED BY <2>1, <2>2 DEF Outdated
<1> QED BY <1>2, <1>3

\* The users that an answer tells us of.
LEMMA SubjectUsers ==
    ASSUME Typed, NEW c \in Call, NEW u \in User
    PROVE  u \in Subject(call[c]) <=> call[c].op \in Writers /\ call[c].user = u
<1>1. u \notin Token
  BY StoreAssumption DEF Token
<1>2. CASE call[c].op = "logout"
  <2>1. call[c].token \in Token
    BY <1>2 DEF Typed, Idle, Knows
  <2> QED BY <1>1, <1>2, <2>1 DEF Subject, Writers
<1>3. CASE call[c].op = "logout_all"
  BY <1>1, <1>3 DEF Subject, Writers
<1>4. CASE call[c].op \in Writers
  BY <1>4 DEF Subject, Writers
<1>5. CASE call[c].op \notin {"logout", "logout_all"} \cup Writers
  BY <1>5 DEF Subject, Writers
<1> QED BY <1>2, <1>3, <1>4, <1>5


LEMMA ExplainedInvariant ==
    Typed /\ Accounted /\ Aware /\ WriteStages /\ Explained /\ [Next]_vars => Explained'
<1> SUFFICES ASSUME Typed, Accounted, Aware, WriteStages, Explained, [Next]_vars,
                    NEW u \in User, Outdated(u)'
             PROVE  u \in suspect' \/ Writing(u)'
  BY DEF Explained
<1>1. Outdated(u) => u \in suspect \/ Writing(u)
  BY DEF Explained
<1>2. ASSUME NEW d \in Call, call[d].user = u, call[d].op \in Writers,
             call'[d].user = call[d].user, call'[d].op = call[d].op
      PROVE  Writing(u)'
  BY <1>2 DEF Writing
<1>3. ASSUME NEW c \in Call, RequestArrives(c) PROVE u \in suspect' \/ Writing(u)'
  <2>1. PICK k : Arrived(c, k)
    BY <1>3, Arrives
  <2>2. /\ suspect' = suspect /\ Idle(c)
        /\ \A d \in Call \ {c} : call'[d].op = call[d].op /\ call'[d].user = call[d].user
    BY <2>1, ArrivedAlone DEF Arrived
  <2>3. Outdated(u)
    BY <1>3, OutdatedBetween
  <2> QED BY <1>1, <1>2, <2>2, <2>3 DEF Writing, Idle, Writers
<1>4. ASSUME NEW c \in Call, Step(c), ~Respond(c) PROVE u \in suspect' \/ Writing(u)'
  <2>1. suspect' = suspect /\ \A d \in Call \ {c} : call'[d] = call[d]
    BY <1>4, StepAlone
  <2>2. call[c].op \in Writers => call'[c].op = call[c].op /\ call'[c].user = call[c].user
    BY <1>4, StepUser DEF Writers
  <2>3. CASE Outdated(u)
    BY <1>1, <1>2, <2>1, <2>2, <2>3 DEF Writing
  <2>4. CASE call[c].user = u /\ call[c].op \in Writers
    BY <1>2, <2>2, <2>4
  <2> QED BY <1>4, <2>3, <2>4, OutdatedStep DEF Writes, Removes, Writers
<1>5. ASSUME NEW c \in Call, Respond(c) PROVE u \in suspect' \/ Writing(u)'
  <2>1. \A d \in Call \ {c} : call'[d] = call[d]
    BY <1>5, Answers
  <2>2. Outdated(u)
    BY <1>5, OutdatedBetween
  <2>3. ~Idle(c) /\ Left(call[c]) = 0
    BY <1>5, Answers
  <2>4. CASE call[c].op \in Writers /\ call[c].user = u
    <3>1. u \in Subject(call[c])
      BY <2>4, SubjectUsers
    <3>2. CASE ~Undisturbed(call[c])
      BY <1>5, <3>1, <3>2, Answers
    <3>3. CASE Undisturbed(call[c]) /\ call[c].code = "ok"
      <4>1. cachedUsers[u] = NotCached
        BY <2>3, <2>4, <3>3 DEF WriteStages, WriteStage
      <4>2. PICK d \in Call : AboutToCache(call[d], u)
        BY <2>2, <4>1 DEF Outdated, Stale
      <4>3. d /= c /\ ~Idle(d) /\ call[d].user = u
        BY <2>4, <4>2 DEF AboutToCache, Idle, Writers
      <4> QED BY <2>3, <2>4, <3>3, <4>3, NoneBeside
    <3>4. CASE Undisturbed(call[c]) /\ call[c].code /= "ok"
      <4>1. u \in suspect
        BY <2>2, <2>4, <3>4 DEF WriteStages, WriteStage, Unwritten
      <4> QED BY <1>5, <3>4, <4>1, Answers
    <3> QED BY <3>2, <3>3, <3>4
  <2>5. CASE ~(call[c].op \in Writers /\ call[c].user = u)
    <3>1. u \notin Subject(call[c])
      BY <2>5, SubjectUsers
    <3>2. u \in suspect => u \in suspect'
      BY <1>5, <3>1, Answers
    <3>3. Writing(u) => Writing(u)'
      BY <1>2, <2>1, <2>5 DEF Writing
    <3> QED BY <1>1, <2>2, <3>2, <3>3
  <2> QED BY <2>4, <2>5
<1>6. CASE Evict \/ Tick \/ UNCHANGED vars
  <2>1. UNCHANGED <<call, suspect>>
    BY <1>6 DEF Evict, Tick, vars
  <2>2. Outdated(u)
    BY <1>6, OutdatedBetween
  <2> QED BY <1>1, <2>1, <2>2 DEF Writing
<1> QED BY <1>3, <1>4, <1>5, <1>6 DEF Next

\* A write that a step leaves alone stays where it was.
LEMMA WriteStays ==
    ASSUME Typed, NEW d \in Call, WriteStage(call[d]),
           call'[d].op = call[d].op, call'[d].todo = call[d].todo,
           call'[d].user = call[d].user, call'[d].code = call[d].code,
           call'[d].refused = call[d].refused, call[d].met \subseteq call'[d].met,
           NEW u, u = call[d].user, u \in User,
           users'[u] = users[u],
           cachedUsers[u] = NotCached => cachedUsers'[u] = NotCached,
           Outdated(u)' => Outdated(u), u \in suspect => u \in suspect'
    PROVE  WriteStage(call[d])'
<1>1. /\ Undisturbed(call[d])' => Undisturbed(call[d])
      /\ Left(call[d])' = Left(call[d]) /\ (Unwritten(call[d])' <=> Unwritten(call[d]))
  BY DEF Undisturbed, Left, Unwritten
<1> QED BY <1>1 DEF WriteStage, LiveUser

\* A refusal is remembered.
LEMMA StepRefused ==
    ASSUME Typed, NEW c \in Call, Step(c), ~Respond(c)
    PROVE  \/ call'[c].refused = call[c].refused
           \/ /\ Refuse(c) /\ call[c].refused = "none"
              /\ call'[c].refused \in {"store", "cache"}
<1>1. Plain(c) => call'[c].refused = call[c].refused
  BY PlainKeeps DEF Keeps, Advanced
<1>2. FindLogin(c) \/ FindToken(c) \/ CacheTheToken(c) => call'[c].refused = call[c].refused
  BY FindLoginAdvances, FindTokenAdvances, CacheTheTokenAdvances DEF Advanced
<1>3. InsertTheToken(c) \/ ListTokens(c) \/ UncacheListed(c) =>
        call'[c].refused = call[c].refused
  BY InsertTheTokenAdvances, ListingAdvances DEF Advanced
<1>4. Refuse(c) => call[c].refused = "none" /\ call'[c].refused \in {"store", "cache"}
  BY RefuseAdvances
<1> QED BY <1>1, <1>2, <1>3, <1>4 DEF Step, Plain

\* A command of a write takes it on.
LEMMA WriteAdvances ==
    ASSUME Typed, Knowing, Accounted, WriteStages, NEW c \in Call, Step(c), ~Respond(c),
           call[c].op \in Writers, NEW u, u = call[c].user
    PROVE  WriteStage(call[c])'
<1> DEFINE k == call[c]
           l == call'[c]
<1>1. /\ l.op = k.op /\ l.user = k.user /\ l.met = k.met /\ suspect' = suspect
      /\ k.todo /= <<>> /\ k.op \in Writers
  BY StepAbout, StepUser, StepAlone DEF Writers
<1>2. u \in User
  BY <1>1 DEF Typed, Idle, Knows, Writers
<1>3. k.code = "ok" /\ UserEffect(k, l)
  BY <1>1, UserEffects DEF Knowing
<1>4. Left(k) \in Nat \ {0} /\ Left(l) \in {0, Left(k) - 1}
  BY StepLeft
<1> SUFFICES ASSUME Undisturbed(l)
             PROVE  /\ Unwritten(l) /\ Outdated(u)' => u \in suspect
                    /\ k.op = "update_user" /\ Left(l) = 2 => LiveUser(u)'
                    /\ Left(l) = 0 /\ l.code = "ok" => cachedUsers'[u] = NotCached
  BY <1>1 DEF WriteStage, Undisturbed, Unwritten, Left
<1>5. Undisturbed(k) /\ l.refused = "none"
  BY <1>1, StepRefused DEF Undisturbed
<1>6. /\ Unwritten(k) /\ Outdated(u) => u \in suspect
      /\ k.op = "update_user" /\ Left(k) = 2 => LiveUser(u)
  BY <1>1, <1>5 DEF WriteStages, WriteStage
<1>7. CASE Hesitates(k, l)
  <2>1. ~Writes(k, l) /\ ~Removes(k, l)
    BY <1>3, <1>5, <1>7 DEF Hesitates, Writes, Removes
  <2>2. Outdated(u)' => Outdated(u)
    BY <1>2, <2>1, OutdatedStep
  <2>3. CASE l.code /= "ok"
    <3>1. Unwritten(k)
      BY <1>5, <1>6, <1>7, <2>3 DEF Hesitates, Unwritten, Writers
    <3>2. Left(l) = 0
      BY <1>3, <1>5, <1>7, <2>3 DEF Hesitates
    <3> QED BY <1>6, <2>2, <2>3, <3>1, <3>2
  <2>4. CASE k.op = "update_user" /\ l.code = k.code /\ Left(k) = 4 /\ Left(l) = 3
    BY <1>6, <2>2, <2>4 DEF Unwritten
  <2>5. CASE k.op = "update_user" /\ l.code = k.code /\ Left(k) = 2 /\ Left(l) = 1
    BY <1>1, <1>3, <2>5 DEF Unwritten
  <2> QED BY <1>5, <1>7, <2>3, <2>4, <2>5 DEF Hesitates
<1>8. CASE Writes(k, l)
  <2>1. LiveUser(u)'
    BY <1>2, <1>8 DEF Writes, PutUser, LiveUser, Typed, TypeOK, StoreTypeOK
  <2> QED BY <1>1, <1>3, <1>8, <2>1 DEF Writes, Unwritten
<1>9. CASE Removes(k, l)
  BY <1>1, <1>3, <1>9 DEF Removes, Unwritten
<1>10. CASE Uncaches(k, l)
  <2>1. cachedUsers'[u] = NotCached
    BY <1>2, <1>10 DEF Uncaches, UncacheUser, Typed, TypeOK, StoreTypeOK
  <2> QED BY <1>1, <1>3, <1>10, <2>1 DEF Uncaches, Unwritten
<1> QED BY <1>1, <1>3, <1>7, <1>8, <1>9, <1>10
        DEF UserEffect, Looks, Inserts, Caches, Writers


LEMMA WriteArrives ==
    ASSUME Typed, Explained, [Next]_vars, NEW c \in Call, RequestArrives(c), NEW k, Arrived(c, k)
    PROVE  WriteStage(call[c])'
<1>1. /\ call'[c].op = k.op /\ call'[c].todo = k.todo /\ call'[c].user = k.user
      /\ call'[c].code = "ok"
      /\ call'[c].met = {Meeting(k, call[b]) : b \in {d \in Call : ~Idle(d)}}
      /\ suspect' = suspect
  BY ArrivedAlone DEF Arrived
<1> SUFFICES ASSUME Undisturbed(call'[c]), k.op \in Writers
             PROVE  /\ Outdated(k.user)' => k.user \in suspect
                    /\ Left(k) /= 0 /\ (k.op = "update_user" => Left(k) /= 2)
  BY <1>1 DEF WriteStage, Undisturbed, Left
<1>2. Len(Final["update_user"]) = 4 /\ Len(Final["delete_user"]) = 2
  BY DEF Final
<1>3. Left(k) \in {2, 3, 4} /\ (k.op = "update_user" => Left(k) /= 2)
  <2>1. CASE k.op = "update_user"
    <3>1. Left(k) = Len(Final["update_user"]) \/ Left(k) = 3
      BY <2>1 DEF Arrived
    <3> QED BY <1>2, <3>1
  <2>2. CASE k.op = "delete_user"
    BY <1>2, <2>2 DEF Arrived
  <2> QED BY <2>1, <2>2 DEF Writers
<1>4. k.user \in User
  BY DEF Arrived, Writers, Registered
<1>5. Outdated(k.user)' => Outdated(k.user)
  BY <1>4, OutdatedBetween
<1>6. ~Writing(k.user)
  <2> SUFFICES ASSUME NEW d \in Call, call[d].user = k.user, call[d].op \in Writers PROVE FALSE
    BY DEF Writing
  <2>1. ~Idle(d) /\ Meeting(k, call[d]) = "same"
    BY Meetings DEF Idle, Writers
  <2> QED BY <1>1, <2>1 DEF Undisturbed
<1> QED BY <1>3, <1>4, <1>5, <1>6 DEF Explained

LEMMA WriteStagesInvariant ==
    Typed /\ Knowing /\ Accounted /\ Aware /\ WriteStages /\ Explained /\ [Next]_vars
      => WriteStages'
<1> SUFFICES ASSUME Typed, Knowing, Accounted, Aware, WriteStages, Explained, [Next]_vars,
                    NEW d \in Call
             PROVE  WriteStage(call[d])'
  BY DEF WriteStages
<1>1. WriteStage(call[d])
  BY DEF WriteStages
<1>2. PICK u : u = call[d].user
  OBVIOUS
<1>3. call[d].op \in Writers => u \in User /\ ~Idle(d)
  BY <1>2 DEF Typed, Idle, Knows, Writers
<1>4. ASSUME NEW c \in Call, RequestArrives(c) PROVE WriteStage(call[d])'
  <2>1. PICK k : Arrived(c, k)
    BY <1>4, Arrives
  <2>2. CASE d = c
    BY <1>4, <2>1, <2>2, WriteArrives
  <2>3. CASE d /= c
    <3>1. /\ call'[d].op = call[d].op /\ call'[d].todo = call[d].todo
          /\ call'[d].user = call[d].user /\ call'[d].code = call[d].code
          /\ call'[d].refused = call[d].refused
          /\ ~Idle(d) => call[d].met \subseteq call'[d].met
          /\ UNCHANGED <<storeVars, suspect>>
      BY <2>1, <2>3, ArrivedAlone
    <3>2. CASE call[d].op \in Writers
      <4>1. Outdated(u)' => Outdated(u)
        BY <1>3, <1>4, <3>2, OutdatedBetween
      <4>2. users'[u] = users[u] /\ cachedUsers'[u] = cachedUsers[u]
        BY <3>1 DEF storeVars
      <4> QED BY <1>1, <1>2, <1>3, <3>1, <3>2, <4>1, <4>2, WriteStays
    <3>3. CASE call[d].op \notin Writers
      BY <3>1, <3>3 DEF WriteStage
    <3> QED BY <3>2, <3>3
  <2> QED BY <2>2, <2>3
<1>5. ASSUME NEW c \in Call, Step(c), ~Respond(c) PROVE WriteStage(call[d])'
  <2>1. CASE d = c
    <3>1. CASE call[d].op \in Writers
      BY <1>2, <1>5, <2>1, <3>1, WriteAdvances
    <3>2. CASE call[d].op \notin Writers
      <4>1. call'[d].op = call[d].op
        BY <1>5, <2>1, StepUser
      <4> QED BY <3>2, <4>1 DEF WriteStage
    <3> QED BY <3>1, <3>2
  <2>2. CASE d /= c
    <3>1. call'[d] = call[d] /\ suspect' = suspect
      BY <1>5, <2>2, StepAlone
    <3>2. CASE call[d].op \notin Writers \/ ~Undisturbed(call[d])
      BY <3>1, <3>2 DEF WriteStage, Undisturbed
    <3>3. CASE call[d].op \in Writers /\ Undisturbed(call[d])
      <4>1. call[c].user /= u
        BY <1>2, <1>3, <1>5, <2>2, <3>3, StepAbout, NoneBeside
      <4>2. users'[u] = users[u] /\ cachedUsers'[u] = cachedUsers[u]
        BY <1>3, <1>5, <3>3, <4>1, OtherUsers
      <4>3. Outdated(u)' => Outdated(u)
        BY <1>3, <1>5, <3>3, <4>1, OutdatedStep
      <4> QED BY <1>1, <1>2, <1>3, <3>1, <3>3, <4>2, <4>3, WriteStays
    <3> QED BY <3>2, <3>3
  <2> QED BY <2>1, <2>2
<1>6. ASSUME NEW c \in Call, Respond(c) PROVE WriteStage(call[d])'
  <2>1. CASE d = c
    <3>1. call'[d] = NoCall
      BY <1>6, <2>1, Answers
    <3>2. NoCall.op \notin Writers
      BY DEF NoCall, Writers
    <3> QED BY <3>1, <3>2 DEF WriteStage
  <2>2. CASE d /= c
    <3>1. call'[d] = call[d] /\ UNCHANGED storeVars /\ ~Idle(c)
      BY <1>6, <2>2, Answers
    <3>2. CASE call[d].op \notin Writers \/ ~Undisturbed(call[d])
      BY <3>1, <3>2 DEF WriteStage, Undisturbed
    <3>3. CASE call[d].op \in Writers /\ Undisturbed(call[d])
      <4>1. call[c].user /= u
        BY <1>2, <1>3, <2>2, <3>1, <3>3, NoneBeside
      <4>2. u \in suspect => u \in suspect'
        BY <1>3, <1>6, <3>3, <4>1, Answers, SubjectUsers
      <4>3. Outdated(u)' => Outdated(u)
        BY <1>3, <1>6, <3>3, OutdatedBetween
      <4>4. users'[u] = users[u] /\ cachedUsers'[u] = cachedUsers[u]
        BY <3>1 DEF storeVars
      <4> QED BY <1>1, <1>2, <1>3, <3>1, <3>3, <4>2, <4>3, <4>4, WriteStays
    <3> QED BY <3>2, <3>3
  <2> QED BY <2>1, <2>2
<1>7. CASE Evict \/ Tick \/ UNCHANGED vars
  <2>1. UNCHANGED <<users, call, suspect>>
    BY <1>7 DEF Evict, Tick, vars, storeVars
  <2>2. CASE call[d].op \notin Writers
    BY <2>1, <2>2 DEF WriteStage
  <2>3. CASE call[d].op \in Writers
    <3>1. \A c \in Call : ~Caches(call[c], call'[c])
      BY <2>1 DEF Caches
    <3>2. cachedUsers[u] = NotCached => cachedUsers'[u] = NotCached
      BY <1>3, <2>3, <3>1, CachedUsersStep
    <3>3. Outdated(u)' => Outdated(u)
      BY <1>3, <1>7, <2>3, OutdatedBetween
    <3> QED BY <1>1, <1>2, <1>3, <2>1, <2>3, <3>2, <3>3, WriteStays
  <2> QED BY <2>2, <2>3
<1> QED BY <1>4, <1>5, <1>6, <1>7 DEF Next

LEMMA FirstAware == Init /\ Typed => Aware
BY DEF Init, Aware, Idle, NoCall

\* A reader that found a user before an update puts it in the cache after the
\* update has forgotten it; but what is cached is what is stored once a write is
\* answered that met no other request about its user and was refused no command.
THEOREM FreshnessHolds == Spec => []UsersFresh
<1>1. Init /\ Typed => Accounted /\ WriteStages /\ Explained
  <2> SUFFICES ASSUME Init, Typed PROVE Accounted /\ WriteStages /\ Explained
    OBVIOUS
  <2>1. /\ \A c \in Call : call[c] = NoCall
        /\ \A u \in User : cachedUsers[u] = NotCached
        /\ \A n \in Token : tokens[n] = NotIssued
    BY DEF Init, StoreInit
  <2>2. NoCall.op = "none" /\ NoCall.user = NoUser /\ NoUser \notin User
    BY StoreAssumption DEF NoCall
  <2> QED BY <2>1, <2>2
          DEF Accounted, Issued, WriteStages, WriteStage, Writers, Explained, Outdated, Stale,
              AboutToCache
<1>2. Explained => UsersFresh
  BY DEF Explained, UsersFresh, Outdated, Writing, Writers
<1>3. Init /\ Typed => Aware /\ Knowing
  BY FirstAware, FirstKnowing
<1>4. Knowing => InOrder
  BY DEF Knowing
<1> QED BY <1>1, <1>2, <1>3, <1>4, AccountedInvariant, ExplainedInvariant, WriteStagesInvariant,
           AwareInvariant, KnowingInvariant, TypeInvariance, PTL DEF Spec

-------------------------------------------------------------------------------
(* ConflictsReported.                                                      *)

\* The unique index on email.
OneEach ==
    \A u, v \in User :
        LiveUser(u) /\ LiveUser(v) /\ users[u].data.email = users[v].data.email => u = v

\* Requests that are in flight together have met.
Alone == \A c, d \in Call : c /= d /\ ~Idle(c) /\ ~Idle(d) => call[c].met /= {}

\* An email that was found free is free as long as a request has met no other.
Checked(k) ==
    k.met = {} /\ k.refused /= "store" =>
        /\ k.code /= "duplicate"
        /\ k.op \in {"register", "update_user"} /\ Left(k) = 3 /\ k.data.email /= NoEmail =>
             ~EmailIndexed(k.user, k.data.email)

Forewarned == \A c \in Call : Checked(call[c])

LEMMA OneEachInvariant == Typed /\ OneEach /\ [Next]_vars => OneEach'
<1> SUFFICES ASSUME Typed, OneEach, [Next]_vars PROVE OneEach'
  OBVIOUS
<1>1. users \in [User -> UserDocument]
  BY DEF Typed, TypeOK, StoreTypeOK
<1>2. CASE UNCHANGED users
  BY <1>2 DEF OneEach, LiveUser
<1>3. ASSUME NEW u \in User, NEW data, ~EmailIndexed(u, data.email), PutUser(u, data)
      PROVE  OneEach'
  <2>1. \A v \in User : users'[v] = IF v = u THEN [state |-> "live", data |-> data] ELSE users[v]
    BY <1>1, <1>3 DEF PutUser
  <2>2. \A v \in User : LiveUser(v) /\ users[v].data.email = data.email => v = u
    BY <1>3 DEF EmailIndexed, FindByEmail
  <2>3. ASSUME NEW v \in User, NEW w \in User, users'[v].state = "live", users'[w].state = "live",
               users'[v].data.email = users'[w].data.email
        PROVE  v = w
    <3>1. CASE v = u \/ w = u
      BY <2>1, <2>2, <2>3, <3>1 DEF LiveUser
    <3>2. CASE v /= u /\ w /= u
      BY <2>1, <2>3, <3>2 DEF OneEach, LiveUser
    <3> QED BY <3>1, <3>2
  <2> QED BY <2>3 DEF OneEach, LiveUser
<1>4. ASSUME NEW u, RemoveUser(u) PROVE OneEach'
  <2>1. \A v \in User : users'[v] \in {users[v], Deleted}
    BY <1>1, <1>4 DEF RemoveUser
  <2>2. Deleted.state /= "live"
    BY DEF Deleted
  <2> QED BY <2>1, <2>2 DEF OneEach, LiveUser
<1>5. ASSUME NEW c \in Call, Step(c), ~Respond(c) PROVE OneEach'
  <2>1. UserEffect(call[c], call'[c]) /\ ~Idle(c) /\ Knows(call[c])
    BY <1>5, UserEffects, StepAbout DEF Typed
  <2>2. call[c].op \in {"register", "update_user"} => call[c].user \in User
    BY <2>1 DEF Knows
  <2>3. CASE Inserts(call[c], call'[c])
    BY <1>3, <2>2, <2>3 DEF Inserts
  <2>4. CASE Writes(call[c], call'[c])
    BY <1>3, <2>2, <2>4 DEF Writes
  <2>5. CASE Removes(call[c], call'[c])
    BY <1>4, <2>5 DEF Removes
  <2> QED BY <1>2, <2>1, <2>3, <2>4, <2>5 DEF UserEffect, Looks, Hesitates, Caches, Uncaches
<1>6. ASSUME NEW c \in Call, RequestArrives(c) \/ Respond(c) PROVE UNCHANGED users
  BY <1>6, Arrives, ArrivedAlone, Answers DEF storeVars
<1>7. CASE Evict \/ Tick \/ UNCHANGED vars
  BY <1>2, <1>7 DEF Evict, Tick, vars, storeVars
<1> QED BY <1>2, <1>5, <1>6, <1>7 DEF Next

LEMMA AloneInvariant == Typed /\ Alone /\ [Next]_vars => Alone'
<1> SUFFICES ASSUME Typed, Alone, [Next]_vars, NEW d \in Call, NEW e \in Call, d /= e,
                    ~Idle(d)', ~Idle(e)'
             PROVE  call'[d].met /= {}
  BY DEF Alone
<1>1. ASSUME NEW c \in Call, RequestArrives(c) PROVE call'[d].met /= {}
  <2>1. PICK k : Arrived(c, k)
    BY <1>1, Arrives
  <2>2. \A b \in Call \ {c} : ~Idle(b)' => ~Idle(b)
    BY <2>1, ArrivedAlone DEF Idle
  <2>3. CASE d = c
    <3>1. Meeting(k, call[e]) \in call'[d].met
      BY <2>1, <2>2, <2>3, ArrivedAlone
    <3> QED BY <3>1
  <2>4. CASE d /= c
    <3>1. call'[d].met = call[d].met \cup {Meeting(k, call[d])}
      BY <2>1, <2>2, <2>4, ArrivedAlone
    <3> QED BY <3>1
  <2> QED BY <2>3, <2>4
<1>2. ASSUME NEW c \in Call, Step(c), ~Respond(c) PROVE call'[d].met /= {}
  <2>1. /\ call'[c].op = call[c].op /\ call'[c].met = call[c].met
        /\ \A b \in Call \ {c} : call'[b] = call[b]
    BY <1>2, StepAbout, StepAlone
  <2>2. ~Idle(d) /\ ~Idle(e) /\ call'[d].met = call[d].met
    BY <2>1 DEF Idle
  <2> QED BY <2>2 DEF Alone
<1>3. ASSUME NEW c \in Call, Respond(c) PROVE call'[d].met /= {}
  <2>1. call'[c] = NoCall /\ \A b \in Call \ {c} : call'[b] = call[b]
    BY <1>3, Answers
  <2>2. d /= c /\ e /= c
    BY <2>1 DEF Idle, NoCall
  <2> QED BY <2>1, <2>2 DEF Alone, Idle
<1>4. CASE Evict \/ Tick \/ UNCHANGED vars
  BY <1>4 DEF Evict, Tick, vars, Alone, Idle
<1> QED BY <1>1, <1>2, <1>3, <1>4 DEF Next

\* Who is told that an email is taken by the index alone: a request that did not
\* check it before, or not the last to write it.
LEMMA Duplicated ==
    ASSUME Typed, Knowing, OneEach, NEW c \in Call, Checked(call[c]), call[c].met = {},
           Step(c), ~Respond(c), call'[c].refused /= "store"
    PROVE  call'[c].code /= "duplicate"
<1> DEFINE k == call[c]
           l == call'[c]
<1>1. k.todo /= <<>> /\ k.code = "ok" /\ k.refused /= "store" /\ k \in InFlight
  BY StepAbout, StepRefused DEF Knowing
<1>2. ASSUME NEW command, Sends(c, command), Becomes(c, Proceeds(k)) PROVE l.code /= "duplicate"
  BY <1>1, <1>2, GoesOn
<1>3. ASSUME NEW command, Sends(c, command), NEW code, code /= "duplicate",
             Becomes(c, Fails(k, code))
      PROVE  l.code /= "duplicate"
  BY <1>3, GivesUp
<1>4. CASE Refuse(c)
  BY <1>1, <1>4, RefuseAdvances
<1>5. CASE InsertUser(c)
  <2>1. Sends(c, "insert_user")
    BY <1>5 DEF InsertUser
  <2>2. k.op = "register" /\ Left(k) = 3 /\ Knows(k)
    BY <2>1, Sent, Places
  <2>3. k.data.email /= NoEmail
    BY <2>2, StoreAssumption DEF Knows, Document
  <2>4. Becomes(c, Proceeds(k))
    BY <1>1, <1>5, <2>2, <2>3 DEF Checked, InsertUser
  <2> QED BY <1>2, <2>1, <2>4
<1>6. CASE WriteUser(c)
  <2> DEFINE data == Updated(users[k.user].data, k.data)
  <2>1. Sends(c, "write_user")
    BY <1>6 DEF WriteUser
  <2>2. k.op = "update_user" /\ Left(k) = 3 /\ Knows(k)
    BY <2>1, Sent, Places
  <2>3. k.user \in User
    BY <2>2 DEF Knows
  <2>4. LiveUser(k.user) => ~EmailIndexed(k.user, data.email)
    <3>1. CASE k.data.email /= NoEmail
      BY <1>1, <2>2, <3>1 DEF Checked, Updated
    <3>2. CASE k.data.email = NoEmail
      BY <2>3, <3>2 DEF Updated, EmailIndexed, FindByEmail, OneEach
    <3> QED BY <3>1, <3>2
  <2>5. Becomes(c, Fails(k, "not_found")) \/ Becomes(c, Proceeds(k))
    BY <1>6, <2>4 DEF WriteUser
  <2> QED BY <1>2, <1>3, <2>1, <2>5
<1>7. CASE CheckEmail(c) \/ RemoveTheUser(c)
  BY <1>2, <1>3, <1>7 DEF CheckEmail, RemoveTheUser, Reads
<1>8. CASE \/ DeleteTheToken(c) \/ UncacheTheToken(c) \/ DeleteAllTokens(c)
           \/ CacheTheUser(c) \/ UncacheTheUser(c)
  BY <1>2, <1>8 DEF DeleteTheToken, UncacheTheToken, DeleteAllTokens, CacheTheUser, UncacheTheUser
<1>9. CASE FindLogin(c) \/ FindToken(c) \/ FindUser(c)
  <2>1. ASSUME NEW next, next = Proceeds(k), NEW u, NEW t, NEW data,
               \/ Becomes(c, [next EXCEPT !.user = u]) \/ Becomes(c, [next EXCEPT !.left = t])
               \/ Becomes(c, [next EXCEPT !.data = data]),
               NEW command, Sends(c, command)
        PROVE  l.code /= "duplicate"
    <3>1. next \in InFlight /\ next.code = "ok"
      BY <1>1, <2>1, Sent DEF SameButTodo
    <3>2. \/ l = [next EXCEPT !.user = u] \/ l = [next EXCEPT !.left = t]
          \/ l = [next EXCEPT !.data = data]
      BY <2>1, BecomesOne
    <3> QED BY <3>1, <3>2 DEF InFlight
  <2>2. PICK command \in {"find_login", "find_token", "find_user", "reread_user"} :
          Sends(c, command)
    BY <1>9 DEF FindLogin, FindToken, FindUser
  <2>3. \/ \E code \in {"credentials", "invalid", "not_found"} : Becomes(c, Fails(k, code))
        \/ \E u : Becomes(c, [Proceeds(k) EXCEPT !.user = u])
        \/ \E t : Becomes(c, [Proceeds(k) EXCEPT !.left = t])
        \/ \E data : Becomes(c, [Proceeds(k) EXCEPT !.data = data])
    BY <1>9 DEF FindLogin, FindToken, FindUser, Reads
  <2> QED BY <1>3, <2>1, <2>2, <2>3
<1>10. CASE CacheTheToken(c) \/ ListTokens(c) \/ UncacheListed(c)
  BY <1>1, <1>10, CacheTheTokenAdvances, ListingAdvances
<1>11. CASE InsertTheToken(c)
  <2> DEFINE next == Proceeds(k)
             now == [next EXCEPT !.token = NewToken]
  <2>1. Sends(c, "insert_token") /\ Becomes(c, [next EXCEPT !.token = NewToken, !.left = RefreshTokenTTL])
    BY <1>11 DEF InsertTheToken
  <2>2. next \in InFlight /\ next.code = "ok" /\ l = [now EXCEPT !.left = RefreshTokenTTL]
    BY <1>1, <2>1, Sent, BecomesOne DEF SameButTodo
  <2> QED BY <2>2 DEF InFlight
<1>12. CASE ReadCachedToken(c) \/ ReadCachedUser(c)
  <2>1. \/ \E command : Sends(c, command) /\ Becomes(c, Proceeds(k))
        \/ Becomes(c, [k EXCEPT !.todo = <<>>])
        \/ \E data : Becomes(c, [k EXCEPT !.todo = <<>>, !.data = data])
    BY <1>12 DEF ReadCachedToken, ReadCachedUser, Reads
  <2>2. ASSUME NEW data, \/ Becomes(c, [k EXCEPT !.todo = <<>>])
                         \/ Becomes(c, [k EXCEPT !.todo = <<>>, !.data = data])
        PROVE  l.code /= "duplicate"
    <3>1. \/ l = [k EXCEPT !.todo = <<>>] \/ l = [k EXCEPT !.todo = <<>>, !.data = data]
      BY <2>2, BecomesOne
    <3>2. l.code = k.code
      BY <1>1, <3>1 DEF InFlight
    <3> QED BY <1>1, <3>2
  <2> QED BY <1>2, <2>1, <2>2
<1> QED BY <1>4, <1>5, <1>6, <1>7, <1>8, <1>9, <1>10, <1>11, <1>12 DEF Step

\* The command before the one that writes an email found it free, if there is one.
LEMMA FoundFree ==
    ASSUME Typed, NEW c \in Call, Step(c), ~Respond(c), call'[c].refused /= "store",
           call[c].op \in {"register", "update_user"}, Left(call'[c]) = 3,
           NEW email, email = call[c].data.email, NEW u, u = call[c].user
    PROVE  /\ ~EmailIndexed(u, email)' /\ call'[c].data = call[c].data
           /\ call'[c].user = call[c].user
<1> DEFINE k == call[c]
           l == call'[c]
<1>1. Left(k) \in Nat \ {0} /\ Left(l) \in {0, Left(k) - 1}
  BY StepLeft
<1>2. Left(k) = 4 /\ ~Idle(c) /\ k.todo /= <<>> /\ l.user = k.user
  BY <1>1, StepAbout, StepUser
<1>3. Sends(c, Head(k.todo))
  BY <1>2 DEF Sends
<1>4. Head(k.todo) = "check_email"
  <2>1. Final["register"][4] = "check_email" /\ Final["update_user"][4] = "check_email"
    BY DEF Final
  <2> QED BY <1>2, <1>3, <2>1, Sent
<1>5. ~Refuse(c)
  BY <1>4, RefuseAdvances DEF StoreCommands
<1>6. CheckEmail(c)
  BY <1>3, <1>4, <1>5 DEF Step, Sends, CheckEmail, InsertUser, FindLogin, InsertTheToken,
         ReadCachedToken, FindToken, CacheTheToken, DeleteTheToken, UncacheTheToken, ListTokens,
         UncacheListed, DeleteAllTokens, ReadCachedUser, FindUser, CacheTheUser, UncacheTheUser,
         WriteUser, RemoveTheUser
<1>7. UNCHANGED users
  BY <1>6 DEF CheckEmail, Reads, storeVars
<1>8. CASE FindByEmail(email) \ {u} = {}
  <2>1. Becomes(c, Proceeds(k))
    BY <1>6, <1>8 DEF CheckEmail, Reads
  <2>2. l.data = k.data
    BY <1>3, <2>1, GoesOn
  <2> QED BY <1>2, <1>7, <1>8, <2>2 DEF EmailIndexed, FindByEmail, LiveUser
<1>9. CASE FindByEmail(email) \ {u} /= {}
  <2>1. Becomes(c, Fails(k, "exists"))
    BY <1>6, <1>9 DEF CheckEmail, Reads
  <2>2. Left(l) = 0
    BY <1>3, <2>1, GivesUp
  <2> QED BY <2>2
<1> QED BY <1>8, <1>9

LEMMA ForewarnedInvariant ==
    Typed /\ Typed' /\ Knowing /\ OneEach /\ Alone /\ Alone' /\ Forewarned /\ [Next]_vars
      => Forewarned'
<1> SUFFICES ASSUME Typed, Typed', Knowing, OneEach, Alone, Alone', Forewarned, [Next]_vars,
                    NEW d \in Call, call'[d].met = {}, call'[d].refused /= "store"
             PROVE  /\ call'[d].code /= "duplicate"
                    /\ call'[d].op \in {"register", "update_user"} /\ Left(call'[d]) = 3
                         /\ call'[d].data.email /= NoEmail =>
                           ~EmailIndexed(call[d].user, call[d].data.email)'
  BY DEF Forewarned, Checked, Left
<1>1. Checked(call[d])
  BY DEF Forewarned
<1>2. CASE Idle(d)'
  <2>1. call'[d] \in InFlight \cup {NoCall} /\ call'[d].op = "none"
    BY <1>2 DEF Typed, TypeOK, Idle
  <2>2. "none" \notin Operations
    BY DEF Operations
  <2>3. call'[d] = NoCall
    BY <2>1, <2>2 DEF InFlight
  <2> QED BY <2>1, <2>3 DEF NoCall
<1>3. ASSUME ~Idle(d)', UNCHANGED users, call'[d] = call[d]
      PROVE  /\ call'[d].code /= "duplicate"
             /\ call'[d].op \in {"register", "update_user"} /\ Left(call'[d]) = 3
                  /\ call'[d].data.email /= NoEmail =>
                    ~EmailIndexed(call[d].user, call[d].data.email)'
  BY <1>1, <1>3 DEF Checked, EmailIndexed, FindByEmail, LiveUser
<1>4. ASSUME NEW c \in Call, RequestArrives(c), ~Idle(d)'
      PROVE  /\ call'[d].code /= "duplicate"
             /\ call'[d].op \in {"register", "update_user"} /\ Left(call'[d]) = 3
                  => call'[d].data.email = NoEmail
  <2>1. PICK k : Arrived(c, k)
    BY <1>4, Arrives
  <2>2. ~Idle(c)'
    <3>1. call'[c].op = k.op /\ k.op \in Operations
      BY <2>1, ArrivedAlone DEF Arrived, InFlight
    <3> QED BY <3>1 DEF Operations, Idle
  <2>3. d = c
    BY <1>4, <2>2 DEF Alone
  <2>4. call'[d].code = k.code /\ call'[d].op = k.op /\ Left(call'[d]) = Left(k)
        /\ call'[d].data = k.data
    BY <2>1, <2>3, ArrivedAlone DEF Left
  <2>5. Len(Final["register"]) = 4
    BY DEF Final
  <2> QED BY <2>1, <2>4, <2>5 DEF Arrived
<1>5. ASSUME NEW c \in Call, Step(c), ~Respond(c), ~Idle(d)'
      PROVE  /\ call'[d].code /= "duplicate"
             /\ call'[d].op \in {"register", "update_user"} /\ Left(call'[d]) = 3
                  /\ call'[d].data.email /= NoEmail =>
                    ~EmailIndexed(call[d].user, call[d].data.email)'
  <2>1. /\ ~Idle(c) /\ call'[c].op = call[c].op /\ call'[c].met = call[c].met
    BY <1>5, StepAbout
  <2>2. d = c
    BY <1>5, <2>1 DEF Alone, Idle
  <2>3. call'[d].code /= "duplicate"
    BY <1>1, <1>5, <2>1, <2>2, Duplicated
  <2>4. ASSUME call[d].op \in {"register", "update_user"}, Left(call'[d]) = 3
        PROVE  ~EmailIndexed(call[d].user, call[d].data.email)'
    <3>1. PICK u, email : u = call[d].user /\ email = call[d].data.email
      OBVIOUS
    <3>2. /\ ~EmailIndexed(u, email)' /\ call'[d].data = call[d].data
          /\ call'[d].user = call[d].user
      BY <1>5, <2>2, <2>4, <3>1, FoundFree
    <3> QED BY <3>1, <3>2
  <2> QED BY <2>1, <2>2, <2>3, <2>4
<1>6. ASSUME NEW c \in Call, Respond(c), ~Idle(d)' PROVE UNCHANGED users /\ call'[d] = call[d]
  BY <1>6, Answers DEF storeVars, Idle, NoCall
<1>7. CASE Evict \/ Tick \/ UNCHANGED vars
  <2>1. UNCHANGED <<users, call>>
    BY <1>7 DEF Evict, Tick, vars, storeVars
  <2> QED BY <1>2, <1>3, <2>1
<1> QED BY <1>2, <1>3, <1>4, <1>5, <1>6, <1>7 DEF Next

\* The check of an email and the write are two commands, and the index refuses
\* the write if another request took the email in between, which the handlers
\* answer with a 500: that needs another request in flight, or a failed check.
THEOREM ConflictsTold == Spec => []ConflictsReported
<1>1. Init /\ Typed => OneEach /\ Alone /\ Forewarned
  <2> SUFFICES ASSUME Init, Typed PROVE OneEach /\ Alone /\ Forewarned
    OBVIOUS
  <2>1. \A c \in Call : call[c] = NoCall
    BY DEF Init
  <2>2. Alone /\ Forewarned
    BY <2>1 DEF Alone, Idle, NoCall, Forewarned, Checked
  <2>3. OneEach
    <3> DEFINE S == scenario.registered
               Mail(u) == CHOOSE email \in Email : <<u, email>> \in S
    <3>1. /\ \A p, q \in S : (p[1] = q[1]) <=> (p[2] = q[2])
          /\ users = [u \in User |->
                        IF \E email \in Email : <<u, email>> \in S
                          THEN [state |-> "live",
                                data |-> [email |-> Mail(u), name |-> CHOOSE name \in Name : TRUE]]
                          ELSE NotRegistered]
      BY ScenarioAssumption DEF Init, StoreInit
    <3>2. ASSUME NEW u \in User, users[u].state = "live"
          PROVE  <<u, Mail(u)>> \in S /\ users[u].data.email = Mail(u)
      BY <3>1, <3>2 DEF NotRegistered
    <3>3. ASSUME NEW u \in User, NEW v \in User, LiveUser(u), LiveUser(v),
                 users[u].data.email = users[v].data.email
          PROVE  u = v
      <4>1. <<u, Mail(u)>> \in S /\ <<v, Mail(u)>> \in S
        BY <3>2, <3>3 DEF LiveUser
      <4> HIDE DEF Mail, S
      <4>2. \A e : <<u, e>>[1] = u /\ <<v, e>>[1] = v /\ <<u, e>>[2] = e /\ <<v, e>>[2] = e
        OBVIOUS
      <4> QED BY <3>1, <4>1, <4>2
    <3> QED BY <3>3 DEF OneEach
  <2> QED BY <2>2, <2>3
<1>2. Forewarned => ConflictsReported
  BY DEF Forewarned, Checked, ConflictsReported
<1>3. Init /\ Typed => Knowing
  BY FirstKnowing
<1> QED BY <1>1, <1>2, <1>3, OneEachInvariant, AloneInvariant, ForewarnedInvariant,
           KnowingInvariant, TypeInvariance, PTL DEF Spec

===============================================================================
