------------------------------ MODULE AccountsProofs ------------------------------
(***************************************************************************)
(* Theorems about Accounts, for any users, emails, tokens, requests, times *)
(* to live and scenarios.                                                  *)
(***************************************************************************)
EXTENDS Accounts, FiniteSetTheorems, SequenceTheorems, TLAPS

\* The commands of an operation, the last one first.  The n-th is what is sent
\* when n are left.
Final ==
    [register |-> <<"cache_token", "insert_token", "insert_user", "check_email">>,
     login |-> <<"cache_token", "insert_token", "find_login">>,
     refresh |-> <<"cache_token", "find_token", "cached_token">>,
     logout |-> <<"uncache_token", "delete_token">>,
     logout_all |-> <<"delete_tokens", "uncache_tokens", "list_tokens">>,
     get_user |-> <<"cache_user", "find_user", "cached_user">>,
     update_user |-> <<"uncache_user", "reread_user", "write_user", "check_email">>,
     delete_user |-> <<"uncache_user", "remove_user">>]

Left(k) == Len(k.todo)

\* s is the rest of the sequence of an operation.
Rest(op, s) ==
    /\ s \in Seq(Commands)
    /\ Len(s) <= Len(Final[op])
    /\ \A n \in 1 .. Len(s) : s[n] = Final[op][Len(s) + 1 - n]

InSequence(k) == Rest(k.op, k.todo)

Issuing == {"register", "login"}

\* What a request knows by the time it has so many commands left.
Knows(k) ==
    /\ k.op /= "login" \/ Left(k) \in {1, 2} => k.user \in User
    /\ k.op \in {"refresh", "logout"} => k.token \in Token
    /\ k.op \in Issuing /\ Left(k) = 1 => k.token \in Token
    /\ k.op \in Issuing /\ Left(k) > 1 => k.token = NoToken
    /\ k.op \notin Issuing \cup {"refresh", "logout"} => k.token = NoToken
    /\ k.op = "register" => k.data \in Document
    /\ k.op = "get_user" /\ Left(k) = 1 => k.data \in Document

\* Requests that have yet to insert a token count against the bound.
Waiting == {c \in Call : call[c].op \in Issuing /\ call[c].token = NoToken}

TokensLeft == Cardinality(Issued) + Cardinality(Waiting) <= scenario.tokens

Typed ==
    /\ TypeOK
    /\ \A c \in Call : ~Idle(c) => InSequence(call[c]) /\ Knows(call[c])
    /\ TokensLeft

-------------------------------------------------------------------------------
(* Sequences of commands.                                                  *)

LEMMA NextCommand ==
    ASSUME NEW k \in InFlight, InSequence(k), k.todo /= <<>>
    PROVE  /\ Left(k) \in 1 .. Len(Final[k.op])
           /\ Head(k.todo) = Final[k.op][Left(k)]
           /\ Proceeds(k) \in InFlight /\ InSequence(Proceeds(k))
           /\ Left(Proceeds(k)) = Left(k) - 1
<1>1. k.todo \in Seq(Commands) /\ k.op \in Operations
  BY DEF InFlight
<1>2. /\ Tail(k.todo) \in Seq(Commands) /\ Len(Tail(k.todo)) = Len(k.todo) - 1
      /\ \A n \in 1 .. Len(k.todo) - 1 : Tail(k.todo)[n] = k.todo[n + 1]
      /\ Head(k.todo) = k.todo[1] /\ Len(k.todo) \in Nat \ {0}
  BY <1>1
<1>3. Proceeds(k) \in InFlight /\ Proceeds(k).todo = Tail(k.todo) /\ Proceeds(k).op = k.op
  BY <1>2 DEF Proceeds, InFlight
<1> QED BY <1>1, <1>2, <1>3 DEF InSequence, Rest, Left

\* Where each command is.
LEMMA Places ==
    ASSUME NEW op \in Operations, NEW n \in 1 .. Len(Final[op])
    PROVE  /\ Final[op][n] = "check_email" => op \in {"register", "update_user"} /\ n = 4
           /\ Final[op][n] = "insert_user" => op = "register" /\ n = 3
           /\ Final[op][n] = "find_login" => op = "login" /\ n = 3
           /\ Final[op][n] = "insert_token" => op \in Issuing /\ n = 2
           /\ Final[op][n] = "cache_token" => op \in Issuing \cup {"refresh"} /\ n = 1
           /\ Final[op][n] = "cached_token" => op = "refresh" /\ n = 3
           /\ Final[op][n] = "find_token" => op = "refresh" /\ n = 2
           /\ Final[op][n] = "delete_token" => op = "logout" /\ n = 2
           /\ Final[op][n] = "uncache_token" => op = "logout" /\ n = 1
           /\ Final[op][n] = "list_tokens" => op = "logout_all" /\ n = 3
           /\ Final[op][n] = "uncache_tokens" => op = "logout_all" /\ n = 2
           /\ Final[op][n] = "delete_tokens" => op = "logout_all" /\ n = 1
           /\ Final[op][n] = "cached_user" => op = "get_user" /\ n = 3
           /\ Final[op][n] = "find_user" => op = "get_user" /\ n = 2
           /\ Final[op][n] = "cache_user" => op = "get_user" /\ n = 1
           /\ Final[op][n] = "write_user" => op = "update_user" /\ n = 3
           /\ Final[op][n] = "reread_user" => op = "update_user" /\ n = 2
           /\ Final[op][n] = "remove_user" => op = "delete_user" /\ n = 2
           /\ Final[op][n] = "uncache_user" =>
                op \in {"update_user", "delete_user"} /\ n = 1
<1> USE DEF Final, Issuing
<1>1. CASE op = "register" BY <1>1
<1>2. CASE op = "login" BY <1>2
<1>3. CASE op = "refresh" BY <1>3
<1>4. CASE op = "logout" BY <1>4
<1>5. CASE op = "logout_all" BY <1>5
<1>6. CASE op = "get_user" BY <1>6
<1>7. CASE op = "update_user" BY <1>7
<1>8. CASE op = "delete_user" BY <1>8
<1> QED BY <1>1, <1>2, <1>3, <1>4, <1>5, <1>6, <1>7, <1>8 DEF Operations

\* The sequences that requests start with.
LEMMA Starting ==
    /\ Rest("register", <<"check_email", "insert_user">> \o IssueCommands)
    /\ Len(<<"check_email", "insert_user">> \o IssueCommands) = 4
    /\ Rest("login", <<"find_login">> \o IssueCommands)
    /\ Len(<<"find_login">> \o IssueCommands) = 3
    /\ Rest("refresh", RefreshCommands) /\ Len(RefreshCommands) = 3
    /\ Rest("logout", LogoutCommands) /\ Len(LogoutCommands) = 2
    /\ Rest("logout_all", LogoutAllCommands) /\ Len(LogoutAllCommands) = 3
    /\ Rest("get_user", <<"cached_user", "find_user", "cache_user">>)
    /\ Len(<<"cached_user", "find_user", "cache_user">>) = 3
    /\ \A email \in Email : /\ Rest("update_user", UpdateUserCommands(email))
                            /\ Len(UpdateUserCommands(email)) = 4
    /\ Rest("update_user", UpdateUserCommands(NoEmail)) /\ Len(UpdateUserCommands(NoEmail)) = 3
    /\ Rest("delete_user", <<"remove_user", "uncache_user">>)
    /\ Len(<<"remove_user", "uncache_user">>) = 2
<1> USE DEF Rest, Final, Commands, StoreCommands, CacheCommands
<1>1. /\ Rest("register", <<"check_email", "insert_user">> \o IssueCommands)
      /\ Len(<<"check_email", "insert_user">> \o IssueCommands) = 4
  BY DEF IssueCommands
<1>2. /\ Rest("login", <<"find_login">> \o IssueCommands)
      /\ Len(<<"find_login">> \o IssueCommands) = 3
  BY DEF IssueCommands
<1>3. Rest("refresh", RefreshCommands) /\ Len(RefreshCommands) = 3
  BY DEF RefreshCommands
<1>4. Rest("logout", LogoutCommands) /\ Len(LogoutCommands) = 2
  BY DEF LogoutCommands
<1>5. Rest("logout_all", LogoutAllCommands) /\ Len(LogoutAllCommands) = 3
  BY DEF LogoutAllCommands
<1>6. /\ Rest("get_user", <<"cached_user", "find_user", "cache_user">>)
      /\ Len(<<"cached_user", "find_user", "cache_user">>) = 3
  OBVIOUS
<1>7. ASSUME NEW email \in Email
      PROVE  /\ Rest("update_user", UpdateUserCommands(email))
             /\ Len(UpdateUserCommands(email)) = 4
  <2>1. UpdateUserCommands(email)
          = <<"check_email">> \o <<"write_user", "reread_user", "uncache_user">>
    BY StoreAssumption DEF UpdateUserCommands
  <2> QED BY <2>1
<1>8. Rest("update_user", UpdateUserCommands(NoEmail)) /\ Len(UpdateUserCommands(NoEmail)) = 3
  <2>1. UpdateUserCommands(NoEmail) = <<"write_user", "reread_user", "uncache_user">>
    BY DEF UpdateUserCommands
  <2> QED BY <2>1
<1>9. /\ Rest("delete_user", <<"remove_user", "uncache_user">>)
      /\ Len(<<"remove_user", "uncache_user">>) = 2
  OBVIOUS
<1> QED BY <1>1, <1>2, <1>3, <1>4, <1>5, <1>6, <1>7, <1>8, <1>9

-------------------------------------------------------------------------------
(* Types.                                                                  *)

LEMMA IdsInRange == NoToken \notin Token /\ Token \subseteq Nat /\ IsFiniteSet(Token)
<1>1. IsFiniteSet(1 .. MaxTokens)
  BY StoreAssumption, FS_Interval
<1> QED BY <1>1, StoreAssumption DEF Token, NoToken

LEMMA OneMore ==
    ASSUME NEW S, IsFiniteSet(S), NEW x, NEW T, T \subseteq S \cup {x}
    PROVE  Cardinality(T) \in Nat /\ Cardinality(T) <= Cardinality(S) + 1
<1> DEFINE B == S \cup {x}
<1>1. /\ IsFiniteSet(B)
      /\ Cardinality(B) = IF x \in S THEN Cardinality(S) ELSE Cardinality(S) + 1
  BY FS_AddElement, Zenon
<1>2. Cardinality(S) \in Nat
  BY FS_CardinalityType
<1>3. T \subseteq B
  OBVIOUS
<1> HIDE DEF B
<1>4. IsFiniteSet(T) /\ Cardinality(T) <= Cardinality(B)
  BY <1>1, <1>3, FS_Subset
<1>5. Cardinality(T) \in Nat
  BY <1>4, FS_CardinalityType
<1>6. Cardinality(B) <= Cardinality(S) + 1
  BY <1>1, <1>2
<1> QED BY <1>1, <1>2, <1>4, <1>5, <1>6

LEMMA InitTyped == Init => Typed
<1> SUFFICES ASSUME Init PROVE Typed
  OBVIOUS
<1>1. scenario \in Scenario /\ scenario.registered \subseteq User \X Email /\ scenario.tokens \in Nat
  BY ScenarioAssumption DEF Init
<1>2. users \in [User -> UserDocument]
  <2> SUFFICES ASSUME NEW u \in User PROVE users[u] \in UserDocument
    BY DEF Init, StoreInit
  <2>1. CASE \E email \in Email : <<u, email>> \in scenario.registered
    <3>1. (CHOOSE email \in Email : <<u, email>> \in scenario.registered) \in Email
      BY <2>1
    <3>2. (CHOOSE name \in Name : TRUE) \in Name
      BY StoreAssumption
    <3> QED BY <2>1, <3>1, <3>2 DEF Init, StoreInit, UserDocument, Document
  <2>2. CASE ~\E email \in Email : <<u, email>> \in scenario.registered
    BY <2>2 DEF Init, StoreInit, UserDocument
  <2> QED BY <2>1, <2>2
<1>3. TypeOK
  <2>1. tokens \in [Token -> TokenDocument]
    BY DEF Init, StoreInit, TokenDocument
  <2>2. /\ cachedUsers \in [User -> [data : Document, left : 0 .. UserCacheTTL] \cup {NotCached}]
        /\ cachedTokens \in [Token -> 0 .. RefreshTokenTTL]
    BY StoreAssumption DEF Init, StoreInit
  <2> QED BY <1>1, <1>2, <2>1, <2>2 DEF Init, TypeOK, StoreTypeOK
<1>4. Issued = {} /\ Waiting = {}
  BY DEF Issued, Waiting, Init, StoreInit, Issuing, NoCall, NotIssued
<1>5. TokensLeft
  BY <1>1, <1>4, FS_EmptySet DEF TokensLeft
<1> QED BY <1>3, <1>5 DEF Typed, Idle, Init, NoCall

LEMMA CountedTokens ==
    ASSUME Typed
    PROVE  /\ Cardinality(Issued) \in Nat /\ Cardinality(Waiting) \in Nat
           /\ IsFiniteSet(Issued) /\ IsFiniteSet(Waiting)
           /\ scenario.tokens \in 0 .. MaxTokens
<1>1. Issued \subseteq Token /\ Waiting \subseteq Call
  BY DEF Issued, Waiting
<1> QED
  BY <1>1, IdsInRange, CallAssumption, ScenarioAssumption, FS_Subset, FS_CardinalityType
     DEF Typed, TypeOK

LEMMA FewerTokens ==
    ASSUME Typed, Issued' \subseteq Issued, Waiting' \subseteq Waiting, scenario' = scenario
    PROVE  TokensLeft'
<1>1. /\ Cardinality(Issued') \in Nat /\ Cardinality(Issued') <= Cardinality(Issued)
      /\ Cardinality(Waiting') \in Nat /\ Cardinality(Waiting') <= Cardinality(Waiting)
  BY CountedTokens, FS_Subset, FS_CardinalityType
<1> QED BY <1>1, CountedTokens, ScenarioAssumption DEF TokensLeft, Typed, TypeOK

\* A request arrives.
LEMMA ArrivalTyped ==
    ASSUME Typed, NEW c \in Call, Idle(c), NEW k \in InFlight, InSequence(k), Knows(k),
           Starts(c, k), k.op \in Issuing => MayIssue
    PROVE  Typed'
<1>1. /\ call' \in [Call -> InFlight \cup {NoCall}]
      /\ \A d \in Call : ~Idle(d)' => InSequence(call'[d]) /\ Knows(call'[d])
      /\ \A d \in Call \ {c} : call'[d].op = call[d].op /\ call'[d].token = call[d].token
      /\ call'[c].op = k.op
  <2> SUFFICES ASSUME NEW d \in Call
               PROVE  /\ call'[d] \in InFlight \cup {NoCall}
                      /\ ~Idle(d)' => InSequence(call'[d]) /\ Knows(call'[d])
                      /\ IF d = c THEN call'[d].op = k.op
                         ELSE call'[d].op = call[d].op /\ call'[d].token = call[d].token
    BY DEF Starts
  <2>1. \A l, m : Meeting(l, m) \in {"same", "other"}
    BY DEF Meeting
  <2>2. CASE d = c
    <3>1. \E met \in SUBSET {"same", "other"} : call'[d] = [k EXCEPT !.met = met]
      BY <2>1, <2>2 DEF Starts
    <3> QED BY <2>2, <3>1 DEF InFlight, InSequence, Knows, Left
  <2>3. CASE d /= c /\ ~Idle(d)
    <3>1. call[d] \in InFlight
      BY <2>3 DEF Typed, TypeOK, Idle, NoCall
    <3>2. \E met \in SUBSET {"same", "other"} : call'[d] = [call[d] EXCEPT !.met = met]
      BY <2>1, <2>3, <3>1 DEF Starts, InFlight
    <3>3. InSequence(call[d]) /\ Knows(call[d])
      BY <2>3 DEF Typed
    <3> QED BY <2>3, <3>1, <3>2, <3>3 DEF InFlight, InSequence, Knows, Left
  <2>4. CASE d /= c /\ Idle(d)
    <3>1. call'[d] = NoCall
      BY <2>4 DEF Starts
    <3>2. call[d] = NoCall
      BY <2>4 DEF Typed, TypeOK, Idle, InFlight, Operations
    <3> QED BY <2>4, <3>1, <3>2 DEF Idle, NoCall
  <2> QED BY <2>2, <2>3, <2>4
<1>2. TypeOK'
  BY <1>1 DEF Typed, TypeOK, StoreTypeOK, Starts, storeVars
<1>3. Issued' = Issued /\ scenario' = scenario
  BY DEF Starts, storeVars, Issued
<1>4. TokensLeft'
  <2>1. CASE k.op \in Issuing
    <3>1. Cardinality(Issued) + Cardinality(Waiting) < scenario.tokens
      BY <2>1 DEF MayIssue, Waiting, Issuing
    <3>2. Waiting' \subseteq Waiting \cup {c}
      BY <1>1 DEF Waiting
    <3>3. /\ Cardinality(Waiting') \in Nat
          /\ Cardinality(Waiting') <= Cardinality(Waiting) + 1
      BY <3>2, OneMore, CountedTokens
    <3> QED BY <1>3, <3>1, <3>3, CountedTokens DEF TokensLeft
  <2>2. CASE k.op \notin Issuing
    <3>1. Waiting' \subseteq Waiting
      BY <1>1, <2>2 DEF Waiting
    <3> QED BY <1>3, <3>1, FewerTokens
  <2> QED BY <2>1, <2>2
<1> QED BY <1>1, <1>2, <1>4 DEF Typed

LEMMA StoreTypes ==
    ASSUME StoreTypeOK, UNCHANGED storeVars
    PROVE  StoreTypeOK'
BY DEF StoreTypeOK, storeVars

LEMMA StoreSteps ==
    ASSUME StoreTypeOK
    PROVE  /\ \A u \in User, d \in Document :
                PutUser(u, d) /\ UNCHANGED <<tokens, cachedUsers, cachedTokens>> => StoreTypeOK'
           /\ \A u \in User :
                RemoveUser(u) /\ UNCHANGED <<tokens, cachedUsers, cachedTokens>> => StoreTypeOK'
           /\ \A k \in Token, u \in User :
                InsertToken(k, u) /\ UNCHANGED <<users, cachedUsers, cachedTokens>> => StoreTypeOK'
           /\ \A k \in Token :
                DeleteToken(k) /\ UNCHANGED <<users, cachedUsers, cachedTokens>> => StoreTypeOK'
           /\ \A u \in User :
                DeleteTokensOf(u) /\ UNCHANGED <<users, cachedUsers, cachedTokens>> => StoreTypeOK'
           /\ \A u \in User, d \in Document :
                CacheUser(u, d) /\ UNCHANGED <<users, tokens, cachedTokens>> => StoreTypeOK'
           /\ \A u \in User :
                UncacheUser(u) /\ UNCHANGED <<users, tokens, cachedTokens>> => StoreTypeOK'
           /\ \A k \in Token, n \in 0 .. RefreshTokenTTL :
                CacheToken(k, n) /\ UNCHANGED <<users, tokens, cachedUsers>> => StoreTypeOK'
           /\ \A S : UncacheTokens(S) /\ UNCHANGED <<users, tokens, cachedUsers>> => StoreTypeOK'
           /\ PassTime /\ UNCHANGED users => StoreTypeOK'
<1> USE StoreAssumption
<1>1. ASSUME NEW u \in User, NEW d \in Document, PutUser(u, d),
             UNCHANGED <<tokens, cachedUsers, cachedTokens>>
      PROVE  StoreTypeOK'
  BY <1>1 DEF PutUser, StoreTypeOK, UserDocument
<1>2. ASSUME NEW u \in User, RemoveUser(u), UNCHANGED <<tokens, cachedUsers, cachedTokens>>
      PROVE  StoreTypeOK'
  BY <1>2 DEF RemoveUser, StoreTypeOK, UserDocument
<1>3. ASSUME NEW k \in Token, NEW u \in User, InsertToken(k, u),
             UNCHANGED <<users, cachedUsers, cachedTokens>>
      PROVE  StoreTypeOK'
  BY <1>3 DEF InsertToken, StoreTypeOK, TokenDocument
<1>4. ASSUME NEW k \in Token, DeleteToken(k), UNCHANGED <<users, cachedUsers, cachedTokens>>
      PROVE  StoreTypeOK'
  BY <1>4 DEF DeleteToken, StoreTypeOK, TokenDocument, NotIssued
<1>5. ASSUME NEW u \in User, DeleteTokensOf(u), UNCHANGED <<users, cachedUsers, cachedTokens>>
      PROVE  StoreTypeOK'
  BY <1>5 DEF DeleteTokensOf, StoreTypeOK, TokenDocument, NotIssued
<1>6. ASSUME NEW u \in User, NEW d \in Document, CacheUser(u, d),
             UNCHANGED <<users, tokens, cachedTokens>>
      PROVE  StoreTypeOK'
  BY <1>6 DEF CacheUser, StoreTypeOK
<1>7. ASSUME NEW u \in User, UncacheUser(u), UNCHANGED <<users, tokens, cachedTokens>>
      PROVE  StoreTypeOK'
  BY <1>7 DEF UncacheUser, StoreTypeOK
<1>8. ASSUME NEW k \in Token, NEW n \in 0 .. RefreshTokenTTL, CacheToken(k, n),
             UNCHANGED <<users, tokens, cachedUsers>>
      PROVE  StoreTypeOK'
  BY <1>8 DEF CacheToken, StoreTypeOK
<1>9. ASSUME NEW S, UncacheTokens(S), UNCHANGED <<users, tokens, cachedUsers>>
      PROVE  StoreTypeOK'
  BY <1>9 DEF UncacheTokens, StoreTypeOK
<1>10. ASSUME PassTime, UNCHANGED users
       PROVE  StoreTypeOK'
  <2>1. cachedUsers' \in [User -> [data : Document, left : 0 .. UserCacheTTL] \cup {NotCached}]
    <3> SUFFICES ASSUME NEW u \in User
                 PROVE  cachedUsers'[u] \in [data : Document, left : 0 .. UserCacheTTL] \cup {NotCached}
      BY <1>10 DEF PassTime
    <3>1. cachedUsers[u] \in [data : Document, left : 0 .. UserCacheTTL] \cup {NotCached}
      BY DEF StoreTypeOK
    <3>2. cachedUsers[u].left \in Nat
      BY <3>1 DEF NotCached
    <3>3. CASE cachedUsers[u].left > 1
      BY <1>10, <3>1, <3>3 DEF PassTime, NotCached
    <3>4. CASE cachedUsers[u].left <= 1
      BY <1>10, <3>1, <3>2, <3>4 DEF PassTime
    <3> QED BY <3>2, <3>3, <3>4
  <2>2. cachedTokens' \in [Token -> 0 .. RefreshTokenTTL]
    BY <1>10 DEF PassTime, StoreTypeOK
  <2>3. tokens' \in [Token -> TokenDocument]
    BY <1>10 DEF PassTime, StoreTypeOK, TokenDocument, NotIssued
  <2> QED BY <1>10, <2>1, <2>2, <2>3 DEF StoreTypeOK
<1> QED BY <1>1, <1>2, <1>3, <1>4, <1>5, <1>6, <1>7, <1>8, <1>9, <1>10

\* A request in flight, which does not issue a token.
LEMMA CommandTyped ==
    ASSUME Typed, NEW c \in Call, ~Idle(c), NEW l \in InFlight, Becomes(c, l),
           InSequence(l), Knows(l), StoreTypeOK', l.op = call[c].op,
           l.op \in Issuing /\ l.token = NoToken => call[c].token = NoToken,
           \A k \in Token : tokens[k] = NotIssued => tokens'[k] = NotIssued
    PROVE  Typed'
<1>1. TypeOK'
  BY DEF Typed, TypeOK, Becomes
<1>2. \A d \in Call : ~Idle(d)' => InSequence(call'[d]) /\ Knows(call'[d])
  BY DEF Typed, TypeOK, Becomes, Idle
<1>3. Waiting' \subseteq Waiting /\ Issued' \subseteq Issued
  BY DEF Typed, TypeOK, Becomes, Waiting, Issued
<1> QED BY <1>1, <1>2, <1>3, FewerTokens DEF Typed, Becomes

LEMMA ReadTyped ==
    ASSUME Typed, NEW c \in Call, ~Idle(c), NEW l \in InFlight, Reads(c, l),
           InSequence(l), Knows(l), l.op = call[c].op,
           l.op \in Issuing /\ l.token = NoToken => call[c].token = NoToken
    PROVE  Typed'
BY CommandTyped, StoreTypes DEF Reads, Typed, TypeOK, storeVars

SameButTodo(k, l) ==
    /\ l.op = k.op /\ l.user = k.user /\ l.data = k.data /\ l.token = k.token /\ l.left = k.left
    /\ l.found = k.found /\ l.code = k.code /\ l.refused = k.refused /\ l.met = k.met

\* What is known of the request that sends a command.
LEMMA Sent ==
    ASSUME Typed, NEW c \in Call, NEW command, Sends(c, command)
    PROVE  /\ ~Idle(c)
           /\ call[c] \in InFlight /\ InSequence(call[c]) /\ Knows(call[c])
           /\ call[c].op \in Operations /\ Left(call[c]) \in 1 .. Len(Final[call[c].op])
           /\ Final[call[c].op][Left(call[c])] = command
           /\ Proceeds(call[c]) \in InFlight /\ InSequence(Proceeds(call[c]))
           /\ Left(Proceeds(call[c])) = Left(call[c]) - 1
           /\ SameButTodo(call[c], Proceeds(call[c]))
<1>1. call[c] \in InFlight
  BY DEF Typed, TypeOK, Sends, Idle, NoCall
<1>2. call[c].op \in Operations /\ SameButTodo(call[c], Proceeds(call[c]))
  BY <1>1 DEF InFlight, SameButTodo, Proceeds
<1> QED BY <1>1, <1>2, NextCommand DEF Typed, Sends

\* Requests that end.
LEMMA Ending ==
    ASSUME NEW k \in InFlight, Knows(k), NEW code \in Codes
    PROVE  /\ Fails(k, code) \in InFlight /\ InSequence(Fails(k, code)) /\ Knows(Fails(k, code))
           /\ Left(Fails(k, code)) = 0 /\ Fails(k, code).op = k.op
           /\ Fails(k, code).token = k.token
<1>1. Fails(k, code) \in InFlight /\ Fails(k, code).todo = <<>> /\ Len(<<>>) = 0
  BY EmptySeq DEF Fails, InFlight
<1>2. k.op \in Operations /\ Len(Final[k.op]) >= 0
  BY DEF InFlight, Final, Operations
<1>3. Rest(k.op, <<>>)
  BY <1>2 DEF Rest
<1> QED BY <1>1, <1>3 DEF Fails, InSequence, Knows, Left, InFlight, Issuing

\* A request that goes on, or fails, after a command that changes no document.
LEMMA ProceedsTyped ==
    ASSUME Typed, NEW c \in Call, NEW command, Sends(c, command),
           Becomes(c, Proceeds(call[c])), Knows(Proceeds(call[c])), StoreTypeOK',
           \A k \in Token : tokens[k] = NotIssued => tokens'[k] = NotIssued
    PROVE  Typed'
BY Sent, CommandTyped DEF SameButTodo

LEMMA FailsTyped ==
    ASSUME Typed, NEW c \in Call, NEW command, Sends(c, command), NEW code \in Codes,
           Becomes(c, Fails(call[c], code)), UNCHANGED storeVars
    PROVE  Typed'
<1>1. StoreTypeOK' /\ \A k \in Token : tokens[k] = NotIssued => tokens'[k] = NotIssued
  BY StoreTypes DEF Typed, TypeOK, storeVars
<1> QED BY <1>1, Sent, Ending, CommandTyped

LEMMA ReadsProceedsTyped ==
    ASSUME Typed, NEW c \in Call, NEW command, Sends(c, command),
           Reads(c, Proceeds(call[c])), Knows(Proceeds(call[c]))
    PROVE  Typed'
<1>1. StoreTypeOK' /\ \A k \in Token : tokens[k] = NotIssued => tokens'[k] = NotIssued
  BY StoreTypes DEF Typed, TypeOK, Reads, storeVars
<1> QED BY <1>1, ProceedsTyped DEF Reads

LEMMA ReadsFailsTyped ==
    ASSUME Typed, NEW c \in Call, NEW command, Sends(c, command), NEW code \in Codes,
           Reads(c, Fails(call[c], code))
    PROVE  Typed'
BY FailsTyped DEF Reads

\* A request is where its commands say that it is.
LEMMA Continues ==
    ASSUME Typed, NEW c \in Call, NEW command, Sends(c, command),
           NEW l, l.op = call[c].op, l.todo = Proceeds(call[c]).todo
    PROVE  InSequence(l) /\ Left(l) = Left(call[c]) - 1
BY Sent DEF InSequence, Left, SameButTodo

LEMMA Stops ==
    ASSUME NEW l, l.op \in Operations, l.todo = <<>>
    PROVE  InSequence(l) /\ Left(l) = 0
<1>1. <<>> \in Seq(Commands) /\ Len(<<>>) = 0
  BY EmptySeq
<1>2. Len(Final[l.op]) >= 0
  BY DEF Final, Operations
<1> QED BY <1>1, <1>2 DEF InSequence, Rest, Left

-------------------------------------------------------------------------------
(* Types, command by command.                                              *)

LEMMA CheckEmailTyped == ASSUME Typed, NEW c \in Call, CheckEmail(c) PROVE Typed'
<1>1. Sends(c, "check_email")
  BY DEF CheckEmail
<1>2. Knows(Proceeds(call[c]))
  BY <1>1, Sent, Places DEF Knows, SameButTodo, Issuing
<1>3. Reads(c, Proceeds(call[c])) \/ Reads(c, Fails(call[c], "exists"))
  BY DEF CheckEmail
<1> QED BY <1>1, <1>2, <1>3, ReadsProceedsTyped, ReadsFailsTyped DEF Codes

LEMMA InsertUserTyped == ASSUME Typed, NEW c \in Call, InsertUser(c) PROVE Typed'
<1> DEFINE k == call[c]
<1>1. Sends(c, "insert_user") /\ UNCHANGED <<tokens, cachedUsers, cachedTokens>>
  BY DEF InsertUser
<1>2. Knows(Proceeds(k)) /\ k.user \in User /\ k.data \in Document
  BY <1>1, Sent, Places DEF Knows, SameButTodo, Issuing
<1>3. CASE EmailIndexed(k.user, k.data.email)
  <2>1. Becomes(c, Fails(k, "duplicate")) /\ UNCHANGED storeVars
    BY <1>1, <1>3 DEF InsertUser, storeVars
  <2> QED BY <1>1, <2>1, FailsTyped DEF Codes
<1>4. CASE ~EmailIndexed(k.user, k.data.email)
  <2>1. Becomes(c, Proceeds(k)) /\ PutUser(k.user, k.data)
    BY <1>4 DEF InsertUser
  <2>2. StoreTypeOK'
    BY <1>1, <1>2, <2>1, StoreSteps DEF Typed, TypeOK
  <2> QED BY <1>1, <1>2, <2>1, <2>2, ProceedsTyped
<1> QED BY <1>3, <1>4

LEMMA FindLoginTyped == ASSUME Typed, NEW c \in Call, FindLogin(c) PROVE Typed'
<1> DEFINE k == call[c]
<1>1. Sends(c, "find_login")
  BY DEF FindLogin
<1>2. CASE Reads(c, Fails(k, "credentials"))
  BY <1>1, <1>2, ReadsFailsTyped DEF Codes
<1>3. ASSUME NEW u \in FindByEmail(k.data.email), Reads(c, [Proceeds(k) EXCEPT !.user = u])
      PROVE  Typed'
  <2> DEFINE l == [Proceeds(k) EXCEPT !.user = u]
  <2>1. u \in User
    BY DEF FindByEmail
  <2>2. /\ l \in InFlight /\ l.op = k.op /\ l.token = k.token /\ l.todo = Proceeds(k).todo
        /\ l.user = u
    BY <1>1, <2>1, Sent DEF InFlight, SameButTodo
  <2>3. /\ ~Idle(c) /\ k.op = "login" /\ Left(k) = 3 /\ Knows(k)
        /\ InSequence(Proceeds(k)) /\ Left(Proceeds(k)) = 2 /\ Proceeds(k).op = k.op
    BY <1>1, Sent, Places DEF SameButTodo
  <2>4. Reads(c, l)
    BY <1>3
  <2> HIDE DEF l, k
  <2>5. InSequence(l) /\ Left(l) = 2
    BY <2>2, <2>3 DEF InSequence, Left
  <2>6. Knows(l)
    BY <2>1, <2>2, <2>3, <2>5 DEF Knows, Issuing
  <2> QED BY <2>2, <2>3, <2>4, <2>5, <2>6, ReadTyped DEF k
<1> QED BY <1>2, <1>3 DEF FindLogin

\* There is an id for a token to be inserted.
LEMMA FreshToken ==
    ASSUME Typed, NEW c \in Call, Sends(c, "insert_token")
    PROVE  /\ NewToken \in Token
           /\ Cardinality(Waiting \ {c}) \in Nat
           /\ Cardinality(Waiting) = Cardinality(Waiting \ {c}) + 1
<1>1. call[c].op \in Issuing /\ Left(call[c]) = 2 /\ call[c].token = NoToken
  BY Sent, Places DEF Knows, Issuing
<1>2. c \in Waiting
  BY <1>1 DEF Waiting
<1>3. /\ IsFiniteSet(Waiting \ {c})
      /\ Cardinality(Waiting \ {c}) = Cardinality(Waiting) - 1
  BY <1>2, CountedTokens, FS_RemoveElement
<1>4. Cardinality(Waiting \ {c}) \in Nat
  BY <1>3, FS_CardinalityType
<1>5. Cardinality(Waiting) = Cardinality(Waiting \ {c}) + 1
  BY <1>3, CountedTokens
<1> QED
  BY <1>4, <1>5, CountedTokens, StoreAssumption DEF NewToken, TokensLeft, Typed, Token

LEMMA InsertTheTokenTyped == ASSUME Typed, NEW c \in Call, InsertTheToken(c) PROVE Typed'
<1> DEFINE k == call[c]
           n == NewToken
           next == Proceeds(k)
           l == [next EXCEPT !.token = n, !.left = RefreshTokenTTL]
<1>1. /\ Sends(c, "insert_token") /\ InsertToken(n, k.user) /\ Becomes(c, l)
      /\ UNCHANGED <<users, cachedUsers, cachedTokens>>
  BY DEF InsertTheToken
<1>2. /\ k \in InFlight /\ k.op \in Issuing /\ Left(k) = 2 /\ k.user \in User /\ k.token = NoToken
      /\ k.op = "register" => k.data \in Document
  BY <1>1, Sent, Places DEF Knows, Issuing
<1>3. Cardinality(Waiting \ {c}) \in Nat /\ Cardinality(Waiting) = Cardinality(Waiting \ {c}) + 1
  BY <1>1, FreshToken
<1>4. n \in Token
  BY <1>1, FreshToken
<1>5. StoreTypeOK'
  BY <1>1, <1>2, <1>4, StoreSteps DEF Typed, TypeOK
<1>6. next \in InFlight /\ InSequence(next) /\ Left(next) = 1 /\ SameButTodo(k, next)
  BY <1>1, <1>2, Sent
<1> HIDE DEF n, next
<1>7. /\ l \in InFlight /\ l.op = k.op /\ l.token = n /\ l.todo = next.todo
      /\ l.user = k.user /\ l.data = k.data
  <2>1. RefreshTokenTTL \in 0 .. RefreshTokenTTL
    BY StoreAssumption
  <2> QED BY <1>4, <1>6, <2>1 DEF InFlight, SameButTodo
<1> HIDE DEF l
<1>8. InSequence(l) /\ Knows(l)
  <2>1. InSequence(l) /\ Left(l) = 1
    BY <1>6, <1>7 DEF InSequence, Left, SameButTodo
  <2> QED BY <1>2, <1>4, <1>7, <2>1 DEF Knows, Issuing
<1>9. TypeOK' /\ \A d \in Call : ~Idle(d)' => InSequence(call'[d]) /\ Knows(call'[d])
  BY <1>1, <1>5, <1>7, <1>8 DEF Typed, TypeOK, Becomes, Idle
<1>10. TokensLeft'
  <2>1. Issued' \subseteq Issued \cup {n}
    BY <1>1, <1>4 DEF Issued, InsertToken, Typed, TypeOK, StoreTypeOK
  <2>2. Waiting' \subseteq Waiting \ {c}
    BY <1>1, <1>4, <1>7, IdsInRange DEF Waiting, Becomes, Typed, TypeOK
  <2>3. Cardinality(Issued') \in Nat /\ Cardinality(Issued') <= Cardinality(Issued) + 1
    BY <2>1, OneMore, CountedTokens
  <2>4. Cardinality(Waiting') \in Nat /\ Cardinality(Waiting') <= Cardinality(Waiting \ {c})
    <3>1. IsFiniteSet(Waiting \ {c})
      BY CountedTokens, FS_RemoveElement
    <3> QED BY <2>2, <3>1, FS_Subset, FS_CardinalityType
  <2> QED BY <1>1, <1>3, <2>3, <2>4, CountedTokens DEF TokensLeft, Typed, Becomes
<1> QED BY <1>9, <1>10 DEF Typed

LEMMA ReadCachedTokenTyped == ASSUME Typed, NEW c \in Call, ReadCachedToken(c) PROVE Typed'
<1> DEFINE k == call[c]
           l == [k EXCEPT !.todo = <<>>]
<1>1. Sends(c, "cached_token") /\ (Reads(c, l) \/ Reads(c, Proceeds(k)))
  BY DEF ReadCachedToken
<1>2. /\ ~Idle(c) /\ k \in InFlight /\ Knows(k) /\ k.op = "refresh" /\ Left(k) = 3
      /\ SameButTodo(k, Proceeds(k)) /\ Left(Proceeds(k)) = 2
  BY <1>1, Sent, Places
<1>3. CASE Reads(c, l)
  <2>1. l \in InFlight /\ l.todo = <<>> /\ SameButTodo(k, l)
    BY <1>2, EmptySeq DEF InFlight, SameButTodo
  <2> HIDE DEF l
  <2>2. InSequence(l) /\ Left(l) = 0
    BY <1>2, <2>1, Stops DEF SameButTodo, Operations
  <2>3. Knows(l)
    BY <1>2, <2>1, <2>2 DEF Knows, SameButTodo, Issuing
  <2> QED BY <1>2, <1>3, <2>1, <2>2, <2>3, ReadTyped DEF SameButTodo
<1>4. CASE Reads(c, Proceeds(k))
  <2>1. Knows(Proceeds(k))
    BY <1>2 DEF Knows, SameButTodo, Issuing
  <2> QED BY <1>1, <1>4, <2>1, ReadsProceedsTyped
<1> QED BY <1>1, <1>3, <1>4

LEMMA FindTokenTyped == ASSUME Typed, NEW c \in Call, FindToken(c) PROVE Typed'
<1> DEFINE k == call[c]
           next == Proceeds(k)
           l == [next EXCEPT !.left = tokens[k.token].left]
<1>1. /\ Sends(c, "find_token")
      /\ (ValidToken(k.token) /\ Reads(c, l)) \/ Reads(c, Fails(k, "invalid"))
  BY DEF FindToken
<1>2. /\ ~Idle(c) /\ k \in InFlight /\ Knows(k) /\ k.op = "refresh" /\ Left(k) = 2
      /\ next \in InFlight /\ SameButTodo(k, next)
  BY <1>1, Sent, Places
<1>3. CASE ValidToken(k.token) /\ Reads(c, l)
  <2>1. k.token \in Token
    BY <1>2 DEF Knows
  <2>2. tokens[k.token].left \in 0 .. RefreshTokenTTL
    BY <1>3, <2>1 DEF ValidToken, Typed, TypeOK, StoreTypeOK, TokenDocument, NotIssued
  <2> HIDE DEF next
  <2>3. l \in InFlight /\ l.todo = next.todo /\ l.op = k.op /\ l.user = k.user /\ l.token = k.token
    BY <1>2, <2>2 DEF InFlight, SameButTodo
  <2> HIDE DEF l
  <2>4. InSequence(l) /\ Left(l) = 1
    BY <1>1, <1>2, <2>3, Continues DEF next
  <2>5. Knows(l)
    BY <1>2, <2>3, <2>4 DEF Knows, Issuing
  <2> QED BY <1>2, <1>3, <2>3, <2>4, <2>5, ReadTyped
<1>4. CASE Reads(c, Fails(k, "invalid"))
  BY <1>1, <1>4, ReadsFailsTyped DEF Codes
<1> QED BY <1>1, <1>3, <1>4

LEMMA CacheTheTokenTyped == ASSUME Typed, NEW c \in Call, CacheTheToken(c) PROVE Typed'
<1> DEFINE k == call[c]
           next == Proceeds(k)
           l == [next EXCEPT !.left = 0]
<1>1. /\ Sends(c, "cache_token") /\ CacheToken(k.token, k.left) /\ Becomes(c, l)
      /\ UNCHANGED <<users, tokens, cachedUsers>>
  BY DEF CacheTheToken
<1>2. /\ ~Idle(c) /\ k \in InFlight /\ Knows(k) /\ k.op \in Issuing \cup {"refresh"} /\ Left(k) = 1
      /\ next \in InFlight /\ SameButTodo(k, next)
  BY <1>1, Sent, Places
<1>3. k.token \in Token /\ k.left \in 0 .. RefreshTokenTTL
  BY <1>2 DEF Knows, InFlight
<1>4. StoreTypeOK'
  BY <1>1, <1>3, StoreSteps DEF Typed, TypeOK
<1> HIDE DEF next
<1>5. /\ l \in InFlight /\ l.todo = next.todo /\ l.op = k.op /\ l.user = k.user
      /\ l.token = k.token /\ l.data = k.data
  BY <1>2, StoreAssumption DEF InFlight, SameButTodo
<1> HIDE DEF l
<1>6. InSequence(l) /\ Left(l) = 0
  BY <1>1, <1>2, <1>5, Continues DEF next
<1>7. Knows(l)
  BY <1>2, <1>5, <1>6 DEF Knows, Issuing
<1> QED BY <1>1, <1>2, <1>4, <1>5, <1>6, <1>7, CommandTyped

LEMMA LogoutTyped ==
    ASSUME Typed, NEW c \in Call,
           DeleteTheToken(c) \/ UncacheTheToken(c) \/ DeleteAllTokens(c)
    PROVE  Typed'
<1> DEFINE k == call[c]
<1>1. CASE DeleteTheToken(c)
  <2>1. /\ Sends(c, "delete_token") /\ Becomes(c, Proceeds(k)) /\ DeleteToken(k.token)
        /\ UNCHANGED <<users, cachedUsers, cachedTokens>>
    BY <1>1 DEF DeleteTheToken
  <2>2. k.op = "logout" /\ Left(k) = 2 /\ Knows(k) /\ SameButTodo(k, Proceeds(k))
    BY <2>1, Sent, Places
  <2>3. Knows(Proceeds(k)) /\ k.token \in Token
    BY <2>2 DEF Knows, SameButTodo, Issuing
  <2>4. StoreTypeOK'
    BY <2>1, <2>3, StoreSteps DEF Typed, TypeOK
  <2>5. \A t \in Token : tokens[t] = NotIssued => tokens'[t] = NotIssued
    BY <2>1 DEF Typed, TypeOK, StoreTypeOK, DeleteToken, NotIssued
  <2> QED BY <2>1, <2>3, <2>4, <2>5, ProceedsTyped
<1>2. CASE UncacheTheToken(c)
  <2>1. /\ Sends(c, "uncache_token") /\ Becomes(c, Proceeds(k)) /\ UncacheTokens({k.token})
        /\ UNCHANGED <<users, tokens, cachedUsers>>
    BY <1>2 DEF UncacheTheToken
  <2>2. Knows(Proceeds(k))
    BY <2>1, Sent, Places DEF Knows, SameButTodo, Issuing
  <2>3. StoreTypeOK'
    BY <2>1, StoreSteps DEF Typed, TypeOK
  <2> QED BY <2>1, <2>2, <2>3, ProceedsTyped
<1>3. CASE DeleteAllTokens(c)
  <2>1. /\ Sends(c, "delete_tokens") /\ Becomes(c, Proceeds(k)) /\ DeleteTokensOf(k.user)
        /\ UNCHANGED <<users, cachedUsers, cachedTokens>>
    BY <1>3 DEF DeleteAllTokens
  <2>2. Knows(Proceeds(k)) /\ k.user \in User
    BY <2>1, Sent, Places DEF Knows, SameButTodo, Issuing
  <2>3. StoreTypeOK' /\ \A t \in Token : tokens[t] = NotIssued => tokens'[t] = NotIssued
    BY <2>1, <2>2, StoreSteps DEF Typed, TypeOK, StoreTypeOK, DeleteTokensOf, NotIssued
  <2> QED BY <2>1, <2>2, <2>3, ProceedsTyped
<1> QED BY <1>1, <1>2, <1>3

LEMMA ListTyped ==
    ASSUME Typed, NEW c \in Call, ListTokens(c) \/ UncacheListed(c)
    PROVE  Typed'
<1> DEFINE k == call[c]
           next == Proceeds(k)
<1>1. ASSUME NEW command, NEW found \in SUBSET Token, Sends(c, command), k.op = "logout_all",
             k.user \in User, StoreTypeOK', tokens' = tokens,
             Becomes(c, [next EXCEPT !.found = found])
      PROVE  Typed'
  <2> DEFINE l == [next EXCEPT !.found = found]
  <2>1. ~Idle(c) /\ next \in InFlight /\ SameButTodo(k, next) /\ Knows(k)
    BY <1>1, Sent
  <2> HIDE DEF next
  <2>2. l \in InFlight /\ l.todo = next.todo /\ l.op = k.op /\ l.user = k.user /\ l.token = k.token
    BY <2>1, <1>1 DEF InFlight, SameButTodo
  <2>3. Becomes(c, l)
    BY <1>1
  <2> HIDE DEF l
  <2>4. InSequence(l)
    BY <1>1, <2>2, Continues DEF next
  <2>5. Knows(l)
    BY <1>1, <2>1, <2>2 DEF Knows, Issuing
  <2> QED BY <1>1, <2>1, <2>2, <2>3, <2>4, <2>5, CommandTyped
<1>2. CASE ListTokens(c)
  <2>1. /\ Sends(c, "list_tokens") /\ UNCHANGED storeVars
        /\ Becomes(c, [next EXCEPT !.found = ValidTokensOf(k.user)])
    BY <1>2 DEF ListTokens, Reads
  <2>2. k.op = "logout_all" /\ k.user \in User
    BY <2>1, Sent, Places DEF Knows
  <2>3. ValidTokensOf(k.user) \in SUBSET Token /\ StoreTypeOK' /\ tokens' = tokens
    BY <2>1, StoreTypes DEF ValidTokensOf, Typed, TypeOK, storeVars
  <2> QED BY <1>1, <2>1, <2>2, <2>3
<1>3. CASE UncacheListed(c)
  <2>1. /\ Sends(c, "uncache_tokens") /\ UncacheTokens(k.found)
        /\ Becomes(c, [next EXCEPT !.found = {}]) /\ UNCHANGED <<users, tokens, cachedUsers>>
    BY <1>3 DEF UncacheListed
  <2>2. k.op = "logout_all" /\ k.user \in User
    BY <2>1, Sent, Places DEF Knows
  <2>3. StoreTypeOK'
    BY <2>1, StoreSteps DEF Typed, TypeOK
  <2>4. {} \in SUBSET Token
    OBVIOUS
  <2> QED BY <1>1, <2>1, <2>2, <2>3, <2>4
<1> QED BY <1>2, <1>3

LEMMA CachedUserTyped ==
    ASSUME Typed, NEW c \in Call, ReadCachedUser(c) \/ CacheTheUser(c) \/ UncacheTheUser(c)
    PROVE  Typed'
<1> DEFINE k == call[c]
<1>1. CASE ReadCachedUser(c)
  <2> DEFINE l == [k EXCEPT !.todo = <<>>, !.data = cachedUsers[k.user].data]
  <2>1. /\ Sends(c, "cached_user")
        /\ \/ Reads(c, Proceeds(k))
           \/ cachedUsers[k.user] /= NotCached /\ Reads(c, l)
    BY <1>1 DEF ReadCachedUser
  <2>2. /\ ~Idle(c) /\ k \in InFlight /\ Knows(k) /\ k.op = "get_user" /\ Left(k) = 3
        /\ SameButTodo(k, Proceeds(k)) /\ Left(Proceeds(k)) = 2
    BY <2>1, Sent, Places
  <2>3. CASE Reads(c, Proceeds(k))
    <3>1. Knows(Proceeds(k))
      BY <2>2 DEF Knows, SameButTodo, Issuing
    <3> QED BY <2>1, <2>3, <3>1, ReadsProceedsTyped
  <2>4. CASE cachedUsers[k.user] /= NotCached /\ Reads(c, l)
    <3>1. k.user \in User
      BY <2>2 DEF Knows
    <3>2. cachedUsers[k.user].data \in Document
      BY <2>4, <3>1 DEF Typed, TypeOK, StoreTypeOK
    <3>3. /\ l \in InFlight /\ l.todo = <<>> /\ l.op = k.op /\ l.user = k.user
          /\ l.token = k.token
      BY <2>2, <3>2, EmptySeq DEF InFlight, Document
    <3>4. Reads(c, l)
      BY <2>4
    <3> HIDE DEF l
    <3>5. InSequence(l) /\ Left(l) = 0
      BY <2>2, <3>3, Stops DEF Operations
    <3>6. Knows(l)
      BY <2>2, <3>3, <3>5 DEF Knows, Issuing
    <3> QED BY <2>2, <3>3, <3>4, <3>5, <3>6, ReadTyped
  <2> QED BY <2>1, <2>3, <2>4
<1>2. CASE CacheTheUser(c)
  <2>1. /\ Sends(c, "cache_user") /\ CacheUser(k.user, k.data) /\ Becomes(c, Proceeds(k))
        /\ UNCHANGED <<users, tokens, cachedTokens>>
    BY <1>2 DEF CacheTheUser
  <2>2. /\ Knows(k) /\ k.op = "get_user" /\ Left(k) = 1
        /\ SameButTodo(k, Proceeds(k)) /\ Left(Proceeds(k)) = 0
    BY <2>1, Sent, Places
  <2>3. Knows(Proceeds(k)) /\ k.user \in User /\ k.data \in Document
    BY <2>2 DEF Knows, SameButTodo, Issuing
  <2>4. StoreTypeOK'
    BY <2>1, <2>3, StoreSteps DEF Typed, TypeOK
  <2> QED BY <2>1, <2>3, <2>4, ProceedsTyped
<1>3. CASE UncacheTheUser(c)
  <2>1. /\ Sends(c, "uncache_user") /\ UncacheUser(k.user) /\ Becomes(c, Proceeds(k))
        /\ UNCHANGED <<users, tokens, cachedTokens>>
    BY <1>3 DEF UncacheTheUser
  <2>2. /\ Knows(k) /\ k.op \in {"update_user", "delete_user"}
        /\ SameButTodo(k, Proceeds(k)) /\ Left(Proceeds(k)) = 0
    BY <2>1, Sent, Places
  <2>3. Knows(Proceeds(k)) /\ k.user \in User
    BY <2>2 DEF Knows, SameButTodo, Issuing
  <2>4. StoreTypeOK'
    BY <2>1, <2>3, StoreSteps DEF Typed, TypeOK
  <2> QED BY <2>1, <2>3, <2>4, ProceedsTyped
<1> QED BY <1>1, <1>2, <1>3

LEMMA FindUserTyped == ASSUME Typed, NEW c \in Call, FindUser(c) PROVE Typed'
<1> DEFINE k == call[c]
           next == Proceeds(k)
           l == [next EXCEPT !.data = users[k.user].data]
<1>1. PICK command \in {"find_user", "reread_user"} : Sends(c, command)
  BY DEF FindUser
<1>2. (LiveUser(k.user) /\ Reads(c, l)) \/ Reads(c, Fails(k, "not_found"))
  BY DEF FindUser
<1>3. /\ ~Idle(c) /\ k \in InFlight /\ Knows(k) /\ k.op \in {"get_user", "update_user"}
      /\ Left(k) = 2 /\ next \in InFlight /\ SameButTodo(k, next)
  BY <1>1, Sent, Places
<1>4. CASE LiveUser(k.user) /\ Reads(c, l)
  <2>1. k.user \in User
    BY <1>3 DEF Knows
  <2>2. users[k.user].data \in Document
    BY <1>4, <2>1 DEF LiveUser, Typed, TypeOK, StoreTypeOK, UserDocument, NotRegistered, Deleted
  <2> HIDE DEF next
  <2>3. /\ l \in InFlight /\ l.todo = next.todo /\ l.op = k.op /\ l.user = k.user
        /\ l.token = k.token /\ l.data \in Document
    BY <1>3, <2>2 DEF InFlight, SameButTodo, Document
  <2> HIDE DEF l
  <2>4. InSequence(l) /\ Left(l) = 1
    BY <1>1, <1>3, <2>3, Continues DEF next
  <2>5. Knows(l)
    BY <1>3, <2>3, <2>4 DEF Knows, Issuing
  <2> QED BY <1>3, <1>4, <2>3, <2>4, <2>5, ReadTyped DEF Issuing
<1>5. CASE Reads(c, Fails(k, "not_found"))
  BY <1>1, <1>5, ReadsFailsTyped DEF Codes
<1> QED BY <1>2, <1>4, <1>5

LEMMA UpdatedDocument ==
    ASSUME NEW d \in Document, NEW k \in InFlight
    PROVE  Updated(d, k.data) \in Document
BY DEF Updated, Document, InFlight

LEMMA WriteUserTyped ==
    ASSUME Typed, NEW c \in Call, WriteUser(c) \/ RemoveTheUser(c)
    PROVE  Typed'
<1> DEFINE k == call[c]
<1>1. CASE WriteUser(c)
  <2> DEFINE data == Updated(users[k.user].data, k.data)
  <2>1. Sends(c, "write_user") /\ UNCHANGED <<tokens, cachedUsers, cachedTokens>>
    BY <1>1 DEF WriteUser
  <2>2. /\ k \in InFlight /\ Knows(k) /\ k.op = "update_user" /\ Left(k) = 3
        /\ SameButTodo(k, Proceeds(k)) /\ Left(Proceeds(k)) = 2
    BY <2>1, Sent, Places
  <2>3. Knows(Proceeds(k)) /\ k.user \in User
    BY <2>2 DEF Knows, SameButTodo, Issuing
  <2>4. CASE LiveUser(k.user) /\ ~EmailIndexed(k.user, data.email)
    <3>1. PutUser(k.user, data) /\ Becomes(c, Proceeds(k))
      BY <1>1, <2>4 DEF WriteUser
    <3>2. users[k.user].data \in Document
      BY <2>3, <2>4
         DEF LiveUser, Typed, TypeOK, StoreTypeOK, UserDocument, NotRegistered, Deleted
    <3>3. data \in Document
      BY <2>2, <3>2, UpdatedDocument
    <3> HIDE DEF data
    <3>4. StoreTypeOK'
      BY <2>1, <2>3, <3>1, <3>3, StoreSteps DEF Typed, TypeOK
    <3> QED BY <2>1, <2>3, <3>1, <3>4, ProceedsTyped
  <2>5. CASE ~(LiveUser(k.user) /\ ~EmailIndexed(k.user, data.email))
    <3>1. \E code \in {"not_found", "duplicate"} :
            Becomes(c, Fails(k, code)) /\ UNCHANGED users
      BY <1>1, <2>5 DEF WriteUser
    <3> QED BY <2>1, <3>1, FailsTyped DEF Codes, storeVars
  <2> QED BY <2>4, <2>5
<1>2. CASE RemoveTheUser(c)
  <2>1. /\ Sends(c, "remove_user") /\ RemoveUser(k.user)
        /\ UNCHANGED <<tokens, cachedUsers, cachedTokens>>
        /\ Becomes(c, IF LiveUser(k.user) THEN Proceeds(k) ELSE Fails(k, "not_found"))
    BY <1>2 DEF RemoveTheUser
  <2>2. /\ Knows(k) /\ k.op = "delete_user" /\ Left(k) = 2
        /\ SameButTodo(k, Proceeds(k)) /\ Left(Proceeds(k)) = 1
    BY <2>1, Sent, Places
  <2>3. Knows(Proceeds(k)) /\ k.user \in User
    BY <2>2 DEF Knows, SameButTodo, Issuing
  <2>4. CASE LiveUser(k.user)
    <3>1. StoreTypeOK'
      BY <2>1, <2>3, StoreSteps DEF Typed, TypeOK
    <3> QED BY <2>1, <2>3, <2>4, <3>1, ProceedsTyped
  <2>5. CASE ~LiveUser(k.user)
    BY <2>1, <2>5, FailsTyped DEF RemoveUser, Codes, storeVars
  <2> QED BY <2>4, <2>5
<1> QED BY <1>1, <1>2

LEMMA RefuseTyped == ASSUME Typed, NEW c \in Call, Refuse(c) PROVE Typed'
<1> DEFINE k == call[c]
           command == Head(k.todo)
           store == IF command \in StoreCommands THEN "store" ELSE "cache"
           code == IF command \in DOMAIN ErrorMistaken THEN ErrorMistaken[command] ELSE "error"
<1>1. IF command \in ErrorIgnored
        THEN Reads(c, [[Proceeds(k) EXCEPT !.left = 0] EXCEPT !.refused = store])
        ELSE Reads(c, [Fails(k, code) EXCEPT !.refused = store])
  BY DEF Refuse
<1>2. Sends(c, command)
  BY DEF Refuse, Sends
<1>3. /\ ~Idle(c) /\ k \in InFlight /\ Knows(k) /\ Proceeds(k) \in InFlight
      /\ SameButTodo(k, Proceeds(k)) /\ k.op \in Operations
      /\ Left(k) \in 1 .. Len(Final[k.op]) /\ Final[k.op][Left(k)] = command
      /\ Left(Proceeds(k)) = Left(k) - 1
  BY <1>2, Sent
<1>4. CASE command \in ErrorIgnored
  <2> DEFINE next == Proceeds(k)
             now == [next EXCEPT !.left = 0]
             l == [now EXCEPT !.refused = store]
  <2>1. Reads(c, l) /\ store \in {"store", "cache"}
    BY <1>1, <1>4
  <2>2. next \in InFlight /\ SameButTodo(k, next)
    BY <1>3
  <2> HIDE DEF next, store
  <2>7. now \in InFlight /\ now.todo = next.todo /\ SameButTodo([k EXCEPT !.left = 0], now)
    BY <1>3, <2>2, StoreAssumption DEF InFlight, SameButTodo
  <2> HIDE DEF now
  <2>3. /\ l \in InFlight /\ l.todo = next.todo /\ l.op = k.op /\ l.user = k.user
        /\ l.token = k.token /\ l.data = k.data
    BY <1>3, <2>1, <2>7 DEF InFlight, SameButTodo
  <2> HIDE DEF l
  <2>4. InSequence(l) /\ Left(l) = Left(k) - 1
    BY <1>2, <2>3, Continues DEF next
  <2>5. \/ k.op \in {"register", "update_user"} /\ Left(k) = 4
        \/ k.op \in Issuing \cup {"refresh"} /\ Left(k) = 1
        \/ k.op = "logout" /\ Left(k) = 1
        \/ k.op = "logout_all" /\ Left(k) = 2
        \/ k.op = "refresh" /\ Left(k) = 3
        \/ k.op = "get_user" /\ Left(k) \in {1, 3}
        \/ k.op \in {"update_user", "delete_user"} /\ Left(k) = 1
    BY <1>3, <1>4, Places DEF ErrorIgnored
  <2>6. Knows(l)
    BY <1>3, <2>3, <2>4, <2>5 DEF Knows, Issuing
  <2> QED BY <1>3, <2>1, <2>3, <2>4, <2>6, ReadTyped
<1>5. CASE command \notin ErrorIgnored
  <2> DEFINE next == Fails(k, code)
             l == [next EXCEPT !.refused = store]
  <2>1. Reads(c, l) /\ store \in {"store", "cache"} /\ code \in Codes
    BY <1>1, <1>5 DEF ErrorMistaken, Codes
  <2> HIDE DEF code, store
  <2>2. /\ next \in InFlight /\ Knows(next) /\ next.todo = <<>> /\ Left(next) = 0
        /\ next.op = k.op /\ next.token = k.token
    BY <1>3, <2>1, Ending DEF Fails, InFlight
  <2> HIDE DEF next
  <2>3. /\ l \in InFlight /\ l.todo = <<>> /\ l.op = next.op /\ l.user = next.user
        /\ l.token = next.token /\ l.data = next.data
    BY <2>1, <2>2 DEF InFlight
  <2> HIDE DEF l
  <2>4. InSequence(l) /\ Left(l) = 0
    BY <1>3, <2>2, <2>3, Stops
  <2>5. Knows(l)
    BY <2>2, <2>3, <2>4 DEF Knows
  <2> QED BY <1>3, <2>1, <2>2, <2>3, <2>4, <2>5, ReadTyped
<1> QED BY <1>1, <1>4, <1>5

LEMMA RespondTyped == ASSUME Typed, NEW c \in Call, Respond(c) PROVE Typed'
<1> DEFINE k == call[c]
<1>1. /\ call' = [call EXCEPT ![c] = NoCall] /\ UNCHANGED <<storeVars, scenario>> /\ ~Idle(c)
      /\ ended' \subseteq ended \cup (Subject(k) \cap Token)
      /\ suspect' \subseteq suspect \cup Subject(k)
  BY DEF Respond
<1>2. k \in InFlight /\ Knows(k)
  BY <1>1 DEF Typed, TypeOK, Idle, NoCall
<1>3. Subject(k) \subseteq User \cup Token
  BY <1>2 DEF Subject, Knows, InFlight, Operations
<1>4. TypeOK'
  BY <1>1, <1>3, StoreTypes DEF Typed, TypeOK
<1>5. \A d \in Call : ~Idle(d)' => InSequence(call'[d]) /\ Knows(call'[d])
  BY <1>1 DEF Typed, TypeOK, Idle, NoCall
<1>6. Issued' \subseteq Issued /\ Waiting' \subseteq Waiting
  BY <1>1 DEF Issued, Waiting, storeVars, NoCall, Issuing, Typed, TypeOK
<1> QED BY <1>1, <1>4, <1>5, <1>6, FewerTokens DEF Typed

LEMMA OutsideTyped == ASSUME Typed, Evict \/ Tick PROVE Typed'
<1>1. UNCHANGED <<scenario, call, ended, suspect>> /\ StoreTypeOK'
  <2>1. CASE Evict
    <3>1. ASSUME NEW u \in User, UncacheUser(u), UNCHANGED cachedTokens PROVE StoreTypeOK'
      BY <2>1, <3>1, StoreSteps DEF Evict, Typed, TypeOK
    <3>2. ASSUME NEW k \in Token, UncacheTokens({k}), UNCHANGED cachedUsers PROVE StoreTypeOK'
      BY <2>1, <3>2, StoreSteps DEF Evict, Typed, TypeOK
    <3> QED BY <2>1, <3>1, <3>2 DEF Evict
  <2>2. CASE Tick
    BY <2>2, StoreSteps DEF Tick, Typed, TypeOK
  <2> QED BY <2>1, <2>2
<1>2. \A k \in Token : tokens[k] = NotIssued => tokens'[k] = NotIssued
  BY DEF Evict, Tick, PassTime, NotIssued
<1>3. Issued' \subseteq Issued /\ Waiting' \subseteq Waiting
  BY <1>1, <1>2 DEF Issued, Waiting
<1> QED BY <1>1, <1>3, FewerTokens DEF Typed, TypeOK, Idle

\* What a request is as it arrives.
Arriving(k, op, u, s, data, token) ==
    /\ k = [field \in DOMAIN k |-> k[field]]
    /\ DOMAIN k = {"op", "todo", "user", "data", "token", "left", "found",
                   "code", "refused", "met"}
    /\ k.op = op /\ k.user = u /\ k.todo = s /\ k.data = data /\ k.token = token
    /\ k.left = 0 /\ k.found = {} /\ k.code = "ok" /\ k.refused = "none" /\ k.met = {}

LEMMA ArrivingRequest ==
    ASSUME NEW op \in Operations, NEW u \in User \cup {NoUser}, NEW s \in Seq(Commands)
    PROVE  Arriving(Request(op, u, s), op, u, s, NoDocument, NoToken)
BY DEF Request, NoCall, Arriving

LEMMA ArrivingAbout ==
    ASSUME NEW op \in Operations, NEW u \in User \cup {NoUser}, NEW s \in Seq(Commands), NEW token
    PROVE  Arriving([Request(op, u, s) EXCEPT !.token = token], op, u, s, NoDocument, token)
BY ArrivingRequest DEF Arriving

LEMMA ArrivingWith ==
    ASSUME NEW op \in Operations, NEW u \in User \cup {NoUser}, NEW s \in Seq(Commands), NEW data
    PROVE  Arriving([Request(op, u, s) EXCEPT !.data = data], op, u, s, data, NoToken)
<1> DEFINE r == Request(op, u, s)
           k == [r EXCEPT !.data = data]
<1>1. Arriving(r, op, u, s, NoDocument, NoToken)
  BY ArrivingRequest
<1> HIDE DEF r
<1>2. /\ DOMAIN k = DOMAIN r /\ k = [field \in DOMAIN k |-> k[field]]
      /\ "data" \in DOMAIN r
      /\ \A field \in DOMAIN r : k[field] = IF field = "data" THEN data ELSE r[field]
  BY <1>1 DEF Arriving
<1> HIDE DEF k
<1>3. /\ k.op = op /\ k.user = u /\ k.todo = s /\ k.data = data /\ k.token = NoToken
      /\ k.left = 0 /\ k.found = {} /\ k.code = "ok" /\ k.refused = "none" /\ k.met = {}
  BY <1>1, <1>2 DEF Arriving
<1>4. Arriving(k, op, u, s, data, NoToken)
  BY <1>1, <1>2, <1>3 DEF Arriving
<1> QED BY <1>4 DEF k, r

LEMMA ArrivingLogin ==
    ASSUME NEW s \in Seq(Commands), NEW email
    PROVE  Arriving([Request("login", NoUser, s) EXCEPT !.data.email = email],
                    "login", NoUser, s, [email |-> email, name |-> NoName], NoToken)
<1> DEFINE r == Request("login", NoUser, s)
           data == [r.data EXCEPT !.email = email]
<1>1. [r EXCEPT !.data.email = email] = [r EXCEPT !.data = data]
  OBVIOUS
<1>2. Arriving([r EXCEPT !.data = data], "login", NoUser, s, data, NoToken)
  BY ArrivingWith DEF Operations
<1>3. r.data = NoDocument
  BY DEF Request, NoCall
<1> HIDE DEF r
<1>4. data = [email |-> email, name |-> NoName]
  BY <1>3 DEF NoDocument
<1> QED BY <1>1, <1>2, <1>4 DEF r

\* Everything that is known of one that has arrived in slot c.
Arrived(c, k) ==
    /\ Idle(c) /\ Starts(c, k)
    /\ k \in InFlight /\ InSequence(k) /\ Knows(k)
    /\ k.left = 0 /\ k.found = {} /\ k.code = "ok" /\ k.refused = "none" /\ k.met = {}
    /\ Left(k) = Len(Final[k.op]) \/ (k.op = "update_user" /\ Left(k) = 3)
    /\ k.op \in Issuing => MayIssue /\ k.token = NoToken
    /\ k.op = "login" => k.user = NoUser
    /\ k.op = "register" => k.user \in NewUsers
    /\ k.op \in {"refresh", "logout"} => k.token \in Presentable /\ k.user = tokens[k.token].user
    /\ k.op \in {"logout_all", "get_user", "update_user", "delete_user"} => k.user \in Registered
    /\ k.op = "update_user" => k.data.email = NoEmail \/ Left(k) = 4

\* What an operation starts from.
Warranted(op, u, s, data, token) ==
    /\ Rest(op, s)
    /\ Len(s) = Len(Final[op]) \/ (op = "update_user" /\ Len(s) = 3)
    /\ u \in User \/ (op = "login" /\ u = NoUser)
    /\ data \in [email : Email \cup {NoEmail}, name : Name \cup {NoName}]
    /\ op \in Issuing => MayIssue /\ token = NoToken /\ Len(s) > 2
    /\ op = "register" => u \in NewUsers /\ data \in Document
    /\ op = "login" => u = NoUser
    /\ op \in {"refresh", "logout"} => token \in Presentable /\ u = tokens[token].user
    /\ op \notin Issuing \cup {"refresh", "logout"} => token = NoToken /\ u \in Registered
    /\ op = "get_user" => Len(s) > 1
    /\ op = "update_user" => data.email = NoEmail \/ Len(s) = 4

LEMMA ArrivedKnowing ==
    ASSUME Typed, NEW c \in Call, Idle(c), NEW op \in Operations, NEW u, NEW s, NEW data, NEW token,
           Warranted(op, u, s, data, token),
           NEW k, Arriving(k, op, u, s, data, token), Starts(c, k)
    PROVE  Arrived(c, k)
<1>0. /\ Rest(op, s)
      /\ data \in [email : Email \cup {NoEmail}, name : Name \cup {NoName}]
      /\ u \in User \cup {NoUser}
      /\ op /= "login" => u \in User
      /\ op \in Issuing => token = NoToken /\ Len(s) > 2
      /\ op \in {"refresh", "logout"} => token \in Token
      /\ op \notin Issuing \cup {"refresh", "logout"} => token = NoToken
      /\ token \in Token \cup {NoToken}
      /\ op = "register" => data \in Document
      /\ op = "get_user" => Len(s) > 1
  BY DEF Warranted, Presentable, Issued
<1>1. k.op = op /\ k.todo = s /\ k.user = u /\ k.data = data /\ k.token = token
  BY DEF Arriving
<1>2. k \in InFlight
  BY <1>0, StoreAssumption DEF Arriving, InFlight, Codes, Rest
<1>3. Len(s) \in Nat /\ Left(k) = Len(s)
  BY <1>0, <1>1 DEF Rest, Left
<1>4. Knows(k)
  <2>1. k.op \in Issuing => Left(k) > 2 /\ k.token = NoToken
    BY <1>0, <1>1, <1>3
  <2>2. k.op = "get_user" => Left(k) > 1
    BY <1>0, <1>1, <1>3
  <2>3. /\ k.op \in {"refresh", "logout"} => k.token \in Token
        /\ k.op \notin Issuing \cup {"refresh", "logout"} => k.token = NoToken
        /\ k.op = "register" => k.data \in Document
    BY <1>0, <1>1
  <2>4. k.op \in Issuing => Left(k) \notin {1, 2}
    BY <1>3, <2>1
  <2>5. k.op \in Issuing => ~(Left(k) = 1)
    BY <2>4
  <2>6. k.op = "login" => k.op \in Issuing
    BY DEF Issuing
  <2>7. k.op /= "login" \/ Left(k) \in {1, 2} => k.user \in User
    BY <1>0, <1>1, <2>4, <2>6
  <2> QED BY <1>3, <2>1, <2>2, <2>3, <2>5, <2>7 DEF Knows
<1>5. InSequence(k)
  BY <1>0, <1>1 DEF InSequence
<1>6. /\ k.op = "login" => k.user = NoUser
      /\ k.op = "register" => k.user \in NewUsers
      /\ k.op \in {"refresh", "logout"} =>
           k.token \in Presentable /\ k.user = tokens[k.token].user
      /\ k.op \in {"logout_all", "get_user", "update_user", "delete_user"} =>
           k.user \in Registered
      /\ k.op \in Issuing => MayIssue /\ k.token = NoToken
      /\ Left(k) = Len(Final[k.op]) \/ (k.op = "update_user" /\ Left(k) = 3)
      /\ k.op = "update_user" => k.data.email = NoEmail \/ Left(k) = 4
  BY <1>1, <1>3 DEF Warranted, Issuing, Operations
<1>7. k.left = 0 /\ k.found = {} /\ k.code = "ok" /\ k.refused = "none" /\ k.met = {}
  BY DEF Arriving
<1> QED BY <1>1, <1>2, <1>4, <1>5, <1>6, <1>7 DEF Arrived

LEMMA IssuedTokens ==
    ASSUME Typed, NEW k \in Issued
    PROVE  k \in Token /\ tokens[k].user \in User
BY DEF Typed, TypeOK, StoreTypeOK, Issued, TokenDocument

LEMMA Arrives ==
    ASSUME Typed, NEW c \in Call, RequestArrives(c)
    PROVE  \E k : Arrived(c, k)
<1> DEFINE Partial == [email : Email \cup {NoEmail}, name : Name \cup {NoName}]
<1>1. /\ NoDocument \in Partial /\ Document \subseteq Partial
      /\ \A email \in Email : [email |-> email, name |-> NoName] \in Partial
  BY DEF NoDocument, Document
<1>2. NoToken \in Token \cup {NoToken} /\ NoUser \in User \cup {NoUser}
  OBVIOUS
<1>3. /\ {"register", "login", "refresh", "logout", "logout_all",
           "get_user", "update_user", "delete_user"} = Operations
      /\ Issuing = {"register", "login"}
  BY DEF Operations, Issuing
<1>4. \A u \in Registered : u \in User
  BY DEF Registered
<1>5. CASE Register(c)
  <2> DEFINE s == <<"check_email", "insert_user">> \o IssueCommands
  <2>1. PICK u \in NewUsers, email \in Email, name \in Name :
          Starts(c, [Request("register", u, s)
                       EXCEPT !.data = [email |-> email, name |-> name]])
    BY <1>5 DEF Register
  <2> DEFINE data == [email |-> email, name |-> name]
             k == [Request("register", u, s) EXCEPT !.data = data]
  <2>2. Rest("register", s) /\ Len(s) = 4 /\ Len(Final["register"]) = 4
    BY Starting DEF Final
  <2>3. s \in Seq(Commands)
    BY <2>2 DEF Rest
  <2>4. u \in User /\ data \in Document
    BY <1>1, <1>4 DEF NewUsers, Document
  <2>5. Starts(c, k) /\ Arriving(k, "register", u, s, data, NoToken)
    <3> HIDE DEF s
    <3> QED BY <1>2, <1>3, <2>1, <2>3, <2>4, ArrivingWith
  <2>6. Idle(c) /\ MayIssue
    BY <1>5 DEF Register, Accepting
  <2> HIDE DEF s, k, data
  <2>7. Warranted("register", u, s, data, NoToken)
    BY <1>1, <1>3, <2>1, <2>2, <2>4, <2>6 DEF Warranted
  <2> QED BY <1>3, <2>5, <2>6, <2>7, ArrivedKnowing
<1>6. CASE Login(c)
  <2> DEFINE s == <<"find_login">> \o IssueCommands
  <2>1. PICK email \in Email :
          Starts(c, [Request("login", NoUser, s) EXCEPT !.data.email = email])
    BY <1>6 DEF Login
  <2> DEFINE data == [email |-> email, name |-> NoName]
             k == [Request("login", NoUser, s) EXCEPT !.data.email = email]
  <2>2. Rest("login", s) /\ Len(s) = 3 /\ Len(Final["login"]) = 3
    BY Starting DEF Final
  <2>3. s \in Seq(Commands)
    BY <2>2 DEF Rest
  <2>4. data \in Partial
    BY <1>1, <1>4
  <2>5. Starts(c, k) /\ Arriving(k, "login", NoUser, s, data, NoToken)
    <3> HIDE DEF s
    <3> QED BY <1>2, <1>3, <2>1, <2>3, <2>4, ArrivingLogin
  <2>6. Idle(c) /\ MayIssue
    BY <1>6 DEF Login, Accepting
  <2> HIDE DEF s, k, data
  <2>7. Warranted("login", NoUser, s, data, NoToken)
    BY <1>1, <1>3, <2>1, <2>2, <2>4, <2>6 DEF Warranted
  <2> QED BY <1>3, <2>5, <2>6, <2>7, ArrivedKnowing
<1>7. CASE Refresh(c)
  <2> DEFINE s == RefreshCommands
  <2>1. PICK k \in Presentable :
          Starts(c, [Request("refresh", tokens[k].user, s) EXCEPT !.token = k])
    BY <1>7 DEF Refresh
  <2> DEFINE r == [Request("refresh", tokens[k].user, s) EXCEPT !.token = k]
  <2>2. Rest("refresh", s) /\ Len(s) = 3 /\ Len(Final["refresh"]) = 3
    BY Starting DEF Final
  <2>3. s \in Seq(Commands)
    BY <2>2 DEF Rest
  <2>4. k \in Token /\ tokens[k].user \in User
    BY <1>1, <1>4, IssuedTokens DEF Presentable
  <2>5. Starts(c, r) /\ Arriving(r, "refresh", tokens[k].user, s, NoDocument, k)
    <3> HIDE DEF s
    <3> QED BY <1>2, <1>3, <2>1, <2>3, <2>4, ArrivingAbout
  <2>6. Idle(c)
    BY <1>7 DEF Refresh, Accepting
  <2> HIDE DEF s, r
  <2>7. Warranted("refresh", tokens[k].user, s, NoDocument, k)
    BY <1>1, <1>3, <2>1, <2>2, <2>4, <2>6 DEF Warranted
  <2> QED BY <1>3, <2>5, <2>6, <2>7, ArrivedKnowing
<1>8. CASE Logout(c)
  <2> DEFINE s == LogoutCommands
  <2>1. PICK k \in Presentable :
          Starts(c, [Request("logout", tokens[k].user, s) EXCEPT !.token = k])
    BY <1>8 DEF Logout
  <2> DEFINE r == [Request("logout", tokens[k].user, s) EXCEPT !.token = k]
  <2>2. Rest("logout", s) /\ Len(s) = 2 /\ Len(Final["logout"]) = 2
    BY Starting DEF Final
  <2>3. s \in Seq(Commands)
    BY <2>2 DEF Rest
  <2>4. k \in Token /\ tokens[k].user \in User
    BY <1>1, <1>4, IssuedTokens DEF Presentable
  <2>5. Starts(c, r) /\ Arriving(r, "logout", tokens[k].user, s, NoDocument, k)
    <3> HIDE DEF s
    <3> QED BY <1>2, <1>3, <2>1, <2>3, <2>4, ArrivingAbout
  <2>6. Idle(c)
    BY <1>8 DEF Logout, Accepting
  <2> HIDE DEF s, r
  <2>7. Warranted("logout", tokens[k].user, s, NoDocument, k)
    BY <1>1, <1>3, <2>1, <2>2, <2>4, <2>6 DEF Warranted
  <2> QED BY <1>3, <2>5, <2>6, <2>7, ArrivedKnowing
<1>9. CASE LogoutAll(c)
  <2> DEFINE s == LogoutAllCommands
  <2>1. PICK u \in Registered :
          Starts(c, Request("logout_all", u, s))
    BY <1>9 DEF LogoutAll
  <2> DEFINE k == Request("logout_all", u, s)
  <2>2. Rest("logout_all", s) /\ Len(s) = 3 /\ Len(Final["logout_all"]) = 3
    BY Starting DEF Final
  <2>3. s \in Seq(Commands)
    BY <2>2 DEF Rest
  <2>4. u \in User
    BY <1>1, <1>4
  <2>5. Starts(c, k) /\ Arriving(k, "logout_all", u, s, NoDocument, NoToken)
    <3> HIDE DEF s
    <3> QED BY <1>2, <1>3, <2>1, <2>3, <2>4, ArrivingRequest
  <2>6. Idle(c)
    BY <1>9 DEF LogoutAll, Accepting
  <2> HIDE DEF s, k
  <2>7. Warranted("logout_all", u, s, NoDocument, NoToken)
    BY <1>1, <1>3, <2>1, <2>2, <2>4, <2>6 DEF Warranted
  <2> QED BY <1>3, <2>5, <2>6, <2>7, ArrivedKnowing
<1>10. CASE GetUser(c)
  <2> DEFINE s == <<"cached_user", "find_user", "cache_user">>
  <2>1. PICK u \in Registered :
          Starts(c, Request("get_user", u, s))
    BY <1>10 DEF GetUser
  <2> DEFINE k == Request("get_user", u, s)
  <2>2. Rest("get_user", s) /\ Len(s) = 3 /\ Len(Final["get_user"]) = 3
    BY Starting DEF Final
  <2>3. s \in Seq(Commands)
    BY <2>2 DEF Rest
  <2>4. u \in User
    BY <1>1, <1>4
  <2>5. Starts(c, k) /\ Arriving(k, "get_user", u, s, NoDocument, NoToken)
    <3> HIDE DEF s
    <3> QED BY <1>2, <1>3, <2>1, <2>3, <2>4, ArrivingRequest
  <2>6. Idle(c)
    BY <1>10 DEF GetUser, Accepting
  <2> HIDE DEF s, k
  <2>7. Warranted("get_user", u, s, NoDocument, NoToken)
    BY <1>1, <1>3, <2>1, <2>2, <2>4, <2>6 DEF Warranted
  <2> QED BY <1>3, <2>5, <2>6, <2>7, ArrivedKnowing
<1>11. CASE UpdateUser(c)
  <2>1. PICK u \in Registered, email \in Email \cup {NoEmail}, name \in Name \cup {NoName} :
          Starts(c, [Request("update_user", u, UpdateUserCommands(email))
                       EXCEPT !.data = [email |-> email, name |-> name]])
    BY <1>11 DEF UpdateUser
  <2> DEFINE s == UpdateUserCommands(email)
             data == [email |-> email, name |-> name]
             k == [Request("update_user", u, s) EXCEPT !.data = data]
  <2>2. /\ Rest("update_user", s) /\ Len(s) \in {3, 4} /\ Len(Final["update_user"]) = 4
        /\ data.email = NoEmail \/ Len(s) = 4
    BY Starting DEF Final
  <2>3. s \in Seq(Commands)
    BY <2>2 DEF Rest
  <2>4. u \in User /\ data \in Partial
    BY <1>1, <1>4
  <2>5. Starts(c, k) /\ Arriving(k, "update_user", u, s, data, NoToken)
    <3> HIDE DEF s
    <3> QED BY <1>2, <1>3, <2>1, <2>3, <2>4, ArrivingWith DEF s
  <2>6. Idle(c)
    BY <1>11 DEF UpdateUser, Accepting
  <2> HIDE DEF s, k, data
  <2>7. Warranted("update_user", u, s, data, NoToken)
    BY <1>1, <1>3, <2>1, <2>2, <2>4, <2>6 DEF Warranted
  <2> QED BY <1>3, <2>5, <2>6, <2>7, ArrivedKnowing
<1>12. CASE DeleteUser(c)
  <2> DEFINE s == <<"remove_user", "uncache_user">>
  <2>1. PICK u \in Registered :
          Starts(c, Request("delete_user", u, s))
    BY <1>12 DEF DeleteUser
  <2> DEFINE k == Request("delete_user", u, s)
  <2>2. Rest("delete_user", s) /\ Len(s) = 2 /\ Len(Final["delete_user"]) = 2
    BY Starting DEF Final
  <2>3. s \in Seq(Commands)
    BY <2>2 DEF Rest
  <2>4. u \in User
    BY <1>1, <1>4
  <2>5. Starts(c, k) /\ Arriving(k, "delete_user", u, s, NoDocument, NoToken)
    <3> HIDE DEF s
    <3> QED BY <1>2, <1>3, <2>1, <2>3, <2>4, ArrivingRequest
  <2>6. Idle(c)
    BY <1>12 DEF DeleteUser, Accepting
  <2> HIDE DEF s, k
  <2>7. Warranted("delete_user", u, s, NoDocument, NoToken)
    BY <1>1, <1>3, <2>1, <2>2, <2>4, <2>6 DEF Warranted
  <2> QED BY <1>3, <2>5, <2>6, <2>7, ArrivedKnowing
<1> QED BY <1>5, <1>6, <1>7, <1>8, <1>9, <1>10, <1>11, <1>12 DEF RequestArrives

LEMMA ArrivesTyped == ASSUME Typed, NEW c \in Call, RequestArrives(c) PROVE Typed'
BY Arrives, ArrivalTyped DEF Arrived

\* Every step keeps the types, and what a request has to know for its next command.
THEOREM TypeInvariance == Spec => []Typed
<1>1. Typed /\ [Next]_vars => Typed'
  <2> SUFFICES ASSUME Typed, [Next]_vars PROVE Typed'
    OBVIOUS
  <2>1. ASSUME NEW c \in Call, Step(c) PROVE Typed'
    BY <2>1, CheckEmailTyped, InsertUserTyped, FindLoginTyped, InsertTheTokenTyped,
       ReadCachedTokenTyped, FindTokenTyped, CacheTheTokenTyped, LogoutTyped, ListTyped,
       CachedUserTyped, FindUserTyped, WriteUserTyped, RefuseTyped, RespondTyped DEF Step
  <2>2. ASSUME NEW c \in Call, RequestArrives(c) PROVE Typed'
    BY <2>2, ArrivesTyped
  <2>3. CASE Evict \/ Tick
    BY <2>3, OutsideTyped
  <2>4. CASE UNCHANGED vars
    <3>1. StoreTypeOK' /\ UNCHANGED <<scenario, call, ended, suspect>>
      BY <2>4, StoreTypes DEF vars, Typed, TypeOK
    <3>2. Issued' = Issued /\ Waiting' = Waiting
      BY <2>4 DEF vars, storeVars, Issued, Waiting
    <3> QED BY <3>1, <3>2, FewerTokens DEF Typed, TypeOK, Idle
  <2> QED BY <2>1, <2>2, <2>3, <2>4 DEF Next
<1> QED BY <1>1, InitTyped, PTL DEF Spec

\* The values of all variables have their types: in particular a token is
\* inserted only while there are ids for it.
THEOREM TypeCorrect == Spec => []TypeOK
<1>1. Typed => TypeOK
  BY DEF Typed
<1> QED BY <1>1, TypeInvariance, PTL

-------------------------------------------------------------------------------
(* What commands do to the request that sends them.                        *)

\* k becomes l by a command.
Advanced(k, l) ==
    /\ l \in InFlight
    /\ l.op = k.op /\ l.met = k.met /\ l.refused = k.refused
    /\ l.todo = Tail(k.todo) \/ l.todo = <<>>
    /\ l.code = k.code \/ l.todo = <<>>

\* Nor does it change anything that its next commands depend on.
Keeps(k, l) ==
    /\ Advanced(k, l)
    /\ l.user = k.user /\ l.token = k.token /\ l.left = k.left /\ l.found = k.found

LEMMA ProceedsKeeps ==
    ASSUME NEW k \in InFlight, k.todo /= <<>>
    PROVE  /\ Keeps(k, Proceeds(k)) /\ Proceeds(k).todo = Tail(k.todo)
           /\ Proceeds(k).code = k.code /\ Proceeds(k).data = k.data
<1>1. Tail(k.todo) \in Seq(Commands)
  BY DEF InFlight
<1> QED BY <1>1 DEF Keeps, Advanced, Proceeds, InFlight

LEMMA FailsKeeps ==
    ASSUME NEW k \in InFlight, NEW code \in Codes
    PROVE  /\ Keeps(k, Fails(k, code)) /\ Fails(k, code).todo = <<>>
           /\ Fails(k, code).code = code /\ Fails(k, code).data = k.data
<1>1. <<>> \in Seq(Commands)
  OBVIOUS
<1> QED BY <1>1 DEF Keeps, Advanced, Fails, InFlight

LEMMA Sending ==
    ASSUME Typed, NEW c \in Call, NEW command, Sends(c, command)
    PROVE  ~Idle(c) /\ call[c] \in InFlight /\ call[c].todo /= <<>>
BY Sent DEF Sends

LEMMA Answering ==
    ASSUME Typed, NEW c \in Call, ~Idle(c)
    PROVE  call[c] \in InFlight
BY DEF Typed, TypeOK, Idle, NoCall

LEMMA BecomesOne ==
    ASSUME Typed, NEW c \in Call, NEW l, Becomes(c, l)
    PROVE  /\ call'[c] = l /\ \A d \in Call \ {c} : call'[d] = call[d]
           /\ UNCHANGED <<scenario, ended, suspect>>
BY DEF Becomes, Typed, TypeOK

\* Commands that leave alone what their requests go by.
Plain(c) ==
    \/ CheckEmail(c) \/ InsertUser(c) \/ ReadCachedToken(c) \/ DeleteTheToken(c)
    \/ UncacheTheToken(c) \/ DeleteAllTokens(c) \/ ReadCachedUser(c) \/ FindUser(c)
    \/ CacheTheUser(c) \/ UncacheTheUser(c) \/ WriteUser(c) \/ RemoveTheUser(c)

LEMMA PlainKeeps ==
    ASSUME Typed, NEW c \in Call, Plain(c)
    PROVE  Keeps(call[c], call'[c])
<1> DEFINE k == call[c]
<1>1. \A l : Becomes(c, l) => call'[c] = l
  BY BecomesOne
<1>2. \A l : Reads(c, l) => call'[c] = l
  BY <1>1 DEF Reads
<1>3. \A command, code : Sends(c, command) /\ code \in Codes =>
        Keeps(k, Proceeds(k)) /\ Keeps(k, Fails(k, code))
  BY Sending, ProceedsKeeps, FailsKeeps
<1>4. {"exists", "duplicate", "not_found"} \subseteq Codes
  BY DEF Codes
<1>5. CASE CheckEmail(c)
  <2>1. Sends(c, "check_email") /\ (Becomes(c, Proceeds(k)) \/ Becomes(c, Fails(k, "exists")))
    BY <1>5 DEF CheckEmail, Reads
  <2> QED BY <1>1, <1>3, <1>4, <2>1
<1>6. CASE InsertUser(c)
  <2>1. Sends(c, "insert_user") /\ (Becomes(c, Proceeds(k)) \/ Becomes(c, Fails(k, "duplicate")))
    BY <1>6 DEF InsertUser
  <2> QED BY <1>1, <1>3, <1>4, <2>1
<1>7. CASE ReadCachedToken(c)
  <2> DEFINE l == [k EXCEPT !.todo = <<>>]
  <2>1. Sends(c, "cached_token") /\ (Reads(c, Proceeds(k)) \/ Reads(c, l))
    BY <1>7 DEF ReadCachedToken
  <2>2. k \in InFlight /\ <<>> \in Seq(Commands)
    BY <2>1, Sending
  <2>3. Keeps(k, l)
    BY <2>2 DEF Keeps, Advanced, InFlight
  <2> QED BY <1>2, <1>3, <1>4, <2>1, <2>3
<1>8. CASE DeleteTheToken(c)
  <2>1. Sends(c, "delete_token") /\ (Becomes(c, Proceeds(k)))
    BY <1>8 DEF DeleteTheToken
  <2> QED BY <1>1, <1>3, <1>4, <2>1
<1>9. CASE UncacheTheToken(c)
  <2>1. Sends(c, "uncache_token") /\ (Becomes(c, Proceeds(k)))
    BY <1>9 DEF UncacheTheToken
  <2> QED BY <1>1, <1>3, <1>4, <2>1
<1>10. CASE DeleteAllTokens(c)
  <2>1. Sends(c, "delete_tokens") /\ (Becomes(c, Proceeds(k)))
    BY <1>10 DEF DeleteAllTokens
  <2> QED BY <1>1, <1>3, <1>4, <2>1
<1>11. CASE ReadCachedUser(c)
  <2> DEFINE l == [k EXCEPT !.todo = <<>>, !.data = cachedUsers[k.user].data]
  <2>1. /\ Sends(c, "cached_user")
        /\ Reads(c, Proceeds(k)) \/ (cachedUsers[k.user] /= NotCached /\ Reads(c, l))
    BY <1>11 DEF ReadCachedUser
  <2>2. k \in InFlight /\ Knows(k) /\ k.op = "get_user"
    BY <2>1, Sent, Places
  <2>3. CASE Reads(c, Proceeds(k))
    BY <1>2, <1>3, <1>4, <2>1, <2>3
  <2>4. CASE cachedUsers[k.user] /= NotCached /\ Reads(c, l)
    <3>1. cachedUsers[k.user].data \in Document
      BY <2>2, <2>4 DEF Typed, TypeOK, StoreTypeOK, Knows
    <3> DEFINE data == cachedUsers[k.user].data
    <3>2. data \in Document /\ <<>> \in Seq(Commands)
      BY <3>1
    <3> HIDE DEF data
    <3>3. Keeps(k, [k EXCEPT !.todo = <<>>, !.data = data])
      BY <2>2, <3>2 DEF Keeps, Advanced, InFlight, Document
    <3> QED BY <1>2, <2>4, <3>3 DEF data
  <2> QED BY <2>1, <2>3, <2>4
<1>12. CASE FindUser(c)
  <2> DEFINE l == [Proceeds(k) EXCEPT !.data = users[k.user].data]
  <2>1. PICK command \in {"find_user", "reread_user"} : Sends(c, command)
    BY <1>12 DEF FindUser
  <2>2. (LiveUser(k.user) /\ Reads(c, l)) \/ Reads(c, Fails(k, "not_found"))
    BY <1>12 DEF FindUser
  <2>3. k \in InFlight /\ Knows(k) /\ k.op \in {"get_user", "update_user"} /\ k.todo /= <<>>
    BY <2>1, Sent, Places DEF Sends
  <2>4. CASE LiveUser(k.user) /\ Reads(c, l)
    <3>1. users[k.user].data \in Document
      BY <2>3, <2>4 DEF LiveUser, Typed, TypeOK, StoreTypeOK, Knows, UserDocument,
                       NotRegistered, Deleted
    <3> DEFINE next == Proceeds(k)
    <3>2. Keeps(k, next)
      BY <2>3, ProceedsKeeps
    <3> HIDE DEF next
    <3>3. Keeps(k, [next EXCEPT !.data = users[k.user].data])
      BY <2>3, <3>1, <3>2 DEF Keeps, Advanced, InFlight, Document
    <3> QED BY <1>2, <2>4, <3>3 DEF next
  <2>5. CASE Reads(c, Fails(k, "not_found"))
    BY <1>2, <1>3, <1>4, <2>1, <2>5
  <2> QED BY <2>2, <2>4, <2>5
<1>13. CASE CacheTheUser(c)
  <2>1. Sends(c, "cache_user") /\ (Becomes(c, Proceeds(k)))
    BY <1>13 DEF CacheTheUser
  <2> QED BY <1>1, <1>3, <1>4, <2>1
<1>14. CASE UncacheTheUser(c)
  <2>1. Sends(c, "uncache_user") /\ (Becomes(c, Proceeds(k)))
    BY <1>14 DEF UncacheTheUser
  <2> QED BY <1>1, <1>3, <1>4, <2>1
<1>15. CASE WriteUser(c)
  <2>1. Sends(c, "write_user") /\ (Becomes(c, Proceeds(k)) \/ Becomes(c, Fails(k, "not_found")) \/ Becomes(c, Fails(k, "duplicate")))
    BY <1>15 DEF WriteUser
  <2> QED BY <1>1, <1>3, <1>4, <2>1
<1>16. CASE RemoveTheUser(c)
  <2>1. Sends(c, "remove_user") /\ (Becomes(c, Proceeds(k)) \/ Becomes(c, Fails(k, "not_found")))
    BY <1>16 DEF RemoveTheUser
  <2> QED BY <1>1, <1>3, <1>4, <2>1
<1> QED
  BY <1>5, <1>6, <1>7, <1>8, <1>9, <1>10, <1>11, <1>12, <1>13, <1>14, <1>15, <1>16
     DEF Plain

LEMMA FindLoginAdvances ==
    ASSUME Typed, NEW c \in Call, FindLogin(c)
    PROVE  LET k == call[c]
               l == call'[c]
           IN  /\ Sends(c, "find_login") /\ UNCHANGED storeVars /\ Advanced(k, l)
               /\ l.token = k.token /\ l.left = k.left /\ l.found = k.found
               /\ \/ l.user = k.user
                  \/ LiveUser(l.user) /\ l.user \in User
<1> DEFINE k == call[c]
<1>1. Sends(c, "find_login")
  BY DEF FindLogin
<1>2. k \in InFlight /\ k.todo /= <<>>
  BY <1>1, Sending
<1>3. CASE Reads(c, Fails(k, "credentials"))
  BY <1>1, <1>2, <1>3, FailsKeeps, BecomesOne DEF Reads, Codes, Keeps
<1>4. ASSUME NEW u \in FindByEmail(k.data.email), Reads(c, [Proceeds(k) EXCEPT !.user = u])
      PROVE  LET l == call'[c]
             IN  /\ UNCHANGED storeVars /\ Advanced(k, l)
                 /\ l.token = k.token /\ l.left = k.left /\ l.found = k.found
                 /\ LiveUser(l.user) /\ l.user \in User
  <2> DEFINE next == Proceeds(k)
             l == [next EXCEPT !.user = u]
  <2>1. u \in User /\ LiveUser(u)
    BY DEF FindByEmail
  <2>2. Keeps(k, next)
    BY <1>2, ProceedsKeeps
  <2>3. call'[c] = l /\ UNCHANGED storeVars
    BY <1>4, BecomesOne DEF Reads
  <2> HIDE DEF next
  <2>4. /\ l \in InFlight /\ l.op = k.op /\ l.todo = next.todo /\ l.user = u
        /\ l.token = k.token /\ l.left = k.left /\ l.found = k.found
        /\ l.code = next.code /\ l.refused = k.refused /\ l.met = k.met
    BY <2>1, <2>2 DEF Keeps, Advanced, InFlight
  <2> HIDE DEF l
  <2> QED BY <2>1, <2>2, <2>3, <2>4 DEF Keeps, Advanced
<1> QED BY <1>1, <1>3, <1>4 DEF FindLogin, Reads, Keeps

LEMMA InsertTheTokenAdvances ==
    ASSUME Typed, NEW c \in Call, InsertTheToken(c)
    PROVE  LET k == call[c]
               l == call'[c]
           IN  /\ Sends(c, "insert_token") /\ InsertToken(NewToken, k.user) /\ NewToken \in Token
               /\ k.user \in User /\ k.op \in Issuing /\ k.token = NoToken
               /\ UNCHANGED <<users, cachedUsers, cachedTokens>>
               /\ Advanced(k, l) /\ l.user = k.user /\ l.found = k.found
               /\ l.token = NewToken /\ l.left = RefreshTokenTTL
<1> DEFINE k == call[c]
           n == NewToken
           next == Proceeds(k)
           now == [next EXCEPT !.token = n]
           l == [next EXCEPT !.token = n, !.left = RefreshTokenTTL]
<1>1. /\ Sends(c, "insert_token") /\ InsertToken(n, k.user) /\ Becomes(c, l)
      /\ UNCHANGED <<users, cachedUsers, cachedTokens>>
  BY DEF InsertTheToken
<1>2. /\ k \in InFlight /\ k.todo /= <<>> /\ k.op \in Issuing /\ Left(k) = 2 /\ k.user \in User
      /\ k.token = NoToken
  BY <1>1, Sent, Sending, Places DEF Knows, Issuing
<1>3. n \in Token
  BY <1>1, FreshToken
<1>4. Keeps(k, next) /\ call'[c] = l
  BY <1>1, <1>2, ProceedsKeeps, BecomesOne
<1> HIDE DEF n, next
<1>5. l = [now EXCEPT !.left = RefreshTokenTTL]
  OBVIOUS
<1>6. /\ now \in InFlight /\ now.op = k.op /\ now.todo = next.todo /\ now.user = k.user
      /\ now.token = n /\ now.found = k.found
      /\ now.code = next.code /\ now.refused = k.refused /\ now.met = k.met
  BY <1>3, <1>4 DEF Keeps, Advanced, InFlight
<1> HIDE DEF now, l
<1>7. RefreshTokenTTL \in 0 .. RefreshTokenTTL
  BY StoreAssumption
<1>8. /\ l \in InFlight /\ l.op = k.op /\ l.todo = next.todo /\ l.user = k.user
      /\ l.token = n /\ l.found = k.found /\ l.left = RefreshTokenTTL
      /\ l.code = next.code /\ l.refused = k.refused /\ l.met = k.met
  BY <1>5, <1>6, <1>7 DEF InFlight
<1> QED BY <1>1, <1>2, <1>3, <1>4, <1>8 DEF Keeps, Advanced, n

LEMMA FindTokenAdvances ==
    ASSUME Typed, NEW c \in Call, FindToken(c)
    PROVE  LET k == call[c]
               l == call'[c]
           IN  /\ Sends(c, "find_token") /\ UNCHANGED storeVars /\ k.op = "refresh"
               /\ k.token \in Token
               /\ Advanced(k, l) /\ l.user = k.user /\ l.token = k.token /\ l.found = k.found
               /\ \/ /\ ValidToken(k.token) /\ l.left = tokens[k.token].left
                     /\ l.code = k.code
                  \/ /\ ~ValidToken(k.token) /\ l.left = k.left /\ l.todo = <<>>
<1> DEFINE k == call[c]
           next == Proceeds(k)
           l == [next EXCEPT !.left = tokens[k.token].left]
<1>1. /\ Sends(c, "find_token")
      /\ \/ ValidToken(k.token) /\ Reads(c, l)
         \/ ~ValidToken(k.token) /\ Reads(c, Fails(k, "invalid"))
  BY DEF FindToken
<1>2. k \in InFlight /\ Knows(k) /\ k.op = "refresh" /\ k.todo /= <<>> /\ k.token \in Token
  BY <1>1, Sent, Sending, Places DEF Knows
<1>3. CASE ~ValidToken(k.token) /\ Reads(c, Fails(k, "invalid"))
  BY <1>1, <1>2, <1>3, FailsKeeps, BecomesOne DEF Reads, Codes, Keeps
<1>4. CASE ValidToken(k.token) /\ Reads(c, l)
  <2>1. tokens[k.token].left \in 0 .. RefreshTokenTTL
    BY <1>2, <1>4 DEF ValidToken, Typed, TypeOK, StoreTypeOK, TokenDocument, NotIssued
  <2>2. Keeps(k, next) /\ next.code = k.code
    BY <1>2, ProceedsKeeps
  <2>3. call'[c] = l /\ UNCHANGED storeVars
    BY <1>4, BecomesOne DEF Reads
  <2> HIDE DEF next
  <2>4. /\ l \in InFlight /\ l.op = k.op /\ l.todo = next.todo /\ l.user = k.user
        /\ l.token = k.token /\ l.left = tokens[k.token].left /\ l.found = k.found
        /\ l.code = next.code /\ l.refused = k.refused /\ l.met = k.met
    BY <2>1, <2>2 DEF Keeps, Advanced, InFlight
  <2> HIDE DEF l
  <2> QED BY <1>1, <1>2, <1>4, <2>2, <2>3, <2>4 DEF Keeps, Advanced
<1> QED BY <1>1, <1>3, <1>4

LEMMA CacheTheTokenAdvances ==
    ASSUME Typed, NEW c \in Call, CacheTheToken(c)
    PROVE  LET k == call[c]
               l == call'[c]
           IN  /\ Sends(c, "cache_token") /\ CacheToken(k.token, k.left) /\ k.token \in Token
               /\ k.op \in Issuing \cup {"refresh"}
               /\ UNCHANGED <<users, tokens, cachedUsers>>
               /\ Advanced(k, l) /\ l.user = k.user /\ l.token = k.token /\ l.found = k.found
               /\ l.left = 0 /\ l.code = k.code
<1> DEFINE k == call[c]
           next == Proceeds(k)
           l == [next EXCEPT !.left = 0]
<1>1. /\ Sends(c, "cache_token") /\ CacheToken(k.token, k.left) /\ Becomes(c, l)
      /\ UNCHANGED <<users, tokens, cachedUsers>>
  BY DEF CacheTheToken
<1>2. /\ k \in InFlight /\ Knows(k) /\ k.op \in Issuing \cup {"refresh"} /\ k.todo /= <<>>
      /\ Left(k) = 1
  BY <1>1, Sent, Sending, Places
<1>3. k.token \in Token
  BY <1>2 DEF Knows
<1>4. Keeps(k, next) /\ next.code = k.code /\ call'[c] = l
  BY <1>1, <1>2, ProceedsKeeps, BecomesOne
<1> HIDE DEF next
<1>5. /\ l \in InFlight /\ l.op = k.op /\ l.todo = next.todo /\ l.user = k.user
      /\ l.token = k.token /\ l.left = 0 /\ l.found = k.found
      /\ l.code = next.code /\ l.refused = k.refused /\ l.met = k.met
  BY <1>4, StoreAssumption DEF Keeps, Advanced, InFlight
<1> HIDE DEF l
<1> QED BY <1>1, <1>2, <1>3, <1>4, <1>5 DEF Keeps, Advanced

LEMMA ListingAdvances ==
    ASSUME Typed, NEW c \in Call, ListTokens(c) \/ UncacheListed(c)
    PROVE  LET k == call[c]
               l == call'[c]
           IN  /\ k.op = "logout_all" /\ k.user \in User
               /\ Advanced(k, l) /\ l.user = k.user /\ l.token = k.token /\ l.left = k.left
               /\ l.code = k.code /\ l.todo = Tail(k.todo)
               /\ \/ /\ Sends(c, "list_tokens") /\ UNCHANGED storeVars
                     /\ l.found = ValidTokensOf(k.user)
                  \/ /\ Sends(c, "uncache_tokens") /\ UncacheTokens(k.found)
                     /\ UNCHANGED <<users, tokens, cachedUsers>>
                     /\ l.found = {}
<1> DEFINE k == call[c]
           next == Proceeds(k)
<1>1. ASSUME NEW command, NEW found \in SUBSET Token, Sends(c, command),
             Becomes(c, [next EXCEPT !.found = found])
      PROVE  LET l == call'[c]
             IN  /\ Advanced(k, l) /\ l.user = k.user /\ l.token = k.token /\ l.left = k.left
                 /\ l.code = k.code /\ l.found = found /\ l.todo = Tail(k.todo)
  <2> DEFINE l == [next EXCEPT !.found = found]
  <2>1. k \in InFlight /\ k.todo /= <<>>
    BY <1>1, Sending
  <2>2. /\ Keeps(k, next) /\ next.code = k.code /\ next.todo = Tail(k.todo)
        /\ call'[c] = l
    BY <1>1, <2>1, ProceedsKeeps, BecomesOne
  <2> HIDE DEF next
  <2>3. /\ l \in InFlight /\ l.op = k.op /\ l.todo = next.todo /\ l.user = k.user
        /\ l.token = k.token /\ l.left = k.left /\ l.found = found
        /\ l.code = next.code /\ l.refused = k.refused /\ l.met = k.met
    BY <1>1, <2>2 DEF Keeps, Advanced, InFlight
  <2> HIDE DEF l
  <2> QED BY <2>2, <2>3 DEF Keeps, Advanced
<1>2. CASE ListTokens(c)
  <2>1. /\ Sends(c, "list_tokens") /\ UNCHANGED storeVars
        /\ Becomes(c, [next EXCEPT !.found = ValidTokensOf(k.user)])
    BY <1>2 DEF ListTokens, Reads
  <2>2. k.op = "logout_all" /\ k.user \in User
    BY <2>1, Sent, Places DEF Knows
  <2>3. ValidTokensOf(k.user) \in SUBSET Token
    BY DEF ValidTokensOf
  <2> QED BY <1>1, <2>1, <2>2, <2>3
<1>3. CASE UncacheListed(c)
  <2>1. /\ Sends(c, "uncache_tokens") /\ UncacheTokens(k.found)
        /\ Becomes(c, [next EXCEPT !.found = {}]) /\ UNCHANGED <<users, tokens, cachedUsers>>
    BY <1>3 DEF UncacheListed
  <2>2. k.op = "logout_all" /\ k.user \in User
    BY <2>1, Sent, Places DEF Knows
  <2>3. {} \in SUBSET Token
    OBVIOUS
  <2> QED BY <1>1, <2>1, <2>2, <2>3
<1> QED BY <1>2, <1>3

LEMMA RefuseAdvances ==
    ASSUME Typed, NEW c \in Call, Refuse(c)
    PROVE  LET k == call[c]
               l == call'[c]
               command == Head(k.todo)
           IN  /\ Sends(c, command) /\ UNCHANGED storeVars /\ k \in InFlight
               /\ l \in InFlight /\ l.op = k.op /\ l.met = k.met /\ l.user = k.user
               /\ l.token = k.token /\ l.found = k.found /\ l.data = k.data
               /\ l.left \in {0, k.left}
               /\ k.refused = "none" /\ l.refused \in {"store", "cache"}
               /\ command \in ErrorIgnored => l.todo = Tail(k.todo) /\ l.code = k.code
               /\ command \in StoreCommands => l.refused = "store"
               /\ command \notin ErrorIgnored =>
                    l.todo = <<>> /\ (l.refused = "store" \/ l.code = "error")
<1> DEFINE k == call[c]
           command == Head(k.todo)
           store == IF command \in StoreCommands THEN "store" ELSE "cache"
           code == IF command \in DOMAIN ErrorMistaken THEN ErrorMistaken[command] ELSE "error"
<1>1. IF command \in ErrorIgnored
        THEN Reads(c, [[Proceeds(k) EXCEPT !.left = 0] EXCEPT !.refused = store])
        ELSE Reads(c, [Fails(k, code) EXCEPT !.refused = store])
  BY DEF Refuse
<1>2. Sends(c, command) /\ k.refused = "none"
  BY DEF Refuse, Sends
<1>3. k \in InFlight /\ k.todo /= <<>>
  BY <1>2, Sending
<1>4. store \in {"store", "cache"} /\ (command \in StoreCommands => store = "store")
  OBVIOUS
<1>5. CASE command \in ErrorIgnored
  <2> DEFINE next == Proceeds(k)
             now == [next EXCEPT !.left = 0]
             l == [now EXCEPT !.refused = store]
  <2>1. UNCHANGED storeVars /\ call'[c] = l
    BY <1>1, <1>5, BecomesOne DEF Reads
  <2>2. /\ Keeps(k, next) /\ next.todo = Tail(k.todo) /\ next.code = k.code /\ next.data = k.data
    BY <1>3, ProceedsKeeps
  <2> HIDE DEF next, store
  <2>3. /\ now \in InFlight /\ now.op = k.op /\ now.todo = next.todo /\ now.user = k.user
        /\ now.token = k.token /\ now.left = 0 /\ now.found = k.found /\ now.data = k.data
        /\ now.code = next.code /\ now.met = k.met
    BY <2>2, StoreAssumption DEF Keeps, Advanced, InFlight
  <2> HIDE DEF now
  <2>4. /\ l \in InFlight /\ l.op = k.op /\ l.todo = now.todo /\ l.user = k.user
        /\ l.token = k.token /\ l.left = 0 /\ l.found = k.found /\ l.data = k.data
        /\ l.code = now.code /\ l.met = k.met /\ l.refused = store
    BY <1>4, <2>3 DEF InFlight
  <2> HIDE DEF l
  <2> QED BY <1>2, <1>3, <1>4, <1>5, <2>1, <2>2, <2>3, <2>4
<1>6. CASE command \notin ErrorIgnored
  <2> DEFINE next == Fails(k, code)
             l == [next EXCEPT !.refused = store]
  <2>1. UNCHANGED storeVars /\ call'[c] = l
    BY <1>1, <1>6, BecomesOne DEF Reads
  <2>2. code \in Codes
    BY DEF ErrorMistaken, Codes
  <2>3. store = "store" \/ code = "error"
    <3>1. DOMAIN ErrorMistaken = {"find_login", "find_token"}
      BY DEF ErrorMistaken
    <3> QED BY <3>1 DEF StoreCommands
  <2> HIDE DEF code
  <2>4. /\ Keeps(k, next) /\ next.todo = <<>> /\ next.data = k.data /\ next.code = code
    BY <1>3, <2>2, FailsKeeps
  <2> HIDE DEF next, store
  <2>5. /\ l \in InFlight /\ l.op = k.op /\ l.todo = next.todo /\ l.user = k.user
        /\ l.token = k.token /\ l.left = k.left /\ l.found = k.found /\ l.data = k.data
        /\ l.met = k.met /\ l.refused = store /\ l.code = code
    BY <1>4, <2>4 DEF Keeps, Advanced, InFlight
  <2> HIDE DEF l
  <2> QED BY <1>2, <1>3, <1>4, <1>6, <2>1, <2>3, <2>4, <2>5
<1> QED BY <1>5, <1>6

-------------------------------------------------------------------------------
(* NothingOutlivesExpiry.                                                  *)

\* Nor does the time to live that a request is about to cache a token for.
Lasting ==
    /\ NothingOutlivesExpiry
    /\ \A c \in Call : call[c].token \in Token => call[c].left <= tokens[call[c].token].left

LEMMA LastingTypes ==
    ASSUME Typed
    PROVE  /\ \A n \in Token : /\ tokens[n].left \in 0 .. RefreshTokenTTL
                               /\ cachedTokens[n] \in 0 .. RefreshTokenTTL
           /\ \A c \in Call : call[c].left \in 0 .. RefreshTokenTTL
           /\ RefreshTokenTTL \in Nat
BY StoreAssumption DEF Typed, TypeOK, StoreTypeOK, InFlight, NoCall, TokenDocument, NotIssued

\* What one command does to times to live.
LEMMA LastingStep ==
    ASSUME Typed, Typed', Lasting, NEW c \in Call,
           \A d \in Call \ {c} : call'[d] = call[d],
           \A n \in Token : cachedTokens'[n] <= tokens'[n].left,
           \A n \in Token : tokens[n].left <= tokens'[n].left,
           call'[c].token \in Token => call'[c].left <= tokens'[call'[c].token].left
    PROVE  Lasting'
<1>1. ASSUME NEW d \in Call \ {c}, call'[d].token \in Token
      PROVE  call'[d].left <= tokens'[call'[d].token].left
  <2>1. /\ call[d].left \in Nat /\ tokens[call[d].token].left \in Nat
        /\ tokens'[call[d].token].left \in Nat
    <3>1. call[d].left \in Nat /\ tokens[call[d].token].left \in Nat
      BY <1>1, LastingTypes
    <3>2. \A n \in Token : tokens'[n].left \in Nat
      BY DEF Typed, TypeOK, StoreTypeOK, TokenDocument, NotIssued
    <3> QED BY <1>1, <3>1, <3>2
  <2> QED BY <1>1, <2>1 DEF Lasting
<1> QED BY <1>1 DEF Lasting, NothingOutlivesExpiry

\* Deleting leaves the time to live of a document, which the store still counts.
LEMMA LastingDocuments ==
    ASSUME Typed
    PROVE  /\ UNCHANGED tokens => \A n \in Token : tokens'[n].left = tokens[n].left
           /\ \A k \in Token : DeleteToken(k) =>
                \A n \in Token : tokens'[n].left = tokens[n].left
           /\ \A u : DeleteTokensOf(u) => \A n \in Token : tokens'[n].left = tokens[n].left
<1>1. ASSUME NEW k \in Token, DeleteToken(k)
      PROVE  \A n \in Token : tokens'[n].left = tokens[n].left
  BY <1>1 DEF DeleteToken, Typed, TypeOK, StoreTypeOK, TokenDocument, NotIssued
<1>2. ASSUME NEW u, DeleteTokensOf(u)
      PROVE  \A n \in Token : tokens'[n].left = tokens[n].left
  BY <1>2 DEF DeleteTokensOf, Typed, TypeOK, StoreTypeOK, TokenDocument, NotIssued
<1> QED BY <1>1, <1>2

\* Where a plain command leaves the tokens.
LEMMA PlainTokens ==
    ASSUME Typed, NEW c \in Call, Plain(c)
    PROVE  LET k == call[c] IN
           /\ k \in InFlight /\ k.todo /= <<>> /\ ~Idle(c)
           /\ \/ UNCHANGED <<tokens, cachedTokens>>
              \/ /\ Sends(c, "delete_token") /\ k.op = "logout" /\ k.token \in Token
                 /\ DeleteToken(k.token) /\ UNCHANGED cachedTokens
              \/ /\ Sends(c, "uncache_token") /\ k.op = "logout" /\ k.token \in Token
                 /\ UncacheTokens({k.token}) /\ UNCHANGED tokens
              \/ /\ Sends(c, "delete_tokens") /\ k.op = "logout_all"
                 /\ DeleteTokensOf(k.user) /\ UNCHANGED cachedTokens
<1> DEFINE k == call[c]
<1>1. ASSUME NEW command, Sends(c, command)
      PROVE  k \in InFlight /\ k.todo /= <<>> /\ ~Idle(c)
  BY <1>1, Sending
<1>2. CASE DeleteTheToken(c)
  BY <1>1, <1>2, Sent, Places DEF DeleteTheToken, Knows
<1>3. CASE UncacheTheToken(c)
  BY <1>1, <1>3, Sent, Places DEF UncacheTheToken, Knows
<1>4. CASE DeleteAllTokens(c)
  BY <1>1, <1>4, Sent, Places DEF DeleteAllTokens, Knows
<1>5. CASE \/ CheckEmail(c) \/ InsertUser(c) \/ ReadCachedToken(c) \/ ReadCachedUser(c)
           \/ FindUser(c) \/ CacheTheUser(c) \/ UncacheTheUser(c) \/ WriteUser(c)
           \/ RemoveTheUser(c)
  <2>1. \E command : Sends(c, command)
    BY <1>5 DEF CheckEmail, InsertUser, ReadCachedToken, ReadCachedUser, FindUser, CacheTheUser,
                UncacheTheUser, WriteUser, RemoveTheUser
  <2>2. UNCHANGED <<tokens, cachedTokens>>
    BY <1>5 DEF CheckEmail, InsertUser, ReadCachedToken, ReadCachedUser, FindUser, CacheTheUser,
                UncacheTheUser, WriteUser, RemoveTheUser, Reads, storeVars
  <2> QED BY <1>1, <2>1, <2>2
<1> QED BY <1>2, <1>3, <1>4, <1>5 DEF Plain

\* A command leaves the other requests alone.
LEMMA StepAlone ==
    ASSUME Typed, NEW c \in Call, Step(c)
    PROVE  /\ \A d \in Call \ {c} : call'[d] = call[d]
           /\ ~Respond(c) => UNCHANGED <<scenario, ended, suspect>>
<1>1. CASE Respond(c)
  BY <1>1 DEF Respond, Typed, TypeOK
<1>2. CASE ~Respond(c)
  <2>1. \E l : Becomes(c, l)
    BY <1>2 DEF Step, CheckEmail, InsertUser, FindLogin, InsertTheToken, ReadCachedToken,
                FindToken, CacheTheToken, DeleteTheToken, UncacheTheToken, ListTokens,
                UncacheListed, DeleteAllTokens, ReadCachedUser, FindUser, CacheTheUser,
                UncacheTheUser, WriteUser, RemoveTheUser, Refuse, Reads
  <2> QED BY <2>1, BecomesOne
<1> QED BY <1>1, <1>2

\* A request arrives: it knows nothing, and no other one changes.
LEMMA ArrivedAlone ==
    ASSUME Typed, NEW c \in Call, NEW k, Arrived(c, k)
    PROVE  /\ \A d \in Call \ {c} :
                /\ call'[d].op = call[d].op /\ call'[d].todo = call[d].todo
                /\ call'[d].user = call[d].user /\ call'[d].data = call[d].data
                /\ call'[d].token = call[d].token /\ call'[d].left = call[d].left
                /\ call'[d].found = call[d].found /\ call'[d].code = call[d].code
                /\ call'[d].refused = call[d].refused
                /\ Idle(d) => call'[d] = NoCall
                /\ ~Idle(d) => call'[d].met = call[d].met \cup {Meeting(k, call[d])}
           /\ call'[c].op = k.op /\ call'[c].todo = k.todo /\ call'[c].user = k.user
           /\ call'[c].data = k.data /\ call'[c].token = k.token /\ call'[c].left = k.left
           /\ call'[c].found = k.found /\ call'[c].code = k.code
           /\ call'[c].refused = k.refused
           /\ call'[c].met = {Meeting(k, call[b]) : b \in {d \in Call : ~Idle(d)}}
           /\ UNCHANGED <<storeVars, scenario, ended, suspect>>
<1>1. /\ k \in InFlight /\ Starts(c, k) /\ Idle(c)
  BY DEF Arrived
<1>2. UNCHANGED <<storeVars, scenario, ended, suspect>>
  BY <1>1 DEF Starts
<1>3. ASSUME NEW d \in Call \ {c}, Idle(d)
      PROVE  call'[d] = NoCall /\ call[d] = NoCall
  BY <1>1, <1>3 DEF Starts, Typed, TypeOK, Idle, InFlight, Operations
<1>4. ASSUME NEW d \in Call \ {c}, ~Idle(d)
      PROVE  /\ call[d] \in InFlight
             /\ call'[d] = [call[d] EXCEPT !.met = call[d].met \cup {Meeting(k, call[d])}]
  BY <1>1, <1>4 DEF Starts, Typed, TypeOK, Idle, NoCall
<1>5. call'[c] = [k EXCEPT !.met = {Meeting(k, call[b]) : b \in {d \in Call : ~Idle(d)}}]
  BY <1>1 DEF Starts
<1>6. \A l \in InFlight : \A met :
        LET m == [l EXCEPT !.met = met] IN
        /\ m.op = l.op /\ m.todo = l.todo /\ m.user = l.user /\ m.data = l.data
        /\ m.token = l.token /\ m.left = l.left /\ m.found = l.found /\ m.code = l.code
        /\ m.refused = l.refused /\ m.met = met
  BY DEF InFlight
<1>7. ASSUME NEW d \in Call \ {c}
      PROVE  /\ call'[d].op = call[d].op /\ call'[d].todo = call[d].todo
             /\ call'[d].user = call[d].user /\ call'[d].data = call[d].data
             /\ call'[d].token = call[d].token /\ call'[d].left = call[d].left
             /\ call'[d].found = call[d].found /\ call'[d].code = call[d].code
             /\ call'[d].refused = call[d].refused
             /\ Idle(d) => call'[d] = NoCall
             /\ ~Idle(d) => call'[d].met = call[d].met \cup {Meeting(k, call[d])}
  <2>1. CASE Idle(d)
    BY <1>3, <2>1
  <2>2. CASE ~Idle(d)
    <3> DEFINE met == call[d].met \cup {Meeting(k, call[d])}
    <3>1. call[d] \in InFlight /\ call'[d] = [call[d] EXCEPT !.met = met]
      BY <1>4, <2>2
    <3> HIDE DEF met
    <3>2. /\ call'[d].op = call[d].op /\ call'[d].todo = call[d].todo
          /\ call'[d].user = call[d].user /\ call'[d].data = call[d].data
          /\ call'[d].token = call[d].token /\ call'[d].left = call[d].left
          /\ call'[d].found = call[d].found /\ call'[d].code = call[d].code
          /\ call'[d].refused = call[d].refused /\ call'[d].met = met
      BY <3>1 DEF InFlight
    <3> QED BY <2>2, <3>2 DEF met
  <2> QED BY <2>1, <2>2
<1>8. /\ call'[c].op = k.op /\ call'[c].todo = k.todo /\ call'[c].user = k.user
      /\ call'[c].data = k.data /\ call'[c].token = k.token /\ call'[c].left = k.left
      /\ call'[c].found = k.found /\ call'[c].code = k.code /\ call'[c].refused = k.refused
      /\ call'[c].met = {Meeting(k, call[b]) : b \in {d \in Call : ~Idle(d)}}
  BY <1>1, <1>5, <1>6
<1> QED BY <1>2, <1>7, <1>8

LEMMA LastingInvariant == Typed /\ Typed' /\ Lasting /\ [Next]_vars => Lasting'
<1> SUFFICES ASSUME Typed, Typed', Lasting, [Next]_vars PROVE Lasting'
  OBVIOUS
<1>1. ASSUME NEW c \in Call, RequestArrives(c) PROVE Lasting'
  <2>1. PICK k : Arrived(c, k)
    BY <1>1, Arrives
  <2>2. /\ UNCHANGED storeVars /\ call'[c].left = 0
        /\ \A d \in Call \ {c} : call'[d].token = call[d].token /\ call'[d].left = call[d].left
    BY <2>1, ArrivedAlone DEF Arrived
  <2>3. \A n \in Token : tokens[n].left >= 0
    BY LastingTypes
  <2> QED BY <2>2, <2>3 DEF Lasting, NothingOutlivesExpiry, storeVars
<1>2. ASSUME NEW c \in Call, Step(c) PROVE Lasting'
  <2> DEFINE k == call[c]
             l == call'[c]
  <2>1. \A d \in Call \ {c} : call'[d] = call[d]
    BY <1>2, StepAlone
  <2>2. k.left \in Nat /\ l.left \in Nat /\ (k.token \in Token => k.left <= tokens[k.token].left)
    <3>1. \A d \in Call : call'[d].left \in 0 .. RefreshTokenTTL
      BY StoreAssumption DEF Typed, TypeOK, InFlight, NoCall
    <3> QED BY <3>1, LastingTypes DEF Lasting
  <2>3. \A n \in Token : /\ tokens[n].left \in Nat /\ tokens[n].left <= RefreshTokenTTL
                         /\ cachedTokens[n] <= tokens[n].left
                         /\ cachedTokens[n] \in Nat
    BY LastingTypes DEF Lasting, NothingOutlivesExpiry
  <2>4. CASE Plain(c)
    <3>1. l.token = k.token /\ l.left = k.left
      BY <2>4, PlainKeeps DEF Keeps
    <3>2. \A n \in Token : tokens'[n].left = tokens[n].left
      BY <2>4, PlainTokens, LastingDocuments
    <3>3. \A n \in Token : cachedTokens'[n] <= cachedTokens[n] /\ cachedTokens'[n] \in Nat
      BY <2>3, <2>4, PlainTokens DEF UncacheTokens
    <3> QED BY <2>1, <2>2, <2>3, <3>1, <3>2, <3>3, LastingStep
  <2>5. CASE FindLogin(c)
    BY <2>1, <2>2, <2>3, <2>5, FindLoginAdvances, LastingStep DEF storeVars
  <2>6. CASE InsertTheToken(c)
    <3>1. /\ NewToken \in Token /\ InsertToken(NewToken, k.user) /\ UNCHANGED cachedTokens
          /\ l.token = NewToken /\ l.left = RefreshTokenTTL
      BY <2>6, InsertTheTokenAdvances
    <3>2. \A n \in Token : tokens'[n].left = IF n = NewToken THEN RefreshTokenTTL
                                             ELSE tokens[n].left
      BY <3>1 DEF InsertToken, Typed, TypeOK, StoreTypeOK
    <3>3. RefreshTokenTTL \in Nat /\ \A n \in Token : cachedTokens[n] <= RefreshTokenTTL
      BY LastingTypes
    <3> QED BY <2>1, <2>2, <2>3, <3>1, <3>2, <3>3, LastingStep
  <2>7. CASE FindToken(c)
    BY <2>1, <2>2, <2>3, <2>7, FindTokenAdvances, LastingStep DEF storeVars
  <2>8. CASE CacheTheToken(c)
    <3>1. /\ k.token \in Token /\ CacheToken(k.token, k.left) /\ UNCHANGED tokens
          /\ l.token = k.token /\ l.left = 0
      BY <2>8, CacheTheTokenAdvances
    <3>2. \A n \in Token : cachedTokens'[n] = IF n = k.token THEN k.left ELSE cachedTokens[n]
      BY <3>1 DEF CacheToken, Typed, TypeOK, StoreTypeOK
    <3> QED BY <2>1, <2>2, <2>3, <3>1, <3>2, LastingStep
  <2>9. CASE ListTokens(c) \/ UncacheListed(c)
    <3>1. /\ l.token = k.token /\ l.left = k.left /\ UNCHANGED tokens
          /\ UNCHANGED cachedTokens \/ UncacheTokens(k.found)
      BY <2>9, ListingAdvances DEF storeVars
    <3>2. \A n \in Token : cachedTokens'[n] <= cachedTokens[n] /\ cachedTokens'[n] \in Nat
      BY <2>3, <3>1 DEF UncacheTokens
    <3> QED BY <2>1, <2>2, <2>3, <3>1, <3>2, LastingStep
  <2>10. CASE Refuse(c)
    <3>1. l.token = k.token /\ l.left \in {0, k.left} /\ UNCHANGED <<tokens, cachedTokens>>
      BY <2>10, RefuseAdvances DEF storeVars
    <3> QED BY <2>1, <2>2, <2>3, <3>1, LastingStep
  <2>11. CASE Respond(c)
    <3>1. l.left = 0 /\ UNCHANGED <<tokens, cachedTokens>>
      BY <2>11 DEF Respond, storeVars, NoCall, Typed, TypeOK
    <3> QED BY <2>1, <2>2, <2>3, <3>1, LastingStep
  <2> QED BY <1>2, <2>4, <2>5, <2>6, <2>7, <2>8, <2>9, <2>10, <2>11 DEF Step, Plain
<1>3. CASE Evict
  <2>1. UNCHANGED <<tokens, call>>
    BY <1>3 DEF Evict
  <2>2. \A n \in Token : cachedTokens'[n] \in {0, cachedTokens[n]}
    BY <1>3 DEF Evict, UncacheTokens
  <2>3. \A n \in Token : cachedTokens'[n] <= tokens[n].left
    BY <2>2, LastingTypes DEF Lasting, NothingOutlivesExpiry
  <2> QED BY <2>1, <2>3 DEF Lasting, NothingOutlivesExpiry
<1>4. CASE Tick
  <2>1. PassTime /\ call' = call /\ \A c \in Call : call[c].left = 0
    BY <1>4 DEF Tick
  <2>2. \A n \in Token : tokens'[n].left = IF tokens[n].left > 0 THEN tokens[n].left - 1
                                           ELSE tokens[n].left
    BY <2>1 DEF PassTime, Typed, TypeOK, StoreTypeOK, TokenDocument, NotIssued
  <2>3. \A n \in Token : cachedTokens'[n] = IF cachedTokens[n] > 0 THEN cachedTokens[n] - 1 ELSE 0
    BY <2>1 DEF PassTime
  <2>4. \A n \in Token : tokens'[n].left >= 0 /\ cachedTokens'[n] <= tokens'[n].left
    BY <2>2, <2>3, LastingTypes DEF Lasting, NothingOutlivesExpiry
  <2> QED BY <2>1, <2>4 DEF Lasting, NothingOutlivesExpiry
<1>5. CASE UNCHANGED vars
  BY <1>5 DEF vars, storeVars, Lasting, NothingOutlivesExpiry
<1> QED BY <1>1, <1>2, <1>3, <1>4, <1>5 DEF Next

LEMMA FirstLasting == Init /\ Typed => Lasting
BY DEF Init, StoreInit, Lasting, NothingOutlivesExpiry, NoCall, NotIssued, Token, NoToken

\* No key of a token outlives the expiresAt of its document, in whatever order it
\* is cached again, deleted and forgotten: that a deleted token is still good ends.
THEOREM ExpiryHolds == Spec => []NothingOutlivesExpiry
<1>1. Init /\ Typed => Lasting
  BY FirstLasting
<1>2. Lasting => NothingOutlivesExpiry
  BY DEF Lasting
<1> QED BY <1>1, <1>2, LastingInvariant, TypeInvariance, PTL DEF Spec

-------------------------------------------------------------------------------
(* ValidTokensWork.                                                        *)

\* Tokens are issued in the order of their ids, so that a new one is new.
InOrder == Issued = 1 .. Cardinality(Issued)

\* What is deleted of a token, or has expired, does not come back.
LEMMA TokensGoOn ==
    ASSUME Typed, InOrder, [Next]_vars
    PROVE  /\ \A n \in Issued : /\ n \in Issued' /\ tokens'[n].user = tokens[n].user
                                /\ ValidToken(n)' => ValidToken(n)
           /\ InOrder'
           /\ Issued' = Issued \/ \E c \in Call : /\ InsertTheToken(c)
                                                /\ Issued' = Issued \cup {NewToken}
           /\ \A c \in Call : InsertTheToken(c) =>
                NewToken \notin Issued /\ NewToken \in Issued' /\ tokens'[NewToken].user = call[c].user
<1> DEFINE Goes == \A n \in Token : /\ tokens[n] /= NotIssued <=> tokens'[n] /= NotIssued
                                    /\ tokens'[n].user = tokens[n].user
                                    /\ ValidToken(n)' => ValidToken(n)
<1>1. ASSUME Goes
      PROVE  /\ \A n \in Issued : /\ n \in Issued' /\ tokens'[n].user = tokens[n].user
                                  /\ ValidToken(n)' => ValidToken(n)
             /\ Issued' = Issued /\ InOrder'
  <2>1. Issued' = Issued
    BY <1>1 DEF Issued
  <2> QED BY <1>1, <2>1 DEF InOrder, Issued
<1>2. ASSUME UNCHANGED tokens PROVE Goes
  BY <1>2 DEF ValidToken
<1>3. ASSUME NEW n, DeleteToken(n) PROVE Goes
  BY <1>3 DEF DeleteToken, ValidToken, NotIssued, Typed, TypeOK, StoreTypeOK, TokenDocument
<1>4. ASSUME NEW u, DeleteTokensOf(u) PROVE Goes
  BY <1>4 DEF DeleteTokensOf, ValidToken, NotIssued, Typed, TypeOK, StoreTypeOK, TokenDocument
<1>5. ASSUME PassTime PROVE Goes
  BY <1>5 DEF PassTime, ValidToken, NotIssued, Typed, TypeOK, StoreTypeOK, TokenDocument
<1>6. ASSUME NEW c \in Call, InsertTheToken(c)
      PROVE  /\ NewToken \notin Issued /\ NewToken \in Issued'
             /\ tokens'[NewToken].user = call[c].user
             /\ Issued' = Issued \cup {NewToken} /\ InOrder'
             /\ \A n \in Issued : /\ n \in Issued' /\ tokens'[n].user = tokens[n].user
                                  /\ ValidToken(n)' => ValidToken(n)
  <2>1. NewToken \in Token /\ InsertToken(NewToken, call[c].user)
    BY <1>6, InsertTheTokenAdvances
  <2>2. Cardinality(Issued) \in Nat /\ IsFiniteSet(Issued)
    BY CountedTokens
  <2>3. NewToken \notin Issued
    BY <2>2 DEF InOrder, NewToken
  <2>4. /\ tokens'[NewToken] = [state |-> "live", user |-> call[c].user, left |-> RefreshTokenTTL]
        /\ \A n \in Token \ {NewToken} : tokens'[n] = tokens[n]
    BY <2>1 DEF InsertToken, Typed, TypeOK, StoreTypeOK
  <2>5. Issued' = Issued \cup {NewToken}
    BY <2>1, <2>4 DEF Issued, NotIssued
  <2>6. Cardinality(Issued') = Cardinality(Issued) + 1
    BY <2>2, <2>3, <2>5, FS_AddElement
  <2>7. Issued' = 1 .. (Cardinality(Issued) + 1)
    BY <2>2, <2>5 DEF InOrder, NewToken
  <2>8. \A n \in Issued : tokens'[n] = tokens[n]
    BY <2>3, <2>4 DEF Issued
  <2> QED BY <2>3, <2>4, <2>5, <2>6, <2>7, <2>8 DEF InOrder, ValidToken
<1>7. ASSUME ~\E c \in Call : InsertTheToken(c) PROVE Goes
  <2>1. ASSUME NEW c \in Call, RequestArrives(c) PROVE UNCHANGED tokens
    BY <2>1, Arrives, ArrivedAlone DEF storeVars
  <2>2. ASSUME NEW c \in Call, Step(c)
        PROVE  \/ UNCHANGED tokens \/ DeleteToken(call[c].token) \/ DeleteTokensOf(call[c].user)
    <3>1. CASE Plain(c)
      BY <3>1, PlainTokens
    <3>2. CASE FindLogin(c) \/ FindToken(c) \/ CacheTheToken(c) \/ ListTokens(c)
               \/ UncacheListed(c) \/ Refuse(c)
      BY <3>2 DEF FindLogin, FindToken, CacheTheToken, ListTokens, UncacheListed, Refuse,
                  Reads, storeVars
    <3>3. CASE Respond(c)
      BY <3>3 DEF Respond, storeVars
    <3> QED BY <1>7, <2>2, <3>1, <3>2, <3>3 DEF Step, Plain
  <2>3. CASE Evict
    BY <1>2, <2>3 DEF Evict
  <2>4. CASE Tick
    BY <1>5, <2>4 DEF Tick
  <2>5. CASE UNCHANGED vars
    BY <1>2, <2>5 DEF vars, storeVars
  <2> HIDE DEF Goes
  <2> QED BY <1>2, <1>3, <1>4, <2>1, <2>2, <2>3, <2>4, <2>5 DEF Next
<1> HIDE DEF Goes
<1>8. CASE \E c \in Call : InsertTheToken(c)
  BY <1>6, <1>8
<1>9. CASE ~\E c \in Call : InsertTheToken(c)
  BY <1>1, <1>7, <1>9
<1> QED BY <1>8, <1>9

\* A refresh is refused, with no help of an error, over a token that is not valid.
Knowing ==
    /\ InOrder
    /\ \A c \in Call :
         /\ call[c].token \in Token => call[c].token \in Issued
         /\ call[c].todo /= <<>> => call[c].code = "ok"
         /\ call[c].op = "refresh" /\ call[c].code = "invalid" /\ call[c].refused /= "store" =>
              ~ValidToken(call[c].token)

\* What a command makes of the request that sends it.
LEMMA KnowingStep ==
    ASSUME Typed, Knowing, NEW c \in Call, Step(c), ~Respond(c)
    PROVE  LET k == call[c]
               l == call'[c]
           IN  /\ k.todo /= <<>> /\ l.op = k.op
               /\ l.token = k.token \/ (InsertTheToken(c) /\ l.token = NewToken)
               /\ l.todo /= <<>> => l.code = k.code
               /\ k.op = "refresh" /\ l.refused /= "store" =>
                    \/ l.code \in {k.code, "error"}
                    \/ l.token = k.token /\ k.token \in Token /\ ~ValidToken(k.token)
<1> DEFINE k == call[c]
           l == call'[c]
<1>1. CASE Plain(c)
  <2>1. k.todo /= <<>> /\ k \in InFlight /\ Keeps(k, l)
    BY <1>1, PlainTokens, PlainKeeps
  <2>2. ASSUME k.op = "refresh" PROVE l.code = k.code
    <3>1. ReadCachedToken(c)
      <4>1. \A command : Sends(c, command) =>
              command \in {"cached_token", "find_token", "cache_token"}
        <5> SUFFICES ASSUME NEW command, Sends(c, command)
                     PROVE  command \in {"cached_token", "find_token", "cache_token"}
          OBVIOUS
        <5>1. Left(k) \in 1 .. Len(Final[k.op]) /\ Final[k.op][Left(k)] = command
          BY Sent
        <5>2. Len(Final["refresh"]) = 3
          BY DEF Final
        <5>3. Left(k) \in 1 .. 3 /\ Final["refresh"][Left(k)] = command
          BY <2>2, <5>1, <5>2
        <5> HIDE DEF k
        <5> QED BY <5>3 DEF Final
      <4> QED BY <1>1, <4>1 DEF Plain, CheckEmail, InsertUser, ReadCachedToken, DeleteTheToken,
                UncacheTheToken, DeleteAllTokens, ReadCachedUser, FindUser, CacheTheUser,
                UncacheTheUser, WriteUser, RemoveTheUser
    <3>2. Reads(c, [k EXCEPT !.todo = <<>>]) \/ Reads(c, Proceeds(k))
      BY <3>1 DEF ReadCachedToken
    <3>3. [k EXCEPT !.todo = <<>>].code = k.code /\ Proceeds(k).code = k.code
      BY <2>1 DEF InFlight, Proceeds
    <3> QED BY <3>2, <3>3, BecomesOne DEF Reads
  <2> QED BY <2>1, <2>2 DEF Keeps, Advanced
<1>2. CASE FindLogin(c)
  BY <1>2, FindLoginAdvances, Sent, Places DEF Advanced, Sends
<1>3. CASE InsertTheToken(c)
  BY <1>3, InsertTheTokenAdvances DEF Advanced, Sends, Issuing
<1>4. CASE FindToken(c)
  BY <1>4, FindTokenAdvances DEF Advanced, Sends
<1>5. CASE CacheTheToken(c)
  BY <1>5, CacheTheTokenAdvances DEF Advanced, Sends
<1>6. CASE ListTokens(c) \/ UncacheListed(c)
  BY <1>6, ListingAdvances DEF Advanced, Sends
<1>7. CASE Refuse(c)
  <2>1. /\ Sends(c, Head(k.todo)) /\ k \in InFlight
        /\ l.op = k.op /\ l.token = k.token /\ k.todo /= <<>>
        /\ Head(k.todo) \in ErrorIgnored => l.code = k.code
        /\ Head(k.todo) \notin ErrorIgnored =>
             l.todo = <<>> /\ (l.refused = "store" \/ l.code = "error")
    BY <1>7, RefuseAdvances DEF Sends
  <2> QED BY <2>1
<1> QED BY <1>1, <1>2, <1>3, <1>4, <1>5, <1>6, <1>7 DEF Step, Plain

LEMMA KnowingInvariant == Typed /\ Typed' /\ Knowing /\ [Next]_vars => Knowing'
<1> SUFFICES ASSUME Typed, Typed', Knowing, [Next]_vars PROVE Knowing'
  OBVIOUS
<1>1. InOrder /\ InOrder'
  BY TokensGoOn DEF Knowing
<1>2. \A n \in Issued : n \in Issued' /\ (ValidToken(n)' => ValidToken(n))
  BY <1>1, TokensGoOn
<1> DEFINE Known(c) ==
             /\ call[c].token \in Token => call[c].token \in Issued
             /\ call[c].todo /= <<>> => call[c].code = "ok"
             /\ call[c].op = "refresh" /\ call[c].code = "invalid" /\ call[c].refused /= "store" =>
                  ~ValidToken(call[c].token)
<1>3. \A c \in Call : Known(c)
  BY DEF Knowing
<1>4. \A c \in Call : call[c].op = "refresh" => call[c].token \in Token
  BY DEF Typed, Idle, Knows
<1>5. ASSUME NEW c \in Call, call'[c].token = call[c].token, call'[c].todo = call[c].todo,
             call'[c].op = call[c].op, call'[c].code = call[c].code,
             call'[c].refused = call[c].refused
      PROVE  Known(c)'
  BY <1>2, <1>3, <1>4, <1>5
<1>6. ASSUME NEW c \in Call, RequestArrives(c) PROVE \A d \in Call : Known(d)'
  <2>1. PICK k : Arrived(c, k)
    BY <1>6, Arrives
  <2>2. k.code = "ok" /\ (k.token \in Token => k.token \in Issued)
    <3>1. k.op \in Operations
      BY <2>1 DEF Arrived, InFlight
    <3>2. CASE k.op \in {"refresh", "logout"}
      BY <2>1, <3>2 DEF Arrived, Presentable
    <3>3. CASE k.op \notin {"refresh", "logout"}
      <4>1. k.token = NoToken
        BY <2>1, <3>3 DEF Arrived, Knows
      <4> QED BY <2>1, <4>1, IdsInRange DEF Arrived
    <3> QED BY <2>1, <3>2, <3>3 DEF Arrived
  <2>3. Known(c)'
    BY <1>2, <2>1, <2>2, ArrivedAlone
  <2>4. \A d \in Call \ {c} : Known(d)'
    BY <1>5, <2>1, ArrivedAlone
  <2> QED BY <2>3, <2>4
<1>7. ASSUME NEW c \in Call, Step(c) PROVE \A d \in Call : Known(d)'
  <2>1. \A d \in Call \ {c} : Known(d)'
    BY <1>5, <1>7, StepAlone
  <2>2. CASE Respond(c)
    <3>1. call'[c] = NoCall
      BY <2>2 DEF Respond, Typed, TypeOK
    <3> QED BY <2>1, <3>1, IdsInRange DEF NoCall
  <2>3. CASE ~Respond(c)
    <3> DEFINE k == call[c]
               l == call'[c]
    <3>1. /\ k.todo /= <<>> /\ l.op = k.op /\ k.code = "ok"
          /\ l.token = k.token \/ (InsertTheToken(c) /\ l.token = NewToken)
          /\ l.todo /= <<>> => l.code = k.code
          /\ k.op = "refresh" /\ l.refused /= "store" =>
               \/ l.code \in {k.code, "error"}
               \/ l.token = k.token /\ k.token \in Token /\ ~ValidToken(k.token)
      BY <1>3, <1>7, <2>3, KnowingStep
    <3>2. InsertTheToken(c) => NewToken \in Issued'
      BY <1>1, TokensGoOn
    <3>3. Known(c)'
      BY <1>2, <1>3, <3>1, <3>2
    <3> QED BY <2>1, <3>3
  <2> QED BY <2>2, <2>3
<1>8. ASSUME UNCHANGED call PROVE \A d \in Call : Known(d)'
  BY <1>5, <1>8
<1>9. \A c \in Call : Known(c)'
  <2>1. CASE Evict \/ Tick
    BY <1>8, <2>1 DEF Evict, Tick
  <2>2. CASE UNCHANGED vars
    BY <1>8, <2>2 DEF vars
  <2> HIDE DEF Known
  <2> QED BY <1>6, <1>7, <2>1, <2>2 DEF Next
<1> QED BY <1>1, <1>9 DEF Knowing

LEMMA FirstKnowing == Init /\ Typed => Knowing
<1> SUFFICES ASSUME Init, Typed PROVE Knowing
  OBVIOUS
<1>1. Issued = {}
  BY DEF Init, StoreInit, Issued
<1>2. Cardinality(Issued) = 0 /\ Issued = 1 .. 0
  BY <1>1, FS_EmptySet
<1> QED BY <1>2, IdsInRange DEF Init, Knowing, InOrder, NoCall

\* Neither a lost key nor a Redis that fails, nor any order of the commands of
\* others, makes a refresh turn down a token whose document is good.
THEOREM ValidTokensHold == Spec => []ValidTokensWork
<1>1. Init /\ Typed => Knowing
  BY FirstKnowing
<1>2. Knowing => ValidTokensWork
  <2> SUFFICES ASSUME Knowing, NEW c \in Call, call[c].op = "refresh", Status(call[c]) = 401,
                      call[c].refused /= "store"
               PROVE  ~ValidToken(call[c].token)
    BY DEF ValidTokensWork
  <2>1. call[c].code = "invalid"
    BY DEF Status, Handlers, RefreshHandler
  <2> QED BY <2>1 DEF Knowing
<1> QED BY <1>1, <1>2, KnowingInvariant, TypeInvariance, PTL DEF Spec

-------------------------------------------------------------------------------
(* LogoutHolds.                                                            *)

\* A request that knows a token is one of the token's user.
Held ==
    \A c \in Call : call[c].token \in Token =>
        call[c].token \in Issued /\ tokens[call[c].token].user = call[c].user

\* Requests in flight that may be about the same user have met.
Aware ==
    /\ \A c, d \in Call : c /= d /\ ~Idle(c) /\ ~Idle(d) /\ Meeting(call[c], call[d]) = "same" =>
         "same" \in call[c].met
    /\ \A c \in Call : call[c].op = "login" /\ Left(call[c]) = 3 => call[c].user = NoUser

\* How far a logout has come that nothing has disturbed.
Stage(k) ==
    Undisturbed(k) =>
        /\ k.op = "logout" =>
             /\ k.code = "ok"
             /\ Left(k) <= 1 => tokens[k.token].state /= "live"
             /\ Left(k) = 0 => cachedTokens[k.token] = 0
        /\ k.op = "logout_all" =>
             /\ k.code = "ok"
             /\ \A n \in Token \ suspect : tokens[n].user = k.user =>
                  /\ Left(k) = 3 /\ cachedTokens[n] > 0 => tokens[n].state = "live"
                  /\ Left(k) = 2 /\ cachedTokens[n] > 0 => n \in k.found
                  /\ Left(k) <= 1 => cachedTokens[n] = 0
                  /\ Left(k) = 0 => tokens[n].state /= "live"

Stages == \A c \in Call : Stage(call[c])

\* A token is in the cache, or about to be.
Pending(n) == cachedTokens[n] > 0 \/ \E c \in Call : call[c].token = n /\ call[c].left > 0

Concerns(k, n) ==
    \/ k.op = "logout" /\ k.token = n
    \/ k.op = "logout_all" /\ k.user = tokens[n].user

Excused(n) == n \in suspect \/ \E d \in Call : Concerns(call[d], n)

\* Only a logout, under way or disturbed, explains a deleted token in the cache.
Excuses == \A n \in Token : Pending(n) /\ tokens[n].state /= "live" => Excused(n)

Gone == \A n \in ended : n \in Issued /\ tokens[n].state /= "live" /\ ~Pending(n)

LoggedOut == Held /\ Aware /\ Stages /\ Excuses /\ Gone

\* The commands of a logout.
LEMMA CommandAction ==
    ASSUME NEW c \in Call, Step(c), ~Respond(c), ~Refuse(c), NEW S,
           \A command : Sends(c, command) => command \in S
    PROVE  /\ S = {"delete_token", "uncache_token"} => DeleteTheToken(c) \/ UncacheTheToken(c)
           /\ S = {"list_tokens", "uncache_tokens", "delete_tokens"} =>
                ListTokens(c) \/ UncacheListed(c) \/ DeleteAllTokens(c)
<1>1. /\ CheckEmail(c) => "check_email" \in S
      /\ InsertUser(c) => "insert_user" \in S
      /\ FindLogin(c) => "find_login" \in S
      /\ InsertTheToken(c) => "insert_token" \in S
      /\ ReadCachedToken(c) => "cached_token" \in S
      /\ FindToken(c) => "find_token" \in S
      /\ CacheTheToken(c) => "cache_token" \in S
      /\ DeleteTheToken(c) => "delete_token" \in S
      /\ UncacheTheToken(c) => "uncache_token" \in S
      /\ ListTokens(c) => "list_tokens" \in S
      /\ UncacheListed(c) => "uncache_tokens" \in S
      /\ DeleteAllTokens(c) => "delete_tokens" \in S
      /\ ReadCachedUser(c) => "cached_user" \in S
      /\ FindUser(c) => "find_user" \in S \/ "reread_user" \in S
      /\ CacheTheUser(c) => "cache_user" \in S
      /\ UncacheTheUser(c) => "uncache_user" \in S
      /\ WriteUser(c) => "write_user" \in S
      /\ RemoveTheUser(c) => "remove_user" \in S
  BY DEF CheckEmail, InsertUser, FindLogin, InsertTheToken, ReadCachedToken, FindToken,
         CacheTheToken, DeleteTheToken, UncacheTheToken, ListTokens, UncacheListed,
         DeleteAllTokens, ReadCachedUser, FindUser, CacheTheUser, UncacheTheUser, WriteUser,
         RemoveTheUser
<1> QED BY <1>1 DEF Step

LEMMA LogoutSteps ==
    ASSUME Typed, NEW c \in Call, Step(c), ~Respond(c), ~Refuse(c), call[c].op = "logout"
    PROVE  LET k == call[c]
               l == call'[c]
           IN  /\ Keeps(k, l) /\ l.code = k.code /\ k.token \in Token
               /\ Left(l) = Left(k) - 1
               /\ \/ Left(k) = 2 /\ DeleteToken(k.token) /\ UNCHANGED cachedTokens
                  \/ Left(k) = 1 /\ UncacheTokens({k.token}) /\ UNCHANGED tokens
<1> DEFINE k == call[c]
<1>1. ASSUME NEW command, Sends(c, command)
      PROVE  command \in {"delete_token", "uncache_token"}
  <2>1. Left(k) \in 1 .. Len(Final[k.op]) /\ Final[k.op][Left(k)] = command
    BY <1>1, Sent
  <2>2. Len(Final["logout"]) = 2
    BY DEF Final
  <2>3. Left(k) \in 1 .. 2 /\ Final["logout"][Left(k)] = command
    BY <2>1, <2>2
  <2> HIDE DEF k
  <2> QED BY <2>3 DEF Final
<1>2. DeleteTheToken(c) \/ UncacheTheToken(c)
  BY <1>1, CommandAction
<1>3. ASSUME NEW command, Sends(c, command), Becomes(c, Proceeds(k))
      PROVE  /\ Keeps(k, call'[c]) /\ call'[c].code = k.code /\ k.token \in Token
             /\ Left(call'[c]) = Left(k) - 1
             /\ Left(k) \in 1 .. Len(Final["logout"]) /\ Final["logout"][Left(k)] = command
  <2>1. call'[c] = Proceeds(k)
    BY <1>3, BecomesOne
  <2> QED BY <1>3, <2>1, Sent, Sending, ProceedsKeeps DEF Knows
<1>4. CASE DeleteTheToken(c)
  <2>1. Sends(c, "delete_token") /\ Becomes(c, Proceeds(k))
    BY <1>4 DEF DeleteTheToken
  <2>2. Left(k) = 2
    BY <2>1, Sent, Places
  <2> QED BY <1>3, <1>4, <2>1, <2>2 DEF DeleteTheToken
<1>5. CASE UncacheTheToken(c)
  <2>1. Sends(c, "uncache_token") /\ Becomes(c, Proceeds(k))
    BY <1>5 DEF UncacheTheToken
  <2>2. Left(k) = 1
    BY <2>1, Sent, Places
  <2> QED BY <1>3, <1>5, <2>1, <2>2 DEF UncacheTheToken
<1> QED BY <1>2, <1>4, <1>5

LEMMA LogoutAllSteps ==
    ASSUME Typed, NEW c \in Call, Step(c), ~Respond(c), ~Refuse(c), call[c].op = "logout_all"
    PROVE  LET k == call[c]
               l == call'[c]
           IN  /\ Advanced(k, l) /\ l.user = k.user /\ l.code = k.code /\ k.user \in User
               /\ Left(l) = Left(k) - 1
               /\ \/ /\ Left(k) = 3 /\ UNCHANGED <<tokens, cachedTokens>>
                     /\ l.found = ValidTokensOf(k.user)
                  \/ Left(k) = 2 /\ UncacheTokens(k.found) /\ UNCHANGED tokens
                  \/ Left(k) = 1 /\ DeleteTokensOf(k.user) /\ UNCHANGED cachedTokens
<1> DEFINE k == call[c]
<1>1. ASSUME NEW command, Sends(c, command)
      PROVE  command \in {"list_tokens", "uncache_tokens", "delete_tokens"}
  <2>1. Left(k) \in 1 .. Len(Final[k.op]) /\ Final[k.op][Left(k)] = command
    BY <1>1, Sent
  <2>2. Len(Final["logout_all"]) = 3
    BY DEF Final
  <2>3. Left(k) \in 1 .. 3 /\ Final["logout_all"][Left(k)] = command
    BY <2>1, <2>2
  <2> HIDE DEF k
  <2> QED BY <2>3 DEF Final
<1>2. ListTokens(c) \/ UncacheListed(c) \/ DeleteAllTokens(c)
  BY <1>1, CommandAction
<1>3. CASE DeleteAllTokens(c)
  <2>1. Sends(c, "delete_tokens") /\ Becomes(c, Proceeds(k))
    BY <1>3 DEF DeleteAllTokens
  <2>2. Left(k) = 1 /\ k.user \in User /\ Left(Proceeds(k)) = Left(k) - 1
    BY <2>1, Sent, Places DEF Knows
  <2>3. Keeps(k, Proceeds(k)) /\ Proceeds(k).code = k.code /\ call'[c] = Proceeds(k)
    BY <2>1, Sending, ProceedsKeeps, BecomesOne
  <2> QED BY <1>3, <2>1, <2>2, <2>3 DEF Keeps, DeleteAllTokens
<1>4. CASE ListTokens(c) \/ UncacheListed(c)
  <2> DEFINE l == call'[c]
  <2>1. /\ Advanced(k, l) /\ l.user = k.user /\ l.code = k.code /\ k.user \in User
        /\ l.todo = Tail(k.todo)
        /\ \/ /\ Sends(c, "list_tokens") /\ UNCHANGED storeVars
              /\ l.found = ValidTokensOf(k.user)
           \/ /\ Sends(c, "uncache_tokens") /\ UncacheTokens(k.found)
              /\ UNCHANGED <<users, tokens, cachedUsers>>
    BY <1>4, ListingAdvances
  <2>2. Left(l) = Left(k) - 1
    <3>1. Proceeds(k).todo = Tail(k.todo) /\ Left(Proceeds(k)) = Left(k) - 1
      BY <2>1, Sent, Sending, ProceedsKeeps
    <3> QED BY <2>1, <3>1 DEF Left
  <2>3. /\ Sends(c, "list_tokens") => Left(k) = 3
        /\ Sends(c, "uncache_tokens") => Left(k) = 2
    BY Sent, Places
  <2> QED BY <2>1, <2>2, <2>3 DEF storeVars
<1> QED BY <1>2, <1>3, <1>4

LEMMA PendingStep ==
    ASSUME NEW c \in Call, \A d \in Call \ {c} : call'[d] = call[d], NEW n,
           cachedTokens'[n] > 0 =>
               cachedTokens[n] > 0 \/ (call[c].token = n /\ call[c].left > 0),
           call'[c].token = n /\ call'[c].left > 0 =>
               (call[c].token = n /\ call[c].left > 0) \/ tokens'[n].state = "live",
           Pending(n)'
    PROVE  Pending(n) \/ tokens'[n].state = "live"
BY DEF Pending

\* What a command of a request does to the tokens.
LEMMA TokenEffects ==
    ASSUME Typed, InOrder, Held, NEW c \in Call, Step(c), ~Respond(c), NEW n \in Token
    PROVE  /\ tokens'[n].user /= call[c].user =>
                /\ tokens'[n].user = tokens[n].user /\ tokens'[n].state = tokens[n].state
                /\ cachedTokens'[n] <= cachedTokens[n]
           /\ tokens[n].state = "live" /\ tokens'[n].state /= "live" => Concerns(call[c], n)
           /\ n \in Issued /\ tokens[n].state /= "live" => tokens'[n].state /= "live"
           /\ Pending(n)' => Pending(n) \/ tokens'[n].state = "live"
<1> DEFINE k == call[c]
           l == call'[c]
           same == /\ tokens'[n].user = tokens[n].user /\ tokens'[n].state = tokens[n].state
           fewer == cachedTokens'[n] <= cachedTokens[n]
           kept == l.token = k.token /\ l.left \in {0, k.left}
<1>1. /\ cachedTokens[n] \in Nat /\ k.left \in Nat
      /\ k.token \in Token => tokens[k.token].user = k.user
      /\ \A d \in Call \ {c} : call'[d] = call[d]
  BY LastingTypes, StepAlone DEF Held
<1>2. ASSUME same, fewer, cachedTokens'[n] \in Nat, kept
      PROVE  /\ tokens'[n].user /= k.user =>
                  /\ tokens'[n].user = tokens[n].user /\ tokens'[n].state = tokens[n].state
                  /\ cachedTokens'[n] <= cachedTokens[n]
             /\ tokens[n].state = "live" /\ tokens'[n].state /= "live" => Concerns(k, n)
             /\ n \in Issued /\ tokens[n].state /= "live" => tokens'[n].state /= "live"
             /\ Pending(n)' => Pending(n) \/ tokens'[n].state = "live"
  <2>1. cachedTokens'[n] > 0 => cachedTokens[n] > 0
    BY <1>1, <1>2
  <2>2. l.token = n /\ l.left > 0 => k.token = n /\ k.left > 0
    BY <1>2
  <2>3. Pending(n)' => Pending(n) \/ tokens'[n].state = "live"
    BY <1>1, <2>1, <2>2, PendingStep
  <2> QED BY <1>2, <2>3
<1>3. UNCHANGED tokens => same
  OBVIOUS
<1>4. UNCHANGED cachedTokens => fewer /\ cachedTokens'[n] \in Nat
  BY <1>1
<1>5. \A S : UncacheTokens(S) => fewer /\ cachedTokens'[n] \in Nat
  BY <1>1 DEF UncacheTokens
<1>6. CASE Plain(c)
  <2>1. kept
    BY <1>6, PlainKeeps DEF Keeps
  <2>2. CASE UNCHANGED <<tokens, cachedTokens>>
    BY <1>2, <1>3, <1>4, <2>1, <2>2
  <2>3. CASE k.op = "logout" /\ k.token \in Token /\ UncacheTokens({k.token}) /\ UNCHANGED tokens
    BY <1>2, <1>3, <1>5, <2>1, <2>3
  <2>4. ASSUME tokens'[n].user = tokens[n].user, UNCHANGED cachedTokens,
               tokens'[n].state /= tokens[n].state =>
                   /\ tokens[n].state = "live" /\ tokens'[n].state = "deleted"
                   /\ tokens[n].user = k.user /\ Concerns(k, n)
        PROVE  /\ tokens'[n].user /= k.user =>
                    /\ tokens'[n].user = tokens[n].user /\ tokens'[n].state = tokens[n].state
                    /\ cachedTokens'[n] <= cachedTokens[n]
               /\ tokens[n].state = "live" /\ tokens'[n].state /= "live" => Concerns(k, n)
               /\ n \in Issued /\ tokens[n].state /= "live" => tokens'[n].state /= "live"
               /\ Pending(n)' => Pending(n) \/ tokens'[n].state = "live"
    <3>1. cachedTokens'[n] > 0 => cachedTokens[n] > 0
      BY <2>4
    <3>2. l.token = n /\ l.left > 0 => k.token = n /\ k.left > 0
      BY <2>1
    <3>3. Pending(n)' => Pending(n) \/ tokens'[n].state = "live"
      BY <1>1, <3>1, <3>2, PendingStep
    <3> QED BY <1>1, <2>4, <3>3
  <2>5. CASE k.op = "logout" /\ k.token \in Token /\ DeleteToken(k.token) /\ UNCHANGED cachedTokens
    <3>1. /\ tokens'[n].user = tokens[n].user
          /\ tokens'[n].state /= tokens[n].state =>
               tokens[n].state = "live" /\ tokens'[n].state = "deleted" /\ n = k.token
      BY <2>5 DEF DeleteToken, Typed, TypeOK, StoreTypeOK, TokenDocument, NotIssued
    <3>2. n = k.token => tokens[n].user = k.user /\ Concerns(k, n)
      BY <1>1, <2>5 DEF Concerns
    <3> QED BY <2>4, <2>5, <3>1, <3>2
  <2>6. CASE k.op = "logout_all" /\ DeleteTokensOf(k.user) /\ UNCHANGED cachedTokens
    <3>1. /\ tokens'[n].user = tokens[n].user
          /\ tokens'[n].state /= tokens[n].state =>
               /\ tokens[n].state = "live" /\ tokens'[n].state = "deleted"
               /\ tokens[n].user = k.user
      BY <2>6 DEF DeleteTokensOf, Typed, TypeOK, StoreTypeOK, TokenDocument, NotIssued
    <3>2. tokens[n].user = k.user => Concerns(k, n)
      BY <2>6 DEF Concerns
    <3> QED BY <2>4, <2>6, <3>1, <3>2
  <2> QED BY <1>6, <2>2, <2>3, <2>5, <2>6, PlainTokens
<1>7. CASE FindLogin(c) \/ Refuse(c)
  <2>1. kept /\ UNCHANGED <<tokens, cachedTokens>>
    BY <1>7, FindLoginAdvances, RefuseAdvances DEF storeVars
  <2> QED BY <1>2, <1>3, <1>4, <2>1
<1>8. CASE ListTokens(c) \/ UncacheListed(c)
  <2>1. kept /\ UNCHANGED tokens /\ (UNCHANGED cachedTokens \/ UncacheTokens(k.found))
    BY <1>8, ListingAdvances DEF storeVars
  <2> QED BY <1>2, <1>3, <1>4, <1>5, <2>1
<1>9. CASE InsertTheToken(c)
  <2>1. /\ NewToken \in Token /\ InsertToken(NewToken, k.user) /\ UNCHANGED cachedTokens
        /\ l.token = NewToken
    BY <1>9, InsertTheTokenAdvances
  <2>2. NewToken \notin Issued
    BY CountedTokens DEF InOrder, NewToken
  <2>3. IF n = NewToken THEN /\ tokens'[n].user = k.user /\ tokens'[n].state = "live"
                             /\ tokens[n].state = "none"
                        ELSE tokens'[n] = tokens[n]
    BY <2>1, <2>2 DEF InsertToken, Typed, TypeOK, StoreTypeOK, Issued, NotIssued
  <2>4. Pending(n)' => Pending(n) \/ tokens'[n].state = "live"
    BY <1>1, <2>1, <2>3, PendingStep
  <2>5. n \in Issued => n /= NewToken
    BY <2>2
  <2>6. cachedTokens'[n] <= cachedTokens[n]
    BY <1>1, <2>1
  <2> QED BY <2>3, <2>4, <2>5, <2>6
<1>10. CASE FindToken(c)
  <2>1. /\ UNCHANGED <<tokens, cachedTokens>> /\ l.token = k.token
        /\ ValidToken(k.token) \/ l.left = k.left
    BY <1>10, FindTokenAdvances DEF storeVars
  <2>2. Pending(n)' => Pending(n) \/ tokens'[n].state = "live"
    <3>1. cachedTokens'[n] > 0 => cachedTokens[n] > 0
      BY <2>1
    <3>2. l.token = n /\ l.left > 0 => (k.token = n /\ k.left > 0) \/ tokens'[n].state = "live"
      BY <2>1 DEF ValidToken
    <3> QED BY <1>1, <3>1, <3>2, PendingStep
  <2> QED BY <1>1, <2>1, <2>2
<1>11. CASE CacheTheToken(c)
  <2>1. /\ UNCHANGED tokens /\ l.token = k.token /\ l.left = 0 /\ k.token \in Token
        /\ CacheToken(k.token, k.left)
    BY <1>11, CacheTheTokenAdvances
  <2>2. cachedTokens'[n] = IF n = k.token THEN k.left ELSE cachedTokens[n]
    BY <2>1 DEF CacheToken, Typed, TypeOK, StoreTypeOK
  <2>3. Pending(n)' => Pending(n) \/ tokens'[n].state = "live"
    <3>1. cachedTokens'[n] > 0 =>
            cachedTokens[n] > 0 \/ (call[c].token = n /\ call[c].left > 0)
      BY <2>2
    <3>2. ~(l.token = n /\ l.left > 0)
      BY <2>1
    <3> QED BY <1>1, <3>1, <3>2, PendingStep
  <2>4. n = k.token => tokens'[n].user = k.user
    BY <1>1, <2>1
  <2> QED BY <1>1, <2>1, <2>2, <2>3, <2>4
<1> QED BY <1>6, <1>7, <1>8, <1>9, <1>10, <1>11 DEF Step, Plain

\* What the store, and time, do to them.
LEMMA TokensOutside ==
    ASSUME Typed, Evict \/ Tick \/ UNCHANGED vars, NEW n \in Token
    PROVE  /\ tokens'[n].user = tokens[n].user /\ tokens'[n].state = tokens[n].state
           /\ cachedTokens'[n] <= cachedTokens[n] /\ cachedTokens'[n] \in Nat
           /\ Pending(n)' => Pending(n)
           /\ UNCHANGED <<call, ended, suspect>>
<1>1. UNCHANGED <<call, ended, suspect>>
  BY DEF Evict, Tick, vars
<1>2. cachedTokens[n] \in Nat
  BY LastingTypes
<1>3. tokens'[n].user = tokens[n].user /\ tokens'[n].state = tokens[n].state
  <2>1. CASE Evict \/ UNCHANGED vars
    BY <2>1 DEF Evict, vars, storeVars
  <2>2. CASE Tick
    BY <2>2 DEF Tick, PassTime, Typed, TypeOK, StoreTypeOK, TokenDocument, NotIssued
  <2> QED BY <2>1, <2>2
<1>4. cachedTokens'[n] <= cachedTokens[n] /\ cachedTokens'[n] \in Nat
  <2>1. CASE Evict
    <3>1. cachedTokens'[n] \in {0, cachedTokens[n]}
      BY <2>1 DEF Evict, UncacheTokens
    <3> QED BY <1>2, <3>1
  <2>2. CASE Tick
    BY <1>2, <2>2 DEF Tick, PassTime
  <2>3. CASE UNCHANGED vars
    BY <1>2, <2>3 DEF vars, storeVars
  <2> QED BY <2>1, <2>2, <2>3
<1>5. cachedTokens'[n] > 0 => cachedTokens[n] > 0
  BY <1>2, <1>4
<1> QED BY <1>1, <1>3, <1>4, <1>5 DEF Pending

\* The account and the token of a request that sends a command.
LEMMA StepAbout ==
    ASSUME Typed, NEW c \in Call, Step(c), ~Respond(c)
    PROVE  LET k == call[c]
               l == call'[c]
           IN  /\ ~Idle(c) /\ k \in InFlight /\ l \in InFlight /\ l.op = k.op /\ l.met = k.met
               /\ l.todo = Tail(k.todo) \/ l.todo = <<>>
               /\ k.todo \in Seq(Commands) /\ k.todo /= <<>>
               /\ \/ l.user = k.user /\ l.token = k.token
                  \/ /\ FindLogin(c) /\ k.op = "login" /\ Left(k) = 3
                     /\ k.token = NoToken /\ l.token = NoToken
                  \/ InsertTheToken(c) /\ k.op \in Issuing /\ l.user = k.user /\ l.token = NewToken
<1> DEFINE k == call[c]
           l == call'[c]
<1>1. ~Idle(c) /\ k \in InFlight /\ k.todo /= <<>> /\ k.todo \in Seq(Commands)
  <2>1. \E command : Sends(c, command)
    BY DEF Step, CheckEmail, InsertUser, FindLogin, InsertTheToken, ReadCachedToken,
           FindToken, CacheTheToken, DeleteTheToken, UncacheTheToken, ListTokens,
           UncacheListed, DeleteAllTokens, ReadCachedUser, FindUser, CacheTheUser,
           UncacheTheUser, WriteUser, RemoveTheUser, Refuse, Sends
  <2>2. ~Idle(c) /\ k \in InFlight /\ k.todo /= <<>>
    BY <2>1, Sending
  <2> QED BY <2>2 DEF InFlight
<1>2. CASE Plain(c)
  BY <1>1, <1>2, PlainKeeps DEF Keeps, Advanced
<1>3. CASE FindLogin(c)
  <2>1. Sends(c, "find_login") /\ Advanced(k, l) /\ l.token = k.token
    BY <1>3, FindLoginAdvances
  <2>2. k.op = "login" /\ Left(k) = 3 /\ k.token = NoToken
    BY <2>1, Sent, Places DEF Knows, Issuing
  <2> QED BY <1>1, <1>3, <2>1, <2>2 DEF Advanced
<1>4. CASE InsertTheToken(c)
  BY <1>1, <1>4, InsertTheTokenAdvances DEF Advanced
<1>5. CASE FindToken(c) \/ CacheTheToken(c)
  BY <1>1, <1>5, FindTokenAdvances, CacheTheTokenAdvances DEF Advanced
<1>6. CASE ListTokens(c) \/ UncacheListed(c)
  BY <1>1, <1>6, ListingAdvances DEF Advanced
<1>7. CASE Refuse(c)
  <2>1. Head(k.todo) \in ErrorIgnored \/ Head(k.todo) \notin ErrorIgnored
    OBVIOUS
  <2> QED BY <1>1, <1>7, <2>1, RefuseAdvances
<1> QED BY <1>2, <1>3, <1>4, <1>5, <1>6, <1>7 DEF Step, Plain

LEMMA Answers ==
    ASSUME Typed, NEW c \in Call, Respond(c)
    PROVE  /\ call[c] \in InFlight /\ Knows(call[c]) /\ Left(call[c]) = 0 /\ ~Idle(c)
           /\ call'[c] = NoCall /\ \A d \in Call \ {c} : call'[d] = call[d]
           /\ UNCHANGED storeVars
           /\ ~Undisturbed(call[c]) => suspect' = suspect \cup Subject(call[c]) /\ ended' = ended
           /\ Undisturbed(call[c]) /\ call[c].code = "ok" =>
                /\ ended' = ended \cup (Subject(call[c]) \cap Token)
                /\ suspect' = suspect \ Subject(call[c])
           /\ Undisturbed(call[c]) /\ call[c].code /= "ok" => UNCHANGED <<ended, suspect>>
<1>1. ~Idle(c) /\ call[c].todo = <<>> /\ UNCHANGED storeVars /\ call' = [call EXCEPT ![c] = NoCall]
  BY DEF Respond
<1>2. Len(<<>>) = 0
  OBVIOUS
<1>3. /\ ~Undisturbed(call[c]) => suspect' = suspect \cup Subject(call[c]) /\ ended' = ended
      /\ Undisturbed(call[c]) /\ call[c].code = "ok" =>
                /\ ended' = ended \cup (Subject(call[c]) \cap Token)
                /\ suspect' = suspect \ Subject(call[c])
      /\ Undisturbed(call[c]) /\ call[c].code /= "ok" => UNCHANGED <<ended, suspect>>
  BY DEF Respond
<1>4. call[c] \in InFlight /\ Knows(call[c])
  BY <1>1, Answering DEF Typed
<1> QED BY <1>1, <1>2, <1>3, <1>4 DEF Left, Typed, TypeOK

LEMMA HeldInvariant == Typed /\ InOrder /\ Held /\ [Next]_vars => Held'
<1> SUFFICES ASSUME Typed, InOrder, Held, [Next]_vars PROVE Held'
  OBVIOUS
<1>1. \A n \in Issued : n \in Issued' /\ tokens'[n].user = tokens[n].user
  BY TokensGoOn
<1>2. ASSUME NEW d \in Call, call'[d].token = call[d].token, call'[d].user = call[d].user
      PROVE  call'[d].token \in Token =>
               call'[d].token \in Issued' /\ tokens'[call'[d].token].user = call'[d].user
  BY <1>1, <1>2 DEF Held
<1>3. ASSUME NEW c \in Call, RequestArrives(c) PROVE Held'
  <2>1. PICK k : Arrived(c, k)
    BY <1>3, Arrives
  <2>2. k.token \in Token => k.token \in Issued /\ tokens[k.token].user = k.user
    <3>1. CASE k.op \in {"refresh", "logout"}
      BY <2>1, <3>1 DEF Arrived, Presentable
    <3>2. CASE k.op \notin {"refresh", "logout"}
      <4>1. k.token = NoToken
        BY <2>1, <3>2 DEF Arrived, Knows
      <4> QED BY <4>1, IdsInRange
    <3> QED BY <3>1, <3>2
  <2>3. call'[c].token = k.token /\ call'[c].user = k.user
    BY <2>1, ArrivedAlone
  <2>4. \A d \in Call \ {c} : call'[d].token = call[d].token /\ call'[d].user = call[d].user
    BY <2>1, ArrivedAlone
  <2> QED BY <1>1, <1>2, <2>2, <2>3, <2>4 DEF Held
<1>4. ASSUME NEW c \in Call, Step(c) PROVE Held'
  <2>1. \A d \in Call \ {c} : call'[d] = call[d]
    BY <1>4, StepAlone
  <2>2. call'[c].token \in Token =>
          call'[c].token \in Issued' /\ tokens'[call'[c].token].user = call'[c].user
    <3>1. CASE Respond(c)
      BY <3>1, Answers, IdsInRange DEF NoCall
    <3>2. CASE ~Respond(c)
      BY <1>2, <1>4, <3>2, StepAbout, IdsInRange, TokensGoOn
    <3> QED BY <3>1, <3>2
  <2> QED BY <1>2, <2>1, <2>2 DEF Held
<1>5. CASE Evict \/ Tick \/ UNCHANGED vars
  <2>1. UNCHANGED call
    BY <1>5 DEF Evict, Tick, vars
  <2> QED BY <1>2, <2>1 DEF Held
<1> QED BY <1>3, <1>4, <1>5 DEF Next

LEMMA Meetings ==
    ASSUME NEW k, NEW l
    PROVE  /\ Meeting(k, l) = "same" <=> k.user = l.user \/ k.user = NoUser \/ l.user = NoUser
           /\ Meeting(k, l) \in {"same", "other"}
BY DEF Meeting

LEMMA AwareInvariant == Typed /\ Aware /\ [Next]_vars => Aware'
<1> SUFFICES ASSUME Typed, Aware, [Next]_vars PROVE Aware'
  OBVIOUS
<1> DEFINE May(k, l) == k.user = l.user \/ k.user = NoUser \/ l.user = NoUser
<1>1. /\ \A c, d \in Call : c /= d /\ ~Idle(c) /\ ~Idle(d) /\ May(call[c], call[d]) =>
           "same" \in call[c].met
      /\ \A c \in Call : call[c].op = "login" /\ Left(call[c]) = 3 => call[c].user = NoUser
  BY Meetings DEF Aware
<1>2. SUFFICES /\ \A c, d \in Call :
                    c /= d /\ ~Idle(c)' /\ ~Idle(d)' /\ May(call'[c], call'[d]) =>
                      "same" \in call'[c].met
               /\ \A c \in Call : call'[c].op = "login" /\ Left(call'[c]) = 3 =>
                    call'[c].user = NoUser
  BY Meetings DEF Aware
<1>3. ASSUME NEW c \in Call, RequestArrives(c)
      PROVE  /\ \A d, e \in Call :
                  d /= e /\ ~Idle(d)' /\ ~Idle(e)' /\ May(call'[d], call'[e]) =>
                    "same" \in call'[d].met
             /\ \A d \in Call : call'[d].op = "login" /\ Left(call'[d]) = 3 =>
                  call'[d].user = NoUser
  <2>1. PICK k : Arrived(c, k)
    BY <1>3, Arrives
  <2>2. /\ call'[c].user = k.user /\ call'[c].op = k.op /\ call'[c].todo = k.todo
        /\ call'[c].met = {Meeting(k, call[b]) : b \in {d \in Call : ~Idle(d)}}
        /\ Idle(c)
    BY <2>1, ArrivedAlone DEF Arrived
  <2>3. \A d \in Call \ {c} :
           /\ call'[d].user = call[d].user /\ call'[d].op = call[d].op
           /\ call'[d].todo = call[d].todo
           /\ ~Idle(d) => call'[d].met = call[d].met \cup {Meeting(k, call[d])}
           /\ ~Idle(d)' => ~Idle(d)
    BY <2>1, ArrivedAlone DEF Idle
  <2>4. \A d \in Call : call'[d].op = "login" /\ Left(call'[d]) = 3 => call'[d].user = NoUser
    <3>1. k.op = "login" => k.user = NoUser
      BY <2>1 DEF Arrived
    <3> QED BY <1>1, <2>2, <2>3, <3>1 DEF Left
  <2>5. ASSUME NEW d \in Call, NEW e \in Call, d /= e, ~Idle(d)', ~Idle(e)',
               May(call'[d], call'[e])
        PROVE  "same" \in call'[d].met
    <3>1. CASE d = c
      <4>1. Meeting(k, call[e]) = "same" /\ ~Idle(e)
        BY <2>2, <2>3, <2>5, <3>1, Meetings
      <4> QED BY <2>2, <3>1, <4>1
    <3>2. CASE e = c
      <4>1. Meeting(k, call[d]) = "same" /\ ~Idle(d)
        BY <2>2, <2>3, <2>5, <3>2, Meetings
      <4> QED BY <2>3, <2>5, <3>2, <4>1
    <3>3. CASE d /= c /\ e /= c
      BY <1>1, <2>3, <2>5, <3>3
    <3> QED BY <3>1, <3>2, <3>3
  <2> HIDE DEF May
  <2> QED BY <2>4, <2>5
<1>4. ASSUME NEW c \in Call, Step(c)
      PROVE  /\ \A d, e \in Call :
                  d /= e /\ ~Idle(d)' /\ ~Idle(e)' /\ May(call'[d], call'[e]) =>
                    "same" \in call'[d].met
             /\ \A d \in Call : call'[d].op = "login" /\ Left(call'[d]) = 3 =>
                  call'[d].user = NoUser
  <2>1. \A d \in Call \ {c} : call'[d] = call[d]
    BY <1>4, StepAlone
  <2>2. CASE Respond(c)
    <3>1. call'[c] = NoCall
      BY <2>2, Answers
    <3> QED BY <1>1, <2>1, <3>1 DEF Idle, NoCall
  <2>3. CASE ~Respond(c)
    <3>1. /\ ~Idle(c) /\ call'[c].met = call[c].met /\ call'[c].op = call[c].op
          /\ call'[c].user = call[c].user \/ call[c].user = NoUser
      BY <1>1, <1>4, <2>3, StepAbout
    <3>2. call'[c].op = "login" => Left(call'[c]) < 3
      <4>1. Len(Final["login"]) = 3
        BY DEF Final
      <4>2. call[c].op = "login" => Len(call[c].todo) <= 3
        BY <3>1, <4>1 DEF Typed, InSequence, Rest
      <4>3. /\ call'[c].todo = Tail(call[c].todo) \/ call'[c].todo = <<>>
            /\ call[c].todo \in Seq(Commands) /\ call[c].todo /= <<>>
        BY <1>4, <2>3, StepAbout
      <4>4. /\ Len(Tail(call[c].todo)) = Len(call[c].todo) - 1 /\ Len(<<>>) = 0
            /\ Len(call[c].todo) \in Nat
        BY <4>3
      <4>5. Left(call'[c]) \in {0, Len(call[c].todo) - 1}
        BY <4>3, <4>4 DEF Left
      <4> QED BY <3>1, <4>2, <4>4, <4>5
    <3>3. ASSUME NEW d \in Call, NEW e \in Call, d /= e, ~Idle(d)', ~Idle(e)',
                 May(call'[d], call'[e])
          PROVE  "same" \in call'[d].met
      <4>1. ~Idle(d) /\ ~Idle(e) /\ call'[d].met = call[d].met
        BY <2>1, <3>1, <3>3 DEF Idle
      <4>2. May(call[d], call[e])
        BY <2>1, <3>1, <3>3
      <4> QED BY <1>1, <3>3, <4>1, <4>2
    <3>4. ASSUME NEW d \in Call, call'[d].op = "login", Left(call'[d]) = 3
          PROVE  call'[d].user = NoUser
      <4>1. d /= c
        BY <3>2, <3>4
      <4> QED BY <1>1, <2>1, <3>4, <4>1
    <3> HIDE DEF May
    <3> QED BY <3>3, <3>4
  <2> QED BY <2>2, <2>3
<1>5. CASE Evict \/ Tick \/ UNCHANGED vars
  <2>1. UNCHANGED call
    BY <1>5 DEF Evict, Tick, vars
  <2> QED BY <1>1, <2>1 DEF Idle
<1> HIDE DEF May
<1> QED BY <1>3, <1>4, <1>5 DEF Next

\* A logout that a step leaves alone stays where it was.
LEMMA StageStays ==
    ASSUME Typed, Typed', NEW d \in Call, Stage(call[d]),
           call'[d].op = call[d].op, call'[d].todo = call[d].todo,
           call'[d].user = call[d].user, call'[d].token = call[d].token,
           call'[d].found = call[d].found, call'[d].code = call[d].code,
           call'[d].refused = call[d].refused, call[d].met \subseteq call'[d].met,
           call[d].op = "logout" =>
               call[d].token \in Token /\ tokens'[call[d].token].user = call[d].user,
           \A n \in Token : tokens'[n].user = call[d].user =>
               /\ tokens'[n].user = tokens[n].user /\ tokens'[n].state = tokens[n].state
               /\ cachedTokens'[n] <= cachedTokens[n]
               /\ n \in suspect => n \in suspect'
    PROVE  Stage(call[d])'
<1> SUFFICES ASSUME Undisturbed(call[d])' PROVE Stage(call[d])'
  BY DEF Stage
<1>1. Undisturbed(call[d]) /\ Left(call[d])' = Left(call[d])
  BY DEF Undisturbed, Left
<1>2. \A n \in Token : cachedTokens[n] \in Nat /\ cachedTokens'[n] \in Nat
  BY StoreAssumption DEF Typed, TypeOK, StoreTypeOK
<1>3. CASE call[d].op = "logout"
  BY <1>1, <1>2, <1>3 DEF Stage
<1>4. CASE call[d].op = "logout_all"
  <2>1. call'[d].code = "ok"
    BY <1>1, <1>4 DEF Stage
  <2>2. ASSUME NEW n \in Token \ suspect', tokens'[n].user = call'[d].user
        PROVE  /\ Left(call'[d]) = 3 /\ cachedTokens'[n] > 0 => tokens'[n].state = "live"
               /\ Left(call'[d]) = 2 /\ cachedTokens'[n] > 0 => n \in call'[d].found
               /\ Left(call'[d]) <= 1 => cachedTokens'[n] = 0
               /\ Left(call'[d]) = 0 => tokens'[n].state /= "live"
    <3>1. /\ n \in Token \ suspect /\ tokens[n].user = call[d].user
          /\ tokens'[n].state = tokens[n].state /\ cachedTokens'[n] <= cachedTokens[n]
      BY <2>2
    <3>2. /\ Left(call[d]) = 3 /\ cachedTokens[n] > 0 => tokens[n].state = "live"
          /\ Left(call[d]) = 2 /\ cachedTokens[n] > 0 => n \in call[d].found
          /\ Left(call[d]) <= 1 => cachedTokens[n] = 0
          /\ Left(call[d]) = 0 => tokens[n].state /= "live"
      BY <1>1, <1>4, <3>1 DEF Stage
    <3>3. Left(call'[d]) = Left(call[d]) /\ call'[d].found = call[d].found
      BY DEF Left
    <3>4. cachedTokens'[n] > 0 => cachedTokens[n] > 0
      BY <1>2, <3>1
    <3>5. cachedTokens[n] = 0 => cachedTokens'[n] = 0
      BY <1>2, <3>1
    <3> QED BY <3>1, <3>2, <3>3, <3>4, <3>5
  <2> QED BY <1>4, <2>1, <2>2 DEF Stage
<1>5. CASE call[d].op \notin {"logout", "logout_all"}
  BY <1>5 DEF Stage
<1> QED BY <1>3, <1>4, <1>5

\* The token of a logout is one of its user's.
LEMMA LogoutHeld ==
    ASSUME Typed, InOrder, Held, [Next]_vars, NEW d \in Call, call[d].op = "logout"
    PROVE  /\ call[d].token \in Token /\ tokens[call[d].token].user = call[d].user
           /\ tokens'[call[d].token].user = call[d].user
<1>1. call[d].token \in Token
  BY DEF Typed, Idle, Knows
<1> QED BY <1>1, TokensGoOn DEF Held

LEMMA StageArrives ==
    ASSUME Typed, Typed', Held, Excuses, NEW c \in Call, NEW k, Arrived(c, k)
    PROVE  Stage(call[c])'
<1>1. /\ call'[c].op = k.op /\ call'[c].todo = k.todo /\ call'[c].user = k.user
      /\ call'[c].token = k.token /\ call'[c].code = k.code
      /\ call'[c].met = {Meeting(k, call[b]) : b \in {d \in Call : ~Idle(d)}}
      /\ UNCHANGED <<storeVars, suspect>>
  BY ArrivedAlone
<1>2. k.code = "ok" /\ (k.op \in {"logout", "logout_all"} => Left(k) = Len(Final[k.op]))
  BY DEF Arrived
<1>3. Len(Final["logout"]) = 2 /\ Len(Final["logout_all"]) = 3
  BY DEF Final
<1>4. CASE k.op = "logout"
  <2>1. Left(call[c])' = 2
    BY <1>1, <1>2, <1>3, <1>4 DEF Left
  <2> QED BY <1>1, <1>2, <1>4, <2>1 DEF Stage
<1>5. CASE k.op = "logout_all"
  <2> SUFFICES ASSUME Undisturbed(call[c])', NEW n \in Token \ suspect, tokens[n].user = k.user,
                      cachedTokens[n] > 0, tokens[n].state /= "live"
               PROVE  FALSE
    <3>1. Left(call[c])' = 3
      BY <1>1, <1>2, <1>3, <1>5 DEF Left
    <3> QED BY <1>1, <1>2, <1>5, <3>1 DEF Stage, storeVars
  <2>1. PICK d \in Call : Concerns(call[d], n)
    BY DEF Excuses, Excused, Pending
  <2>2. ~Idle(d) /\ call[d].user = k.user
    BY <2>1 DEF Concerns, Idle, Held
  <2>3. Meeting(k, call[d]) = "same"
    BY <2>2, Meetings
  <2> QED BY <1>1, <2>2, <2>3 DEF Undisturbed
<1>6. CASE k.op \notin {"logout", "logout_all"}
  BY <1>1, <1>6 DEF Stage
<1> QED BY <1>4, <1>5, <1>6

\* A command of a logout takes it on.
LEMMA StageAdvances ==
    ASSUME Typed, Typed', Lasting, Stages, NEW c \in Call, Step(c), ~Respond(c)
    PROVE  Stage(call[c])'
<1> DEFINE k == call[c]
           l == call'[c]
<1>1. UNCHANGED suspect /\ Stage(k)
  BY StepAlone DEF Stages
<1>2. CASE Refuse(c)
  <2>1. l.refused \in {"store", "cache"}
    BY <1>2, RefuseAdvances
  <2> QED BY <2>1 DEF Stage, Undisturbed
<1>3. CASE k.op = "logout" /\ ~Refuse(c)
  <2> SUFFICES ASSUME Undisturbed(l)
               PROVE  /\ l.code = "ok"
                      /\ Left(l) <= 1 => tokens'[l.token].state /= "live"
                      /\ Left(l) = 0 => cachedTokens'[l.token] = 0
    <3>1. l.op = "logout"
      BY <1>3, LogoutSteps DEF Keeps, Advanced
    <3> QED BY <3>1 DEF Stage, Left, Undisturbed
  <2>1. /\ Keeps(k, l) /\ l.code = k.code /\ k.token \in Token /\ Left(l) = Left(k) - 1
        /\ \/ Left(k) = 2 /\ DeleteToken(k.token) /\ UNCHANGED cachedTokens
           \/ Left(k) = 1 /\ UncacheTokens({k.token}) /\ UNCHANGED tokens
    BY <1>3, LogoutSteps
  <2>2. l.token = k.token /\ Undisturbed(k)
    BY <2>1 DEF Keeps, Advanced, Undisturbed
  <2>3. k.code = "ok" /\ (Left(k) <= 1 => tokens[k.token].state /= "live")
    BY <1>1, <1>3, <2>2 DEF Stage
  <2>4. CASE Left(k) = 2 /\ DeleteToken(k.token)
    <3>1. tokens'[k.token].state /= "live"
      BY <2>1, <2>4 DEF DeleteToken, Typed, TypeOK, StoreTypeOK, TokenDocument, NotIssued
    <3> QED BY <2>1, <2>2, <2>3, <2>4, <3>1
  <2>5. CASE Left(k) = 1 /\ UncacheTokens({k.token}) /\ UNCHANGED tokens
    <3>1. cachedTokens'[k.token] = 0
      BY <2>1, <2>5 DEF UncacheTokens
    <3> QED BY <2>1, <2>2, <2>3, <2>5, <3>1
  <2> QED BY <2>1, <2>4, <2>5
<1>4. CASE k.op = "logout_all" /\ ~Refuse(c)
  <2>1. /\ Advanced(k, l) /\ l.user = k.user /\ l.code = k.code
        /\ Left(l) = Left(k) - 1
        /\ \/ /\ Left(k) = 3 /\ UNCHANGED <<tokens, cachedTokens>>
              /\ l.found = ValidTokensOf(k.user)
           \/ Left(k) = 2 /\ UncacheTokens(k.found) /\ UNCHANGED tokens
           \/ Left(k) = 1 /\ DeleteTokensOf(k.user) /\ UNCHANGED cachedTokens
    BY <1>4, LogoutAllSteps
  <2>2. l.op = "logout_all"
    BY <1>4, <2>1 DEF Advanced
  <2> SUFFICES ASSUME Undisturbed(l)
               PROVE  /\ l.code = "ok"
                      /\ \A n \in Token \ suspect : tokens'[n].user = k.user =>
                           /\ Left(l) = 3 /\ cachedTokens'[n] > 0 => tokens'[n].state = "live"
                           /\ Left(l) = 2 /\ cachedTokens'[n] > 0 => n \in l.found
                           /\ Left(l) <= 1 => cachedTokens'[n] = 0
                           /\ Left(l) = 0 => tokens'[n].state /= "live"
    BY <1>1, <2>1, <2>2 DEF Stage, Left, Undisturbed
  <2>3. Undisturbed(k)
    BY <2>1 DEF Advanced, Undisturbed
  <2>4. l.code = "ok"
    BY <1>1, <1>4, <2>1, <2>3 DEF Stage
  <2>5. ASSUME NEW n \in Token \ suspect, tokens'[n].user = k.user
        PROVE  /\ Left(l) = 3 /\ cachedTokens'[n] > 0 => tokens'[n].state = "live"
               /\ Left(l) = 2 /\ cachedTokens'[n] > 0 => n \in l.found
               /\ Left(l) <= 1 => cachedTokens'[n] = 0
               /\ Left(l) = 0 => tokens'[n].state /= "live"
    <3>1. tokens[n].user = k.user
      BY <2>1, <2>5 DEF DeleteTokensOf
    <3>2. /\ Left(k) = 3 /\ cachedTokens[n] > 0 => tokens[n].state = "live"
          /\ Left(k) = 2 /\ cachedTokens[n] > 0 => n \in k.found
          /\ Left(k) <= 1 => cachedTokens[n] = 0
      BY <1>1, <1>4, <2>3, <2>5, <3>1 DEF Stage
    <3>3. CASE /\ Left(k) = 3 /\ UNCHANGED <<tokens, cachedTokens>>
               /\ l.found = ValidTokensOf(k.user)
      <4>1. cachedTokens[n] > 0 => tokens[n].left > 0
        BY LastingTypes DEF Lasting, NothingOutlivesExpiry
      <4>2. Left(l) = 2 /\ (cachedTokens'[n] > 0 => n \in l.found)
        BY <2>1, <3>1, <3>2, <3>3, <4>1 DEF ValidTokensOf, ValidToken
      <4> QED BY <4>2
    <3>4. CASE Left(k) = 2 /\ UncacheTokens(k.found) /\ UNCHANGED tokens
      <4>1. cachedTokens'[n] = 0
        BY <3>2, <3>4, LastingTypes DEF UncacheTokens
      <4>2. Left(l) = 1
        BY <2>1, <3>4
      <4> QED BY <4>1, <4>2
    <3>5. CASE Left(k) = 1 /\ DeleteTokensOf(k.user) /\ UNCHANGED cachedTokens
      <4>1. tokens'[n].state /= "live"
        BY <3>1, <3>5 DEF DeleteTokensOf, Typed, TypeOK, StoreTypeOK, TokenDocument, NotIssued
      <4>2. Left(l) = 0 /\ cachedTokens'[n] = 0
        BY <2>1, <3>2, <3>5
      <4> QED BY <4>1, <4>2
    <3> QED BY <2>1, <3>3, <3>4, <3>5
  <2> QED BY <2>4, <2>5
<1>5. CASE k.op \notin {"logout", "logout_all"} /\ ~Refuse(c)
  <2>1. l.op = k.op
    BY StepAbout
  <2> QED BY <1>5, <2>1 DEF Stage
<1> QED BY <1>2, <1>3, <1>4, <1>5


\* Requests about a user that an undisturbed one is about: there are none.
LEMMA NoneBeside ==
    ASSUME Typed, Aware, NEW c \in Call, NEW d \in Call, c /= d, ~Idle(c), ~Idle(d),
           Undisturbed(call[d])
    PROVE  call[c].user /= call[d].user /\ call[c].user /= NoUser /\ call[d].user /= NoUser
<1>1. Meeting(call[d], call[c]) /= "same"
  BY DEF Aware, Undisturbed
<1> QED BY <1>1, Meetings

\* What an answer adds to the suspects, and takes from them, is of its user.
LEMMA SubjectOf ==
    ASSUME Typed, Held, NEW k, k \in {call[c] : c \in Call}, NEW n \in Token
    PROVE  /\ n \in Subject(k) => k.op \in {"logout", "logout_all"} /\ tokens[n].user = k.user
           /\ n \in Subject(k) => Concerns(k, n)
           /\ k.op = "logout" /\ k.token = n => n \in Subject(k)
           /\ k.op = "logout_all" /\ tokens[n].user = k.user => n \in Subject(k) \cup suspect
<1>1. n \notin User
  BY StoreAssumption DEF Token
<1>2. PICK c \in Call : k = call[c]
  OBVIOUS
<1>3. k.token \in Token => tokens[k.token].user = k.user
  BY <1>2 DEF Held
<1>4. k.op \in {"update_user", "delete_user"} => k.user \in User
  BY <1>2 DEF Typed, Idle, TypeOK, InFlight, Knows
<1>5. CASE k.op = "logout"
  BY <1>3, <1>5 DEF Subject, Concerns
<1>6. CASE k.op = "logout_all"
  BY <1>6 DEF Subject, Concerns
<1>7. CASE k.op \in {"update_user", "delete_user"}
  BY <1>1, <1>4, <1>7 DEF Subject, Concerns
<1>8. CASE k.op \notin {"logout", "logout_all", "update_user", "delete_user"}
  BY <1>8 DEF Subject
<1> QED BY <1>5, <1>6, <1>7, <1>8


LEMMA StagesInvariant ==
    Typed /\ Typed' /\ Lasting /\ InOrder /\ LoggedOut /\ [Next]_vars => Stages'
<1> SUFFICES ASSUME Typed, Typed', Lasting, InOrder, LoggedOut, [Next]_vars,
                    NEW d \in Call
             PROVE  Stage(call[d])'
  BY DEF Stages
<1>1. Held /\ Aware /\ Excuses /\ Stages /\ Stage(call[d])
  BY DEF LoggedOut, Stages
<1>2. call[d].op = "logout" =>
        call[d].token \in Token /\ tokens'[call[d].token].user = call[d].user
  BY <1>1, LogoutHeld
<1>3. ASSUME NEW c \in Call, RequestArrives(c) PROVE Stage(call[d])'
  <2>1. PICK k : Arrived(c, k)
    BY <1>3, Arrives
  <2>2. CASE d = c
    BY <1>1, <2>1, <2>2, StageArrives
  <2>3. CASE d /= c
    <3>1. /\ call'[d].op = call[d].op /\ call'[d].todo = call[d].todo
          /\ call'[d].user = call[d].user /\ call'[d].token = call[d].token
          /\ call'[d].found = call[d].found /\ call'[d].code = call[d].code
          /\ call'[d].refused = call[d].refused
          /\ Idle(d) => call'[d] = NoCall
          /\ ~Idle(d) => call[d].met \subseteq call'[d].met
          /\ UNCHANGED <<storeVars, suspect>>
      BY <2>1, <2>3, ArrivedAlone
    <3>2. CASE Idle(d)
      BY <3>1, <3>2 DEF Stage, NoCall
    <3>3. CASE ~Idle(d)
      <4>1. \A n \in Token : /\ tokens'[n] = tokens[n] /\ cachedTokens'[n] = cachedTokens[n]
                             /\ cachedTokens[n] \in Nat /\ (n \in suspect => n \in suspect')
        BY <3>1, LastingTypes DEF storeVars
      <4>2. \A n \in Token : cachedTokens'[n] <= cachedTokens[n]
        BY <4>1
      <4> QED BY <1>1, <1>2, <3>1, <3>3, <4>1, <4>2, StageStays
    <3> QED BY <3>2, <3>3
  <2> QED BY <2>2, <2>3
<1>4. ASSUME NEW c \in Call, Step(c), ~Respond(c) PROVE Stage(call[d])'
  <2>1. CASE d = c
    BY <1>1, <1>4, <2>1, StageAdvances
  <2>2. CASE d /= c
    <3>1. call'[d] = call[d] /\ UNCHANGED suspect
      BY <1>4, <2>2, StepAlone
    <3>2. CASE Idle(d) \/ ~Undisturbed(call[d])
      BY <3>1, <3>2 DEF Stage, Idle, Undisturbed
    <3>3. CASE ~Idle(d) /\ Undisturbed(call[d])
      <4>1. ~Idle(c)
        BY <1>4, StepAbout
      <4>2. call[c].user /= call[d].user
        BY <1>1, <2>2, <3>3, <4>1, NoneBeside
      <4>3. \A n \in Token : tokens'[n].user = call[d].user =>
              /\ tokens'[n].user = tokens[n].user /\ tokens'[n].state = tokens[n].state
              /\ cachedTokens'[n] <= cachedTokens[n]
        BY <1>1, <1>4, <4>2, TokenEffects
      <4> QED BY <1>1, <1>2, <3>1, <4>3, StageStays
    <3> QED BY <3>2, <3>3
  <2> QED BY <2>1, <2>2
<1>5. ASSUME NEW c \in Call, Respond(c) PROVE Stage(call[d])'
  <2>1. CASE d = c
    <3>1. call'[d] = NoCall
      BY <1>5, <2>1, Answers
    <3> QED BY <3>1 DEF Stage, NoCall
  <2>2. CASE d /= c
    <3>1. call'[d] = call[d] /\ UNCHANGED storeVars /\ ~Idle(c)
      BY <1>5, <2>2, Answers
    <3>2. CASE Idle(d) \/ ~Undisturbed(call[d])
      BY <3>1, <3>2 DEF Stage, Idle, Undisturbed
    <3>3. CASE ~Idle(d) /\ Undisturbed(call[d])
      <4>1. call[c].user /= call[d].user
        BY <1>1, <2>2, <3>1, <3>3, NoneBeside
      <4>2. suspect \ Subject(call[c]) \subseteq suspect'
        BY <1>5, Answers
      <4>3. \A n \in Token : /\ tokens'[n] = tokens[n] /\ cachedTokens'[n] = cachedTokens[n]
                             /\ cachedTokens[n] \in Nat
        BY <3>1, LastingTypes DEF storeVars
      <4>4. ASSUME NEW n \in Token, tokens'[n].user = call[d].user, n \in suspect
            PROVE  n \in suspect'
        <5>1. n \notin Subject(call[c])
          BY <1>1, <4>1, <4>3, <4>4, SubjectOf
        <5> QED BY <4>2, <4>4, <5>1
      <4>5. \A n \in Token : cachedTokens'[n] <= cachedTokens[n]
        BY <4>3
      <4> QED BY <1>1, <1>2, <3>1, <4>3, <4>4, <4>5, StageStays
    <3> QED BY <3>2, <3>3
  <2> QED BY <2>1, <2>2
<1>6. CASE Evict \/ Tick \/ UNCHANGED vars
  <2>1. UNCHANGED <<call, suspect>>
    BY <1>6 DEF Evict, Tick, vars
  <2>2. \A n \in Token : /\ tokens'[n].user = tokens[n].user
                         /\ tokens'[n].state = tokens[n].state
                         /\ cachedTokens'[n] <= cachedTokens[n]
    BY <1>6, TokensOutside
  <2> QED BY <1>1, <1>2, <2>1, <2>2, StageStays
<1> QED BY <1>3, <1>4, <1>5, <1>6 DEF Next


\* A request that arrives, or is answered, is about to cache nothing.
LEMMA PendingBetween ==
    ASSUME Typed, NEW c \in Call, RequestArrives(c) \/ Respond(c), NEW n \in Token, Pending(n)'
    PROVE  Pending(n)
<1>1. UNCHANGED storeVars
  BY Arrives, ArrivedAlone, Answers
<1>2. \A d \in Call \ {c} : call'[d].token = call[d].token /\ call'[d].left = call[d].left
  BY Arrives, ArrivedAlone, Answers
<1>3. call'[c].left = 0
  <2>1. CASE RequestArrives(c)
    <3>1. PICK k : Arrived(c, k)
      BY <2>1, Arrives
    <3> QED BY <3>1, ArrivedAlone DEF Arrived
  <2>2. CASE Respond(c)
    BY <2>2, Answers DEF NoCall
  <2> QED BY <2>1, <2>2
<1> QED BY <1>1, <1>2, <1>3 DEF Pending, storeVars

\* When a logout is answered that nothing disturbed, its tokens are gone, and
\* no request holds one.
LEMMA EndsWell ==
    ASSUME Typed, Held, Aware, Stages, NEW c \in Call, Respond(c), Undisturbed(call[c]),
           NEW n \in Token, n \in Subject(call[c])
    PROVE  n \in Issued /\ tokens[n].state /= "live" /\ ~Pending(n)'
<1>1. /\ call[c].op \in {"logout", "logout_all"} /\ tokens[n].user = call[c].user
  BY SubjectOf
<1>2. Left(call[c]) = 0 /\ ~Idle(c) /\ Knows(call[c]) /\ UNCHANGED storeVars
      /\ call'[c] = NoCall /\ \A d \in Call \ {c} : call'[d] = call[d]
  BY Answers
<1>3. tokens[n].state /= "live" /\ cachedTokens[n] = 0
  <2>1. CASE call[c].op = "logout"
    BY <1>2, <2>1 DEF Stages, Stage, Subject
  <2>2. CASE call[c].op = "logout_all"
    BY <1>1, <1>2, <2>2 DEF Stages, Stage, Subject
  <2> QED BY <1>1, <2>1, <2>2
<1>4. n \in Issued
  <2>1. call[c].user \in User
    BY <1>1, <1>2 DEF Knows
  <2> QED BY <1>1, <2>1, StoreAssumption DEF Issued, NotIssued
<1>5. ASSUME NEW d \in Call, call'[d].token = n PROVE FALSE
  <2>1. d /= c
    BY <1>2, <1>5, IdsInRange DEF NoCall
  <2>2. call[d].token = n /\ ~Idle(d)
    <3>1. call[d].token = n
      BY <1>2, <1>5, <2>1
    <3>2. NoCall.token = NoToken
      BY DEF NoCall
    <3> QED BY <3>1, <3>2, IdsInRange DEF Idle, Typed, TypeOK, InFlight, Operations, NoCall
  <2>3. call[d].user = call[c].user
    BY <1>1, <2>2 DEF Held
  <2> QED BY <1>2, <2>1, <2>2, <2>3, NoneBeside
<1> QED BY <1>2, <1>3, <1>4, <1>5 DEF Pending, storeVars

LEMMA GoneInvariant ==
    Typed /\ InOrder /\ LoggedOut /\ [Next]_vars => Gone'
<1> SUFFICES ASSUME Typed, InOrder, LoggedOut, [Next]_vars, NEW n \in ended'
             PROVE  n \in Issued' /\ tokens'[n].state /= "live" /\ ~Pending(n)'
  BY DEF Gone
<1>1. Held /\ Aware /\ Stages
  BY DEF LoggedOut
<1>2. n \in ended => n \in Token /\ n \in Issued /\ tokens[n].state /= "live" /\ ~Pending(n)
  BY DEF LoggedOut, Gone, Issued
<1>3. n \in Issued => n \in Issued'
  BY TokensGoOn
<1>4. ASSUME NEW c \in Call, RequestArrives(c)
      PROVE  n \in Issued' /\ tokens'[n].state /= "live" /\ ~Pending(n)'
  <2>1. UNCHANGED <<storeVars, ended>>
    BY <1>4, Arrives, ArrivedAlone
  <2> QED BY <1>2, <1>3, <1>4, <2>1, PendingBetween DEF storeVars
<1>5. ASSUME NEW c \in Call, Step(c), ~Respond(c)
      PROVE  n \in Issued' /\ tokens'[n].state /= "live" /\ ~Pending(n)'
  <2>1. n \in ended
    BY <1>5, StepAlone
  <2> QED BY <1>1, <1>2, <1>3, <1>5, <2>1, TokenEffects
<1>6. ASSUME NEW c \in Call, Respond(c)
      PROVE  n \in Issued' /\ tokens'[n].state /= "live" /\ ~Pending(n)'
  <2>1. tokens' = tokens
    BY <1>6, Answers DEF storeVars
  <2>2. CASE n \in ended
    BY <1>2, <1>3, <1>6, <2>1, <2>2, PendingBetween
  <2>3. CASE n \notin ended
    <3>1. Undisturbed(call[c]) /\ n \in Subject(call[c]) \cap Token
      BY <1>6, <2>3, Answers
    <3> QED BY <1>1, <1>3, <1>6, <2>1, <3>1, EndsWell
  <2> QED BY <2>2, <2>3
<1>7. CASE Evict \/ Tick \/ UNCHANGED vars
  <2>1. n \in ended
    BY <1>7 DEF Evict, Tick, vars
  <2> QED BY <1>2, <1>3, <1>7, <2>1, TokensOutside
<1> QED BY <1>4, <1>5, <1>6, <1>7 DEF Next

LEMMA ExcusesInvariant ==
    Typed /\ InOrder /\ LoggedOut /\ [Next]_vars => Excuses'
<1> SUFFICES ASSUME Typed, InOrder, LoggedOut, [Next]_vars, NEW n \in Token,
                    Pending(n)', tokens'[n].state /= "live"
             PROVE  Excused(n)'
  BY DEF Excuses
<1>1. Held /\ Aware /\ Stages /\ (Pending(n) /\ tokens[n].state /= "live" => Excused(n))
  BY DEF LoggedOut, Excuses
<1>2. ASSUME NEW d \in Call, Concerns(call[d], n)
      PROVE  n \in Issued /\ ~Idle(d) /\ call[d].op \in {"logout", "logout_all"}
  <2>1. ~Idle(d) /\ call[d].op \in {"logout", "logout_all"}
    BY <1>2 DEF Concerns, Idle
  <2>2. call[d].user \in User
    BY <2>1 DEF Typed, Knows
  <2>3. CASE call[d].op = "logout"
    BY <1>1, <1>2, <2>1, <2>3 DEF Concerns, Held
  <2>4. CASE call[d].op = "logout_all"
    BY <1>2, <2>1, <2>2, <2>4, StoreAssumption DEF Concerns, Issued, NotIssued
  <2> QED BY <2>1, <2>3, <2>4
<1>3. ASSUME NEW d \in Call, Concerns(call[d], n), call'[d].op = call[d].op,
             call'[d].user = call[d].user, call'[d].token = call[d].token
      PROVE  Excused(n)'
  <2>1. tokens'[n].user = tokens[n].user
    BY <1>2, <1>3, TokensGoOn
  <2>2. Concerns(call[d], n)'
    BY <1>3, <2>1 DEF Concerns
  <2> QED BY <2>2 DEF Excused
<1>4. ASSUME NEW c \in Call, RequestArrives(c) PROVE Excused(n)'
  <2>1. PICK k : Arrived(c, k)
    BY <1>4, Arrives
  <2>2. /\ UNCHANGED <<storeVars, suspect>> /\ Idle(c)
        /\ \A d \in Call \ {c} : /\ call'[d].op = call[d].op /\ call'[d].user = call[d].user
                                 /\ call'[d].token = call[d].token
    BY <2>1, ArrivedAlone DEF Arrived
  <2>3. Pending(n) /\ tokens[n].state /= "live"
    BY <1>4, <2>2, PendingBetween DEF storeVars
  <2> QED BY <1>1, <1>2, <1>3, <2>2, <2>3 DEF Excused
<1>5. ASSUME NEW c \in Call, Step(c), ~Respond(c) PROVE Excused(n)'
  <2>1. UNCHANGED suspect /\ \A d \in Call \ {c} : call'[d] = call[d]
    BY <1>5, StepAlone
  <2>2. call[c].op \in {"logout", "logout_all"} =>
          /\ call'[c].op = call[c].op /\ call'[c].user = call[c].user
          /\ call'[c].token = call[c].token
    BY <1>5, StepAbout DEF Issuing
  <2>3. \/ Concerns(call[c], n)
        \/ Pending(n) /\ tokens[n].state /= "live"
    BY <1>1, <1>5, TokenEffects
  <2>4. CASE \E d \in Call : Concerns(call[d], n)
    BY <1>2, <1>3, <2>1, <2>2, <2>4
  <2>5. CASE n \in suspect
    BY <2>1, <2>5 DEF Excused
  <2> QED BY <1>1, <2>3, <2>4, <2>5 DEF Excused
<1>6. ASSUME NEW c \in Call, Respond(c) PROVE Excused(n)'
  <2>1. UNCHANGED storeVars /\ \A d \in Call \ {c} : call'[d] = call[d]
    BY <1>6, Answers
  <2>2. Excused(n)
    BY <1>1, <1>6, <2>1, PendingBetween DEF storeVars
  <2>3. Undisturbed(call[c]) => n \notin Subject(call[c])
    BY <1>1, <1>6, EndsWell
  <2>4. n \in suspect => n \in suspect'
    BY <1>6, <2>3, Answers
  <2>5. CASE Concerns(call[c], n)
    <3>1. n \in Subject(call[c]) \cup suspect
      BY <1>1, <2>5, SubjectOf DEF Concerns
    <3>2. ~Undisturbed(call[c]) => suspect' = suspect \cup Subject(call[c])
      BY <1>6, Answers
    <3> QED BY <2>3, <2>4, <3>1, <3>2 DEF Excused
  <2>6. CASE \E d \in Call \ {c} : Concerns(call[d], n)
    BY <1>3, <2>1, <2>6
  <2> QED BY <2>2, <2>4, <2>5, <2>6 DEF Excused
<1>7. CASE Evict \/ Tick \/ UNCHANGED vars
  <2>1. UNCHANGED <<call, suspect>>
    BY <1>7 DEF Evict, Tick, vars
  <2>2. Excused(n)
    BY <1>1, <1>7, TokensOutside
  <2> QED BY <1>3, <2>1, <2>2 DEF Excused
<1> QED BY <1>4, <1>5, <1>6, <1>7 DEF Next

\* A refresh that missed the cache puts a token back after a logout has deleted
\* its document and its key; but a logout that met no other request of its user
\* and was refused no command is final, for one token and for those of all
\* devices, whatever had happened to them before.
THEOREM LogoutsHold == Spec => []LogoutHolds
<1>1. Init /\ Typed => LoggedOut
  <2> SUFFICES ASSUME Init, Typed PROVE LoggedOut
    OBVIOUS
  <2>1. \A c \in Call : call[c] = NoCall
    BY DEF Init
  <2>2. ended = {} /\ \A n \in Token : cachedTokens[n] = 0
    BY DEF Init, StoreInit
  <2>3. NoCall.op = "none" /\ NoCall.token = NoToken /\ NoCall.left = 0
    BY DEF NoCall
  <2> QED BY <2>1, <2>2, <2>3, IdsInRange
          DEF LoggedOut, Held, Aware, Stages, Stage, Excuses, Gone, Pending, Idle
<1>2. Typed /\ Typed' /\ Lasting /\ InOrder /\ LoggedOut /\ [Next]_vars => LoggedOut'
  BY StagesInvariant, GoneInvariant, ExcusesInvariant, HeldInvariant, AwareInvariant DEF LoggedOut
<1>3. Typed /\ LoggedOut => LogoutHolds
  <2> SUFFICES ASSUME Typed, LoggedOut, NEW n \in ended PROVE ~Usable(n)
    BY DEF LogoutHolds
  <2>1. n \in Token /\ tokens[n].state /= "live" /\ ~(cachedTokens[n] > 0)
    BY DEF LoggedOut, Gone, Pending, Issued
  <2> QED BY <2>1 DEF Usable, ValidToken
<1>4. Init /\ Typed => Lasting /\ Knowing
  BY FirstLasting, FirstKnowing
<1>5. Knowing => InOrder
  BY DEF Knowing
<1> QED BY <1>1, <1>2, <1>3, <1>4, <1>5, LastingInvariant, KnowingInvariant, TypeInvariance,
           PTL DEF Spec


===============================================================================
