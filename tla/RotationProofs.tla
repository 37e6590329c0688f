------------------------------ MODULE RotationProofs ------------------------------
(***************************************************************************)
(* Theorems about RefreshTokenRotation, for any users, families, calls,    *)
(* lengths of families and lifetimes.                                      *)
(***************************************************************************)
EXTENDS RefreshTokenRotation, TLAPS

\* What a call knows by the time it gets to a command.
CallShape(c) ==
    /\ call[c].op \in {"login", "refresh", "logout"} => call[c].family \in Family
    /\ call[c].op \in {"login", "logout_all"} => call[c].user \in User
    /\ call[c].op = "login" => call[c].fresh = 1
    /\ call[c].pc \in {"set", "sadd", "expire"} => call[c].op = "login"
    /\ call[c].pc \in {"get", "rotate"} => call[c].op = "refresh"
    /\ call[c].pc \in {"lookup", "srem", "del"} => call[c].op \in {"refresh", "logout"}
    /\ call[c].pc = "srem" => call[c].user \in User
    /\ call[c].pc \in {"smembers", "sweep"} => call[c].op = "logout_all"
    /\ call[c].pc \in {"get", "rotate"} => call[c].code = "none"
    /\ call[c].op = "refresh" /\ call[c].code = "ok" => call[c].fresh \in Token

\* Every family has one login.
OneLogin ==
    /\ \A c \in Call : call[c].op = "login" => generated[call[c].family] > 0
    /\ \A c, d \in Call :
          call[c].op = "login" /\ call[d].op = "login" /\ call[c].family = call[d].family
              => c = d

Inv ==
    /\ TypeOK
    /\ \A c \in Call : CallShape(c)
    /\ OneLogin

-------------------------------------------------------------------------------
LEMMA InitInv == Init => Inv
BY MaxTokensAssumption, LifetimeAssumption
   DEF Init, Inv, TypeOK, StoreTypeOK, StoreInit, InFlight, NoCall, CallShape, OneLogin,
       Forever, Missing, Data, Token, NoToken

LEMMA RotatedData ==
    ASSUME NEW d \in Data, NEW p \in Token, NEW t \in Token, NEW l \in 1 .. Lifetime
    PROVE  [d EXCEPT !.previous = p, !.current = t, !.ttl = l] \in Data
BY DEF Data

LEMMA AgedData ==
    ASSUME NEW d \in Data, NEW l \in 1 .. Lifetime, NEW e \in 0 .. Lifetime
    PROVE  [d EXCEPT !.ttl = l, !.expiresIn = e] \in Data
BY DEF Data

LEMMA StoreSteps ==
    ASSUME StoreTypeOK, NEW o
    PROVE  /\ \A f \in Family, u \in User, t \in Token : SetFamily(f, u, t, o) => StoreTypeOK'
           /\ \A u \in User, f \in Family : AddToIndex(u, f, o) => StoreTypeOK'
           /\ \A u \in User : ExpireIndex(u, o) => StoreTypeOK'
           /\ \A u \in User, f \in Family : RemoveFromIndex(u, f, o) => StoreTypeOK'
           /\ \A f \in Family : DeleteFamily(f, o) => StoreTypeOK'
           /\ \A u \in User : DeleteIndex(u, o) => StoreTypeOK'
           /\ \A f \in Family, t \in Token : RotateScript(f, t, o) => StoreTypeOK'
           /\ ExpireKeys => StoreTypeOK'
<1> USE LifetimeAssumption DEF StoreTypeOK, Forever
<1>1. ASSUME NEW f \in Family, NEW u \in User, NEW t \in Token, SetFamily(f, u, t, o)
      PROVE  StoreTypeOK'
  <2>. DEFINE d == [user |-> u, current |-> t, previous |-> NoToken,
                    expiresIn |-> Lifetime, ttl |-> Lifetime]
  <2>1. d \in Data
    BY DEF Data
  <2>2. QED
    BY <1>1, <2>1 DEF SetFamily
<1>2. ASSUME NEW u \in User, NEW f \in Family, AddToIndex(u, f, o) PROVE StoreTypeOK'
  BY <1>2 DEF AddToIndex
<1>3. ASSUME NEW u \in User, ExpireIndex(u, o) PROVE StoreTypeOK'
  BY <1>3 DEF ExpireIndex
<1>4. ASSUME NEW u \in User, NEW f \in Family, RemoveFromIndex(u, f, o) PROVE StoreTypeOK'
  BY <1>4 DEF RemoveFromIndex
<1>5. ASSUME NEW f \in Family, DeleteFamily(f, o) PROVE StoreTypeOK'
  BY <1>5 DEF DeleteFamily
<1>6. ASSUME NEW u \in User, DeleteIndex(u, o) PROVE StoreTypeOK'
  BY <1>6 DEF DeleteIndex
<1>7. ASSUME NEW f \in Family, NEW t \in Token, RotateScript(f, t, o) PROVE StoreTypeOK'
  <2>. SUFFICES ASSUME o /= "refused", Held(f) PROVE StoreTypeOK'
    BY <1>7 DEF RotateScript
  <2>. DEFINE d == [stored[f] EXCEPT !.previous = stored[f].current, !.current = t,
                                     !.ttl = Lifetime]
  <2>1. d \in Data
    <3>1. stored[f] \in Data /\ stored[f].current \in Token
      BY DEF Held, Data
    <3>2. Lifetime \in 1 .. Lifetime
      OBVIOUS
    <3>3. QED
      BY <3>1, <3>2, RotatedData
  <2>2. stored' = [stored EXCEPT ![f] = d]
    BY <1>7 DEF RotateScript
  <2>3. QED
    BY <1>7, <2>1, <2>2 DEF RotateScript
<1>8. ExpireKeys => StoreTypeOK'
  <2>. SUFFICES ASSUME ExpireKeys PROVE StoreTypeOK'
    OBVIOUS
  <2>1. ASSUME NEW g \in Family PROVE stored'[g] \in Data \cup {Missing}
    <3>1. CASE stored[g].ttl <= 1
      BY <3>1 DEF ExpireKeys
    <3>2. CASE ~(stored[g].ttl <= 1)
      <4>. DEFINE e == IF stored[g].expiresIn = 0 THEN 0 ELSE stored[g].expiresIn - 1
      <4>1. stored[g] \in Data
        BY <3>2 DEF Missing
      <4>2. stored[g].ttl - 1 \in 1 .. Lifetime /\ e \in 0 .. Lifetime
        BY <3>2, <4>1 DEF Data
      <4>3. [stored[g] EXCEPT !.ttl = stored[g].ttl - 1, !.expiresIn = e] \in Data
        BY <4>1, <4>2, AgedData
      <4>4. QED
        BY <3>2, <4>3 DEF ExpireKeys
    <3>3. QED
      BY <3>1, <3>2
  <2>2. stored' \in [Family -> Data \cup {Missing}]
    BY <2>1 DEF ExpireKeys
  <2>3. indexTTL' \in [User -> 0 .. Forever]
    <3>1. \A v \in User : indexTTL[v] \in 0 .. Forever
      OBVIOUS
    <3>2. \A v \in User : indexTTL[v] \notin {0, Forever} => indexTTL[v] - 1 \in 0 .. Forever
      BY <3>1
    <3>3. indexTTL' = [v \in User |->
            IF indexTTL[v] \in {0, Forever} THEN indexTTL[v] ELSE indexTTL[v] - 1]
      BY DEF ExpireKeys
    <3>4. QED
      BY <3>1, <3>2, <3>3
  <2>4. members' \in [User -> SUBSET Family]
    BY DEF ExpireKeys
  <2>5. QED
    BY <2>2, <2>3, <2>4
<1>9. QED
  BY <1>1, <1>2, <1>3, <1>4, <1>5, <1>6, <1>7, <1>8

\* What the call that acts becomes: everything else about calls is as it was.
LEMMA OneCallMoves ==
    ASSUME Inv, NEW c \in Call, NEW k \in InFlight \cup {NoCall}, call' = [call EXCEPT ![c] = k],
           generated' \in [Family -> 0 .. MaxTokens],
           \A f \in Family : generated'[f] >= generated[f],
           CallShape(c)',
           k.op = "login" => call[c].op = "login" /\ k.family = call[c].family
    PROVE  /\ call' \in [Call -> InFlight \cup {NoCall}]
           /\ \A d \in Call : CallShape(d)'
           /\ OneLogin'
<1>1. call' \in [Call -> InFlight \cup {NoCall}]
  BY DEF Inv, TypeOK
<1>2. ASSUME NEW d \in Call PROVE CallShape(d)'
  <2>1. CASE d = c
    BY <2>1
  <2>2. CASE d /= c
    <3>1. call'[d] = call[d]
      BY <2>2 DEF Inv, TypeOK
    <3>2. CallShape(d)
      BY DEF Inv
    <3>3. QED
      BY <3>1, <3>2 DEF CallShape
  <2>3. QED
    BY <2>1, <2>2
<1>3. ASSUME NEW d \in Call, call'[d].op = "login"
      PROVE  call[d].op = "login" /\ call'[d].family = call[d].family /\ call[d].family \in Family
  BY <1>3 DEF Inv, TypeOK, CallShape
<1>4. OneLogin'
  <2>1. ASSUME NEW d \in Call, call'[d].op = "login" PROVE generated'[call'[d].family] > 0
    BY <2>1, <1>3 DEF Inv, OneLogin, TypeOK
  <2>2. QED
    BY <2>1, <1>3 DEF Inv, OneLogin
<1>5. QED
  BY <1>1, <1>2, <1>4

LEMMA Running ==
    ASSUME TypeOK, NEW c \in Call, call[c].pc \in Steps
    PROVE  call[c] \in InFlight
BY DEF TypeOK, NoCall, Steps

LEMMA Advances ==
    ASSUME NEW k \in InFlight, NEW pc \in Steps, NEW code \in Codes,
           NEW fresh \in Token \cup {NoToken}, NEW u \in User \cup {NoUser},
           NEW F \in SUBSET Family, NEW G \in SUBSET Family
    PROVE  /\ [k EXCEPT !.pc = pc] \in InFlight
           /\ [k EXCEPT !.pc = pc, !.code = code] \in InFlight
           /\ [k EXCEPT !.pc = pc, !.code = code, !.fresh = fresh] \in InFlight
           /\ [k EXCEPT !.pc = pc, !.user = u] \in InFlight
           /\ [k EXCEPT !.pc = pc, !.listed = F, !.left = G] \in InFlight
           /\ [k EXCEPT !.left = G] \in InFlight
<1>1. [k EXCEPT !.pc = pc] \in InFlight
  BY DEF InFlight
<1>2. [k EXCEPT !.pc = pc, !.code = code] \in InFlight
  BY DEF InFlight
<1>3. [k EXCEPT !.pc = pc, !.code = code, !.fresh = fresh] \in InFlight
  BY DEF InFlight
<1>4. [k EXCEPT !.pc = pc, !.user = u] \in InFlight
  BY DEF InFlight
<1>5. [k EXCEPT !.pc = pc, !.listed = F, !.left = G] \in InFlight
  BY DEF InFlight
<1>6. [k EXCEPT !.left = G] \in InFlight
  BY DEF InFlight
<1>7. QED
  BY <1>1, <1>2, <1>3, <1>4, <1>5, <1>6

LEMMA Begins ==
    ASSUME NEW u \in User \cup {NoUser}, NEW f \in Family \cup {NoFamily},
           NEW t \in Token \cup {NoToken}
    PROVE  /\ [NoCall EXCEPT !.pc = "set", !.op = "login", !.user = u,
                             !.family = f, !.fresh = 1] \in InFlight
           /\ [NoCall EXCEPT !.pc = "get", !.op = "refresh", !.family = f,
                             !.token = t] \in InFlight
           /\ [NoCall EXCEPT !.pc = "lookup", !.op = "logout", !.family = f,
                             !.token = t, !.code = "ok"] \in InFlight
           /\ [NoCall EXCEPT !.pc = "smembers", !.op = "logout_all", !.user = u] \in InFlight
<1>. DEFINE login == [NoCall EXCEPT !.pc = "set", !.op = "login", !.user = u]
            logout == [NoCall EXCEPT !.pc = "lookup", !.op = "logout", !.family = f]
<1>1. 1 \in Token
  BY MaxTokensAssumption DEF Token
<1>2. [login EXCEPT !.family = f, !.fresh = 1] \in InFlight
  <2>1. login \in InFlight
    BY DEF InFlight, NoCall, Steps, Codes
  <2>2. QED
    BY <2>1, <1>1 DEF InFlight
<1>3. [NoCall EXCEPT !.pc = "get", !.op = "refresh", !.family = f, !.token = t] \in InFlight
  BY DEF InFlight, NoCall, Steps, Codes
<1>4. [logout EXCEPT !.token = t, !.code = "ok"] \in InFlight
  <2>1. logout \in InFlight
    BY DEF InFlight, NoCall, Steps, Codes
  <2>2. QED
    BY <2>1 DEF InFlight, Codes
<1>5. [NoCall EXCEPT !.pc = "smembers", !.op = "logout_all", !.user = u] \in InFlight
  BY DEF InFlight, NoCall, Steps, Codes
<1>6. QED
  BY <1>2, <1>3, <1>4, <1>5

CallsOK ==
    /\ call \in [Call -> InFlight \cup {NoCall}]
    /\ \A d \in Call : CallShape(d)
    /\ OneLogin

LEMMA Goes ==
    ASSUME Inv, NEW c \in Call, call[c] \in InFlight, NEW pc \in Steps, Goto(c, pc),
           UNCHANGED generated,
           \/ pc = "reply"
           \/ pc = "sadd" /\ call[c].op = "login"
           \/ pc = "expire" /\ call[c].op = "login"
           \/ pc = "rotate" /\ call[c].op = "refresh" /\ call[c].code = "none"
           \/ pc = "del" /\ call[c].op \in {"refresh", "logout"}
    PROVE  CallsOK'
<1>. DEFINE k == [call[c] EXCEPT !.pc = pc]
<1>1. call' = [call EXCEPT ![c] = k] /\ k \in InFlight
  BY DEF Goto, InFlight
<1>2. call'[c] = k /\ k.pc = pc /\ k.op = call[c].op /\ k.family = call[c].family
      /\ k.user = call[c].user /\ k.fresh = call[c].fresh /\ k.code = call[c].code
  BY <1>1 DEF Inv, TypeOK, InFlight
<1>3. CallShape(c)'
  BY <1>2 DEF Inv, CallShape, Steps
<1>4. generated' \in [Family -> 0 .. MaxTokens] /\ \A f \in Family : generated'[f] >= generated[f]
  BY DEF Inv, TypeOK
<1>. HIDE DEF k
<1>5. QED
  BY <1>1, <1>2, <1>3, <1>4, OneCallMoves DEF CallsOK

LEMMA Replies ==
    ASSUME Inv, NEW c \in Call, call[c] \in InFlight, NEW code \in Codes, Reply(c, code),
           generated' \in [Family -> 0 .. MaxTokens],
           \A f \in Family : generated'[f] >= generated[f],
           call[c].op = "refresh" => code /= "ok"
    PROVE  CallsOK'
<1>. DEFINE k == [call[c] EXCEPT !.pc = "reply", !.code = code]
<1>1. call' = [call EXCEPT ![c] = k] /\ k \in InFlight
  BY DEF Reply, InFlight, Steps
<1>2. call'[c] = k /\ k.pc = "reply" /\ k.op = call[c].op /\ k.family = call[c].family
      /\ k.user = call[c].user /\ k.fresh = call[c].fresh /\ k.code = code
  BY <1>1 DEF Inv, TypeOK, InFlight
<1>3. CallShape(c)'
  BY <1>2 DEF Inv, CallShape
<1>. HIDE DEF k
<1>4. QED
  BY <1>1, <1>2, <1>3, OneCallMoves DEF CallsOK

LEMMA Ends ==
    ASSUME Inv, NEW c \in Call, call' = [call EXCEPT ![c] = NoCall], UNCHANGED generated
    PROVE  CallsOK'
<1>1. call'[c] = NoCall
  BY DEF Inv, TypeOK
<1>2. CallShape(c)'
  BY <1>1 DEF CallShape, NoCall
<1>3. generated' \in [Family -> 0 .. MaxTokens] /\ \A f \in Family : generated'[f] >= generated[f]
  BY DEF Inv, TypeOK
<1>4. NoCall.op /= "login"
  BY DEF NoCall
<1>5. QED
  BY <1>2, <1>3, <1>4, OneCallMoves DEF CallsOK

LEMMA NextInv == Inv /\ [Next]_vars => Inv'
<1>. SUFFICES ASSUME Inv, [Next]_vars PROVE Inv'
  OBVIOUS
<1>. USE DEF Inv
<1>0. CASE UNCHANGED vars
  BY <1>0 DEF TypeOK, StoreTypeOK, CallShape, OneLogin, vars, Held
<1>1. ASSUME NEW c \in Call, NEW u \in User, NEW f \in Family, Login(c, u, f) PROVE Inv'
  <2>. DEFINE k == [NoCall EXCEPT !.pc = "set", !.op = "login", !.user = u, !.family = f,
                                  !.fresh = 1]
  <2>1. call' = [call EXCEPT ![c] = k] /\ k \in InFlight /\ call[c] = NoCall
    BY <1>1, Begins, MaxTokensAssumption DEF Login, Starts, Token
  <2>2. k.pc = "set" /\ k.op = "login" /\ k.user = u /\ k.family = f /\ k.fresh = 1
        /\ k.code = "none"
    BY DEF NoCall
  <2>3. TypeOK'
    BY <1>1, <2>1, MaxTokensAssumption
    DEF Login, TypeOK, storeVars, clientVars, StoreTypeOK
  <2>. HIDE DEF k
  <2>4. ASSUME NEW d \in Call PROVE CallShape(d)'
    BY <2>1, <2>2 DEF CallShape, TypeOK
  <2>5. \A d \in Call : call[d].op = "login" => call[d].family /= f
    BY <1>1 DEF OneLogin, Login
  <2>6. generated' = [generated EXCEPT ![f] = 1]
    BY <1>1 DEF Login
  <2>7. OneLogin'
    BY <2>1, <2>2, <2>5, <2>6 DEF OneLogin, TypeOK, CallShape
  <2>8. QED
    BY <2>3, <2>4, <2>7
<1>2. ASSUME NEW c \in Call, NEW f \in Family, NEW t \in Token, Refresh(c, f, t) PROVE Inv'
  <2>. DEFINE k == [NoCall EXCEPT !.pc = "get", !.op = "refresh", !.family = f, !.token = t]
  <2>1. call' = [call EXCEPT ![c] = k] /\ k \in InFlight
    BY <1>2, Begins DEF Refresh, Starts
  <2>2. k.pc = "get" /\ k.op = "refresh" /\ k.family = f /\ k.code = "none"
    BY DEF NoCall
  <2>. HIDE DEF k
  <2>3. CallShape(c)'
    BY <2>1, <2>2 DEF CallShape, TypeOK
  <2>4. generated' \in [Family -> 0 .. MaxTokens] /\ \A g \in Family : generated'[g] >= generated[g]
    BY <1>2 DEF Refresh, TypeOK
  <2>5. CallsOK'
    BY <2>1, <2>2, <2>3, <2>4, OneCallMoves DEF CallsOK
  <2>6. QED
    BY <1>2, <2>5 DEF Refresh, CallsOK, TypeOK, StoreTypeOK, storeVars, clientVars
<1>3. ASSUME NEW c \in Call, NEW f \in Family, NEW t \in Token, Logout(c, f, t) PROVE Inv'
  <2>. DEFINE k == [NoCall EXCEPT !.pc = "lookup", !.op = "logout", !.family = f, !.token = t,
                                  !.code = "ok"]
  <2>1. call' = [call EXCEPT ![c] = k] /\ k \in InFlight
    BY <1>3, Begins DEF Logout, Starts
  <2>2. k.pc = "lookup" /\ k.op = "logout" /\ k.family = f
    BY DEF NoCall
  <2>. HIDE DEF k
  <2>3. CallShape(c)'
    BY <2>1, <2>2 DEF CallShape, TypeOK
  <2>4. generated' \in [Family -> 0 .. MaxTokens] /\ \A g \in Family : generated'[g] >= generated[g]
    BY <1>3 DEF Logout, TypeOK
  <2>5. CallsOK'
    BY <2>1, <2>2, <2>3, <2>4, OneCallMoves DEF CallsOK
  <2>6. QED
    BY <1>3, <2>5 DEF Logout, CallsOK, TypeOK, StoreTypeOK, storeVars, clientVars
<1>4. ASSUME NEW c \in Call, NEW u \in User, LogoutAll(c, u) PROVE Inv'
  <2>. DEFINE k == [NoCall EXCEPT !.pc = "smembers", !.op = "logout_all", !.user = u]
  <2>1. call' = [call EXCEPT ![c] = k] /\ k \in InFlight
    BY <1>4, Begins DEF LogoutAll, Starts
  <2>2. k.pc = "smembers" /\ k.op = "logout_all" /\ k.user = u
    BY DEF NoCall
  <2>. HIDE DEF k
  <2>3. CallShape(c)'
    BY <2>1, <2>2 DEF CallShape, TypeOK
  <2>4. generated' \in [Family -> 0 .. MaxTokens] /\ \A g \in Family : generated'[g] >= generated[g]
    BY <1>4 DEF LogoutAll, TypeOK
  <2>5. CallsOK'
    BY <2>1, <2>2, <2>3, <2>4, OneCallMoves DEF CallsOK
  <2>6. QED
    BY <1>4, <2>5 DEF LogoutAll, CallsOK, TypeOK, StoreTypeOK, storeVars, clientVars
<1>5. ASSUME NEW c \in Call, StoreFamily(c) PROVE Inv'
  <2>1. call[c] \in InFlight /\ CallShape(c) /\ call[c].pc = "set"
    BY <1>5, Running DEF StoreFamily, Steps
  <2>2. call[c].family \in Family /\ call[c].user \in User /\ call[c].op = "login"
        /\ call[c].fresh = 1 /\ 1 \in Token
    BY <2>1, MaxTokensAssumption DEF CallShape, Token
  <2>3. CallsOK'
    BY <1>5, <2>1, <2>2, Goes, Replies DEF StoreFamily, clientVars, Steps, Codes, TypeOK
  <2>4. StoreTypeOK'
    BY <1>5, <2>2, StoreSteps DEF StoreFamily, TypeOK
  <2>5. QED
    BY <1>5, <2>3, <2>4 DEF StoreFamily, CallsOK, TypeOK, clientVars
<1>6. ASSUME NEW c \in Call, IndexFamily(c) PROVE Inv'
  <2>1. call[c] \in InFlight /\ CallShape(c) /\ call[c].pc = "sadd"
    BY <1>6, Running DEF IndexFamily, Steps
  <2>2. call[c].family \in Family /\ call[c].user \in User /\ call[c].op = "login"
        /\ call[c].fresh = 1 /\ 1 \in Token
    BY <2>1, MaxTokensAssumption DEF CallShape, Token
  <2>3. CallsOK'
    BY <1>6, <2>1, <2>2, Goes, Replies DEF IndexFamily, clientVars, Steps, Codes, TypeOK
  <2>4. StoreTypeOK'
    BY <1>6, <2>2, StoreSteps DEF IndexFamily, TypeOK
  <2>5. QED
    BY <1>6, <2>3, <2>4 DEF IndexFamily, CallsOK, TypeOK, clientVars
<1>7. ASSUME NEW c \in Call, RenewIndex(c) PROVE Inv'
  <2>1. call[c] \in InFlight /\ CallShape(c) /\ call[c].pc = "expire"
    BY <1>7, Running DEF RenewIndex, Steps
  <2>2. call[c].family \in Family /\ call[c].user \in User /\ call[c].op = "login"
        /\ call[c].fresh = 1 /\ 1 \in Token
    BY <2>1, MaxTokensAssumption DEF CallShape, Token
  <2>3. CallsOK'
    BY <1>7, <2>1, <2>2, Replies DEF RenewIndex, clientVars, Steps, Codes, TypeOK
  <2>4. StoreTypeOK'
    BY <1>7, <2>2, StoreSteps DEF RenewIndex, TypeOK
  <2>5. QED
    BY <1>7, <2>3, <2>4 DEF RenewIndex, CallsOK, TypeOK, clientVars
<1>11. ASSUME NEW c \in Call, UnindexFamily(c) PROVE Inv'
  <2>1. call[c] \in InFlight /\ CallShape(c) /\ call[c].pc = "srem"
    BY <1>11, Running DEF UnindexFamily, Steps
  <2>2. call[c].family \in Family /\ call[c].user \in User /\ call[c].op \in {"refresh", "logout"}
    BY <2>1 DEF CallShape
  <2>3. CallsOK'
    BY <1>11, <2>1, <2>2, Goes DEF UnindexFamily, clientVars, Steps
  <2>4. StoreTypeOK'
    BY <1>11, <2>2, StoreSteps DEF UnindexFamily, TypeOK
  <2>5. QED
    BY <1>11, <2>3, <2>4 DEF UnindexFamily, CallsOK, TypeOK, clientVars
<1>12. ASSUME NEW c \in Call, EndFamily(c) PROVE Inv'
  <2>1. call[c] \in InFlight /\ CallShape(c) /\ call[c].pc = "del"
    BY <1>12, Running DEF EndFamily, Steps
  <2>2. call[c].family \in Family /\ call[c].op \in {"refresh", "logout"}
    BY <2>1 DEF CallShape
  <2>3. CallsOK'
    BY <1>12, <2>1, <2>2, Goes DEF EndFamily, clientVars, Steps
  <2>4. StoreTypeOK'
    BY <1>12, <2>2, StoreSteps DEF EndFamily, TypeOK
  <2>5. QED
    BY <1>12, <2>3, <2>4 DEF EndFamily, CallsOK, TypeOK, clientVars
<1>8. ASSUME NEW c \in Call, ReadFamily(c) PROVE Inv'
  <2>1. call[c] \in InFlight /\ CallShape(c) /\ call[c].pc = "get"
    BY <1>8, Running DEF ReadFamily, Steps
  <2>2. call[c].family \in Family /\ call[c].op = "refresh" /\ call[c].code = "none"
    BY <2>1 DEF CallShape
  <2>3. UNCHANGED <<stored, members, indexTTL, scenario, generated, given, replaced>>
    BY <1>8 DEF ReadFamily, storeVars, clientVars
  <2>4. CASE Reply(c, "invalid")
    BY <2>1, <2>3, <2>4, Replies DEF CallsOK, TypeOK, StoreTypeOK, Codes
  <2>5. CASE Goto(c, "rotate")
    BY <2>1, <2>2, <2>3, <2>5, Goes DEF CallsOK, TypeOK, StoreTypeOK, Steps
  <2>6. ASSUME NEW v \in {"expired", "reused"},
               call' = [call EXCEPT ![c].pc = "lookup", ![c].code = v]
        PROVE  Inv'
    <3>. DEFINE k == [call[c] EXCEPT !.pc = "lookup", !.code = v]
    <3>1. call' = [call EXCEPT ![c] = k] /\ k \in InFlight
      BY <2>1, <2>6 DEF InFlight, Steps, Codes
    <3>2. k.pc = "lookup" /\ k.op = "refresh" /\ k.family = call[c].family /\ k.code = v
      BY <2>1, <2>2 DEF InFlight
    <3>. HIDE DEF k
    <3>3. CallShape(c)'
      BY <2>2, <3>1, <3>2 DEF CallShape, TypeOK
    <3>4. generated' \in [Family -> 0 .. MaxTokens] /\ \A g \in Family : generated'[g] >= generated[g]
      BY <2>3 DEF TypeOK
    <3>5. CallsOK'
      BY <3>1, <3>2, <3>3, <3>4, OneCallMoves DEF CallsOK
    <3>6. QED
      BY <2>3, <3>5 DEF CallsOK, TypeOK, StoreTypeOK
  <2>7. QED
    BY <1>8, <2>4, <2>5, <2>6 DEF ReadFamily
<1>9. ASSUME NEW c \in Call, Rotate(c) PROVE Inv'
  <2>. DEFINE f == call[c].family
              fresh == generated[f] + 1
              k == [call[c] EXCEPT !.pc = "reply", !.code = "ok", !.fresh = fresh]
  <2>1. call[c] \in InFlight /\ CallShape(c) /\ call[c].pc = "rotate"
    BY <1>9, Running DEF Rotate, Steps
  <2>2. f \in Family /\ call[c].op = "refresh"
    BY <2>1 DEF CallShape
  <2>3. /\ fresh \in Token /\ generated' = [generated EXCEPT ![f] = fresh] /\ given' = given
        /\ scenario' = scenario
    BY <1>9, <2>2, MaxTokensAssumption DEF Rotate, TypeOK, Token
  <2>4. generated' \in [Family -> 0 .. MaxTokens] /\ \A g \in Family : generated'[g] >= generated[g]
    BY <2>2, <2>3 DEF TypeOK, Token
  <2>5. PICK o \in Outcomes :
          /\ RotateScript(f, fresh, o)
          /\ replaced' = IF Held(f) /\ o /= "refused"
                           THEN [replaced EXCEPT ![f] = @ \cup {stored[f].current}]
                           ELSE replaced
          /\ IF Held(f) /\ o = "ok" THEN call' = [call EXCEPT ![c] = k]
                                    ELSE Reply(c, "error")
    BY <1>9 DEF Rotate
  <2>. HIDE DEF fresh
  <2>6. StoreTypeOK'
    BY <2>2, <2>3, <2>5, StoreSteps DEF TypeOK
  <2>7. replaced' \in [Family -> SUBSET Token]
    BY <2>2, <2>5 DEF TypeOK, StoreTypeOK, Held, Data
  <2>8. ASSUME call' = [call EXCEPT ![c] = k] PROVE CallsOK'
    <3>1. k \in InFlight
      BY <2>1, <2>3 DEF InFlight, Steps, Codes
    <3>2. k.pc = "reply" /\ k.op = "refresh" /\ k.family = f /\ k.fresh = fresh
      BY <2>1, <2>2 DEF InFlight
    <3>. HIDE DEF k, f
    <3>3. CallShape(c)'
      BY <2>2, <2>3, <2>8, <3>2 DEF CallShape, TypeOK
    <3>4. QED
      BY <2>4, <2>8, <3>1, <3>2, <3>3, OneCallMoves DEF CallsOK
  <2>9. ASSUME Reply(c, "error") PROVE CallsOK'
    BY <2>1, <2>4, <2>9, Replies DEF Codes
  <2>10. CallsOK'
    BY <2>5, <2>8, <2>9
  <2>11. QED
    BY <2>3, <2>4, <2>6, <2>7, <2>10 DEF CallsOK, TypeOK
<1>10. ASSUME NEW c \in Call, LookUpUser(c) PROVE Inv'
  <2>1. call[c] \in InFlight /\ CallShape(c) /\ call[c].pc = "lookup"
    BY <1>10, Running DEF LookUpUser, Steps
  <2>2. call[c].family \in Family /\ call[c].op \in {"refresh", "logout"}
    BY <2>1 DEF CallShape
  <2>3. UNCHANGED <<stored, members, indexTTL, scenario, generated, given, replaced>>
    BY <1>10 DEF LookUpUser, storeVars, clientVars
  <2>4. CASE Goto(c, "del")
    BY <2>1, <2>2, <2>3, <2>4, Goes DEF CallsOK, TypeOK, StoreTypeOK, Steps
  <2>5. ASSUME NEW u \in User, call' = [call EXCEPT ![c].pc = "srem", ![c].user = u]
        PROVE  Inv'
    <3>. DEFINE k == [call[c] EXCEPT !.pc = "srem", !.user = u]
    <3>1. call' = [call EXCEPT ![c] = k] /\ k \in InFlight
      BY <2>1, <2>5 DEF InFlight, Steps
    <3>2. k.pc = "srem" /\ k.op = call[c].op /\ k.family = call[c].family /\ k.user = u
          /\ k.code = call[c].code /\ k.fresh = call[c].fresh
      BY <2>1 DEF InFlight
    <3>. HIDE DEF k
    <3>3. CallShape(c)'
      BY <2>1, <2>2, <3>1, <3>2 DEF CallShape, TypeOK
    <3>4. generated' \in [Family -> 0 .. MaxTokens] /\ \A g \in Family : generated'[g] >= generated[g]
      BY <2>3 DEF TypeOK
    <3>5. CallsOK'
      BY <3>1, <3>2, <3>3, <3>4, OneCallMoves DEF CallsOK
    <3>6. QED
      BY <2>3, <3>5 DEF CallsOK, TypeOK, StoreTypeOK
  <2>6. Held(call[c].family) => stored[call[c].family].user \in User
    BY <2>2 DEF TypeOK, StoreTypeOK, Held, Data
  <2>7. QED
    BY <1>10, <2>4, <2>5, <2>6 DEF LookUpUser
<1>13. ASSUME NEW c \in Call, ListFamilies(c) PROVE Inv'
  <2>. DEFINE F == members[call[c].user]
              k == [call[c] EXCEPT !.pc = "sweep", !.listed = F, !.left = F]
  <2>1. call[c] \in InFlight /\ CallShape(c) /\ call[c].pc = "smembers"
    BY <1>13, Running DEF ListFamilies, Steps
  <2>2. call[c].user \in User /\ call[c].op = "logout_all" /\ F \subseteq Family
    BY <2>1 DEF CallShape, TypeOK, StoreTypeOK
  <2>3. UNCHANGED <<stored, members, indexTTL, scenario, generated, given, replaced>>
    BY <1>13 DEF ListFamilies, storeVars, clientVars
  <2>4. CASE Reply(c, "error")
    BY <2>1, <2>2, <2>3, <2>4, Replies DEF CallsOK, TypeOK, StoreTypeOK, Codes
  <2>5. CASE call' = [call EXCEPT ![c] = k]
    <3>1. k \in InFlight
      BY <2>1, <2>2 DEF InFlight, Steps
    <3>2. k.pc = "sweep" /\ k.op = "logout_all" /\ k.user = call[c].user
      BY <2>1, <2>2 DEF InFlight
    <3>. HIDE DEF k, F
    <3>3. CallShape(c)'
      BY <2>2, <2>5, <3>2 DEF CallShape, TypeOK
    <3>4. generated' \in [Family -> 0 .. MaxTokens] /\ \A g \in Family : generated'[g] >= generated[g]
      BY <2>3 DEF TypeOK
    <3>5. CallsOK'
      BY <2>5, <3>1, <3>2, <3>3, <3>4, OneCallMoves DEF CallsOK
    <3>6. QED
      BY <2>3, <3>5 DEF CallsOK, TypeOK, StoreTypeOK
  <2>6. QED
    BY <1>13, <2>4, <2>5 DEF ListFamilies
<1>14. ASSUME NEW c \in Call, SweepFamily(c) PROVE Inv'
  <2>1. call[c] \in InFlight /\ CallShape(c) /\ call[c].pc = "sweep"
    BY <1>14, Running DEF SweepFamily, Steps
  <2>2. PICK f \in call[c].left, o \in Outcomes :
          DeleteFamily(f, o) /\ call' = [call EXCEPT ![c].left = @ \ {f}]
    BY <1>14 DEF SweepFamily
  <2>. DEFINE k == [call[c] EXCEPT !.left = @ \ {f}]
  <2>3. call' = [call EXCEPT ![c] = k] /\ k \in InFlight /\ f \in Family
    BY <2>1, <2>2 DEF InFlight
  <2>4. k.pc = "sweep" /\ k.op = call[c].op /\ k.family = call[c].family /\ k.user = call[c].user
        /\ k.fresh = call[c].fresh /\ k.code = call[c].code
    BY <2>1 DEF InFlight
  <2>5. StoreTypeOK'
    BY <2>2, <2>3, StoreSteps DEF TypeOK
  <2>. HIDE DEF k
  <2>6. CallShape(c)'
    BY <2>1, <2>3, <2>4 DEF CallShape, TypeOK
  <2>7. generated' \in [Family -> 0 .. MaxTokens] /\ \A g \in Family : generated'[g] >= generated[g]
    BY <1>14 DEF SweepFamily, TypeOK
  <2>8. CallsOK'
    BY <2>3, <2>4, <2>6, <2>7, OneCallMoves DEF CallsOK
  <2>9. QED
    BY <1>14, <2>5, <2>7, <2>8 DEF SweepFamily, CallsOK, TypeOK, clientVars
<1>15. ASSUME NEW c \in Call, DropIndex(c) PROVE Inv'
  <2>1. call[c] \in InFlight /\ CallShape(c) /\ call[c].pc = "sweep"
    BY <1>15, Running DEF DropIndex, Steps
  <2>2. call[c].user \in User /\ call[c].op = "logout_all"
    BY <2>1 DEF CallShape
  <2>3. StoreTypeOK'
    BY <1>15, <2>2, StoreSteps DEF DropIndex, TypeOK
  <2>4. CallsOK'
    BY <1>15, <2>1, <2>2, Replies DEF DropIndex, TypeOK, Codes, clientVars
  <2>5. QED
    BY <1>15, <2>3, <2>4 DEF DropIndex, CallsOK, TypeOK, clientVars
<1>16. ASSUME NEW c \in Call, Respond(c) PROVE Inv'
  <2>1. call[c] \in InFlight /\ CallShape(c) /\ call[c].pc = "reply"
    BY <1>16, Running DEF Respond, Steps
  <2>2. CallsOK'
    BY <1>16, Ends DEF Respond
  <2>3. call[c].code = "ok" /\ call[c].op \in {"login", "refresh"} => call[c].fresh \in Token
    BY <2>1, MaxTokensAssumption DEF CallShape, Token
  <2>4. given' \in [Family -> SUBSET Token]
    BY <1>16, <2>3 DEF Respond, TypeOK
  <2>5. QED
    BY <1>16, <2>2, <2>4 DEF Respond, CallsOK, TypeOK, StoreTypeOK, storeVars
<1>17. CASE Tick
  <2>1. StoreTypeOK'
    BY <1>17, StoreSteps DEF Tick, TypeOK
  <2>2. QED
    BY <1>17, <2>1 DEF Tick, TypeOK, CallShape, OneLogin, clientVars
<1>18. QED
  BY <1>0, <1>1, <1>2, <1>3, <1>4, <1>5, <1>6, <1>7, <1>8, <1>9, <1>10, <1>11, <1>12, <1>13,
     <1>14, <1>15, <1>16, <1>17 DEF Next, CallStep

\* Every state of the sessions is well typed, whatever fails: a family has one
\* login, and a call reaches a command knowing what the command takes.
THEOREM TypeCorrect == Spec => []TypeOK
<1>1. Inv => TypeOK
  BY DEF Inv
<1>2. QED
  BY <1>1, InitInv, NextInv, PTL DEF Spec

-------------------------------------------------------------------------------
(* Sessions: a family is stored once, by its login.                        *)

\* The families whose login has stored them, or failed to.
Begun == {f \in Family : ~NotStored(f)}

\* Whoever has to do with a family has to do with one that has begun.
SessionsBegin ==
    /\ \A f \in Family : Held(f) \/ given[f] /= {} => f \in Begun
    /\ \A c \in Call : call[c].op \in {"refresh", "logout"} => call[c].family \in Begun
    /\ \A u \in User : members[u] \subseteq Begun
    /\ \A c \in Call : call[c].listed \subseteq Begun

\* What is left alone when a call gets on.
Same(k, l) ==
    /\ k.op = l.op /\ k.family = l.family /\ k.token = l.token /\ k.listed = l.listed

LEMMA GotoEffect ==
    ASSUME TypeOK, NEW c \in Call, call[c] \in InFlight, NEW pc, Goto(c, pc)
    PROVE  /\ \A d \in Call : d /= c => call'[d] = call[d]
           /\ call'[c].pc = pc /\ call'[c].user = call[c].user /\ call'[c].left = call[c].left
           /\ call'[c].code = call[c].code /\ call'[c].fresh = call[c].fresh
           /\ Same(call'[c], call[c])
BY DEF TypeOK, Goto, InFlight, Same

LEMMA ReplyEffect ==
    ASSUME TypeOK, NEW c \in Call, call[c] \in InFlight, NEW code, Reply(c, code)
    PROVE  /\ \A d \in Call : d /= c => call'[d] = call[d]
           /\ call'[c].pc = "reply" /\ call'[c].user = call[c].user /\ call'[c].left = call[c].left
           /\ call'[c].code = code /\ call'[c].fresh = call[c].fresh
           /\ Same(call'[c], call[c])
BY DEF TypeOK, Reply, InFlight, Same

\* A step of a call is one of that call only.
LEMMA OwnCall ==
    ASSUME Inv, NEW c \in Call, CallStep(c)
    PROVE  /\ \A d \in Call : d /= c => call'[d] = call[d]
           /\ call'[c].pc /= "set"
           /\ \/ Respond(c) /\ call'[c] = NoCall
              \/ Same(call'[c], call[c])
              \/ /\ ListFamilies(c) /\ call'[c].op = call[c].op
                 /\ call'[c].family = call[c].family /\ call'[c].listed = members[call[c].user]
<1>. USE DEF Inv
<1>0. NoCall.pc /= "set"
  BY DEF NoCall
<1>1. CASE StoreFamily(c) \/ IndexFamily(c) \/ RenewIndex(c)
  <2>1. call[c] \in InFlight
    BY <1>1, Running DEF StoreFamily, IndexFamily, RenewIndex, Steps
  <2>2. Goto(c, "sadd") \/ Goto(c, "expire") \/ Reply(c, "error") \/ Reply(c, "ok")
    BY <1>1 DEF StoreFamily, IndexFamily, RenewIndex
  <2>3. QED
    BY <2>1, <2>2, GotoEffect, ReplyEffect
<1>2. CASE ReadFamily(c)
  <2>1. call[c] \in InFlight
    BY <1>2, Running DEF ReadFamily, Steps
  <2>2. \/ Goto(c, "rotate") \/ Reply(c, "invalid")
        \/ \E v : call' = [call EXCEPT ![c].pc = "lookup", ![c].code = v]
    BY <1>2 DEF ReadFamily
  <2>3. ASSUME NEW v, call' = [call EXCEPT ![c].pc = "lookup", ![c].code = v]
        PROVE  (\A d \in Call : d /= c => call'[d] = call[d])
               /\ call'[c].pc = "lookup" /\ Same(call'[c], call[c])
    BY <2>1, <2>3 DEF TypeOK, InFlight, Same
  <2>4. QED
    BY <2>1, <2>2, <2>3, GotoEffect, ReplyEffect
<1>3. CASE Rotate(c)
  <2>1. call[c] \in InFlight
    BY <1>3, Running DEF Rotate, Steps
  <2>2. \/ Reply(c, "error")
        \/ call' = [call EXCEPT ![c].pc = "reply", ![c].code = "ok",
                                ![c].fresh = generated[call[c].family] + 1]
    BY <1>3 DEF Rotate
  <2>3. CASE call' = [call EXCEPT ![c].pc = "reply", ![c].code = "ok",
                                         ![c].fresh = generated[call[c].family] + 1]
    BY <2>1, <2>3 DEF TypeOK, InFlight, Same
  <2>4. QED
    BY <2>1, <2>2, <2>3, ReplyEffect
<1>4. CASE LookUpUser(c) \/ UnindexFamily(c) \/ EndFamily(c)
  <2>1. call[c] \in InFlight
    BY <1>4, Running DEF LookUpUser, UnindexFamily, EndFamily, Steps
  <2>2. \/ Goto(c, "del") \/ Goto(c, "reply")
        \/ call' = [call EXCEPT ![c].pc = "srem", ![c].user = stored[call[c].family].user]
    BY <1>4 DEF LookUpUser, UnindexFamily, EndFamily
  <2>3. CASE call' = [call EXCEPT ![c].pc = "srem",
                                         ![c].user = stored[call[c].family].user]
    BY <2>1, <2>3 DEF TypeOK, InFlight, Same
  <2>4. QED
    BY <2>1, <2>2, <2>3, GotoEffect
<1>5. CASE ListFamilies(c)
  <2>1. call[c] \in InFlight
    BY <1>5, Running DEF ListFamilies, Steps
  <2>2. \/ Reply(c, "error")
        \/ call' = [call EXCEPT ![c].pc = "sweep", ![c].listed = members[call[c].user],
                                ![c].left = members[call[c].user]]
    BY <1>5 DEF ListFamilies
  <2>3. CASE call' = [call EXCEPT ![c].pc = "sweep",
                                         ![c].listed = members[call[c].user],
                                         ![c].left = members[call[c].user]]
    BY <1>5, <2>1, <2>3 DEF TypeOK, InFlight, Same
  <2>4. QED
    BY <2>1, <2>2, <2>3, ReplyEffect
<1>6. CASE SweepFamily(c)
  <2>1. call[c] \in InFlight /\ call[c].pc = "sweep"
    BY <1>6, Running DEF SweepFamily, Steps
  <2>2. PICK f \in call[c].left : call' = [call EXCEPT ![c].left = @ \ {f}]
    BY <1>6 DEF SweepFamily
  <2>3. QED
    BY <2>1, <2>2 DEF TypeOK, InFlight, Same
<1>7. CASE DropIndex(c)
  <2>1. call[c] \in InFlight
    BY <1>7, Running DEF DropIndex, Steps
  <2>2. QED
    BY <1>7, <2>1, ReplyEffect DEF DropIndex
<1>8. CASE Respond(c)
  <2>1. call[c] \in InFlight
    BY <1>8, Running DEF Respond, Steps
  <2>2. QED
    BY <1>0, <1>8 DEF Respond, TypeOK
<1>9. QED
  BY <1>1, <1>2, <1>3, <1>4, <1>5, <1>6, <1>7, <1>8 DEF CallStep

\* Likewise the steps that start a call.
LEMMA NewCall ==
    ASSUME Inv, NEW c \in Call, NEW k \in InFlight, Starts(c, k)
    PROVE  /\ \A d \in Call : d /= c => call'[d] = call[d]
           /\ call[c] = NoCall /\ call'[c] = k
BY DEF Inv, TypeOK, Starts

\* A family begins with its login and is stored by the first command of it.
LEMMA StoredOnce ==
    ASSUME Inv, SessionsBegin, [Next]_vars, NEW f \in Family
    PROVE  \/ NotStored(f)' <=> NotStored(f)
           \/ \E c \in Call : StoreFamily(c) /\ call[c].family = f /\ ~NotStored(f)'
<1>0. CASE UNCHANGED vars
  BY <1>0 DEF NotStored, vars
<1>1. ASSUME NEW c \in Call, NEW u \in User, NEW g \in Family, Login(c, u, g)
      PROVE  NotStored(f)' <=> NotStored(f)
  <2>. DEFINE k == [NoCall EXCEPT !.pc = "set", !.op = "login", !.user = u, !.family = g,
                                  !.fresh = 1]
  <2>1. k \in InFlight /\ Starts(c, k)
    BY <1>1, Begins, MaxTokensAssumption DEF Login, Token
  <2>2. k.pc = "set" /\ k.family = g /\ NoCall.pc /= "set"
    BY DEF NoCall
  <2>. HIDE DEF k
  <2>3. \A d \in Call : d /= c => call'[d] = call[d]
    BY <2>1, NewCall
  <2>4. call[c] = NoCall /\ call'[c] = k
    BY <2>1, NewCall
  <2>5. generated[g] = 0 /\ generated' = [generated EXCEPT ![g] = 1]
    BY <1>1 DEF Login
  <2>6. QED
    BY <2>2, <2>3, <2>4, <2>5 DEF NotStored, Inv, TypeOK
<1>2. ASSUME NEW c \in Call, NEW k \in InFlight, Starts(c, k), k.pc /= "set", UNCHANGED generated
      PROVE  NotStored(f)' <=> NotStored(f)
  <2>1. \A d \in Call : d /= c => call'[d] = call[d]
    BY <1>2, NewCall
  <2>2. call[c].pc /= "set" /\ call'[c].pc /= "set"
    BY <1>2, NewCall DEF NoCall
  <2>3. QED
    BY <1>2, <2>1, <2>2 DEF NotStored
<1>3. ASSUME NEW c \in Call, CallStep(c)
      PROVE  \/ NotStored(f)' <=> NotStored(f)
             \/ StoreFamily(c) /\ call[c].family = f /\ ~NotStored(f)'
  <2>1. (\A d \in Call : d /= c => call'[d] = call[d]) /\ call'[c].pc /= "set"
    BY <1>3, OwnCall
  <2>2. generated'[f] = 0 <=> generated[f] = 0
    <3>1. CASE ~Rotate(c)
      BY <1>3, <3>1 DEF CallStep, StoreFamily, IndexFamily, RenewIndex, ReadFamily, LookUpUser,
         UnindexFamily, EndFamily, ListFamilies, SweepFamily, DropIndex, Respond
    <3>2. CASE Rotate(c)
      <4>1. call[c].op = "refresh" /\ call[c].family \in Family
        BY <3>2 DEF Rotate, Inv, CallShape
      <4>2. generated[call[c].family] /= 0
        BY <4>1 DEF SessionsBegin, Begun, NotStored
      <4>3. QED
        BY <3>2, <4>1, <4>2 DEF Rotate, Inv, TypeOK
    <3>3. QED
      BY <3>1, <3>2
  <2>3. CASE call[c].pc = "set" /\ call[c].family = f
    <3>1. StoreFamily(c)
      BY <1>3, <2>3 DEF CallStep, StoreFamily, IndexFamily, RenewIndex, ReadFamily, Rotate,
         LookUpUser, UnindexFamily, EndFamily, ListFamilies, SweepFamily, DropIndex, Respond
    <3>2. \A d \in Call : d /= c => ~(call[d].pc = "set" /\ call[d].family = f)
      BY <2>3 DEF Inv, CallShape, OneLogin
    <3>3. generated[f] /= 0
      BY <2>3 DEF Inv, CallShape, OneLogin, TypeOK
    <3>4. QED
      BY <2>1, <2>2, <2>3, <3>1, <3>2, <3>3 DEF NotStored
  <2>4. CASE ~(call[c].pc = "set" /\ call[c].family = f)
    BY <2>1, <2>2, <2>4 DEF NotStored
  <2>5. QED
    BY <2>3, <2>4
<1>4. CASE Tick
  BY <1>4 DEF Tick, NotStored
<1>5. QED
  <2>1. ASSUME NEW c \in Call, NEW g \in Family, NEW t \in Token, Refresh(c, g, t) \/ Logout(c, g, t)
        PROVE  NotStored(f)' <=> NotStored(f)
    <3>. DEFINE k == [NoCall EXCEPT !.pc = "get", !.op = "refresh", !.family = g, !.token = t]
                l == [NoCall EXCEPT !.pc = "lookup", !.op = "logout", !.family = g, !.token = t,
                                    !.code = "ok"]
    <3>1. k \in InFlight /\ l \in InFlight
      BY Begins
    <3>2. k.pc /= "set" /\ l.pc /= "set"
      BY DEF NoCall
    <3>3. (Starts(c, k) \/ Starts(c, l)) /\ UNCHANGED generated
      BY <2>1 DEF Refresh, Logout
    <3>. HIDE DEF k, l
    <3>4. QED
      BY <1>2, <3>1, <3>2, <3>3
  <2>2. ASSUME NEW c \in Call, NEW u \in User, LogoutAll(c, u)
        PROVE  NotStored(f)' <=> NotStored(f)
    <3>. DEFINE k == [NoCall EXCEPT !.pc = "smembers", !.op = "logout_all", !.user = u]
    <3>1. k \in InFlight
      BY Begins
    <3>2. k.pc /= "set"
      BY DEF NoCall
    <3>3. Starts(c, k) /\ UNCHANGED generated
      BY <2>2 DEF LogoutAll
    <3>. HIDE DEF k
    <3>4. QED
      BY <1>2, <3>1, <3>2, <3>3
  <2>3. QED
    BY <1>0, <1>1, <1>3, <1>4, <2>1, <2>2 DEF Next

LEMMA BegunGrows ==
    ASSUME Inv, SessionsBegin, [Next]_vars
    PROVE  Begun \subseteq Begun'
<1>1. ASSUME NEW f \in Family, ~NotStored(f) PROVE ~NotStored(f)'
  BY <1>1, StoredOnce
<1>2. QED
  BY <1>1 DEF Begun

LEMMA StoreFamilyBegins ==
    ASSUME Inv, NEW c \in Call, StoreFamily(c), NEW f \in Family, call[c].family = f
    PROVE  f \notin Begun /\ f \in Begun'
<1>1. call[c].pc = "set" /\ call[c].op = "login"
  BY DEF StoreFamily, Inv, CallShape
<1>2. (\A d \in Call : d /= c => call'[d] = call[d]) /\ call'[c].pc /= "set"
  BY OwnCall DEF CallStep
<1>3. \A d \in Call : d /= c => ~(call[d].pc = "set" /\ call[d].family = f)
  BY <1>1 DEF Inv, CallShape, OneLogin
<1>4. generated'[f] = generated[f] /\ generated[f] /= 0
  BY <1>1 DEF Inv, OneLogin, TypeOK, StoreFamily
<1>5. NotStored(f) /\ ~NotStored(f)'
  BY <1>1, <1>2, <1>3, <1>4 DEF NotStored
<1>6. QED
  BY <1>5 DEF Begun

\* A login past its first command is not about to store its family.
LEMMA LoginBegun ==
    ASSUME Inv, NEW c \in Call, call[c].op = "login", call[c].pc /= "set"
    PROVE  call[c].family \in Begun
BY DEF Inv, OneLogin, CallShape, NotStored, TypeOK, Begun

\* Nothing but its login brings a family about; no rotation stores one that is
\* gone.
LEMMA HeldOnce ==
    ASSUME Inv, [Next]_vars, NEW f \in Family, ~Held(f), Held(f)'
    PROVE  \E c \in Call : StoreFamily(c) /\ call[c].family = f
<1>1. stored' /= stored
  BY DEF Held
<1>2. ASSUME NEW c \in Call, CallStep(c) PROVE StoreFamily(c) /\ call[c].family = f
  <2>1. CASE StoreFamily(c)
    BY <2>1 DEF StoreFamily, SetFamily, Held, Inv, TypeOK, StoreTypeOK
  <2>2. CASE Rotate(c)
    BY <2>2 DEF Rotate, RotateScript, Held, Inv, TypeOK, StoreTypeOK
  <2>3. CASE EndFamily(c)
    BY <2>3 DEF EndFamily, DeleteFamily, Held, Inv, TypeOK, StoreTypeOK
  <2>4. CASE SweepFamily(c)
    BY <2>4 DEF SweepFamily, DeleteFamily, Held, Inv, TypeOK, StoreTypeOK
  <2>5. QED
    BY <1>1, <1>2, <2>1, <2>2, <2>3, <2>4
    DEF CallStep, IndexFamily, AddToIndex, RenewIndex, ExpireIndex, ReadFamily, LookUpUser,
        UnindexFamily, RemoveFromIndex, ListFamilies, DropIndex, DeleteIndex, Respond, storeVars
<1>3. ASSUME Tick PROVE FALSE
  <2>1. stored[f].ttl <= 1
    BY DEF Held, Missing
  <2>2. stored'[f] = Missing
    BY <1>3, <2>1 DEF Tick, ExpireKeys
  <2>3. QED
    BY <2>2 DEF Held
<1>4. QED
  BY <1>1, <1>2, <1>3 DEF Next, Login, Refresh, Logout, LogoutAll, storeVars, vars

LEMMA SessionsBeginInit == Init => SessionsBegin
BY DEF Init, SessionsBegin, StoreInit, Held, NoCall

LEMMA SessionsBeginNext ==
    ASSUME Inv, SessionsBegin, [Next]_vars
    PROVE  SessionsBegin'
<1>1. Begun \subseteq Begun'
  BY BegunGrows
<1>2. ASSUME NEW f \in Family, Held(f)' PROVE f \in Begun'
  <2>1. CASE Held(f)
    BY <1>1, <2>1 DEF SessionsBegin
  <2>2. CASE ~Held(f)
    BY <1>2, <2>2, HeldOnce, StoreFamilyBegins
  <2>3. QED
    BY <2>1, <2>2
<1>3. ASSUME NEW f \in Family, given'[f] /= {} PROVE f \in Begun'
  <2>1. CASE given[f] /= {}
    BY <1>1, <2>1 DEF SessionsBegin
  <2>2. CASE given[f] = {}
    <3>1. PICK c \in Call : Respond(c)
      BY <1>3, <2>2
      DEF Next, CallStep, Login, Refresh, Logout, LogoutAll, StoreFamily, IndexFamily, RenewIndex,
          ReadFamily, Rotate, LookUpUser, UnindexFamily, EndFamily, ListFamilies, SweepFamily,
          DropIndex, Tick, clientVars, vars
    <3>2. call[c].pc = "reply" /\ call[c].op \in {"login", "refresh"} /\ call[c].family = f
      BY <1>3, <2>2, <3>1 DEF Respond, Inv, TypeOK
    <3>3. f \in Begun
      BY <3>2, LoginBegun DEF SessionsBegin
    <3>4. QED
      BY <1>1, <3>3
  <2>3. QED
    BY <2>1, <2>2
<1>4. ASSUME NEW f \in Family, NEW u \in User, f \in members'[u] PROVE f \in Begun'
  <2>1. CASE f \in members[u]
    BY <1>1, <2>1 DEF SessionsBegin
  <2>2. CASE f \notin members[u]
    <3>1. ASSUME NEW c \in Call, CallStep(c) PROVE IndexFamily(c) /\ call[c].family = f
      <4>1. members' /= members
        BY <1>4, <2>2
      <4>2. CASE IndexFamily(c)
        BY <1>4, <2>2, <4>2 DEF IndexFamily, AddToIndex, Inv, TypeOK, StoreTypeOK
      <4>3. CASE UnindexFamily(c)
        BY <1>4, <2>2, <4>3 DEF UnindexFamily, RemoveFromIndex, Inv, TypeOK, StoreTypeOK
      <4>4. CASE DropIndex(c)
        BY <1>4, <2>2, <4>4 DEF DropIndex, DeleteIndex, Inv, TypeOK, StoreTypeOK
      <4>5. QED
        BY <3>1, <4>1, <4>2, <4>3, <4>4
        DEF CallStep, StoreFamily, SetFamily, RenewIndex, ExpireIndex, ReadFamily, LookUpUser,
            Rotate, RotateScript, EndFamily, DeleteFamily, ListFamilies, SweepFamily, Respond,
            storeVars
    <3>2. ASSUME Tick PROVE FALSE
      BY <1>4, <2>2, <3>2 DEF Tick, ExpireKeys
    <3>3. PICK c \in Call : IndexFamily(c) /\ call[c].family = f
      BY <1>4, <2>2, <3>1, <3>2 DEF Next, Login, Refresh, Logout, LogoutAll, storeVars, vars
    <3>4. call[c].pc = "sadd" /\ call[c].op = "login"
      BY <3>3 DEF IndexFamily, Inv, CallShape
    <3>5. QED
      BY <1>1, <3>3, <3>4, LoginBegun
  <2>3. QED
    BY <2>1, <2>2
<1>5. ASSUME NEW c \in Call
      PROVE  /\ call'[c].op \in {"refresh", "logout"} => call'[c].family \in Begun'
             /\ call'[c].listed \subseteq Begun'
  <2>. DEFINE Good(k) == /\ k.op \in {"refresh", "logout"} => k.family \in Begun'
                         /\ k.listed \subseteq Begun'
  <2>1. CallShape(c)
    BY DEF Inv
  <2>2. Good(call[c])
    BY <1>1 DEF SessionsBegin
  <2>3. CASE call'[c] = call[c]
    BY <2>2, <2>3
  <2>4. CASE CallStep(c)
    <3>1. CASE call'[c] = NoCall
      BY <3>1 DEF NoCall
    <3>2. CASE Same(call'[c], call[c])
      BY <2>2, <3>2 DEF Same
    <3>3. CASE /\ ListFamilies(c) /\ call'[c].op = call[c].op
               /\ call'[c].family = call[c].family /\ call'[c].listed = members[call[c].user]
      <4>1. call[c].user \in User
        BY <2>1, <3>3 DEF ListFamilies, CallShape
      <4>2. members[call[c].user] \subseteq Begun'
        BY <1>1, <4>1 DEF SessionsBegin
      <4>3. QED
        BY <2>2, <3>3, <4>2
    <3>4. QED
      BY <2>4, <3>1, <3>2, <3>3, OwnCall
  <2>5. ASSUME NEW f \in Family, NEW t \in Token, Refresh(c, f, t) \/ Logout(c, f, t)
        PROVE  Good(call'[c])
    <3>. DEFINE k == [NoCall EXCEPT !.pc = "get", !.op = "refresh", !.family = f, !.token = t]
                l == [NoCall EXCEPT !.pc = "lookup", !.op = "logout", !.family = f, !.token = t,
                                    !.code = "ok"]
    <3>1. k \in InFlight /\ l \in InFlight
      BY Begins
    <3>2. k.family = f /\ l.family = f /\ k.listed = {} /\ l.listed = {}
      BY DEF NoCall
    <3>3. (Starts(c, k) \/ Starts(c, l)) /\ given[f] /= {}
      BY <2>5 DEF Refresh, Logout, MayPresent
    <3>. HIDE DEF k, l
    <3>4. call'[c] = k \/ call'[c] = l
      BY <3>1, <3>3, NewCall
    <3>5. f \in Begun'
      BY <1>1, <3>3 DEF SessionsBegin
    <3>6. QED
      BY <3>2, <3>4, <3>5
  <2>6. ASSUME NEW u \in User, NEW f \in Family, Login(c, u, f) PROVE Good(call'[c])
    <3>1. call'[c].op = "login" /\ call'[c].listed = {}
      BY <2>6 DEF Login, Starts, NoCall, Inv, TypeOK
    <3>2. QED
      BY <3>1
  <2>7. ASSUME NEW u \in User, LogoutAll(c, u) PROVE Good(call'[c])
    <3>1. call'[c].op = "logout_all" /\ call'[c].listed = {}
      BY <2>7 DEF LogoutAll, Starts, NoCall, Inv, TypeOK
    <3>2. QED
      BY <3>1
  <2>8. ASSUME NEW d \in Call, d /= c, CallStep(d) PROVE call'[c] = call[c]
    BY <2>8, OwnCall
  <2>9. ASSUME NEW d \in Call, NEW k, d /= c, Starts(d, k) PROVE call'[c] = call[c]
    BY <2>9 DEF Starts, Inv, TypeOK
  <2>. HIDE DEF Good
  <2>10. Good(call'[c])
    <3>1. CASE Tick \/ UNCHANGED vars
      BY <2>3, <3>1, <2>2 DEF Tick, vars
    <3>2. CASE \E d \in Call, u \in User, f \in Family : Login(d, u, f)
      BY <2>2, <2>6, <2>9, <3>2 DEF Login
    <3>3. CASE \E d \in Call, f \in Family, t \in Token : Refresh(d, f, t) \/ Logout(d, f, t)
      BY <2>2, <2>5, <2>9, <3>3 DEF Refresh, Logout
    <3>4. CASE \E d \in Call, u \in User : LogoutAll(d, u)
      BY <2>2, <2>7, <2>9, <3>4 DEF LogoutAll
    <3>5. CASE \E d \in Call : CallStep(d)
      BY <2>2, <2>4, <2>8, <3>5 DEF Good
    <3>6. QED
      BY <3>1, <3>2, <3>3, <3>4, <3>5 DEF Next
  <2>11. QED
    BY <2>10 DEF Good
<1>6. \A u \in User : members'[u] \subseteq Begun'
  <2>1. Inv'
    BY NextInv
  <2>2. QED
    BY <1>4, <2>1 DEF Inv, TypeOK, StoreTypeOK
<1>7. QED
  BY <1>2, <1>3, <1>5, <1>6 DEF SessionsBegin

-------------------------------------------------------------------------------
(* Every session lives the life of SessionLife.                            *)

\* Tokens are replaced by later ones, in families that have begun.
TokensInOrder ==
    \A f \in Family :
        /\ \A t \in replaced[f] : t <= generated[f] /\ f \in Begun
        /\ Held(f) => stored[f].current <= generated[f] /\ stored[f].current \notin replaced[f]

\* The steps that have nothing to do with stored families.
LEMMA StoredChanges ==
    ASSUME [Next]_vars
    PROVE  \/ UNCHANGED <<stored, replaced>>
           \/ \E c \in Call : StoreFamily(c) \/ Rotate(c) \/ EndFamily(c) \/ SweepFamily(c)
           \/ Tick
BY DEF Next, CallStep, Login, Refresh, Logout, LogoutAll, IndexFamily, AddToIndex, RenewIndex,
       ExpireIndex, ReadFamily, LookUpUser, UnindexFamily, RemoveFromIndex, ListFamilies,
       DropIndex, DeleteIndex, Respond, storeVars, clientVars, vars

LEMMA BegunChanges ==
    ASSUME Inv, SessionsBegin, [Next]_vars
    PROVE  \/ Begun' = Begun /\ \A c \in Call : ~StoreFamily(c)
           \/ \E c \in Call : StoreFamily(c) /\ Begun' = Begun \cup {call[c].family}
<1>1. CASE \A c \in Call : ~StoreFamily(c)
  BY <1>1, StoredOnce DEF Begun
<1>2. ASSUME NEW c \in Call, StoreFamily(c) PROVE Begun' = Begun \cup {call[c].family}
  <2>1. \A d \in Call : d /= c => ~StoreFamily(d)
    <3>1. ASSUME NEW d \in Call, d /= c, StoreFamily(d) PROVE FALSE
      <4>1. call'[d] = call[d] /\ call'[d].pc /= "set"
        BY <1>2, <3>1, OwnCall DEF CallStep
      <4>2. QED
        BY <3>1, <4>1 DEF StoreFamily
    <3>2. QED
      BY <3>1
  <2>2. call[c].family \in Family
    BY <1>2 DEF StoreFamily, Inv, CallShape
  <2>3. call[c].family \in Begun'
    BY <1>2, <2>2, StoreFamilyBegins
  <2>4. ASSUME NEW f \in Family, f /= call[c].family PROVE f \in Begun' <=> f \in Begun
    <3>1. NotStored(f)' <=> NotStored(f)
      BY <2>1, <2>4, StoredOnce
    <3>2. QED
      BY <3>1 DEF Begun
  <2>5. Begun \subseteq Family /\ Begun' \subseteq Family
    BY DEF Begun
  <2>6. QED
    BY <2>2, <2>3, <2>4, <2>5
<1>3. QED
  BY <1>1, <1>2

LEMMA GeneratedGrows ==
    ASSUME Inv, [Next]_vars, NEW f \in Family
    PROVE  generated'[f] >= generated[f]
<1>1. ASSUME NEW c \in Call, Rotate(c) PROVE generated'[f] >= generated[f]
  BY <1>1 DEF Rotate, Inv, TypeOK
<1>2. ASSUME NEW c \in Call, NEW u \in User, NEW g \in Family, Login(c, u, g)
      PROVE  generated'[f] >= generated[f]
  BY <1>2 DEF Login, Inv, TypeOK
<1>3. CASE UNCHANGED generated
  BY <1>3 DEF Inv, TypeOK
<1>4. QED
  BY <1>1, <1>2, <1>3
  DEF Next, CallStep, Refresh, Logout, LogoutAll, StoreFamily, IndexFamily, RenewIndex, ReadFamily,
      LookUpUser, UnindexFamily, EndFamily, ListFamilies, SweepFamily, DropIndex, Respond, Tick,
      clientVars, vars

\* A rotation replaces the token that is current, if any, by a new one.
LEMMA RotateEffect ==
    ASSUME Inv, NEW c \in Call, Rotate(c)
    PROVE  /\ call[c].family \in Family /\ call[c].op = "refresh" /\ call[c].pc = "rotate"
           /\ generated[call[c].family] + 1 \in Token
           /\ generated' = [generated EXCEPT ![call[c].family] = @ + 1]
           /\ \/ UNCHANGED <<stored, replaced>>
              \/ /\ Held(call[c].family)
                 /\ stored'[call[c].family].current = generated[call[c].family] + 1
                 /\ stored'[call[c].family].user = stored[call[c].family].user
                 /\ stored'[call[c].family].expiresIn = stored[call[c].family].expiresIn
                 /\ stored'[call[c].family] \in Data
                 /\ \A f \in Family : f /= call[c].family => stored'[f] = stored[f]
                 /\ replaced' = [replaced EXCEPT ![call[c].family] =
                                   @ \cup {stored[call[c].family].current}]
<1>. DEFINE f == call[c].family
            fresh == generated[f] + 1
            d == [stored[f] EXCEPT !.previous = stored[f].current, !.current = fresh,
                                   !.ttl = Lifetime]
<1>1. f \in Family /\ call[c].op = "refresh" /\ call[c].pc = "rotate"
  BY DEF Rotate, Inv, CallShape
<1>2. fresh \in Token /\ generated' = [generated EXCEPT ![f] = @ + 1]
  BY <1>1, MaxTokensAssumption DEF Rotate, Inv, TypeOK, Token
<1>3. CASE UNCHANGED <<stored, replaced>>
  BY <1>1, <1>2, <1>3
<1>4. CASE /\ Held(f) /\ stored' = [stored EXCEPT ![f] = d]
           /\ replaced' = [replaced EXCEPT ![f] = @ \cup {stored[f].current}]
  <2>1. stored[f] \in Data /\ stored[f].current \in Token /\ Lifetime \in 1 .. Lifetime
    BY <1>1, <1>4, LifetimeAssumption DEF Held, Inv, TypeOK, StoreTypeOK, Data
  <2>2. d \in Data
    BY <1>2, <2>1, RotatedData
  <2>3. d.current = fresh /\ d.user = stored[f].user /\ d.expiresIn = stored[f].expiresIn
    BY <2>1 DEF Data
  <2>. HIDE DEF d
  <2>4. stored'[f] = d /\ \A g \in Family : g /= f => stored'[g] = stored[g]
    BY <1>1, <1>4 DEF Inv, TypeOK, StoreTypeOK
  <2>5. QED
    BY <1>1, <1>2, <1>4, <2>2, <2>3, <2>4
<1>5. QED
  BY <1>3, <1>4 DEF Rotate, RotateScript

LEMMA StoreFamilyEffect ==
    ASSUME Inv, NEW c \in Call, StoreFamily(c)
    PROVE  /\ call[c].family \in Family /\ UNCHANGED <<replaced, generated>>
           /\ generated[call[c].family] >= 1
           /\ \A f \in Family : f /= call[c].family => stored'[f] = stored[f]
           /\ \/ UNCHANGED stored
              \/ /\ stored'[call[c].family] /= Missing /\ stored'[call[c].family].current = 1
                 /\ stored'[call[c].family] \in Data
<1>. DEFINE f == call[c].family
            d == [user |-> call[c].user, current |-> call[c].fresh, previous |-> NoToken,
                  expiresIn |-> Lifetime, ttl |-> Lifetime]
<1>1. call[c].op = "login" /\ f \in Family /\ call[c].user \in User /\ call[c].fresh = 1
  BY DEF StoreFamily, Inv, CallShape
<1>2. UNCHANGED <<replaced, generated>> /\ generated[f] >= 1
  BY <1>1 DEF StoreFamily, clientVars, Inv, OneLogin, TypeOK
<1>3. UNCHANGED stored \/ stored' = [stored EXCEPT ![f] = d]
  BY DEF StoreFamily, SetFamily
<1>4. d \in Data /\ d /= Missing
  BY <1>1, MaxTokensAssumption, LifetimeAssumption, NoUserAssumption DEF Data, Token, Missing
<1>5. d.current = 1
  BY <1>1
<1>. HIDE DEF d
<1>6. QED
  BY <1>1, <1>2, <1>3, <1>4, <1>5 DEF Inv, TypeOK, StoreTypeOK, Held

\* Time ends sessions and changes no token.
LEMMA TickEffect ==
    ASSUME Inv, Tick, NEW f \in Family
    PROVE  stored'[f] = Missing \/ /\ Held(f) /\ Held(f)'
                                   /\ stored'[f].current = stored[f].current
<1>1. CASE stored[f].ttl <= 1
  BY <1>1 DEF Tick, ExpireKeys
<1>2. CASE ~(stored[f].ttl <= 1)
  <2>. DEFINE d == [stored[f] EXCEPT !.ttl = @ - 1, !.expiresIn = IF @ = 0 THEN 0 ELSE @ - 1]
  <2>1. stored'[f] = d
    BY <1>2 DEF Tick, ExpireKeys
  <2>2. stored[f] \in Data
    BY <1>2 DEF Inv, TypeOK, StoreTypeOK, Missing
  <2>3. d.current = stored[f].current /\ d.user = stored[f].user
    BY <2>2 DEF Data
  <2>4. stored[f].user /= NoUser
    BY <2>2, NoUserAssumption DEF Data
  <2>. HIDE DEF d
  <2>5. QED
    BY <2>1, <2>3, <2>4 DEF Held, Missing
<1>3. QED
  BY <1>1, <1>2

LEMMA TokensInit == Init => TokensInOrder
BY DEF Init, StoreInit, TokensInOrder, Held

LEMMA TokensNext ==
    ASSUME Inv, SessionsBegin, TokensInOrder, [Next]_vars
    PROVE  TokensInOrder'
<1>1. Begun \subseteq Begun'
  BY BegunGrows
<1>2. \A f \in Family : generated'[f] >= generated[f] /\ generated[f] \in Nat /\ generated'[f] \in Nat
  BY GeneratedGrows, NextInv DEF Inv, TypeOK
<1>3. \A f \in Family : (\A t \in replaced[f] : t \in Nat) /\ (Held(f) => stored[f].current \in Nat)
  BY DEF Inv, TypeOK, StoreTypeOK, Token, Held, Data
<1>. SUFFICES ASSUME NEW f \in Family
     PROVE /\ \A t \in replaced'[f] : t <= generated'[f] /\ f \in Begun'
           /\ Held(f)' => /\ stored'[f].current <= generated'[f]
                          /\ stored'[f].current \notin replaced'[f]
  BY DEF TokensInOrder
<1>4. CASE UNCHANGED <<stored, replaced>>
  BY <1>1, <1>2, <1>3, <1>4 DEF TokensInOrder, Held
<1>5. ASSUME NEW c \in Call, StoreFamily(c)
      PROVE  /\ \A t \in replaced'[f] : t <= generated'[f] /\ f \in Begun'
             /\ Held(f)' => /\ stored'[f].current <= generated'[f]
                            /\ stored'[f].current \notin replaced'[f]
  <2>1. CASE stored'[f] = stored[f]
    BY <1>1, <1>2, <1>3, <1>5, <2>1, StoreFamilyEffect DEF TokensInOrder, Held
  <2>2. CASE stored'[f] /= stored[f]
    <3>1. f = call[c].family /\ stored'[f].current = 1 /\ generated'[f] >= 1 /\ replaced' = replaced
      BY <1>5, <2>2, StoreFamilyEffect
    <3>2. f \notin Begun
      BY <1>5, <3>1, StoreFamilyBegins
    <3>3. replaced[f] = {}
      BY <3>2 DEF TokensInOrder
    <3>4. QED
      BY <3>1, <3>3
  <2>3. QED
    BY <2>1, <2>2
<1>6. ASSUME NEW c \in Call, Rotate(c)
      PROVE  /\ \A t \in replaced'[f] : t <= generated'[f] /\ f \in Begun'
             /\ Held(f)' => /\ stored'[f].current <= generated'[f]
                            /\ stored'[f].current \notin replaced'[f]
  <2>1. CASE UNCHANGED <<stored, replaced>>
    BY <1>4, <2>1
  <2>2. CASE f /= call[c].family
    <3>1. stored'[f] = stored[f] /\ replaced'[f] = replaced[f]
      BY <1>6, <2>2, RotateEffect DEF Inv, TypeOK
    <3>2. QED
      BY <1>1, <1>2, <1>3, <3>1 DEF TokensInOrder, Held
  <2>3. CASE f = call[c].family /\ ~UNCHANGED <<stored, replaced>>
    <3>1. /\ generated'[f] = generated[f] + 1 /\ stored'[f].current = generated[f] + 1
          /\ replaced'[f] = replaced[f] \cup {stored[f].current} /\ Held(f)
      BY <1>6, <2>3, RotateEffect DEF Inv, TypeOK
    <3>2. f \in Begun'
      BY <1>1, <3>1 DEF SessionsBegin
    <3>3. \A t \in replaced'[f] : t <= generated[f]
      BY <3>1 DEF TokensInOrder
    <3>4. QED
      BY <1>2, <1>3, <3>1, <3>2, <3>3
  <2>4. QED
    BY <2>1, <2>2, <2>3
<1>7. ASSUME stored'[f] \in {stored[f], Missing}, UNCHANGED replaced
      PROVE  /\ \A t \in replaced'[f] : t <= generated'[f] /\ f \in Begun'
             /\ Held(f)' => /\ stored'[f].current <= generated'[f]
                            /\ stored'[f].current \notin replaced'[f]
  BY <1>1, <1>2, <1>3, <1>7 DEF TokensInOrder, Held
<1>8. ASSUME NEW c \in Call, EndFamily(c) \/ SweepFamily(c)
      PROVE  stored'[f] \in {stored[f], Missing} /\ UNCHANGED replaced
  BY <1>8 DEF EndFamily, SweepFamily, DeleteFamily, clientVars, Inv, TypeOK, StoreTypeOK
<1>9. CASE Tick
  BY <1>1, <1>2, <1>3, <1>9, TickEffect DEF TokensInOrder, Held, Tick, clientVars
<1>10. QED
  BY <1>4, <1>5, <1>6, <1>7, <1>8, <1>9, StoredChanges

\* The state of a session, as SessionLife sees it.
SessionStates ==
    [f \in Family |-> IF Held(f) THEN "open" ELSE IF NotStored(f) THEN "none" ELSE "over"]
CurrentTokens == [f \in Family |-> stored[f].current]

LEMMA Quiet ==
    ASSUME \A f \in Family : stored'[f] = stored[f], Begun' = Begun, replaced' = replaced
    PROVE  UNCHANGED <<SessionStates, CurrentTokens, replaced>>
<1>1. \A f \in Family : NotStored(f)' <=> NotStored(f)
  BY DEF Begun
<1>2. QED
  BY <1>1 DEF SessionStates, CurrentTokens, Held

\* What one family goes through, the others staying as they are.
LEMMA OneSession ==
    ASSUME NEW g \in Family, \A f \in Family : f /= g => stored'[f] = stored[f],
           \A f \in Family : f /= g => (f \in Begun' <=> f \in Begun)
    PROVE  /\ SessionStates' = [SessionStates EXCEPT ![g] =
                   IF stored'[g] /= Missing THEN "open" ELSE IF g \in Begun' THEN "over" ELSE "none"]
           /\ CurrentTokens' = [CurrentTokens EXCEPT ![g] = stored'[g].current]
<1>1. \A f \in Family : f /= g => (NotStored(f)' <=> NotStored(f))
  BY DEF Begun
<1>2. g \in Begun' <=> ~NotStored(g)'
  BY DEF Begun
<1>3. QED
  BY <1>1, <1>2 DEF SessionStates, CurrentTokens, Held

\* The initial states map to the initial state of SessionLife.
LEMMA SessionsInit == Init => Sessions!Init
BY DEF Init, StoreInit, Sessions!Init, Held, NotStored, Missing

\* The step of a call that does not store a family leaves every call that is
\* about to store one where it is.
LEMMA OnlyStores ==
    ASSUME Inv, NEW c \in Call, call[c].pc /= "set", CallStep(c)
    PROVE  \A d \in Call : ~StoreFamily(d)
<1>1. ASSUME NEW d \in Call, StoreFamily(d) PROVE FALSE
  <2>1. call'[d].pc /= "set" /\ call[d].pc = "set"
    BY <1>1, OwnCall DEF CallStep, StoreFamily
  <2>2. call'[d] = call[d]
    BY <2>1, OwnCall
  <2>3. QED
    BY <2>1, <2>2
<1>2. QED
  BY <1>1

\* Every step maps to a step of SessionLife or to none.
LEMMA SessionsNext ==
    ASSUME Inv, SessionsBegin, TokensInOrder, [Next]_vars
    PROVE  [Sessions!Next]_(Sessions!sessionVars)
<1>. DEFINE Opens(g) == /\ SessionStates[g] = "none"
                        /\ SessionStates' = [SessionStates EXCEPT ![g] = "open"]
                        /\ \E t \in Token : CurrentTokens' = [CurrentTokens EXCEPT ![g] = t]
                        /\ replaced' = replaced
            Exchanges(g) ==
                /\ SessionStates[g] = "open"
                /\ replaced' = [replaced EXCEPT ![g] = @ \cup {CurrentTokens[g]}]
                /\ \E t \in Token \ replaced'[g] :
                      CurrentTokens' = [CurrentTokens EXCEPT ![g] = t]
                /\ SessionStates' = SessionStates
            Finishes(g) == /\ SessionStates[g] /= "over"
                           /\ SessionStates' = [SessionStates EXCEPT ![g] = "over"]
                           /\ CurrentTokens' = [CurrentTokens EXCEPT ![g] = NoToken]
                           /\ replaced' = replaced
            Expires(F) ==
                /\ \A f \in F : SessionStates[f] = "open"
                /\ SessionStates' = [f \in Family |-> IF f \in F THEN "over" ELSE SessionStates[f]]
                /\ CurrentTokens' = [f \in Family |-> IF f \in F THEN NoToken ELSE CurrentTokens[f]]
                /\ replaced' = replaced
            Step == \/ UNCHANGED <<SessionStates, CurrentTokens, replaced>>
                    \/ \E g \in Family : Opens(g) \/ Exchanges(g) \/ Finishes(g)
                    \/ \E F \in SUBSET Family : Expires(F)
<1>1. SUFFICES Step
  BY DEF SessionStates, CurrentTokens, Held, NotStored, Sessions!Next, Sessions!Open, Sessions!Exchange,
     Sessions!End, Sessions!Expire, Sessions!sessionVars
<1>2. \A f \in Family : Held(f) => f \in Begun
  BY DEF SessionsBegin
<1>3. \A f \in Family : /\ SessionStates[f] = IF Held(f) THEN "open"
                                              ELSE IF f \in Begun THEN "over" ELSE "none"
                        /\ CurrentTokens[f] = stored[f].current
                        /\ ~Held(f) => CurrentTokens[f] = NoToken
  BY DEF SessionStates, CurrentTokens, Begun, Held, Missing
<1>4. CASE UNCHANGED <<stored, replaced>> /\ \A c \in Call : ~StoreFamily(c)
  BY <1>4, BegunChanges, Quiet
<1>5. ASSUME NEW c \in Call, StoreFamily(c) PROVE Step
  <2>. DEFINE g == call[c].family
  <2>1. g \in Family /\ g \notin Begun /\ g \in Begun' /\ replaced' = replaced
    BY <1>5, StoreFamilyEffect, StoreFamilyBegins
  <2>2. ~Held(g) /\ SessionStates[g] = "none" /\ CurrentTokens[g] = NoToken
    BY <1>2, <1>3, <2>1
  <2>3. /\ \A f \in Family : f /= g => stored'[f] = stored[f]
        /\ \A f \in Family : f /= g => (f \in Begun' <=> f \in Begun)
    BY <1>5, <2>1, StoreFamilyEffect, BegunChanges, StoreFamilyBegins
  <2>4. /\ SessionStates' = [SessionStates EXCEPT ![g] =
               IF stored'[g] /= Missing THEN "open" ELSE IF g \in Begun' THEN "over" ELSE "none"]
        /\ CurrentTokens' = [CurrentTokens EXCEPT ![g] = stored'[g].current]
    BY <2>1, <2>3, OneSession
  <2>5. CASE UNCHANGED stored
    <3>1. stored'[g] = Missing /\ stored'[g].current = NoToken
      BY <2>2, <2>5 DEF Held, Missing
    <3>2. Finishes(g)
      BY <2>1, <2>2, <2>4, <3>1
    <3>3. QED
      BY <2>1, <3>2
  <2>6. CASE stored'[g] /= Missing /\ stored'[g].current = 1
    <3>1. 1 \in Token
      BY MaxTokensAssumption DEF Token
    <3>2. Opens(g)
      BY <2>1, <2>2, <2>4, <2>6, <3>1
    <3>3. QED
      BY <2>1, <3>2
  <2>7. QED
    BY <1>5, <2>5, <2>6, StoreFamilyEffect
<1>6. ASSUME NEW c \in Call, Rotate(c) PROVE Step
  <2>. DEFINE g == call[c].family
  <2>1. Begun' = Begun
    <3>1. \A d \in Call : ~StoreFamily(d)
      <4>1. call[c].pc /= "set" /\ CallStep(c)
        BY <1>6 DEF Rotate, CallStep
      <4>2. QED
        BY <4>1, OnlyStores
    <3>2. QED
      BY <3>1, BegunChanges
  <2>2. CASE UNCHANGED <<stored, replaced>>
    BY <2>1, <2>2, Quiet
  <2>3. CASE ~UNCHANGED <<stored, replaced>>
    <3>1. /\ g \in Family /\ Held(g) /\ stored'[g] \in Data
          /\ \A f \in Family : f /= g => stored'[f] = stored[f]
          /\ replaced' = [replaced EXCEPT ![g] = @ \cup {stored[g].current}]
      BY <1>6, <2>3, RotateEffect
    <3>2. stored'[g] /= Missing /\ stored'[g].current \in Token
      BY <3>1, NoUserAssumption DEF Data, Missing
    <3>3. stored'[g].current \notin replaced'[g]
      BY <3>1, <3>2, TokensNext DEF TokensInOrder, Held
    <3>4. /\ SessionStates' = [SessionStates EXCEPT ![g] = "open"]
          /\ CurrentTokens' = [CurrentTokens EXCEPT ![g] = stored'[g].current]
      BY <2>1, <3>1, <3>2, OneSession
    <3>5. SessionStates[g] = "open" /\ SessionStates' = SessionStates
      BY <1>3, <3>1, <3>4 DEF SessionStates
    <3>6. Exchanges(g)
      BY <1>3, <3>1, <3>2, <3>3, <3>4, <3>5
    <3>7. QED
      BY <3>1, <3>6
  <2>4. QED
    BY <2>2, <2>3
<1>7. ASSUME NEW c \in Call, EndFamily(c) \/ SweepFamily(c) PROVE Step
  <2>1. Begun' = Begun
    <3>1. \A d \in Call : ~StoreFamily(d)
      <4>1. call[c].pc /= "set" /\ CallStep(c)
        BY <1>7 DEF EndFamily, SweepFamily, CallStep
      <4>2. QED
        BY <4>1, OnlyStores
    <3>2. QED
      BY <3>1, BegunChanges
  <2>2. replaced' = replaced
    BY <1>7 DEF EndFamily, SweepFamily, clientVars
  <2>3. CASE UNCHANGED stored
    BY <2>1, <2>2, <2>3, Quiet
  <2>4. ASSUME NEW g \in Family, stored' = [stored EXCEPT ![g] = Missing] PROVE Step
    <3>1. /\ \A f \in Family : f /= g => stored'[f] = stored[f]
          /\ stored'[g] = Missing /\ stored'[g].current = NoToken
      BY <2>4 DEF Inv, TypeOK, StoreTypeOK, Missing
    <3>2. CASE ~Held(g)
      BY <2>1, <2>2, <3>1, <3>2, Quiet DEF Held
    <3>3. CASE Held(g)
      <4>1. /\ SessionStates' = [SessionStates EXCEPT ![g] = "over"]
            /\ CurrentTokens' = [CurrentTokens EXCEPT ![g] = NoToken]
        BY <1>2, <2>1, <3>1, <3>3, OneSession
      <4>2. Finishes(g)
        BY <1>3, <2>2, <3>3, <4>1
      <4>3. QED
        BY <4>2
    <3>4. QED
      BY <3>2, <3>3
  <2>5. CASE EndFamily(c)
    <3>1. call[c].family \in Family
      BY <2>5 DEF EndFamily, Inv, CallShape
    <3>2. QED
      BY <2>3, <2>4, <2>5, <3>1 DEF EndFamily, DeleteFamily
  <2>6. CASE SweepFamily(c)
    <3>1. call[c] \in InFlight
      BY <2>6, Running DEF SweepFamily, Steps, Inv
    <3>2. call[c].left \subseteq Family
      BY <3>1 DEF InFlight
    <3>3. QED
      BY <2>3, <2>4, <2>6, <3>2 DEF SweepFamily, DeleteFamily
  <2>7. QED
    BY <1>7, <2>5, <2>6
<1>8. CASE Tick
  <2>. DEFINE F == {f \in Family : Held(f) /\ stored'[f] = Missing}
  <2>1. Begun' = Begun /\ replaced' = replaced
    <3>1. call' = call /\ generated' = generated /\ replaced' = replaced
      BY <1>8 DEF Tick, clientVars
    <3>2. QED
      BY <3>1 DEF Begun, NotStored
  <2>2. \A f \in Family : NotStored(f)' <=> NotStored(f)
    BY <2>1 DEF Begun
  <2>3. \A f \in Family :
           stored'[f] = Missing \/ (Held(f) /\ Held(f)' /\ stored'[f].current = stored[f].current)
    BY <1>8, TickEffect
  <2>4. SessionStates' = [f \in Family |-> IF f \in F THEN "over" ELSE SessionStates[f]]
    BY <1>2, <2>2, <2>3 DEF SessionStates, Held, Begun
  <2>5. CurrentTokens' = [f \in Family |-> IF f \in F THEN NoToken ELSE CurrentTokens[f]]
    BY <2>3 DEF CurrentTokens, Held, Missing
  <2>6. Expires(F)
    BY <1>3, <2>1, <2>4, <2>5
  <2>7. QED
    BY <2>6
<1>9. QED
  BY <1>4, <1>5, <1>6, <1>7, <1>8, StoredChanges

\* Whatever fails, and however calls interleave, sessions live the life of
\* SessionLife: one that was logged out, reused or has expired is not brought
\* back, and a token that was replaced does not open its session again.
THEOREM SessionsImplemented == Spec => ImplementsSessions
<1>. DEFINE SInv == Inv /\ SessionsBegin /\ TokensInOrder
<1>1. Init => SInv
  BY InitInv, SessionsBeginInit, TokensInit
<1>2. SInv /\ [Next]_vars => SInv'
  BY NextInv, SessionsBeginNext, TokensNext
<1>3. SInv /\ [Next]_vars => [Sessions!Next]_(Sessions!sessionVars)
  BY SessionsNext
<1>. HIDE DEF SInv
<1>4. QED
  BY <1>1, <1>2, <1>3, SessionsInit, PTL DEF Spec, ImplementsSessions, Sessions!Spec

-------------------------------------------------------------------------------
(* With no command of Redis failing: what answers promise.                 *)

\* What may go wrong in a behaviour stays so.
LEMMA ScenarioStays ==
    ASSUME [Next]_vars
    PROVE  /\ scenario' = scenario
           /\ NoFailures' <=> NoFailures
           /\ NothingLost' <=> NothingLost
<1>1. scenario' = scenario
  BY DEF Next, CallStep, Login, Refresh, Logout, LogoutAll, StoreFamily, IndexFamily, RenewIndex,
         ReadFamily, Rotate, LookUpUser, UnindexFamily, EndFamily, ListFamilies, SweepFamily,
         DropIndex, Respond, Tick, clientVars, vars
<1>2. QED
  BY <1>1 DEF NoFailures, NothingLost

\* What a call has found out about families that are gone, or will answer.
Truthful(c) ==
    /\ call[c].code \in {"expired", "reused"} => call[c].op = "refresh"
    /\ call[c].pc = "reply" /\ (call[c].op = "logout" \/ call[c].code \in {"expired", "reused"})
          => ~Held(call[c].family)
    /\ call[c].op = "logout_all" /\ call[c].pc = "sweep"
          => \A f \in call[c].listed : f \in call[c].left \/ ~Held(f)
    /\ call[c].op = "logout_all" /\ call[c].pc = "reply" /\ call[c].code = "ok"
          => \A f \in call[c].listed : ~Held(f)

AllTruthful == \A c \in Call : Truthful(c)

\* A family that has begun and is gone stays away.
LEMMA GoneForGood ==
    ASSUME Inv, [Next]_vars, NEW f \in Family, f \in Begun, ~Held(f)
    PROVE  ~Held(f)'
<1>1. \A c \in Call : StoreFamily(c) => call[c].family /= f
  BY StoreFamilyBegins
<1>2. QED
  BY <1>1, HeldOnce

\* The truth about a family does not change while the call waits.
LEMMA TruthStays ==
    ASSUME Inv, SessionsBegin, [Next]_vars, NEW c \in Call, Truthful(c), call'[c] = call[c]
    PROVE  Truthful(c)'
<1>1. ASSUME call[c].op \in {"refresh", "logout"}, ~Held(call[c].family)
      PROVE  ~(stored'[call[c].family] /= Missing)
  <2>. DEFINE g == call[c].family
  <2>1. g \in Family /\ g \in Begun
    BY <1>1 DEF SessionsBegin, Begun
  <2>2. ASSUME NEW f \in Family, f \in Begun, ~Held(f) PROVE stored'[f] = Missing
    BY <2>2, GoneForGood DEF Held
  <2>3. QED
    BY <1>1, <2>1, <2>2
<1>2. ASSUME NEW f \in call[c].listed, ~Held(f) PROVE stored'[f] = Missing
  <2>1. f \in Family /\ f \in Begun
    BY DEF SessionsBegin, Begun
  <2>2. QED
    BY <1>2, <2>1, GoneForGood DEF Held
<1>3. QED
  BY <1>1, <1>2 DEF Truthful, Held

\* Every step of a call leaves it truthful.
LEMMA TruthMoves ==
    ASSUME Inv, SessionsBegin, NoFailures, NEW c \in Call, CallStep(c), Truthful(c)
    PROVE  Truthful(c)'
<1>. USE DEF Inv
<1>1. Outcomes = {"ok"} /\ ~ReadMayFail
  BY DEF NoFailures, Outcomes, ReadMayFail
<1>2. [Next]_vars
  BY DEF Next
<1>3. CASE StoreFamily(c) \/ IndexFamily(c) \/ RenewIndex(c)
  <2>1. call[c].op = "login" /\ call[c] \in InFlight
    BY <1>3, Running DEF StoreFamily, IndexFamily, RenewIndex, CallShape, Steps
  <2>2. Goto(c, "sadd") \/ Goto(c, "expire") \/ Reply(c, "error") \/ Reply(c, "ok")
    BY <1>3 DEF StoreFamily, IndexFamily, RenewIndex
  <2>3. call'[c].op = "login" /\ call'[c].code \in {call[c].code, "error", "ok"}
    BY <2>1, <2>2, GotoEffect, ReplyEffect DEF Same
  <2>4. QED
    BY <2>1, <2>3 DEF Truthful
<1>4. CASE ReadFamily(c)
  <2>1. call[c].op = "refresh" /\ call[c] \in InFlight /\ call[c].code = "none"
    BY <1>4, Running DEF ReadFamily, CallShape, Steps
  <2>2. \/ Goto(c, "rotate") \/ Reply(c, "invalid")
        \/ \E v : call' = [call EXCEPT ![c].pc = "lookup", ![c].code = v]
    BY <1>4 DEF ReadFamily
  <2>3. ASSUME NEW v, call' = [call EXCEPT ![c].pc = "lookup", ![c].code = v]
        PROVE  call'[c].op = "refresh" /\ call'[c].pc = "lookup"
    BY <2>1, <2>3 DEF TypeOK, InFlight
  <2>4. /\ call'[c].op = "refresh"
        /\ call'[c].pc = "reply" => call'[c].code = "invalid"
    BY <2>1, <2>2, <2>3, GotoEffect, ReplyEffect DEF Same
  <2>5. QED
    BY <2>4 DEF Truthful
<1>5. CASE Rotate(c)
  <2>1. call[c].op = "refresh" /\ call[c] \in InFlight
    BY <1>5, Running DEF Rotate, CallShape, Steps
  <2>2. \/ Reply(c, "error")
        \/ call' = [call EXCEPT ![c].pc = "reply", ![c].code = "ok",
                                ![c].fresh = generated[call[c].family] + 1]
    BY <1>5 DEF Rotate
  <2>3. CASE call' = [call EXCEPT ![c].pc = "reply", ![c].code = "ok",
                                         ![c].fresh = generated[call[c].family] + 1]
    <3>1. call'[c].op = "refresh" /\ call'[c].code = "ok"
      BY <2>1, <2>3 DEF TypeOK, InFlight
    <3>2. QED
      BY <3>1 DEF Truthful
  <2>4. CASE Reply(c, "error")
    <3>1. call'[c].op = "refresh" /\ call'[c].code = "error"
      BY <2>1, <2>4, ReplyEffect DEF Same
    <3>2. QED
      BY <3>1 DEF Truthful
  <2>5. QED
    BY <2>2, <2>3, <2>4
<1>6. CASE LookUpUser(c) \/ UnindexFamily(c)
  <2>1. call[c].op \in {"refresh", "logout"} /\ call[c] \in InFlight
    BY <1>6, Running DEF LookUpUser, UnindexFamily, CallShape, Steps
  <2>2. \/ Goto(c, "del")
        \/ call' = [call EXCEPT ![c].pc = "srem", ![c].user = stored[call[c].family].user]
    BY <1>6 DEF LookUpUser, UnindexFamily
  <2>3. CASE call' = [call EXCEPT ![c].pc = "srem",
                                         ![c].user = stored[call[c].family].user]
    <3>1. call'[c].op = call[c].op /\ call'[c].pc = "srem" /\ call'[c].code = call[c].code
      BY <2>1, <2>3 DEF TypeOK, InFlight
    <3>2. QED
      BY <2>1, <3>1 DEF Truthful
  <2>4. CASE Goto(c, "del")
    <3>1. call'[c].op = call[c].op /\ call'[c].pc = "del" /\ call'[c].code = call[c].code
      BY <2>1, <2>4, GotoEffect DEF Same
    <3>2. QED
      BY <2>1, <3>1 DEF Truthful
  <2>5. QED
    BY <2>2, <2>3, <2>4
<1>7. CASE EndFamily(c)
  <2>1. call[c].op \in {"refresh", "logout"} /\ call[c] \in InFlight /\ call[c].family \in Family
    BY <1>7, Running DEF EndFamily, CallShape, Steps
  <2>2. stored'[call[c].family] = Missing
    BY <1>1, <1>7, <2>1 DEF EndFamily, DeleteFamily, TypeOK, StoreTypeOK
  <2>3. Goto(c, "reply")
    BY <1>7 DEF EndFamily
  <2>4. call'[c].op = call[c].op /\ call'[c].family = call[c].family /\ call'[c].code = call[c].code
    BY <2>1, <2>3, GotoEffect DEF Same
  <2>5. QED
    BY <2>1, <2>2, <2>4 DEF Truthful, Held
<1>8. CASE ListFamilies(c)
  <2>1. call[c].op = "logout_all" /\ call[c] \in InFlight
    BY <1>8, Running DEF ListFamilies, CallShape, Steps
  <2>2. call' = [call EXCEPT ![c].pc = "sweep", ![c].listed = members[call[c].user],
                             ![c].left = members[call[c].user]]
    BY <1>1, <1>8 DEF ListFamilies
  <2>3. /\ call'[c].op = "logout_all" /\ call'[c].pc = "sweep" /\ call'[c].code = call[c].code
        /\ call'[c].left = call'[c].listed
    BY <2>1, <2>2 DEF TypeOK, InFlight
  <2>4. QED
    BY <2>1, <2>3 DEF Truthful
<1>9. CASE SweepFamily(c)
  <2>1. call[c].op = "logout_all" /\ call[c] \in InFlight /\ call[c].pc = "sweep"
    BY <1>9, Running DEF SweepFamily, CallShape, Steps
  <2>2. PICK g \in call[c].left : /\ stored' = [stored EXCEPT ![g] = Missing]
                                  /\ call' = [call EXCEPT ![c].left = @ \ {g}]
    BY <1>1, <1>9 DEF SweepFamily, DeleteFamily
  <2>3. /\ call'[c].op = "logout_all" /\ call'[c].pc = "sweep" /\ call'[c].code = call[c].code
        /\ call'[c].listed = call[c].listed /\ call'[c].left = call[c].left \ {g}
    BY <2>1, <2>2 DEF TypeOK, InFlight
  <2>4. call[c].left \subseteq Family /\ call[c].listed \subseteq Family
    BY <2>1 DEF InFlight
  <2>5. \A f \in Family : stored'[f] = IF f = g THEN Missing ELSE stored[f]
    BY <2>2 DEF TypeOK, StoreTypeOK
  <2>6. QED
    BY <2>1, <2>3, <2>4, <2>5 DEF Truthful, Held
<1>10. CASE DropIndex(c)
  <2>1. /\ call[c].op = "logout_all" /\ call[c] \in InFlight /\ call[c].pc = "sweep"
        /\ call[c].left = {}
    BY <1>10, Running DEF DropIndex, CallShape, Steps
  <2>2. Reply(c, "ok") /\ stored' = stored
    BY <1>10 DEF DropIndex, DeleteIndex
  <2>3. /\ call'[c].op = "logout_all" /\ call'[c].pc = "reply" /\ call'[c].code = "ok"
        /\ call'[c].listed = call[c].listed
    BY <2>1, <2>2, ReplyEffect DEF Same
  <2>4. QED
    BY <2>1, <2>2, <2>3 DEF Truthful, Held
<1>11. CASE Respond(c)
  <2>1. call'[c] = NoCall
    BY <1>11 DEF Respond, TypeOK
  <2>2. QED
    BY <2>1 DEF Truthful, NoCall
<1>12. QED
  BY <1>3, <1>4, <1>5, <1>6, <1>7, <1>8, <1>9, <1>10, <1>11 DEF CallStep

LEMMA TruthBegins ==
    ASSUME Inv, [Next]_vars, NEW c \in Call, call'[c] /= call[c], ~CallStep(c)
    PROVE  Truthful(c)'
<1>. DEFINE New == /\ call'[c].code \in {"none", "ok"}
                   /\ call'[c].pc \in {"set", "get", "lookup", "smembers"}
<1>1. ASSUME NEW d \in Call, CallStep(d) PROVE FALSE
  BY <1>1, OwnCall
<1>2. ASSUME NEW d \in Call, NEW k, Starts(d, k) PROVE call'[c] = k
  BY <1>2 DEF Starts, Inv, TypeOK
<1>3. ASSUME NEW d \in Call, NEW u \in User, NEW f \in Family, Login(d, u, f) PROVE New
  BY <1>2, <1>3 DEF Login, NoCall
<1>4. ASSUME NEW d \in Call, NEW f \in Family, NEW t \in Token, Refresh(d, f, t) PROVE New
  BY <1>2, <1>4 DEF Refresh, NoCall
<1>5. ASSUME NEW d \in Call, NEW f \in Family, NEW t \in Token, Logout(d, f, t) PROVE New
  BY <1>2, <1>5 DEF Logout, NoCall
<1>6. ASSUME NEW d \in Call, NEW u \in User, LogoutAll(d, u) PROVE New
  BY <1>2, <1>6 DEF LogoutAll, NoCall
<1>7. New
  BY <1>1, <1>3, <1>4, <1>5, <1>6 DEF Next, Tick, vars
<1>8. QED
  BY <1>7 DEF Truthful

LEMMA TruthNext ==
    ASSUME NoFailures, Inv, SessionsBegin, AllTruthful, [Next]_vars
    PROVE  AllTruthful'
<1>1. ASSUME NEW c \in Call PROVE Truthful(c)'
  BY TruthStays, TruthMoves, TruthBegins DEF AllTruthful
<1>2. QED
  BY <1>1 DEF AllTruthful

LEMMA TruthHolds ==
    Spec => [](NoFailures => AllTruthful)
<1>. DEFINE SInv == Inv /\ SessionsBegin /\ (NoFailures => AllTruthful)
<1>1. Init => SInv
  BY InitInv, SessionsBeginInit DEF Init, Truthful, NoCall, AllTruthful
<1>2. SInv /\ [Next]_vars => SInv'
  BY NextInv, SessionsBeginNext, TruthNext, ScenarioStays
<1>3. SInv => (NoFailures => AllTruthful)
  OBVIOUS
<1>. HIDE DEF SInv
<1>4. QED
  BY <1>1, <1>2, <1>3, PTL DEF Spec

\* If Redis does not fail, an answer that ends a session is true and stays so:
\* no refresh that read the family before it was deleted stores it again.
THEOREM EndingsHold ==
    Spec => []EndingAnswersHold
<1>1. (NoFailures => AllTruthful) => EndingAnswersHold
  BY DEF AllTruthful, Truthful, EndingAnswersHold
<1>2. QED
  BY <1>1, TruthHolds, PTL

\* If Redis does not fail, a logout of all devices has ended every session it
\* listed by the time it is answered, whatever went on meanwhile.
THEOREM ListedEnd ==
    Spec => []ListedSessionsEnd
<1>1. (NoFailures => AllTruthful) => ListedSessionsEnd
  BY DEF AllTruthful, Truthful, ListedSessionsEnd
<1>2. QED
  BY <1>1, TruthHolds, PTL

-------------------------------------------------------------------------------
(* With no command of Redis failing: the index outlives the sessions in it. *)

\* A session is in the index of the user who logged in, and of nobody else.
IndexedByOwner ==
    /\ \A u \in User : \A f \in members[u] : Held(f) => stored[f].user = u
    /\ \A c \in Call :
          call[c].pc \in {"sadd", "expire"} /\ Held(call[c].family)
              => stored[call[c].family].user = call[c].user

\* While a session is there its user stays, and only time, never a rotation,
\* touches the time at which it expires.
LEMMA HeldAges ==
    ASSUME Inv, SessionsBegin, [Next]_vars, NEW f \in Family, Held(f), Held(f)'
    PROVE  /\ stored'[f].user = stored[f].user
           /\ \/ ~Tick /\ stored'[f].expiresIn = stored[f].expiresIn
              \/ /\ Tick
                 /\ stored'[f].expiresIn =
                      IF stored[f].expiresIn = 0 THEN 0 ELSE stored[f].expiresIn - 1
<1>1. CASE Tick
  <2>1. ~(stored[f].ttl <= 1)
    BY <1>1 DEF Tick, ExpireKeys, Held
  <2>2. stored[f] \in Data
    BY DEF Held, Inv, TypeOK, StoreTypeOK
  <2>3. stored'[f] = [stored[f] EXCEPT !.ttl = @ - 1,
                                       !.expiresIn = IF @ = 0 THEN 0 ELSE @ - 1]
    BY <1>1, <2>1 DEF Tick, ExpireKeys
  <2>4. QED
    BY <1>1, <2>2, <2>3 DEF Data
<1>2. ASSUME ~Tick, stored'[f] /= stored[f]
      PROVE  stored'[f].user = stored[f].user /\ stored'[f].expiresIn = stored[f].expiresIn
  <2>1. PICK c \in Call : StoreFamily(c) \/ Rotate(c) \/ EndFamily(c) \/ SweepFamily(c)
    BY <1>2, StoredChanges
  <2>2. CASE StoreFamily(c)
    <3>1. call[c].family = f
      BY <1>2, <2>2, StoreFamilyEffect
    <3>2. QED
      BY <2>2, <3>1, StoreFamilyBegins DEF SessionsBegin
  <2>3. CASE Rotate(c)
    <3>1. call[c].family = f
      BY <1>2, <2>3, RotateEffect
    <3>2. QED
      BY <1>2, <2>3, <3>1, RotateEffect
  <2>4. CASE EndFamily(c) \/ SweepFamily(c)
    <3>1. stored'[f] = Missing
      BY <1>2, <2>4 DEF EndFamily, SweepFamily, DeleteFamily, Inv, TypeOK, StoreTypeOK
    <3>2. QED
      BY <3>1 DEF Held
  <2>5. QED
    BY <2>1, <2>2, <2>3, <2>4
<1>3. QED
  BY <1>1, <1>2

\* A family comes into an index by the SADD of its login.
LEMMA IndexGrows ==
    ASSUME Inv, [Next]_vars, NEW u \in User, NEW f \in members'[u], f \notin members[u]
    PROVE  \E c \in Call : IndexFamily(c) /\ call[c].family = f /\ call[c].user = u
<1>1. members' /= members
  OBVIOUS
<1>2. ASSUME Tick PROVE FALSE
  BY <1>2 DEF Tick, ExpireKeys
<1>3. ASSUME NEW c \in Call, CallStep(c)
      PROVE  IndexFamily(c) /\ call[c].family = f /\ call[c].user = u
  <2>1. CASE IndexFamily(c)
    BY <2>1 DEF IndexFamily, AddToIndex, Inv, TypeOK, StoreTypeOK
  <2>2. CASE UnindexFamily(c)
    BY <2>2 DEF UnindexFamily, RemoveFromIndex, Inv, TypeOK, StoreTypeOK
  <2>3. CASE DropIndex(c)
    BY <2>3 DEF DropIndex, DeleteIndex, Inv, TypeOK, StoreTypeOK
  <2>4. QED
    BY <1>1, <1>3, <2>1, <2>2, <2>3
    DEF CallStep, StoreFamily, SetFamily, RenewIndex, ExpireIndex, ReadFamily, LookUpUser,
        Rotate, RotateScript, EndFamily, DeleteFamily, ListFamilies, SweepFamily, Respond,
        storeVars
<1>4. QED
  BY <1>1, <1>2, <1>3 DEF Next, Login, Refresh, Logout, LogoutAll, storeVars, vars

\* What becomes of a call in flight: it waits or it takes its step.
LEMMA CallWaits ==
    ASSUME Inv, [Next]_vars, NEW c \in Call, call[c] /= NoCall
    PROVE  call'[c] = call[c] \/ CallStep(c)
<1>1. ASSUME NEW d \in Call, CallStep(d), d /= c PROVE call'[c] = call[c]
  BY <1>1, OwnCall
<1>2. ASSUME NEW d \in Call, NEW k, Starts(d, k) PROVE call'[c] = call[c]
  BY <1>2 DEF Starts, Inv, TypeOK
<1>3. QED
  BY <1>1, <1>2 DEF Next, Login, Refresh, Logout, LogoutAll, Tick, vars

\* A login's way through the index.
LEMMA LoginMoves ==
    ASSUME Inv, NEW c \in Call, CallStep(c)
    PROVE  /\ call'[c].pc = "sadd" => /\ StoreFamily(c) /\ call'[c].family = call[c].family
                                      /\ call'[c].user = call[c].user
           /\ call'[c].pc = "expire" => /\ IndexFamily(c) /\ call'[c].family = call[c].family
                                        /\ call'[c].user = call[c].user
           /\ IndexFamily(c) /\ NoFailures => /\ call'[c].pc = "expire"
                                              /\ call'[c].family = call[c].family
<1>. USE DEF Inv
<1>1. CASE StoreFamily(c)
  <2>1. call[c] \in InFlight
    BY <1>1, Running DEF StoreFamily, Steps
  <2>2. call[c].pc = "set" /\ (Goto(c, "sadd") \/ Reply(c, "error"))
    BY <1>1 DEF StoreFamily
  <2>3. QED
    BY <1>1, <2>1, <2>2, GotoEffect, ReplyEffect DEF Same, IndexFamily
<1>2. CASE IndexFamily(c)
  <2>1. call[c] \in InFlight
    BY <1>2, Running DEF IndexFamily, Steps
  <2>2. /\ Goto(c, "expire") \/ Reply(c, "ok")
        /\ NoFailures => Goto(c, "expire")
    BY <1>2 DEF IndexFamily, NoFailures, Outcomes
  <2>3. QED
    BY <1>2, <2>1, <2>2, GotoEffect, ReplyEffect DEF Same
<1>3. ASSUME ~StoreFamily(c), ~IndexFamily(c) PROVE call'[c].pc \notin {"sadd", "expire"}
  <2>1. CASE Respond(c)
    BY <2>1 DEF Respond, NoCall, TypeOK
  <2>2. CASE ~Respond(c)
    <3>1. call[c].pc \in Steps
      BY <1>3, <2>2 DEF CallStep, RenewIndex, ReadFamily, Rotate, LookUpUser, UnindexFamily,
             EndFamily, ListFamilies, SweepFamily, DropIndex, Steps
    <3>2. call[c] \in InFlight
      BY <3>1, Running
    <3>3. \/ \E pc \in {"reply", "rotate", "del"} : Goto(c, pc)
          \/ \E code : Reply(c, code)
          \/ \E v : call' = [call EXCEPT ![c].pc = "lookup", ![c].code = v]
          \/ \E v : call' = [call EXCEPT ![c].pc = "reply", ![c].code = "ok", ![c].fresh = v]
          \/ \E v : call' = [call EXCEPT ![c].pc = "srem", ![c].user = v]
          \/ \E v : call' = [call EXCEPT ![c].pc = "sweep", ![c].listed = v, ![c].left = v]
          \/ \E v : call' = [call EXCEPT ![c].left = @ \ {v}] /\ call[c].pc = "sweep"
      BY <1>3, <2>2 DEF CallStep, RenewIndex, ReadFamily, Rotate, LookUpUser, UnindexFamily,
             EndFamily, ListFamilies, SweepFamily, DropIndex
    <3>4. ASSUME NEW v, call' = [call EXCEPT ![c].pc = "lookup", ![c].code = v]
          PROVE  call'[c].pc = "lookup"
      BY <3>2, <3>4 DEF TypeOK, InFlight
    <3>5. ASSUME NEW v, call' = [call EXCEPT ![c].pc = "reply", ![c].code = "ok", ![c].fresh = v]
          PROVE  call'[c].pc = "reply"
      BY <3>2, <3>5 DEF TypeOK, InFlight
    <3>6. ASSUME NEW v, call' = [call EXCEPT ![c].pc = "srem", ![c].user = v]
          PROVE  call'[c].pc = "srem"
      BY <3>2, <3>6 DEF TypeOK, InFlight
    <3>7. ASSUME NEW v, call' = [call EXCEPT ![c].pc = "sweep", ![c].listed = v, ![c].left = v]
          PROVE  call'[c].pc = "sweep"
      BY <3>2, <3>7 DEF TypeOK, InFlight
    <3>8. ASSUME NEW v, call' = [call EXCEPT ![c].left = @ \ {v}], call[c].pc = "sweep"
          PROVE  call'[c].pc = "sweep"
      BY <3>2, <3>8 DEF TypeOK, InFlight
    <3>9. ASSUME NEW pc \in {"reply", "rotate", "del"}, Goto(c, pc) PROVE call'[c].pc = pc
      BY <3>2, <3>9, GotoEffect
    <3>10. ASSUME NEW code, Reply(c, code) PROVE call'[c].pc = "reply"
      BY <3>2, <3>10, ReplyEffect
    <3>11. QED
      BY <3>3, <3>4, <3>5, <3>6, <3>7, <3>8, <3>9, <3>10
  <2>3. QED
    BY <2>1, <2>2
<1>4. QED
  BY <1>1, <1>2, <1>3

LEMMA NewCallPc ==
    ASSUME Inv, [Next]_vars, NEW c \in Call, call'[c] /= call[c], ~CallStep(c)
    PROVE  call'[c].pc \in {"set", "get", "lookup", "smembers"}
<1>1. ASSUME NEW d \in Call, CallStep(d) PROVE FALSE
  BY <1>1, OwnCall
<1>2. ASSUME NEW d \in Call, NEW k, Starts(d, k) PROVE call'[c] = k
  BY <1>2 DEF Starts, Inv, TypeOK
<1>3. ASSUME NEW d \in Call, NEW u \in User, NEW f \in Family, Login(d, u, f)
      PROVE  call'[c].pc = "set"
  BY <1>2, <1>3 DEF Login, NoCall
<1>4. ASSUME NEW d \in Call, NEW f \in Family, NEW t \in Token, Refresh(d, f, t)
      PROVE  call'[c].pc = "get"
  BY <1>2, <1>4 DEF Refresh, NoCall
<1>5. ASSUME NEW d \in Call, NEW f \in Family, NEW t \in Token, Logout(d, f, t)
      PROVE  call'[c].pc = "lookup"
  BY <1>2, <1>5 DEF Logout, NoCall
<1>6. ASSUME NEW d \in Call, NEW u \in User, LogoutAll(d, u) PROVE call'[c].pc = "smembers"
  BY <1>2, <1>6 DEF LogoutAll, NoCall
<1>7. QED
  BY <1>1, <1>3, <1>4, <1>5, <1>6 DEF Next, Tick, vars

\* The login stores the family of its user.
LEMMA StoredUser ==
    ASSUME Inv, NEW c \in Call, StoreFamily(c), call'[c].pc = "sadd"
    PROVE  stored'[call[c].family].user = call[c].user
<1>. DEFINE f == call[c].family
            d == [user |-> call[c].user, current |-> call[c].fresh, previous |-> NoToken,
                  expiresIn |-> Lifetime, ttl |-> Lifetime]
<1>1. f \in Family /\ call[c] \in InFlight
  BY Running DEF StoreFamily, Inv, CallShape, Steps
<1>2. ~Reply(c, "error")
  BY <1>1, ReplyEffect DEF Inv
<1>3. stored' = [stored EXCEPT ![f] = d]
  BY <1>2 DEF StoreFamily, SetFamily
<1>4. QED
  BY <1>1, <1>3 DEF Inv, TypeOK, StoreTypeOK

LEMMA OwnerNext ==
    ASSUME Inv, SessionsBegin, IndexedByOwner, [Next]_vars
    PROVE  IndexedByOwner'
<1>1. ASSUME NEW u \in User, NEW f \in members'[u], Held(f)' PROVE stored'[f].user = u
  <2>1. f \in Family
    BY NextInv DEF Inv, TypeOK, StoreTypeOK
  <2>2. CASE f \in members[u]
    <3>1. Held(f)
      BY <1>1, <2>1, <2>2, GoneForGood DEF SessionsBegin
    <3>2. QED
      BY <1>1, <2>1, <2>2, <3>1, HeldAges DEF IndexedByOwner
  <2>3. CASE f \notin members[u]
    <3>1. PICK c \in Call : IndexFamily(c) /\ call[c].family = f /\ call[c].user = u
      BY <1>1, <2>3, IndexGrows
    <3>2. call[c].pc = "sadd" /\ stored' = stored
      BY <3>1 DEF IndexFamily, AddToIndex
    <3>3. QED
      BY <1>1, <3>1, <3>2 DEF IndexedByOwner, Held
  <2>4. QED
    BY <2>2, <2>3
<1>2. ASSUME NEW c \in Call, call'[c].pc \in {"sadd", "expire"}, stored'[call'[c].family] /= Missing
      PROVE  stored'[call'[c].family].user = call'[c].user
  <2>1. CASE call'[c] = call[c]
    <3>1. PICK f \in Family : f = call[c].family /\ f \in Begun
      BY <1>2, <2>1, LoginBegun DEF Inv, CallShape
    <3>2. Held(f)' /\ Held(f)
      BY <1>2, <2>1, <3>1, GoneForGood DEF Held
    <3>3. QED
      BY <1>2, <2>1, <3>1, <3>2, HeldAges DEF IndexedByOwner
  <2>2. CASE call'[c] /= call[c]
    <3>1. CASE call[c] = NoCall
      <4>1. CASE CallStep(c)
        BY <1>2, <3>1, <4>1, LoginMoves DEF StoreFamily, IndexFamily, NoCall
      <4>2. CASE ~CallStep(c)
        BY <1>2, <2>2, <4>2, NewCallPc
      <4>3. QED
        BY <4>1, <4>2
    <3>2. CASE call[c] /= NoCall
      <4>1. CallStep(c)
        BY <2>2, <3>2, CallWaits
      <4>2. CASE call'[c].pc = "sadd"
        <5>1. StoreFamily(c) /\ call'[c].family = call[c].family /\ call'[c].user = call[c].user
          BY <4>1, <4>2, LoginMoves
        <5>2. QED
          BY <1>2, <4>2, <5>1, StoredUser
      <4>3. CASE call'[c].pc = "expire"
        <5>1. IndexFamily(c) /\ call'[c].family = call[c].family /\ call'[c].user = call[c].user
          BY <4>1, <4>3, LoginMoves
        <5>2. stored' = stored /\ call[c].pc = "sadd"
          BY <5>1 DEF IndexFamily, AddToIndex
        <5>3. QED
          BY <1>2, <5>1, <5>2 DEF IndexedByOwner, Held
      <4>4. QED
        BY <1>2, <4>2, <4>3
    <3>3. QED
      BY <3>1, <3>2
  <2>3. QED
    BY <2>1, <2>2
<1>3. QED
  BY <1>1, <1>2 DEF IndexedByOwner, Held

\* The index of a user who keeps a session in it loses time only as time passes,
\* and the EXPIRE of a login gives it a whole lifetime.
LEMMA IndexLasts ==
    ASSUME Inv, NoFailures, [Next]_vars, NEW u \in User, NEW f, f \in members[u], f \in members'[u]
    PROVE  \/ ~Tick /\ indexTTL'[u] = indexTTL[u]
           \/ ~Tick /\ indexTTL'[u] = Lifetime
           \/ /\ Tick
              /\ indexTTL'[u] = IF indexTTL[u] = Forever THEN Forever ELSE indexTTL[u] - 1
<1>. USE DEF Inv, TypeOK, StoreTypeOK
<1>1. CASE Tick
  BY <1>1 DEF Tick, ExpireKeys, Forever
<1>2. ASSUME NEW c \in Call, CallStep(c) PROVE indexTTL'[u] \in {indexTTL[u], Lifetime}
  <2>1. CASE IndexFamily(c)
    BY <2>1 DEF IndexFamily, AddToIndex
  <2>2. CASE UnindexFamily(c)
    BY <2>2 DEF UnindexFamily, RemoveFromIndex
  <2>3. CASE DropIndex(c)
    BY <2>3 DEF DropIndex, DeleteIndex
  <2>4. CASE RenewIndex(c)
    BY <2>4 DEF RenewIndex, ExpireIndex
  <2>5. QED
    BY <1>2, <2>1, <2>2, <2>3, <2>4
    DEF CallStep, StoreFamily, SetFamily, ReadFamily, LookUpUser, Rotate, RotateScript,
        EndFamily, DeleteFamily, ListFamilies, SweepFamily, Respond, storeVars
<1>3. CASE ~Tick
  BY <1>2, <1>3 DEF Next, Login, Refresh, Logout, LogoutAll, storeVars, vars
<1>4. QED
  BY <1>1, <1>3

LEMMA IndexNext ==
    ASSUME NoFailures, Inv, SessionsBegin, IndexedByOwner, IndexOutlivesSessions, [Next]_vars
    PROVE  IndexOutlivesSessions'
<1>. SUFFICES ASSUME NEW u \in User, NEW f \in members'[u], Held(f)', ~BeingIndexed(f)'
     PROVE  stored'[f].expiresIn <= indexTTL'[u]
  BY DEF IndexOutlivesSessions
<1>1. Inv'
  BY NextInv
<1>2. f \in Family
  BY <1>1 DEF Inv, TypeOK, StoreTypeOK
<1>3. f \in members[u]
  <2>1. ASSUME f \notin members[u] PROVE FALSE
    <3>1. PICK c \in Call : IndexFamily(c) /\ call[c].family = f
      BY <2>1, IndexGrows
    <3>2. call'[c].pc = "expire" /\ call'[c].family = f
      BY <3>1, LoginMoves DEF CallStep
    <3>3. QED
      BY <3>2 DEF BeingIndexed
  <2>2. QED
    BY <2>1
<1>4. Held(f) /\ stored[f].user = u
  BY <1>2, <1>3, GoneForGood DEF SessionsBegin, IndexedByOwner
<1>5. stored[f].expiresIn \in 0 .. Lifetime /\ indexTTL[u] \in 0 .. Forever
  BY <1>2, <1>4 DEF Held, Data, Inv, TypeOK, StoreTypeOK
<1>6. CASE BeingIndexed(f)
  <2>1. PICK c \in Call : call[c].family = f /\ call[c].pc \in {"set", "sadd", "expire"}
    BY <1>6 DEF BeingIndexed
  <2>2. call'[c] /= call[c]
    BY <2>1 DEF BeingIndexed
  <2>3. CallStep(c)
    BY <2>1, <2>2, CallWaits DEF NoCall
  <2>4. call[c].pc /= "set"
    BY <1>2, <1>4, <2>1 DEF SessionsBegin, Begun, NotStored
  <2>5. ~IndexFamily(c)
    BY <2>1, LoginMoves DEF BeingIndexed, CallStep
  <2>6. RenewIndex(c)
    BY <2>1, <2>3, <2>4, <2>5
    DEF CallStep, StoreFamily, IndexFamily, ReadFamily, Rotate, LookUpUser, UnindexFamily,
        EndFamily, ListFamilies, SweepFamily, DropIndex, Respond
  <2>7. call[c].user = u
    BY <1>4, <2>1, <2>4 DEF IndexedByOwner
  <2>8. indexTTL'[u] = Lifetime /\ stored' = stored
    BY <1>3, <2>6, <2>7 DEF RenewIndex, ExpireIndex, NoFailures, Outcomes, Inv, TypeOK, StoreTypeOK
  <2>9. QED
    BY <1>5, <2>8
<1>7. CASE ~BeingIndexed(f)
  <2>1. stored[f].expiresIn <= indexTTL[u]
    BY <1>3, <1>4, <1>7 DEF IndexOutlivesSessions
  <2>2. \/ ~Tick /\ stored'[f].expiresIn = stored[f].expiresIn
        \/ /\ Tick
           /\ stored'[f].expiresIn =
                      IF stored[f].expiresIn = 0 THEN 0 ELSE stored[f].expiresIn - 1
    BY <1>2, <1>4, HeldAges
  <2>3. \/ ~Tick /\ indexTTL'[u] = indexTTL[u]
        \/ ~Tick /\ indexTTL'[u] = Lifetime
        \/ /\ Tick
           /\ indexTTL'[u] = IF indexTTL[u] = Forever THEN Forever ELSE indexTTL[u] - 1
    BY <1>3, IndexLasts
  <2>4. indexTTL'[u] \in 0 .. Forever
    BY <1>1 DEF Inv, TypeOK, StoreTypeOK
  <2>5. QED
    BY <1>5, <2>1, <2>2, <2>3, <2>4, LifetimeAssumption DEF Forever
<1>8. QED
  BY <1>6, <1>7

\* If Redis does not fail, a session never outlives the index it is in: the login
\* gives the index a whole lifetime, and no refresh gives the session more.
THEOREM IndexesOutlive ==
    Spec => []IndexOutlivesSessions
<1>. DEFINE SInv == Inv /\ SessionsBegin /\ IndexedByOwner /\ IndexOutlivesSessions
<1>1. Init => SInv
  BY InitInv, SessionsBeginInit
  DEF Init, StoreInit, IndexedByOwner, IndexOutlivesSessions, NoCall
<1>2. SInv /\ [Next]_vars => SInv'
  <2>. SUFFICES ASSUME SInv, [Next]_vars PROVE SInv'
    OBVIOUS
  <2>1. Inv' /\ SessionsBegin' /\ IndexedByOwner'
    BY NextInv, SessionsBeginNext, OwnerNext
  <2>2. CASE NoFailures
    BY <2>1, <2>2, IndexNext
  <2>3. CASE ~NoFailures
    BY <2>1, <2>3, ScenarioStays DEF IndexOutlivesSessions
  <2>4. QED
    BY <2>2, <2>3
<1>3. SInv => IndexOutlivesSessions
  OBVIOUS
<1>. HIDE DEF SInv
<1>4. QED
  BY <1>1, <1>2, <1>3, PTL DEF Spec
-------------------------------------------------------------------------------
(* With nothing failing, and no answer lost: careful clients.              *)

Refreshing(c, f) == call[c].op = "refresh" /\ call[c].family = f

\* Nobody has a token of a family before its login is answered, and nobody
\* refreshes it without one.
LoginFirst ==
    \A c \in Call :
        /\ call[c].op = "refresh" => given[call[c].family] /= {}
        /\ call[c].op = "login" =>
             /\ given[call[c].family] = {}
             /\ Held(call[c].family) => stored[call[c].family].current = 1

\* A careful client refreshes its session once at a time.
OneRefresh ==
    \A f \in Family \cap Careful : \A c, d \in Call :
        Refreshing(c, f) /\ Refreshing(d, f) => c = d

\* The token a careful client presents is the current one, until its own refresh
\* has replaced it; the last token it was given is the current one, or the answer
\* that brings the current one is on its way.
InStep(f) ==
    Held(f) =>
        /\ \A t \in given[f] : t <= stored[f].current
        /\ \A c \in Call : Refreshing(c, f) =>
             /\ call[c].pc \in {"get", "rotate"} => call[c].token = stored[f].current
             /\ call[c].code = "ok" => call[c].fresh = stored[f].current
             /\ call[c].code \notin {"invalid", "error"}
        /\ \/ given[f] = {} \/ stored[f].current \in given[f]
           \/ \E c \in Call : Refreshing(c, f) /\ call[c].code = "ok"

NeverReused ==
    \A f \in Family \cap Careful : \A c \in Call : Refreshing(c, f) => call[c].code /= "reused"

CarefulInv ==
    /\ LoginFirst
    /\ OneRefresh
    /\ NeverReused
    /\ \A f \in Family \cap Careful : InStep(f)

\* Tokens reach clients in the answers to the logins and refreshes that made them.
LEMMA GivenChanges ==
    ASSUME Inv, [Next]_vars, NEW f \in Family
    PROVE  \/ given'[f] = given[f]
           \/ \E c \in Call : /\ Respond(c) /\ call[c].family = f /\ call[c].code = "ok"
                              /\ call[c].op \in {"login", "refresh"}
                              /\ given'[f] = given[f] \cup {call[c].fresh}
<1>1. ASSUME NEW c \in Call, Respond(c), given'[f] /= given[f]
      PROVE  /\ call[c].family = f /\ call[c].code = "ok" /\ call[c].op \in {"login", "refresh"}
             /\ given'[f] = given[f] \cup {call[c].fresh}
  BY <1>1 DEF Respond, Inv, TypeOK, CallShape
<1>2. CASE UNCHANGED given
  BY <1>2
<1>3. QED
  BY <1>1, <1>2
  DEF Next, CallStep, Login, Refresh, Logout, LogoutAll, StoreFamily, IndexFamily, RenewIndex,
      ReadFamily, Rotate, LookUpUser, UnindexFamily, EndFamily, ListFamilies, SweepFamily,
      DropIndex, Tick, clientVars, vars

\* With nothing lost, whoever is answered has the token it was answered with.
LEMMA Received ==
    ASSUME Inv, NothingLost, NEW c \in Call, Respond(c), call[c].code = "ok",
           call[c].op \in {"login", "refresh"}
    PROVE  call[c].fresh \in given'[call[c].family]
BY DEF Respond, NothingLost, Inv, TypeOK, CallShape

\* How a refresh goes on.
LEMMA RefreshMoves ==
    ASSUME Inv, NoFailures, NEW c \in Call, CallStep(c), call[c].op = "refresh", ~Respond(c),
           ~Rotate(c)
    PROVE  /\ call'[c].op = "refresh" /\ call'[c].family = call[c].family
           /\ call'[c].token = call[c].token /\ call'[c].fresh = call[c].fresh
           /\ \/ /\ call'[c].code = call[c].code /\ call'[c].pc \in {"srem", "del", "reply"}
              \/ /\ call[c].pc = "get"
                 /\ LET verdict == Verdict(call[c].family, call[c].token)
                    IN  IF verdict = "current"
                          THEN call'[c].code = call[c].code /\ call'[c].pc = "rotate"
                          ELSE call'[c].code = verdict /\ call'[c].pc \in {"reply", "lookup"}
<1>. USE DEF Inv
<1>1. Outcomes = {"ok"} /\ ~ReadMayFail
  BY DEF NoFailures, Outcomes, ReadMayFail
<1>2. CASE ReadFamily(c)
  <2>. DEFINE verdict == Verdict(call[c].family, call[c].token)
  <2>1. call[c] \in InFlight /\ call[c].pc = "get"
    BY <1>2, Running DEF ReadFamily, Steps
  <2>2. \/ verdict = "invalid" /\ Reply(c, "invalid")
        \/ verdict = "current" /\ Goto(c, "rotate")
        \/ /\ verdict \in {"expired", "reused"}
           /\ call' = [call EXCEPT ![c].pc = "lookup", ![c].code = verdict]
    BY <1>1, <1>2 DEF ReadFamily
  <2>. HIDE DEF verdict
  <2>3. CASE call' = [call EXCEPT ![c].pc = "lookup", ![c].code = verdict]
    <3>1. /\ call'[c].pc = "lookup" /\ call'[c].code = verdict /\ call'[c].op = call[c].op
          /\ call'[c].family = call[c].family /\ call'[c].token = call[c].token
          /\ call'[c].fresh = call[c].fresh
      BY <2>1, <2>3 DEF TypeOK, InFlight
    <3>2. verdict /= "current"
      <4>1. ASSUME verdict = "current" PROVE FALSE
        <5>1. Goto(c, "rotate")
          BY <2>2, <4>1
        <5>2. call'[c].pc = "rotate"
          BY <2>1, <5>1, GotoEffect
        <5>3. QED
          BY <3>1, <5>2
      <4>2. QED
        BY <4>1
    <3>3. QED
      BY <2>1, <3>1, <3>2 DEF verdict
  <2>4. CASE verdict = "invalid" /\ Reply(c, "invalid")
    <3>1. /\ call'[c].pc = "reply" /\ call'[c].code = verdict /\ call'[c].op = call[c].op
          /\ call'[c].family = call[c].family /\ call'[c].token = call[c].token
          /\ call'[c].fresh = call[c].fresh
      BY <2>1, <2>4, ReplyEffect DEF Same
    <3>2. QED
      BY <2>1, <2>4, <3>1 DEF verdict
  <2>5. CASE verdict = "current" /\ Goto(c, "rotate")
    <3>1. /\ call'[c].pc = "rotate" /\ call'[c].code = call[c].code /\ call'[c].op = call[c].op
          /\ call'[c].family = call[c].family /\ call'[c].token = call[c].token
          /\ call'[c].fresh = call[c].fresh
      BY <2>1, <2>5, GotoEffect DEF Same
    <3>2. QED
      BY <2>1, <2>5, <3>1 DEF verdict
  <2>6. QED
    BY <2>2, <2>3, <2>4, <2>5
<1>3. CASE LookUpUser(c) \/ UnindexFamily(c) \/ EndFamily(c)
  <2>1. call[c] \in InFlight
    BY <1>3, Running DEF LookUpUser, UnindexFamily, EndFamily, Steps
  <2>2. \/ Goto(c, "del") \/ Goto(c, "reply")
        \/ call' = [call EXCEPT ![c].pc = "srem", ![c].user = stored[call[c].family].user]
    BY <1>3 DEF LookUpUser, UnindexFamily, EndFamily
  <2>3. CASE call' = [call EXCEPT ![c].pc = "srem",
                                         ![c].user = stored[call[c].family].user]
    <3>1. /\ call'[c].op = call[c].op /\ call'[c].pc = "srem" /\ call'[c].code = call[c].code
          /\ call'[c].family = call[c].family /\ call'[c].token = call[c].token
          /\ call'[c].fresh = call[c].fresh
      BY <2>1, <2>3 DEF TypeOK, InFlight
    <3>2. QED
      BY <3>1
  <2>4. QED
    BY <2>1, <2>2, <2>3, GotoEffect DEF Same
<1>4. QED
  BY <1>2, <1>3
  DEF CallStep, CallShape, StoreFamily, IndexFamily, RenewIndex, ListFamilies, SweepFamily, DropIndex

\* What a rotation answers, if Redis does not fail.
LEMMA RotationAnswers ==
    ASSUME Inv, NoFailures, NEW c \in Call, Rotate(c)
    PROVE  /\ call'[c].op = "refresh" /\ call'[c].family = call[c].family /\ call'[c].pc = "reply"
           /\ Held(call[c].family) =>
                /\ call'[c].code = "ok" /\ call'[c].fresh = generated[call[c].family] + 1
                /\ stored'[call[c].family].current = generated[call[c].family] + 1
           /\ ~Held(call[c].family) => call'[c].code = "error"
<1>. DEFINE f == call[c].family
            fresh == generated[f] + 1
<1>. USE DEF Inv
<1>1. call[c] \in InFlight /\ call[c].op = "refresh" /\ f \in Family
  BY Running DEF Rotate, CallShape, Steps
<1>2. Outcomes = {"ok"}
  BY DEF NoFailures, Outcomes
<1>3. CASE Held(f)
  <2>1. call' = [call EXCEPT ![c].pc = "reply", ![c].code = "ok", ![c].fresh = fresh]
    BY <1>2, <1>3 DEF Rotate
  <2>2. stored' = [stored EXCEPT ![f].previous = stored[f].current,
                                 ![f].current = fresh, ![f].ttl = Lifetime]
    BY <1>2, <1>3 DEF Rotate, RotateScript
  <2>3. stored[f] \in Data
    BY <1>1, <1>3 DEF Held, TypeOK, StoreTypeOK
  <2>. HIDE DEF fresh
  <2>4. stored'[f].current = fresh
    BY <1>1, <2>2, <2>3 DEF TypeOK, StoreTypeOK, Data
  <2>5. /\ call'[c].op = call[c].op /\ call'[c].family = f /\ call'[c].pc = "reply"
        /\ call'[c].code = "ok" /\ call'[c].fresh = fresh
    BY <1>1, <2>1 DEF TypeOK, InFlight
  <2>6. QED
    BY <1>1, <1>3, <2>4, <2>5 DEF fresh
<1>4. CASE ~Held(f)
  <2>1. Reply(c, "error")
    BY <1>4 DEF Rotate
  <2>2. QED
    BY <1>1, <1>4, <2>1, ReplyEffect DEF Same
<1>5. QED
  BY <1>3, <1>4

\* Where a login or a refresh that is in flight comes from.
LEMMA Carries ==
    ASSUME Inv, [Next]_vars, NEW c \in Call, call'[c].op \in {"refresh", "login"}
    PROVE  \/ call'[c] = call[c]
           \/ /\ CallStep(c) /\ ~Respond(c) /\ call'[c].op = call[c].op
              /\ call'[c].family = call[c].family
           \/ \E f \in Family, t \in Token :
                /\ Refresh(c, f, t) /\ call'[c].op = "refresh" /\ call'[c].family = f
                /\ call'[c].token = t /\ call'[c].code = "none" /\ call'[c].pc = "get"
           \/ \E u \in User, f \in Family :
                Login(c, u, f) /\ call'[c].op = "login" /\ call'[c].family = f
<1>1. CASE CallStep(c)
  <2>1. call'[c] /= NoCall
    BY DEF NoCall
  <2>2. ~Respond(c)
    BY <2>1 DEF Respond, Inv, TypeOK
  <2>3. QED
    BY <1>1, <2>1, <2>2, OwnCall DEF Same
<1>2. CASE ~CallStep(c) /\ call'[c] /= call[c]
  <2>1. ASSUME NEW d \in Call, CallStep(d) PROVE FALSE
    BY <1>2, <2>1, OwnCall
  <2>2. ASSUME NEW d \in Call, NEW k, Starts(d, k) PROVE d = c /\ call'[c] = k
    BY <1>2, <2>2 DEF Starts, Inv, TypeOK
  <2>3. ASSUME NEW d \in Call, NEW u \in User, NEW f \in Family, Login(d, u, f)
        PROVE  d = c /\ call'[c].op = "login" /\ call'[c].family = f
    <3>. DEFINE k == [NoCall EXCEPT !.pc = "set", !.op = "login", !.user = u,
                                    !.family = f, !.fresh = 1]
    <3>1. k.op = "login" /\ k.family = f
      BY DEF NoCall
    <3>2. Starts(d, k)
      BY <2>3 DEF Login
    <3>. HIDE DEF k
    <3>3. QED
      BY <2>2, <3>1, <3>2
  <2>4. ASSUME NEW d \in Call, NEW f \in Family, NEW t \in Token, Refresh(d, f, t)
        PROVE  /\ d = c /\ call'[c].op = "refresh" /\ call'[c].family = f
               /\ call'[c].token = t /\ call'[c].code = "none" /\ call'[c].pc = "get"
    <3>. DEFINE k == [NoCall EXCEPT !.pc = "get", !.op = "refresh", !.family = f, !.token = t]
    <3>1. /\ k.op = "refresh" /\ k.family = f /\ k.token = t /\ k.code = "none"
          /\ k.pc = "get"
      BY DEF NoCall
    <3>2. Starts(d, k)
      BY <2>4 DEF Refresh
    <3>. HIDE DEF k
    <3>3. QED
      BY <2>2, <3>1, <3>2
  <2>5. ASSUME NEW d \in Call, NEW f \in Family, NEW t \in Token, Logout(d, f, t) PROVE FALSE
    <3>. DEFINE k == [NoCall EXCEPT !.pc = "lookup", !.op = "logout", !.family = f,
                                    !.token = t, !.code = "ok"]
    <3>1. k.op = "logout"
      BY DEF NoCall
    <3>2. Starts(d, k)
      BY <2>5 DEF Logout
    <3>. HIDE DEF k
    <3>3. QED
      BY <2>2, <3>1, <3>2
  <2>6. ASSUME NEW d \in Call, NEW u \in User, LogoutAll(d, u) PROVE FALSE
    <3>. DEFINE k == [NoCall EXCEPT !.pc = "smembers", !.op = "logout_all", !.user = u]
    <3>1. k.op = "logout_all"
      BY DEF NoCall
    <3>2. Starts(d, k)
      BY <2>6 DEF LogoutAll
    <3>. HIDE DEF k
    <3>3. QED
      BY <2>2, <3>1, <3>2
  <2>7. QED
    BY <1>2, <2>1, <2>3, <2>4, <2>5, <2>6 DEF Next, Tick, vars
<1>3. QED
  BY <1>1, <1>2

LEMMA GivenStays ==
    ASSUME Inv, [Next]_vars, NEW f \in Family
    PROVE  given[f] \subseteq given'[f]
BY GivenChanges

\* The current token of a session changes by a rotation only.
LEMMA CurrentStays ==
    ASSUME Inv, SessionsBegin, [Next]_vars, NEW f \in Family, Held(f), Held(f)',
           \A c \in Call : Rotate(c) => call[c].family /= f
    PROVE  stored'[f].current = stored[f].current
<1>1. CASE UNCHANGED <<stored, replaced>>
  BY <1>1
<1>2. ASSUME NEW c \in Call, StoreFamily(c) PROVE stored'[f] = stored[f]
  <2>1. call[c].family /= f
    BY <1>2, StoreFamilyBegins DEF SessionsBegin
  <2>2. QED
    BY <1>2, <2>1, StoreFamilyEffect
<1>3. ASSUME NEW c \in Call, Rotate(c) PROVE stored'[f] = stored[f]
  BY <1>3, RotateEffect
<1>4. ASSUME NEW c \in Call, EndFamily(c) \/ SweepFamily(c) PROVE stored'[f] = stored[f]
  BY <1>4 DEF EndFamily, SweepFamily, DeleteFamily, Inv, TypeOK, StoreTypeOK, Held
<1>5. CASE Tick
  BY <1>5, TickEffect DEF Held
<1>6. QED
  BY <1>1, <1>2, <1>3, <1>4, <1>5, StoredChanges

LEMMA LoginFirstNext ==
    ASSUME Inv, SessionsBegin, LoginFirst, [Next]_vars
    PROVE  LoginFirst'
<1>1. ASSUME NEW c \in Call, call'[c].op = "refresh" PROVE given'[call'[c].family] /= {}
  <2>1. PICK f \in Family : f = call'[c].family
    BY <1>1, NextInv DEF Inv, CallShape
  <2>2. given[f] /= {}
    <3>1. CASE call'[c] = call[c]
      BY <1>1, <2>1, <3>1 DEF LoginFirst
    <3>2. CASE CallStep(c) /\ call'[c].op = call[c].op /\ call'[c].family = call[c].family
      BY <1>1, <2>1, <3>2 DEF LoginFirst
    <3>3. ASSUME NEW g \in Family, NEW t \in Token, Refresh(c, g, t), call'[c].family = g
          PROVE  given[f] /= {}
      BY <2>1, <3>3 DEF Refresh, MayPresent
    <3>4. QED
      BY <1>1, <3>1, <3>2, <3>3, Carries
  <2>3. QED
    BY <2>1, <2>2, GivenStays
<1>2. ASSUME NEW c \in Call, call'[c].op = "login"
      PROVE  /\ given'[call'[c].family] = {}
             /\ stored'[call'[c].family] /= Missing => stored'[call'[c].family].current = 1
  <2>1. PICK f \in Family : f = call'[c].family
    BY <1>2, NextInv DEF Inv, CallShape
  <2>2. CASE \E u \in User, g \in Family : Login(c, u, g) /\ call'[c].family = g
    <3>1. generated[f] = 0 /\ given' = given /\ stored' = stored
      BY <2>1, <2>2 DEF Login, clientVars, storeVars
    <3>2. f \notin Begun
      BY <3>1 DEF Begun, NotStored
    <3>3. given[f] = {} /\ ~Held(f)
      BY <3>2 DEF SessionsBegin
    <3>4. QED
      BY <2>1, <3>1, <3>3 DEF Held
  <2>3. CASE \/ call'[c] = call[c]
             \/ /\ CallStep(c) /\ ~Respond(c) /\ call'[c].op = call[c].op
                /\ call'[c].family = call[c].family
    <3>1. call[c].op = "login" /\ call[c].family = f
      BY <1>2, <2>1, <2>3
    <3>2. given[f] = {} /\ (Held(f) => stored[f].current = 1)
      BY <3>1 DEF LoginFirst
    <3>3. ASSUME NEW d \in Call, Respond(d), call[d].family = f, call[d].op \in {"login", "refresh"}
          PROVE  FALSE
      <4>1. call[d].op = "login"
        BY <3>2, <3>3 DEF LoginFirst
      <4>2. d = c
        BY <3>1, <3>3, <4>1 DEF Inv, OneLogin
      <4>3. call'[c].op = "none"
        BY <3>3, <4>2 DEF Respond, NoCall, Inv, TypeOK
      <4>4. QED
        BY <1>2, <4>3
    <3>4. given'[f] = {}
      BY <3>2, <3>3, GivenChanges
    <3>5. ASSUME Held(f)' PROVE stored'[f].current = 1
      <4>1. CASE Held(f)
        <5>1. \A d \in Call : Rotate(d) => call[d].family /= f
          BY <3>2 DEF Rotate, Inv, CallShape, LoginFirst
        <5>2. QED
          BY <3>2, <3>5, <4>1, <5>1, CurrentStays
      <4>2. CASE ~Held(f)
        <5>1. PICK d \in Call : StoreFamily(d) /\ call[d].family = f
          BY <3>5, <4>2, HeldOnce
        <5>2. QED
          BY <3>5, <4>2, <5>1, StoreFamilyEffect DEF Held
      <4>3. QED
        BY <4>1, <4>2
    <3>6. QED
      BY <2>1, <3>4, <3>5 DEF Held
  <2>4. QED
    BY <1>2, <2>2, <2>3, Carries
<1>3. QED
  BY <1>1, <1>2 DEF LoginFirst, Held

LEMMA OneRefreshNext ==
    ASSUME Inv, OneRefresh, [Next]_vars
    PROVE  OneRefresh'
<1>. SUFFICES ASSUME NEW f \in Family \cap Careful, NEW c \in Call, NEW d \in Call,
                     Refreshing(c, f)', Refreshing(d, f)'
     PROVE  c = d
  BY DEF OneRefresh
<1>1. ASSUME NEW e \in Call, Refreshing(e, f)'
      PROVE  Refreshing(e, f) \/ \E t \in Token : Refresh(e, f, t)
  BY <1>1, Carries DEF Refreshing
<1>2. ASSUME NEW e \in Call, NEW t \in Token, Refresh(e, f, t)
      PROVE  \A i \in Call : Refreshing(i, f)' => i = e
  <2>1. \A i \in Call : ~Refreshing(i, f)
    BY <1>2 DEF Refresh, MayPresent, Refreshing
  <2>2. ASSUME NEW i \in Call, i /= e PROVE call'[i] = call[i]
    BY <1>2, <2>2 DEF Refresh, Starts, Inv, TypeOK
  <2>3. QED
    BY <2>1, <2>2 DEF Refreshing
<1>3. QED
  BY <1>1, <1>2 DEF OneRefresh

\* A client that presents the current token is not told that it was replaced.
LEMMA CurrentAccepted ==
    ASSUME Inv, NEW f \in Family, NEW t, Held(f) => stored[f].current = t
    PROVE  Verdict(f, t) \in IF Held(f) THEN {"expired", "current"} ELSE {"invalid"}
<1>1. CASE Held(f)
  <2>1. stored[f].expiresIn = 0 \/ stored[f].expiresIn > 0
    BY <1>1 DEF Held, Inv, TypeOK, StoreTypeOK, Data
  <2>2. CASE ~(stored[f].expiresIn > 0)
    BY <1>1, <2>2 DEF Verdict
  <2>3. CASE stored[f].expiresIn > 0
    BY <1>1, <2>3 DEF Verdict
  <2>4. QED
    BY <2>1, <2>2, <2>3
<1>2. CASE ~Held(f)
  BY <1>2 DEF Verdict
<1>3. QED
  BY <1>1, <1>2

LEMMA NeverReusedNext ==
    ASSUME NoFailures, Inv, CarefulInv, [Next]_vars
    PROVE  NeverReused'
<1>. SUFFICES ASSUME NEW f \in Family \cap Careful, NEW c \in Call, Refreshing(c, f)'
     PROVE  call'[c].code /= "reused"
  BY DEF NeverReused
<1>1. CASE call'[c] = call[c]
  BY <1>1 DEF CarefulInv, NeverReused, Refreshing
<1>2. CASE CallStep(c) /\ ~Respond(c) /\ call[c].op = "refresh" /\ call[c].family = f
  <2>1. call[c].code /= "reused"
    BY <1>2 DEF CarefulInv, NeverReused, Refreshing
  <2>2. CASE Rotate(c)
    BY <1>2, <2>2, RotationAnswers
  <2>3. CASE ~Rotate(c) /\ call[c].pc = "get"
    <3>1. Held(f) => stored[f].current = call[c].token
      BY <1>2, <2>3 DEF CarefulInv, InStep, Refreshing
    <3>2. Verdict(f, call[c].token) /= "reused"
      BY <3>1, CurrentAccepted
    <3>3. QED
      BY <1>2, <2>1, <2>3, <3>2, RefreshMoves
  <2>4. CASE ~Rotate(c) /\ call[c].pc /= "get"
    BY <1>2, <2>1, <2>4, RefreshMoves
  <2>5. QED
    BY <2>2, <2>3, <2>4
<1>3. QED
  BY <1>1, <1>2, Carries DEF Refreshing

\* A session that begins has no client yet.
LEMMA InStepBegins ==
    ASSUME Inv, SessionsBegin, [Next]_vars, NEW f \in Family, ~Held(f), Held(f)'
    PROVE  given'[f] = {} /\ \A c \in Call : ~Refreshing(c, f)'
<1>1. PICK d \in Call : StoreFamily(d) /\ call[d].family = f
  BY HeldOnce
<1>2. f \notin Begun
  BY <1>1, StoreFamilyBegins
<1>3. given[f] = {} /\ given' = given
  BY <1>1, <1>2 DEF SessionsBegin, StoreFamily, clientVars
<1>4. \A c \in Call : ~Refreshing(c, f)
  BY <1>2 DEF SessionsBegin, Refreshing
<1>5. ASSUME NEW c \in Call, Refreshing(c, f)' PROVE FALSE
  <2>1. \E t \in Token : Refresh(c, f, t)
    BY <1>4, <1>5, Carries DEF Refreshing
  <2>2. QED
    BY <1>3, <2>1 DEF Refresh, MayPresent
<1>6. QED
  BY <1>3, <1>5

\* The rotation of a careful client's session, whose refresh is the only one.
LEMMA InStepRotates ==
    ASSUME NoFailures, Inv, TokensInOrder, CarefulInv, [Next]_vars,
           NEW f \in Family \cap Careful, Held(f), NEW c \in Call, Rotate(c), call[c].family = f
    PROVE  InStep(f)'
<1>1. call[c].op = "refresh" /\ generated[f] \in Nat
  BY RotateEffect DEF Inv, TypeOK
<1>2. /\ Refreshing(c, f)' /\ call'[c].pc = "reply" /\ call'[c].code = "ok"
      /\ call'[c].fresh = generated[f] + 1 /\ stored'[f].current = generated[f] + 1
  BY <1>1, RotationAnswers DEF Refreshing
<1>3. \A t \in given[f] : t \in Nat /\ t <= stored[f].current
  BY DEF CarefulInv, InStep, Inv, TypeOK, Token
<1>4. stored[f].current \in Nat /\ stored[f].current <= generated[f]
  BY DEF TokensInOrder, Held, Inv, TypeOK, StoreTypeOK, Data, Token
<1>5. \A t \in given'[f] : t <= stored'[f].current
  <2>1. given' = given
    BY DEF Rotate
  <2>2. QED
    BY <1>1, <1>2, <1>3, <1>4, <2>1
<1>6. \A d \in Call : Refreshing(d, f)' => d = c
  BY <1>2, OneRefreshNext DEF CarefulInv, OneRefresh
<1>7. QED
  BY <1>2, <1>5, <1>6 DEF InStep

\* The answer with its new token reaches the client.
LEMMA InStepAnswered ==
    ASSUME NothingLost, Inv, CarefulInv, [Next]_vars, NEW f \in Family \cap Careful, Held(f),
           stored'[f].current = stored[f].current, NEW c \in Call, Respond(c), call[c].family = f,
           call[c].op \in {"login", "refresh"}, call[c].code = "ok"
    PROVE  InStep(f)'
<1>1. call'[c] = NoCall /\ \A d \in Call : d /= c => call'[d] = call[d]
  BY DEF Respond, Inv, TypeOK
<1>2. \A d \in Call : ~Refreshing(d, f)'
  <2>1. CASE call[c].op = "refresh"
    BY <1>1, <2>1 DEF CarefulInv, OneRefresh, Refreshing, NoCall
  <2>2. CASE call[c].op = "login"
    BY <1>1, <2>2 DEF CarefulInv, LoginFirst, Refreshing, NoCall
  <2>3. QED
    BY <2>1, <2>2
<1>3. call[c].fresh = stored[f].current
  <2>1. CASE call[c].op = "refresh"
    BY <2>1 DEF CarefulInv, InStep, Refreshing
  <2>2. CASE call[c].op = "login"
    BY <2>2 DEF CarefulInv, LoginFirst, Inv, CallShape
  <2>3. QED
    BY <2>1, <2>2
<1>4. stored[f].current \in given'[f]
  BY <1>3, Received
<1>5. \A t \in given'[f] : t <= stored[f].current
  <2>1. given'[f] \subseteq given[f] \cup {call[c].fresh}
    BY DEF Respond, Inv, TypeOK
  <2>2. stored[f].current \in Nat
    BY DEF Held, Inv, TypeOK, StoreTypeOK, Data, Token
  <2>3. QED
    BY <1>3, <2>1, <2>2 DEF CarefulInv, InStep
<1>6. QED
  BY <1>2, <1>4, <1>5 DEF InStep

\* Whatever else happens, every refresh of the session stays in step.
LEMMA InStepWaits ==
    ASSUME NoFailures, Inv, CarefulInv, [Next]_vars, NEW f \in Family \cap Careful, Held(f),
           stored'[f].current = stored[f].current, given'[f] = given[f],
           \A c \in Call : Rotate(c) => call[c].family /= f,
           \A c \in Call : Respond(c) /\ Refreshing(c, f) => call[c].code /= "ok"
    PROVE  InStep(f)'
<1>1. ASSUME NEW c \in Call, Refreshing(c, f)'
      PROVE  /\ call'[c].pc \in {"get", "rotate"} => call'[c].token = stored[f].current
             /\ call'[c].code = "ok" => call'[c].fresh = stored[f].current
             /\ call'[c].code \notin {"invalid", "error"}
  <2>1. CASE call'[c] = call[c]
    BY <1>1, <2>1 DEF CarefulInv, InStep, Refreshing
  <2>2. CASE CallStep(c) /\ ~Respond(c) /\ call[c].op = "refresh" /\ call[c].family = f
    <3>1. Refreshing(c, f) /\ ~Rotate(c)
      BY <2>2 DEF Refreshing
    <3>2. /\ call[c].pc \in {"get", "rotate"} => call[c].token = stored[f].current
          /\ call[c].code = "ok" => call[c].fresh = stored[f].current
          /\ call[c].code \notin {"invalid", "error"}
      BY <3>1 DEF CarefulInv, InStep
    <3>3. Verdict(f, call[c].token) \in {"expired", "current"} \/ call[c].pc /= "get"
      BY <3>2, CurrentAccepted
    <3>4. call[c].pc = "get" => call[c].code = "none"
      BY DEF Inv, CallShape
    <3>5. call'[c].token = call[c].token /\ call'[c].fresh = call[c].fresh
      BY <2>2, <3>1, RefreshMoves
    <3>6. CASE call'[c].code = call[c].code /\ call'[c].pc \in {"srem", "del", "reply"}
      BY <3>2, <3>5, <3>6
    <3>7. CASE /\ call[c].pc = "get"
               /\ \/ call'[c].code = call[c].code /\ call'[c].pc = "rotate"
                  \/ call'[c].code = "expired" /\ call'[c].pc \in {"reply", "lookup"}
      BY <3>2, <3>4, <3>5, <3>7
    <3>8. QED
      BY <2>2, <3>1, <3>3, <3>6, <3>7, RefreshMoves
  <2>3. ASSUME NEW t \in Token, Refresh(c, f, t), call'[c].token = t, call'[c].code = "none"
        PROVE  call'[c].token = stored[f].current
    <3>1. t \in given[f] /\ \A s \in given[f] : s <= t
      BY <2>3 DEF Refresh, MayPresent
    <3>2. \A d \in Call : ~Refreshing(d, f)
      BY <2>3 DEF Refresh, MayPresent, Refreshing
    <3>3. stored[f].current \in given[f] /\ t <= stored[f].current
      BY <3>1, <3>2 DEF CarefulInv, InStep
    <3>4. t \in Nat /\ stored[f].current \in Nat
      BY <3>1, <3>3 DEF Inv, TypeOK, Token
    <3>5. QED
      BY <2>3, <3>1, <3>3, <3>4
  <2>4. QED
    BY <1>1, <2>1, <2>2, <2>3, Carries DEF Refreshing
<1>2. ASSUME given[f] /= {}, stored[f].current \notin given[f]
      PROVE  \E c \in Call : Refreshing(c, f)' /\ call'[c].code = "ok"
  <2>1. PICK c \in Call : Refreshing(c, f) /\ call[c].code = "ok"
    BY <1>2 DEF CarefulInv, InStep
  <2>2. CASE call'[c] = call[c]
    BY <2>1, <2>2 DEF Refreshing
  <2>3. CASE CallStep(c)
    <3>1. ~Respond(c) /\ ~Rotate(c)
      BY <2>1 DEF Refreshing
    <3>2. call[c].pc /= "get"
      BY <2>1 DEF Inv, CallShape
    <3>3. QED
      BY <2>1, <2>3, <3>1, <3>2, RefreshMoves DEF Refreshing
  <2>4. call[c] /= NoCall
    BY <2>1 DEF NoCall, Refreshing
  <2>5. QED
    BY <2>2, <2>3, <2>4, CallWaits
<1>3. \A t \in given[f] : t <= stored[f].current
  BY DEF CarefulInv, InStep
<1>4. QED
  BY <1>1, <1>2, <1>3 DEF InStep

LEMMA InStepNext ==
    ASSUME NothingLost, Inv, SessionsBegin, TokensInOrder, CarefulInv, [Next]_vars,
           NEW f \in Family \cap Careful
    PROVE  InStep(f)'
<1>. SUFFICES ASSUME Held(f)' PROVE InStep(f)'
  BY DEF InStep
<1>0. NoFailures
  BY DEF NothingLost
<1>1. CASE ~Held(f)
  BY <1>1, InStepBegins DEF InStep
<1>2. CASE Held(f) /\ \E c \in Call : Rotate(c) /\ call[c].family = f
  BY <1>0, <1>2, InStepRotates
<1>3. CASE Held(f) /\ \A c \in Call : Rotate(c) => call[c].family /= f
  <2>1. stored'[f].current = stored[f].current
    BY <1>3, CurrentStays
  <2>2. CASE \E c \in Call : /\ Respond(c) /\ call[c].family = f /\ call[c].code = "ok"
                             /\ call[c].op \in {"login", "refresh"}
    BY <1>3, <2>1, <2>2, InStepAnswered
  <2>3. CASE \A c \in Call : Respond(c) /\ call[c].family = f /\ call[c].code = "ok"
                                => call[c].op \notin {"login", "refresh"}
    <3>1. given'[f] = given[f]
      BY <2>3, GivenChanges
    <3>2. \A c \in Call : Respond(c) /\ Refreshing(c, f) => call[c].code /= "ok"
      BY <2>3 DEF Refreshing
    <3>3. QED
      BY <1>0, <1>3, <2>1, <3>1, <3>2, InStepWaits
  <2>4. QED
    BY <2>2, <2>3
<1>4. QED
  BY <1>1, <1>2, <1>3

\* If nothing fails and no answer is lost, rotation does not end the session of
\* a client that uses each token once, one after the other: such a client is
\* never told that its token was replaced, and is refused only once the session
\* is over, whatever logins, logouts and other clients do meanwhile.
THEOREM CarefulClientsServed ==
    Spec => []CarefulClientsStay
<1>. DEFINE SInv == Inv /\ SessionsBegin /\ TokensInOrder /\ (NothingLost => CarefulInv)
<1>1. Init => SInv
  <2>. SUFFICES ASSUME Init PROVE CarefulInv
    BY InitInv, SessionsBeginInit, TokensInit
  <2>1. \A c \in Call : call[c].op = "none"
    BY DEF Init, NoCall
  <2>2. \A f \in Family : ~Held(f)
    BY DEF Init, StoreInit, Held
  <2>3. QED
    BY <2>1, <2>2
    DEF CarefulInv, LoginFirst, OneRefresh, NeverReused, InStep, Refreshing
<1>2. SInv /\ [Next]_vars => SInv'
  <2>. SUFFICES ASSUME SInv, [Next]_vars PROVE SInv'
    OBVIOUS
  <2>1. Inv' /\ SessionsBegin' /\ TokensInOrder'
    BY NextInv, SessionsBeginNext, TokensNext
  <2>2. ASSUME NothingLost PROVE LoginFirst' /\ OneRefresh' /\ NeverReused'
    BY <2>2, LoginFirstNext, OneRefreshNext, NeverReusedNext DEF CarefulInv, NothingLost
  <2>3. ASSUME NothingLost PROVE \A f \in Family \cap Careful : InStep(f)'
    BY <2>3, InStepNext
  <2>4. QED
    BY <2>1, <2>2, <2>3, ScenarioStays DEF CarefulInv
<1>3. SInv => CarefulClientsStay
  <2>. SUFFICES ASSUME SInv, NothingLost, NEW c \in Call, call[c].op = "refresh",
                       call[c].family \in Careful
       PROVE  /\ call[c].code /= "reused"
              /\ call[c].code \in {"invalid", "error"} => ~Held(call[c].family)
    BY DEF CarefulClientsStay
  <2>1. PICK f \in Family \cap Careful : f = call[c].family
    BY DEF Inv, CallShape
  <2>2. Refreshing(c, f)
    BY <2>1 DEF Refreshing
  <2>3. QED
    BY <2>1, <2>2 DEF CarefulInv, NeverReused, InStep
<1>. HIDE DEF SInv
<1>4. QED
  BY <1>1, <1>2, <1>3, PTL DEF Spec
===============================================================================
