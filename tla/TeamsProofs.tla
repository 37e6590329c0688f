-------------------------------- MODULE TeamsProofs --------------------------------
(***************************************************************************)
(* Theorems about Teams, for any users, slugs, invitations, bounds, seats  *)
(* and scenarios.                                                          *)
(***************************************************************************)
EXTENDS Teams, FiniteSetTheorems, SequenceTheorems, TLAPS

\* The pairs of commands an operation sends one after the other; "end" is the
\* answer.
Order ==
    [create_team |-> {<<"count_owned", "find_slug">>, <<"find_slug", "insert_team">>,
                      <<"insert_team", "insert_owner">>, <<"insert_owner", "end">>,
                      <<"undo_team", "end">>},
     update_team |-> {<<"authorize", "find_team">>, <<"find_team", "find_slug">>,
                      <<"find_team", "update_team">>, <<"find_slug", "update_team">>,
                      <<"update_team", "end">>},
     delete_team |-> {<<"authorize", "delete_memos">>, <<"delete_memos", "delete_members">>,
                      <<"delete_members", "delete_invitations">>,
                      <<"delete_invitations", "delete_team">>, <<"delete_team", "end">>},
     transfer |-> {<<"authorize", "find_target">>, <<"find_target", "find_team">>,
                   <<"find_team", "promote">>, <<"promote", "demote">>,
                   <<"demote", "hand_over">>, <<"hand_over", "end">>,
                   <<"undo_demote", "undo_promote">>, <<"undo_promote", "end">>},
     get_team |-> {<<"authorize", "find_team">>, <<"find_team", "end">>},
     list_teams |-> {<<"count", "find">>, <<"find", "end">>},
     list_members |-> {<<"authorize", "find">>, <<"find", "end">>},
     remove_member |-> {<<"authorize", "find_target">>, <<"find_target", "find_requester">>,
                        <<"find_requester", "delete_member">>, <<"delete_member", "end">>},
     update_role |-> {<<"authorize", "find_target">>, <<"find_target", "find_requester">>,
                      <<"find_requester", "set_role">>, <<"set_role", "end">>},
     leave |-> {<<"authorize", "find_target">>, <<"find_target", "delete_member">>,
                <<"delete_member", "end">>},
     invite |-> {<<"authorize", "find_team">>, <<"find_team", "find_invitee">>,
                 <<"find_invitee", "find_member">>, <<"find_member", "find_pending">>,
                 <<"find_pending", "count_members">>, <<"count_members", "count_pending">>,
                 <<"count_pending", "insert_invitation">>, <<"insert_invitation", "end">>},
     list_invitations |-> {<<"authorize", "find">>, <<"find", "end">>},
     cancel |-> {<<"authorize", "find_invitation">>,
                 <<"find_invitation", "delete_invitation">>, <<"delete_invitation", "end">>},
     my_invitations |-> {<<"find_user", "find">>, <<"find", "end">>},
     accept |-> {<<"find_user", "find_invitation">>, <<"find_invitation", "find_team">>,
                 <<"find_team", "count_members">>, <<"count_members", "insert_member">>, <<"insert_member", "drop_invitation">>,
                 <<"drop_invitation", "end">>},
     decline |-> {<<"find_user", "find_invitation">>,
                  <<"find_invitation", "delete_invitation">>, <<"delete_invitation", "end">>},
     create_own_memo |-> {<<"insert_memo", "end">>},
     create_memo |-> {<<"authorize", "insert_memo">>, <<"insert_memo", "end">>},
     list_own_memos |-> {<<"count", "find">>, <<"find", "end">>},
     list_memos |-> {<<"authorize", "count">>, <<"count", "find">>, <<"find", "end">>},
     get_memo |-> {<<"authorize", "find_memo">>, <<"find_memo", "end">>},
     delete_own_memo |-> {<<"delete_memo", "end">>, <<"find_deleted_memo", "end">>},
     delete_memo |-> {<<"authorize", "delete_memo">>, <<"delete_memo", "end">>,
                      <<"find_deleted_memo", "end">>}]

\* s is a sequence of commands op may still send.
Path(op, s) ==
    /\ s \in Seq(Commands)
    /\ \A n \in 1 .. Len(s) :
         <<s[n], IF n = Len(s) THEN "end" ELSE s[n + 1]>> \in Order[op]

Due(k) == IF k.todo = <<>> THEN "end" ELSE Head(k.todo)

\* What a request holds by the time a command is due.
Knows(k) ==
    /\ k.user \in Users
    /\ k.op \in DOMAIN Routes => k.team \in Created
    /\ k.op \notin DOMAIN Routes \cup {"create_team", "accept"} => k.team = NoTeam
    /\ k.op \in {"transfer", "remove_member", "update_role", "leave"} => k.target \in User
    /\ k.op \in {"update_role", "invite"} => k.role \in Given
    /\ k.op = "invite" => k.address \in Address
    /\ Due(k) = "find_member" => k.target \in User
    /\ k.op \in {"my_invitations", "accept", "decline"} /\ Due(k) \notin {"find_user", "end"} =>
         \E email \in Email : <<k.user, email>> \in held /\ ToLower(email) = k.address
    /\ k.op = "transfer" => k.owner = k.target
    /\ k.op = "leave" => k.target = k.user
    /\ k.op \in {"cancel", "accept", "decline"} => k.invitation \in Invitation
    /\ k.op \in {"get_memo", "delete_memo", "delete_own_memo"} => k.memo \in Memo
    /\ k.op \in {"list_teams", "list_memos", "list_own_memos"} =>
         k.page \in Nat \ {0} /\ k.limit \in Nat \ {0}
    /\ k.op = "create_team" =>
         /\ k.slug \in Slug
         /\ Due(k) \in {"count_owned", "find_slug", "insert_team"} => k.team = NoTeam
         /\ Due(k) \in {"insert_owner", "undo_team"} => k.team \in Created
    /\ k.op = "update_team" /\ Due(k) \in {"find_slug", "update_team"} =>
         k.owner \in User /\ k.slug \in Slug
    /\ k.op = "transfer" /\ Due(k) \in {"promote", "demote", "hand_over"} => k.slug \in Slug
    /\ k.op = "accept" /\ Due(k) \notin {"find_user", "find_invitation", "end"} =>
         /\ k.team \in Created /\ k.role \in Given
         /\ <<k.team, k.address>> \in invited

Sound(k) == Path(k.op, k.todo) /\ Knows(k)

\* Creations that have yet to insert their team count against the bound.
Founds(k) == k.op = "create_team" /\ Due(k) \in {"count_owned", "find_slug", "insert_team"}

Founders == {c \in Call : Founds(call[c])}

TeamsLeft == Cardinality(Created) + Cardinality(Founders) <= scenario.teams

Bookkeeping ==
    /\ \E n \in 0 .. MaxTeams : Created = 1 .. n
    /\ \A s, t \in Created : teams[s].slug = teams[t].slug => s = t
    /\ \A t \in Team \ Created : Members(t) = {}
    /\ \A t \in Team : Members(t) \subseteq Users
    /\ \A u \in User : emails[u] /= NoEmail => <<u, emails[u]>> \in held
    /\ \A u, v \in User : emails[u] = emails[v] => u = v \/ emails[u] = NoEmail
    /\ \A i \in Invitation : Invited(i) =>
         /\ invitations[i].team \in Created
         /\ <<invitations[i].team, invitations[i].address>> \in invited
    /\ \A m \in Memo : memos[m].team \in Created \cup {NoTeam}

Basics ==
    /\ TypeOK
    /\ \A c \in Call : ~Idle(c) => Sound(call[c])
    /\ TeamsLeft
    /\ Bookkeeping
    /\ MembersWereInvited

-------------------------------------------------------------------------------
MemosGone(t) == \A m \in Memo : LiveMemo(m) => memos[m].team /= t
InvitationsGone(t) == \A i \in Invitation : invitations[i].team /= t

Emptied(t) == Members(t) = {} /\ InvitationsGone(t) /\ MemosGone(t)

\* A request alone.
Alive(k) ==
    /\ k.op \in DOMAIN Routes /\ Due(k) \notin {"authorize", "end"} => LiveTeam(k.team)
    /\ k.op = "accept" /\ Due(k) \notin {"find_user", "find_invitation", "end"} => LiveTeam(k.team)
    /\ Due(k) \in {"insert_owner", "undo_team"} => LiveTeam(k.team) /\ Emptied(k.team)
    /\ Due(k) \in {"delete_members", "delete_invitations", "delete_team"} => MemosGone(k.team)
    /\ Due(k) \in {"delete_invitations", "delete_team"} => Members(k.team) = {}
    /\ Due(k) = "delete_team" => InvitationsGone(k.team)
    /\ k.op \in DOMAIN Routes /\ Due(k) \in {"delete_memo", "delete_memos"} =>
         roles[k.team][k.user] \in rolePermissions[Routes[k.op]]

OneAtATime ==
    ~scenario.overlap => \A c, d \in Call : ~Idle(c) /\ ~Idle(d) => c = d

Ends ==
    ~scenario.overlap =>
        /\ \A t \in Team : teams[t].state = "deleted" => Emptied(t)
        /\ \A c \in Call : ~Idle(c) => Alive(call[c])

-------------------------------------------------------------------------------
Owners(t) == {u \in User : roles[t][u] = "owner"}

Unsettled ==
    {"insert_owner", "undo_team", "demote", "hand_over", "undo_demote", "undo_promote",
     "delete_invitations", "delete_team"}

Transferring(k) ==
    /\ k.user /= k.target /\ k.role \in Given
    /\ teams[k.team].owner = k.user
    /\ Due(k) \in {"promote", "demote", "hand_over"} => k.slug = teams[k.team].slug

\* How far a request has come, and who owns its team by then.
Stage(k) ==
    /\ Due(k) \in {"insert_owner", "undo_team"} => teams[k.team].owner = k.user
    /\ Due(k) \in {"undo_team", "undo_demote", "undo_promote"} => k.refused
    /\ k.op = "transfer" /\ Due(k) \in {"find_target", "find_team", "promote"} =>
         roles[k.team][k.user] = "owner"
    /\ k.op = "transfer" /\ Due(k) = "find_team" =>
         k.role \in Given /\ IsMember(k.team, k.target)
    /\ Due(k) \in {"promote", "demote", "hand_over", "undo_demote", "undo_promote"} =>
         Transferring(k)
    /\ Due(k) = "promote" => IsMember(k.team, k.target)
    /\ Due(k) \in {"demote", "undo_promote"} => Owners(k.team) = {k.user, k.target}
    /\ Due(k) \in {"hand_over", "undo_demote"} =>
         Owners(k.team) = {k.target} /\ IsMember(k.team, k.user)
    /\ Due(k) \in {"find_requester", "set_role", "delete_member"} =>
         roles[k.team][k.target] /= "owner"
    /\ k.op = "update_team" /\ Due(k) \in {"find_slug", "update_team"} =>
         k.owner = teams[k.team].owner

Names(k) ==
    k.op = "transfer" =>
      /\ k.user /= k.target
      /\ Due(k) \in {"authorize", "find_target", "find_team"} => k.slug = NoSlug

Placed(k) == k.team \in Team \ half /\ LiveTeam(k.team) => Stage(k)

Settled(t) == Owners(t) = {teams[t].owner}

\* Every team is settled but the one k is changing.
SettledBut(k) ==
    \A t \in Team \ half : LiveTeam(t) =>
        Settled(t) \/ (k.team = t /\ Due(k) \in Unsettled)

Agreement ==
    ~scenario.overlap /\ ~MayNameSelf =>
        /\ (\A c \in Call : Idle(c)) => \A t \in Team \ half : LiveTeam(t) => Settled(t)
        /\ \A c \in Call :
             ~Idle(c) => Names(call[c]) /\ Placed(call[c]) /\ SettledBut(call[c])

-------------------------------------------------------------------------------
(* Listings.                                                               *)

\* Each member of S has a place in the order from the highest down.
LEMMA NewestFirstLists ==
    ASSUME NEW S \in SUBSET Nat, IsFiniteSet(S)
    PROVE  NewestFirst(S) \in Seq(S)
<1> DEFINE above(x) == {y \in S : y > x}
           n == Cardinality(S)
           rank == [x \in S |-> Cardinality(above(x))]
<1>1. n \in Nat
  BY FS_CardinalityType
<1>2. ASSUME NEW x \in S
      PROVE  IsFiniteSet(above(x)) /\ Cardinality(above(x)) \in 0 .. n - 1
  <2>1. above(x) \in SUBSET (S \ {x})
    OBVIOUS
  <2>2. IsFiniteSet(S \ {x}) /\ Cardinality(S \ {x}) = n - 1
    BY FS_RemoveElement
  <2>3. IsFiniteSet(above(x)) /\ Cardinality(above(x)) <= n - 1
    BY <2>1, <2>2, FS_Subset
  <2>4. Cardinality(above(x)) \in Nat
    BY <2>3, FS_CardinalityType
  <2>5. QED BY <2>3, <2>4, <1>1
<1>3. ASSUME NEW x \in S, NEW z \in S, x < z
      PROVE  Cardinality(above(x)) /= Cardinality(above(z))
  <2>1. above(z) \in SUBSET above(x) /\ z \in above(x) /\ z \notin above(z)
    <3>1. x \in Nat /\ z \in Nat /\ \A y \in S : y \in Nat
      OBVIOUS
    <3>2. \A y \in S : y > z => y > x
      BY <1>3, <3>1
    <3>3. z > x /\ ~(z > z)
      BY <1>3, <3>1
    <3>4. QED BY <3>2, <3>3
  <2>2. IsFiniteSet(above(x))
    BY <1>2
  <2>3. Cardinality(above(x)) = Cardinality(above(z)) => above(x) = above(z)
    BY <2>1, <2>2, FS_Subset
  <2>4. QED BY <2>1, <2>3
<1>4. rank \in Injection(S, 0 .. n - 1)
  <2>1. rank \in [S -> 0 .. n - 1]
    BY <1>2
  <2>2. ASSUME NEW x \in S, NEW z \in S, rank[x] = rank[z] PROVE x = z
    <3>1. Cardinality(above(x)) = Cardinality(above(z))
      BY <2>2
    <3>2. ~(x < z) /\ ~(z < x)
      BY <1>3, <3>1
    <3>3. x \in Nat /\ z \in Nat
      OBVIOUS
    <3> HIDE DEF above
    <3>4. QED BY <3>2, <3>3
  <2> HIDE DEF rank
  <2>3. IsInjective(rank)
    <3>1. DOMAIN rank = S BY <2>1
    <3>2. QED BY <3>1, <2>2 DEF IsInjective
  <2>4. QED BY <2>1, <2>3 DEF Injection
<1>5. IsFiniteSet(0 .. n - 1) /\ Cardinality(0 .. n - 1) = n
  <2> HIDE DEF n
  <2>1. n - 1 \in Int /\ 0 \in Int
    BY <1>1
  <2>2. IsFiniteSet(0 .. n - 1) /\ Cardinality(0 .. n - 1) = IF 0 > n - 1 THEN 0 ELSE n - 1 - 0 + 1
    BY <2>1, FS_Interval
  <2>3. QED BY <1>1, <2>2
<1>6. rank \in Surjection(S, 0 .. n - 1)
  <2> HIDE DEF rank
  <2>1. QED BY <1>4, <1>5, FS_Injection
<1>7. ASSUME NEW m \in 1 .. n
      PROVE  (CHOOSE x \in S : Cardinality(above(x)) = m - 1) \in S
  <2>1. \A t \in 0 .. n - 1 : \E x \in S : rank[x] = t
    BY <1>6 DEF Surjection
  <2>2. m - 1 \in 0 .. n - 1
    BY <1>1, <1>7
  <2>3. PICK x \in S : rank[x] = m - 1
    BY <2>1, <2>2
  <2>4. Cardinality(above(x)) = m - 1
    BY <2>3
  <2>5. QED BY <2>4
<1>8. NewestFirst(S) \in [1 .. n -> S]
  BY <1>7 DEF NewestFirst
<1>9. QED BY <1>1, <1>8, SeqDef

LEMMA Listed ==
    ASSUME StoreTypeOK, NEW k \in InFlight,
           k.op \in {"list_teams", "list_memos", "list_own_memos"}
    PROVE  Listing(k) \in Seq(Nat)
<1>1. ASSUME NEW S \in SUBSET Team PROVE NewestFirst(S) \in Seq(Nat)
  <2>1. IsFiniteSet(Team)
    BY FS_Interval, StoreAssumption DEF Team
  <2>2. IsFiniteSet(S)
    BY <2>1, FS_Subset
  <2>3. S \in SUBSET Nat
    BY DEF Team
  <2>4. NewestFirst(S) \in Seq(S)
    BY <2>2, <2>3, NewestFirstLists
  <2>5. QED BY <2>3, <2>4, SeqMonotonic
<1>2. ASSUME NEW S \in SUBSET Memo PROVE NewestFirst(S) \in Seq(Nat)
  <2>1. IsFiniteSet(Memo)
    BY FS_Interval, StoreAssumption DEF Memo
  <2>2. IsFiniteSet(S)
    BY <2>1, FS_Subset
  <2>3. S \in SUBSET Nat
    BY DEF Memo
  <2>4. NewestFirst(S) \in Seq(S)
    BY <2>2, <2>3, NewestFirstLists
  <2>5. QED BY <2>3, <2>4, SeqMonotonic
<1>3. CASE k.op = "list_teams"
  <2>1. {t \in Team : LiveTeam(t) /\ roles[t][k.user] /= "none"} \in SUBSET Team
    OBVIOUS
  <2>2. QED BY <2>1, <1>1, <1>3 DEF Listing, TeamsOf
<1>4. CASE k.op = "list_memos"
  <2>1. {m \in Memo : LiveMemo(m) /\ memos[m].team = k.team} \in SUBSET Memo
    OBVIOUS
  <2>2. QED BY <2>1, <1>2, <1>4 DEF Listing, MemosOfTeam
<1>5. CASE k.op = "list_own_memos"
  <2>1. {m \in Memo : LiveMemo(m) /\ memos[m].user = k.user /\ memos[m].team = NoTeam}
          \in SUBSET Memo
    OBVIOUS
  <2>2. QED BY <2>1, <1>2, <1>5 DEF Listing, PrivateMemosOf
<1>6. QED BY <1>3, <1>4, <1>5

LEMMA PageIsPart ==
    ASSUME NEW list \in Seq(Nat), NEW page \in Nat \ {0}, NEW limit \in Nat \ {0}
    PROVE  PageOf(list, page, limit) \in Seq(Nat)
<1> DEFINE skip == (page - 1) * limit
           last == IF skip + limit < Len(list) THEN skip + limit ELSE Len(list)
<1>1. skip \in Nat /\ Len(list) \in Nat
  <2>1. page - 1 \in Nat
    OBVIOUS
  <2>2. \A a, b \in Nat : a * b \in Nat
    OBVIOUS
  <2>3. QED BY <2>1, <2>2
<1>2. last \in Int /\ last <= Len(list)
  <2> HIDE DEF skip
  <2>1. QED BY <1>1
<1>3. \A i \in skip + 1 .. last : list[i] \in Nat
  <2> HIDE DEF skip, last
  <2>1. \A i \in skip + 1 .. last : i \in 1 .. Len(list)
    BY <1>1, <1>2
  <2>2. QED BY <2>1, ElementOfSeq
<1>4. SubSeq(list, skip + 1, last) \in Seq(Nat)
  <2>1. skip + 1 \in Int
    BY <1>1
  <2> HIDE DEF skip, last
  <2>2. QED BY <2>1, <1>2, <1>3, SubSeqProperties
<1>5. QED BY <1>4 DEF PageOf

-------------------------------------------------------------------------------
(* Sequences of commands.                                                  *)

\* A path less its first command, command by command.
LEMMA Shifted ==
    ASSUME NEW pairs, NEW s, NEW rest, NEW l \in Nat \ {0},
           \A n \in 1 .. l : <<s[n], IF n = l THEN "end" ELSE s[n + 1]>> \in pairs,
           \A n \in 1 .. l - 1 : rest[n] = s[n + 1]
    PROVE  \A n \in 1 .. l - 1 :
             <<rest[n], IF n = l - 1 THEN "end" ELSE rest[n + 1]>> \in pairs
<1> SUFFICES ASSUME NEW n \in 1 .. l - 1
             PROVE  <<rest[n], IF n = l - 1 THEN "end" ELSE rest[n + 1]>> \in pairs
  OBVIOUS
<1>1. n + 1 \in 1 .. l /\ rest[n] = s[n + 1]
  OBVIOUS
<1>2. CASE n = l - 1
  <2>1. n + 1 = l
    BY <1>2
  <2>2. QED BY <1>1, <1>2, <2>1
<1>3. CASE n /= l - 1
  <2>1. n + 1 \in 1 .. l - 1 /\ n + 1 /= l
    BY <1>3
  <2>2. rest[n + 1] = s[(n + 1) + 1]
    BY <2>1
  <2>3. QED BY <1>1, <1>3, <2>1, <2>2
<1>4. QED BY <1>2, <1>3

LEMMA PathAdvances ==
    ASSUME NEW op, NEW s, Path(op, s), s /= <<>>
    PROVE  /\ Head(s) \in Commands /\ Path(op, Tail(s))
           /\ <<Head(s), IF Tail(s) = <<>> THEN "end" ELSE Head(Tail(s))>> \in Order[op]
<1>1. /\ s \in Seq(Commands) /\ Len(s) \in Nat \ {0} /\ Head(s) = s[1]
      /\ \A n \in 1 .. Len(s) :
           <<s[n], IF n = Len(s) THEN "end" ELSE s[n + 1]>> \in Order[op]
  BY EmptySeq DEF Path
<1>2. /\ Head(s) \in Commands /\ Tail(s) \in Seq(Commands)
      /\ Len(Tail(s)) = Len(s) - 1
      /\ \A n \in 1 .. Len(Tail(s)) : Tail(s)[n] = s[n + 1]
  BY <1>1, HeadTailProperties
<1> DEFINE rest == Tail(s)
<1>0. Len(s) \in Nat \ {0} /\ Len(rest) = Len(s) - 1
  BY <1>1, <1>2
<1> HIDE DEF rest
<1>3. \A n \in 1 .. Len(rest) :
        <<rest[n], IF n = Len(rest) THEN "end" ELSE rest[n + 1]>> \in Order[op]
  <2>1. PICK l \in Nat \ {0} : l = Len(s)
    BY <1>0
  <2>2. Len(rest) = l - 1
    BY <1>0, <2>1
  <2>3. /\ \A n \in 1 .. l : <<s[n], IF n = l THEN "end" ELSE s[n + 1]>> \in Order[op]
        /\ \A n \in 1 .. l - 1 : rest[n] = s[n + 1]
    BY <1>1, <1>2, <2>1, <2>2 DEF rest
  <2>4. \A n \in 1 .. l - 1 :
          <<rest[n], IF n = l - 1 THEN "end" ELSE rest[n + 1]>> \in Order[op]
    BY <2>3, Shifted
  <2>5. QED BY <2>2, <2>4
<1>4. Path(op, rest)
  <2>1. rest \in Seq(Commands)
    BY <1>2 DEF rest
  <2>2. QED BY <2>1, <1>3 DEF Path
<1>5. <<s[1], IF 1 = Len(s) THEN "end" ELSE s[2]>> \in Order[op]
  <2>1. 1 \in 1 .. Len(s)
    BY <1>0
  <2>2. 1 + 1 = 2
    OBVIOUS
  <2>3. QED BY <2>1, <2>2, <1>1
<1>6. CASE rest = <<>>
  <2>1. Len(rest) = 0
    BY <1>6
  <2>2. Len(s) = 1
    BY <2>1, <1>0
  <2>3. QED BY <2>2, <1>1, <1>2, <1>4, <1>5, <1>6 DEF rest
<1>7. CASE rest /= <<>>
  <2>1. Len(rest) \in Nat \ {0} /\ Head(rest) = rest[1]
    BY <1>7, <1>2, EmptySeq DEF rest
  <2>2. 1 \in 1 .. Len(rest) /\ 1 /= Len(s) /\ 1 + 1 = 2
    BY <2>1, <1>0
  <2>3. rest[1] = s[2]
    BY <2>2, <1>2 DEF rest
  <2>4. QED BY <2>1, <2>2, <2>3, <1>1, <1>2, <1>4, <1>5, <1>7 DEF rest
<1>8. QED BY <1>6, <1>7

LEMMA PathBegins ==
    ASSUME NEW op, NEW s, Path(op, s), s /= <<>>, NEW command \in Commands,
           <<command, Head(s)>> \in Order[op]
    PROVE  /\ Path(op, <<command>> \o s) /\ <<command>> \o s /= <<>>
           /\ Head(<<command>> \o s) = command
<1> DEFINE whole == <<command>> \o s
<1>1. /\ s \in Seq(Commands) /\ Len(s) \in Nat \ {0} /\ Head(s) = s[1]
      /\ \A n \in 1 .. Len(s) :
           <<s[n], IF n = Len(s) THEN "end" ELSE s[n + 1]>> \in Order[op]
  BY EmptySeq DEF Path
<1>2. /\ whole \in Seq(Commands) /\ Len(whole) = Len(s) + 1
      /\ \A n \in 1 .. Len(s) + 1 : whole[n] = IF n = 1 THEN command ELSE s[n - 1]
  <2>1. <<command>> \in Seq(Commands) /\ Len(<<command>>) = 1 /\ <<command>>[1] = command
    OBVIOUS
  <2>2. /\ whole \in Seq(Commands) /\ Len(whole) = 1 + Len(s)
        /\ \A n \in 1 .. 1 + Len(s) :
             whole[n] = IF n <= 1 THEN <<command>>[n] ELSE s[n - 1]
    BY <2>1, <1>1, ConcatProperties
  <2> HIDE DEF whole
  <2>3. QED BY <2>1, <2>2, <1>1
<1> HIDE DEF whole
<1>3. ASSUME NEW n \in 1 .. Len(whole)
      PROVE  <<whole[n], IF n = Len(whole) THEN "end" ELSE whole[n + 1]>> \in Order[op]
  <2>1. CASE n = 1
    <3>1. whole[1] = command /\ whole[2] = s[1] /\ 1 /= Len(whole) /\ 1 + 1 = 2
      BY <1>1, <1>2
    <3>2. QED BY <3>1, <2>1, <1>1
  <2>2. CASE n /= 1
    <3>1. /\ n - 1 \in 1 .. Len(s) /\ whole[n] = s[n - 1]
          /\ n = Len(whole) <=> n - 1 = Len(s)
          /\ n /= Len(whole) => whole[n + 1] = s[(n - 1) + 1]
      BY <2>2, <1>1, <1>2
    <3>2. <<s[n - 1], IF n - 1 = Len(s) THEN "end" ELSE s[(n - 1) + 1]>> \in Order[op]
      BY <3>1, <1>1
    <3>3. QED BY <3>1, <3>2
  <2>3. QED BY <2>1, <2>2
<1>4. Path(op, whole) /\ whole /= <<>> /\ Head(whole) = command
  <2>1. Path(op, whole)
    BY <1>2, <1>3 DEF Path
  <2>2. Len(whole) /= 0 /\ whole[1] = command /\ Head(whole) = whole[1]
    BY <1>1, <1>2
  <2>3. QED BY <2>1, <2>2, EmptySeq
<1>5. QED BY <1>4 DEF whole

LEMMA PathEnds ==
    ASSUME NEW op
    PROVE  /\ Path(op, <<>>)
           /\ \A command \in Commands : <<command, "end">> \in Order[op] =>
                /\ Path(op, <<command>>) /\ <<command>> /= <<>>
                /\ Head(<<command>>) = command
<1>1. Path(op, <<>>)
  BY EmptySeq DEF Path
<1>2. ASSUME NEW command \in Commands, <<command, "end">> \in Order[op]
      PROVE  /\ Path(op, <<command>>) /\ <<command>> /= <<>>
             /\ Head(<<command>>) = command
  BY <1>2 DEF Path
<1>3. QED BY <1>1, <1>2

\* Whose command it is, and what comes after it.
LEMMA Roster ==
    ASSUME NEW op \in Operations, NEW b, NEW a, <<a, b>> \in Order[op]
    PROVE  /\ a = "authorize" => op \in DOMAIN Routes
           /\ a \in {"count_owned", "insert_team", "insert_owner", "undo_team"} =>
                op = "create_team"
           /\ a = "find_slug" => op \in {"create_team", "update_team"}
           /\ a = "find_team" => op \in {"get_team", "update_team", "transfer", "invite", "accept"}
           /\ a = "update_team" => op = "update_team"
           /\ a \in {"delete_memos", "delete_members", "delete_invitations", "delete_team"} =>
                op = "delete_team"
           /\ a = "find_target" => op \in {"transfer", "remove_member", "update_role", "leave"}
           /\ a \in {"promote", "demote", "hand_over", "undo_demote", "undo_promote"} =>
                op = "transfer"
           /\ a = "find_requester" => op \in {"remove_member", "update_role"}
           /\ a = "delete_member" => op \in {"remove_member", "leave"}
           /\ a = "set_role" => op = "update_role"
           /\ a \in {"find_invitee", "find_member", "find_pending", "count_pending",
                    "insert_invitation"} =>
                op = "invite"
           /\ a = "count_members" => op \in {"invite", "accept"}
           /\ a = "find_user" => op \in {"my_invitations", "accept", "decline"}
           /\ a = "find_invitation" => op \in {"cancel", "accept", "decline"}
           /\ a = "delete_invitation" => op \in {"cancel", "decline"}
           /\ a \in {"insert_member", "drop_invitation"} => op = "accept"
           /\ a = "insert_memo" => op \in {"create_own_memo", "create_memo"}
           /\ a = "find_memo" => op = "get_memo"
           /\ a \in {"delete_memo", "find_deleted_memo"} => op \in {"delete_memo", "delete_own_memo"}
           /\ a = "count" => op \in {"list_teams", "list_memos", "list_own_memos"}
           /\ a = "find" => op \in {"list_teams", "list_memos", "list_own_memos",
                                    "list_members", "list_invitations", "my_invitations"}
BY DEF Order, Operations, Routes

\* What may come after what.
LEMMA Successor ==
    ASSUME NEW op \in Operations, NEW b, NEW a, <<a, b>> \in Order[op]
    PROVE  /\ b = "find_slug" => a \in {"count_owned", "find_team"}
           /\ b = "insert_team" => a = "find_slug" /\ op = "create_team"
           /\ b = "insert_owner" => a = "insert_team"
           /\ b = "update_team" => a \in {"find_team", "find_slug"}
           /\ b = "delete_memos" => a = "authorize"
           /\ b = "find_invitation" => a \in {"authorize", "find_user"}
           /\ b = "delete_memo" => a = "authorize"
           /\ b = "find_member" => a = "find_invitee"
           /\ a = "find_user" => b \in {"find", "find_invitation"}
           /\ a = "find_invitee" => b = "find_member"
           /\ a = "find_member" => b = "find_pending"
           /\ b = "delete_members" => a = "delete_memos"
           /\ b = "delete_invitations" => a = "delete_members"
           /\ b = "delete_team" => a = "delete_invitations"
           /\ b = "find_target" => a = "authorize"
           /\ b = "find_team" /\ op = "transfer" => a = "find_target"
           /\ b = "find_team" /\ op = "accept" => a = "find_invitation"
           /\ b = "promote" => a = "find_team"
           /\ b = "demote" => a = "promote"
           /\ b = "hand_over" => a = "demote"
           /\ b = "undo_promote" => a = "undo_demote"
           /\ b \notin {"undo_team", "undo_demote", "authorize", "count_owned", "find_user",
                        "find_deleted_memo"}
           /\ b \in {"find_requester", "set_role", "delete_member"} =>
                a \in {"find_target", "find_requester"}
           /\ a = "insert_team" => b = "insert_owner"
           /\ a = "promote" => b = "demote"
           /\ a = "demote" => b = "hand_over"
           /\ a = "undo_demote" => b = "undo_promote"
           /\ a \in {"insert_owner", "undo_team", "hand_over", "undo_promote", "delete_team",
                     "update_team", "set_role", "delete_member"} => b = "end"
           /\ a = "delete_members" => b = "delete_invitations"
           /\ a = "delete_invitations" => b = "delete_team"
           /\ a = "count_owned" => b = "find_slug"
           /\ a = "find_target" /\ op \in {"remove_member", "update_role"} =>
                b = "find_requester"
           /\ a = "find_requester" => b \in {"delete_member", "set_role"}
           /\ a = "find_target" /\ op = "leave" => b = "delete_member"
           /\ a = "find_target" /\ op = "transfer" => b = "find_team"
           /\ a = "find_team" /\ op = "transfer" => b = "promote"
           /\ a = "find_team" /\ op = "update_team" => b \in {"find_slug", "update_team"}
           /\ a = "find_invitation" => b \in {"find_team", "delete_invitation"}
           /\ a = "find_slug" /\ op = "create_team" => b = "insert_team"
BY DEF Order, Operations, Routes

\* s is a path of op that starts with the command.
Begins(op, s, command) == Path(op, s) /\ s /= <<>> /\ Head(s) = command

\* The sequences requests start with.
LEMMA Beginnings ==
    /\ Begins("create_team", CreateTeamCommands, "count_owned")
    /\ Begins("list_teams", <<"count", "find">>, "count")
    /\ Begins("my_invitations", <<"find_user", "find">>, "find_user")
    /\ Begins("accept", AcceptCommands, "find_user")
    /\ Begins("decline", <<"find_user", "find_invitation", "delete_invitation">>, "find_user")
    /\ Begins("delete_own_memo", <<"delete_memo">>, "delete_memo")
    /\ Begins("create_own_memo", <<"insert_memo">>, "insert_memo")
    /\ Begins("list_own_memos", <<"count", "find">>, "count")
    /\ Begins("delete_team", <<"authorize">> \o DeleteTeamCommands, "authorize")
    /\ Begins("transfer", <<"authorize">> \o TransferCommands, "authorize")
    /\ Begins("get_team", <<"authorize">> \o <<"find_team">>, "authorize")
    /\ Begins("list_members", <<"authorize">> \o <<"find">>, "authorize")
    /\ Begins("remove_member", <<"authorize">> \o <<"find_target", "find_requester", "delete_member">>, "authorize")
    /\ Begins("update_role", <<"authorize">> \o <<"find_target", "find_requester", "set_role">>, "authorize")
    /\ Begins("leave", <<"authorize">> \o <<"find_target", "delete_member">>, "authorize")
    /\ Begins("invite", <<"authorize">> \o InviteCommands, "authorize")
    /\ Begins("list_invitations", <<"authorize">> \o <<"find">>, "authorize")
    /\ Begins("cancel", <<"authorize">> \o <<"find_invitation", "delete_invitation">>, "authorize")
    /\ Begins("create_memo", <<"authorize">> \o <<"insert_memo">>, "authorize")
    /\ Begins("list_memos", <<"authorize">> \o <<"count", "find">>, "authorize")
    /\ Begins("get_memo", <<"authorize">> \o <<"find_memo">>, "authorize")
    /\ Begins("delete_memo", <<"authorize">> \o <<"delete_memo">>, "authorize")
    /\ \A slug \in Slug \cup {NoSlug} :
         Begins("update_team", <<"authorize">> \o UpdateTeamCommands(slug), "authorize")
<1>1. Begins("create_team", CreateTeamCommands, "count_owned")
  BY DEF Begins, Path, Order, Commands, CreateTeamCommands
<1>2. Begins("list_teams", <<"count", "find">>, "count")
  BY DEF Begins, Path, Order, Commands
<1>3. Begins("my_invitations", <<"find_user", "find">>, "find_user")
  BY DEF Begins, Path, Order, Commands
<1>4. Begins("accept", AcceptCommands, "find_user")
  BY DEF Begins, Path, Order, Commands, AcceptCommands
<1>5. /\ Begins("decline", <<"find_user", "find_invitation", "delete_invitation">>, "find_user")
      /\ Begins("delete_own_memo", <<"delete_memo">>, "delete_memo")
  BY DEF Begins, Path, Order, Commands
<1>6. Begins("create_own_memo", <<"insert_memo">>, "insert_memo")
  BY DEF Begins, Path, Order, Commands
<1>7. Begins("list_own_memos", <<"count", "find">>, "count")
  BY DEF Begins, Path, Order, Commands
<1>8. Begins("delete_team", <<"authorize">> \o DeleteTeamCommands, "authorize")
  <2>1. Begins("delete_team", DeleteTeamCommands, "delete_memos")
    BY DEF Begins, Path, Order, Commands, DeleteTeamCommands
  <2>2. "authorize" \in Commands /\ <<"authorize", "delete_memos">> \in Order["delete_team"]
    BY DEF Commands, Order
  <2>3. QED BY <2>1, <2>2, PathBegins DEF Begins
<1>9. Begins("transfer", <<"authorize">> \o TransferCommands, "authorize")
  <2>1. Begins("transfer", TransferCommands, "find_target")
    BY DEF Begins, Path, Order, Commands, TransferCommands
  <2>2. "authorize" \in Commands /\ <<"authorize", "find_target">> \in Order["transfer"]
    BY DEF Commands, Order
  <2>3. QED BY <2>1, <2>2, PathBegins DEF Begins
<1>10. Begins("get_team", <<"authorize">> \o <<"find_team">>, "authorize")
  <2>1. Begins("get_team", <<"find_team">>, "find_team")
    BY DEF Begins, Path, Order, Commands
  <2>2. "authorize" \in Commands /\ <<"authorize", "find_team">> \in Order["get_team"]
    BY DEF Commands, Order
  <2>3. QED BY <2>1, <2>2, PathBegins DEF Begins
<1>11. Begins("list_members", <<"authorize">> \o <<"find">>, "authorize")
  <2>1. Begins("list_members", <<"find">>, "find")
    BY DEF Begins, Path, Order, Commands
  <2>2. "authorize" \in Commands /\ <<"authorize", "find">> \in Order["list_members"]
    BY DEF Commands, Order
  <2>3. QED BY <2>1, <2>2, PathBegins DEF Begins
<1>12. Begins("remove_member", <<"authorize">> \o <<"find_target", "find_requester", "delete_member">>, "authorize")
  <2>1. Begins("remove_member", <<"find_target", "find_requester", "delete_member">>, "find_target")
    BY DEF Begins, Path, Order, Commands
  <2>2. "authorize" \in Commands /\ <<"authorize", "find_target">> \in Order["remove_member"]
    BY DEF Commands, Order
  <2>3. QED BY <2>1, <2>2, PathBegins DEF Begins
<1>13. Begins("update_role", <<"authorize">> \o <<"find_target", "find_requester", "set_role">>, "authorize")
  <2>1. Begins("update_role", <<"find_target", "find_requester", "set_role">>, "find_target")
    BY DEF Begins, Path, Order, Commands
  <2>2. "authorize" \in Commands /\ <<"authorize", "find_target">> \in Order["update_role"]
    BY DEF Commands, Order
  <2>3. QED BY <2>1, <2>2, PathBegins DEF Begins
<1>14. Begins("leave", <<"authorize">> \o <<"find_target", "delete_member">>, "authorize")
  <2>1. Begins("leave", <<"find_target", "delete_member">>, "find_target")
    BY DEF Begins, Path, Order, Commands
  <2>2. "authorize" \in Commands /\ <<"authorize", "find_target">> \in Order["leave"]
    BY DEF Commands, Order
  <2>3. QED BY <2>1, <2>2, PathBegins DEF Begins
<1>15. Begins("invite", <<"authorize">> \o InviteCommands, "authorize")
  <2>1. Begins("invite", InviteCommands, "find_team")
    BY DEF Begins, Path, Order, Commands, InviteCommands
  <2>2. "authorize" \in Commands /\ <<"authorize", "find_team">> \in Order["invite"]
    BY DEF Commands, Order
  <2>3. QED BY <2>1, <2>2, PathBegins DEF Begins
<1>16. Begins("list_invitations", <<"authorize">> \o <<"find">>, "authorize")
  <2>1. Begins("list_invitations", <<"find">>, "find")
    BY DEF Begins, Path, Order, Commands
  <2>2. "authorize" \in Commands /\ <<"authorize", "find">> \in Order["list_invitations"]
    BY DEF Commands, Order
  <2>3. QED BY <2>1, <2>2, PathBegins DEF Begins
<1>17. Begins("cancel", <<"authorize">> \o <<"find_invitation", "delete_invitation">>, "authorize")
  <2>1. Begins("cancel", <<"find_invitation", "delete_invitation">>, "find_invitation")
    BY DEF Begins, Path, Order, Commands
  <2>2. "authorize" \in Commands /\ <<"authorize", "find_invitation">> \in Order["cancel"]
    BY DEF Commands, Order
  <2>3. QED BY <2>1, <2>2, PathBegins DEF Begins
<1>18. Begins("create_memo", <<"authorize">> \o <<"insert_memo">>, "authorize")
  <2>1. Begins("create_memo", <<"insert_memo">>, "insert_memo")
    BY DEF Begins, Path, Order, Commands
  <2>2. "authorize" \in Commands /\ <<"authorize", "insert_memo">> \in Order["create_memo"]
    BY DEF Commands, Order
  <2>3. QED BY <2>1, <2>2, PathBegins DEF Begins
<1>19. Begins("list_memos", <<"authorize">> \o <<"count", "find">>, "authorize")
  <2>1. Begins("list_memos", <<"count", "find">>, "count")
    BY DEF Begins, Path, Order, Commands
  <2>2. "authorize" \in Commands /\ <<"authorize", "count">> \in Order["list_memos"]
    BY DEF Commands, Order
  <2>3. QED BY <2>1, <2>2, PathBegins DEF Begins
<1>20. Begins("get_memo", <<"authorize">> \o <<"find_memo">>, "authorize")
  <2>1. Begins("get_memo", <<"find_memo">>, "find_memo")
    BY DEF Begins, Path, Order, Commands
  <2>2. "authorize" \in Commands /\ <<"authorize", "find_memo">> \in Order["get_memo"]
    BY DEF Commands, Order
  <2>3. QED BY <2>1, <2>2, PathBegins DEF Begins
<1>21. Begins("delete_memo", <<"authorize">> \o <<"delete_memo">>, "authorize")
  <2>1. Begins("delete_memo", <<"delete_memo">>, "delete_memo")
    BY DEF Begins, Path, Order, Commands
  <2>2. "authorize" \in Commands /\ <<"authorize", "delete_memo">> \in Order["delete_memo"]
    BY DEF Commands, Order
  <2>3. QED BY <2>1, <2>2, PathBegins DEF Begins
<1>22. ASSUME NEW slug \in Slug \cup {NoSlug}
      PROVE  Begins("update_team", <<"authorize">> \o UpdateTeamCommands(slug), "authorize")
  <2> DEFINE last == <<"update_team">>
  <2>1. Begins("update_team", last, "update_team") /\ last \in Seq(Commands)
    BY DEF Begins, Path, Order, Commands
  <2>2. Begins("update_team", UpdateTeamCommands(slug), "find_team")
    <3>1. "find_team" \in Commands /\ "find_slug" \in Commands
      BY DEF Commands
    <3>2. CASE slug = NoSlug
      <4>1. UpdateTeamCommands(slug) = <<"find_team">> \o last
        <5>1. <<"find_team">> \o <<>> = <<"find_team">>
          BY <3>1, ConcatEmptySeq
        <5>2. QED BY <5>1, <3>2 DEF UpdateTeamCommands
      <4>2. <<"find_team", "update_team">> \in Order["update_team"]
        BY DEF Order
      <4>3. QED BY <4>1, <4>2, <3>1, <2>1, PathBegins DEF Begins
    <3>3. CASE slug /= NoSlug
      <4>1. UpdateTeamCommands(slug) = <<"find_team">> \o (<<"find_slug">> \o last)
        <5>1. <<"find_team">> \in Seq(Commands) /\ <<"find_slug">> \in Seq(Commands)
          BY <3>1
        <5>2. (<<"find_team">> \o <<"find_slug">>) \o last
                = <<"find_team">> \o (<<"find_slug">> \o last)
          BY <5>1, <2>1, ConcatAssociative
        <5>3. QED BY <5>2, <3>3 DEF UpdateTeamCommands
      <4>2. /\ <<"find_team", "find_slug">> \in Order["update_team"]
            /\ <<"find_slug", "update_team">> \in Order["update_team"]
        BY DEF Order
      <4>3. Begins("update_team", <<"find_slug">> \o last, "find_slug")
        BY <4>2, <3>1, <2>1, PathBegins DEF Begins
      <4> DEFINE middle == <<"find_slug">> \o last
      <4>4. Begins("update_team", middle, "find_slug")
        BY <4>3
      <4> HIDE DEF middle
      <4>5. Begins("update_team", <<"find_team">> \o middle, "find_team")
        BY <4>2, <4>4, <3>1, PathBegins DEF Begins
      <4>6. QED BY <4>1, <4>5 DEF middle
    <3>4. QED BY <3>2, <3>3
  <2>3. "authorize" \in Commands /\ <<"authorize", "find_team">> \in Order["update_team"]
    BY DEF Commands, Order
  <2>4. QED BY <2>2, <2>3, PathBegins DEF Begins
<1>23. QED BY <1>1, <1>2, <1>3, <1>4, <1>5, <1>6, <1>7, <1>8, <1>9, <1>10, <1>11, <1>12, <1>13, <1>14, <1>15, <1>16, <1>17, <1>18, <1>19, <1>20, <1>21, <1>22

-------------------------------------------------------------------------------
(* Requests.                                                               *)

\* The requests agree in all but what is still to be sent and the answer.
Same(n, k) ==
    /\ n \in InFlight /\ n.op = k.op /\ n.user = k.user /\ n.team = k.team
    /\ n.target = k.target /\ n.address = k.address /\ n.owner = k.owner
    /\ n.slug = k.slug /\ n.role = k.role
    /\ n.invitation = k.invitation /\ n.memo = k.memo /\ n.page = k.page /\ n.limit = k.limit

\* A request in flight, its numbers and what it lists left open.
Shape(Numbers, Ids, Sets) ==
    [op : Operations, todo : Seq(Commands), user : User, team : Team \cup {NoTeam},
     target : User \cup {NoUser}, address : Address \cup {NoAddress},
     owner : User \cup {NoUser}, slug : Slug \cup {NoSlug},
     role : Role \cup {"none"}, invitation : Invitation \cup {NoInvitation},
     memo : Memo \cup {NoMemo}, page : Numbers, limit : Numbers, total : Nat, items : Ids,
     shown : Sets, code : Codes, wrote : BOOLEAN, refused : BOOLEAN]

LEMMA Shaped == \E Numbers, Ids, Sets : InFlight = Shape(Numbers, Ids, Sets)
<1>1. InFlight = Shape(Int, Seq(Nat), SUBSET (User \cup Invitation))
  BY DEF InFlight, Shape
<1>2. QED BY <1>1

LEMMA Outcomes ==
    ASSUME NEW k \in InFlight, k.todo /= <<>>
    PROVE  /\ Same(Proceeds(k), k) /\ Proceeds(k).todo = Tail(k.todo)
           /\ Proceeds(k).refused = k.refused /\ Proceeds(k).code = k.code
           /\ Same(Wrote(k), k) /\ Wrote(k).todo = Tail(k.todo)
           /\ Wrote(k).refused = k.refused
           /\ \A s \in Seq(Commands), code \in Codes :
                /\ Same(Fails(k, s, code), k) /\ Fails(k, s, code).todo = s
                /\ Fails(k, s, code).refused = k.refused
<1>0. PICK Numbers, Ids, Sets : InFlight = Shape(Numbers, Ids, Sets)
  BY Shaped
<1>1. k.todo \in Seq(Commands) /\ Tail(k.todo) \in Seq(Commands)
  BY HeadTailProperties DEF InFlight
<1>2. /\ Same(Proceeds(k), k) /\ Proceeds(k).todo = Tail(k.todo)
      /\ Proceeds(k).refused = k.refused /\ Proceeds(k).code = k.code
  BY <1>0, <1>1 DEF Proceeds, Same, Shape
<1>3. Same(Wrote(k), k) /\ Wrote(k).todo = Tail(k.todo) /\ Wrote(k).refused = k.refused
  BY <1>0, <1>1 DEF Wrote, Same, Shape
<1>4. ASSUME NEW s \in Seq(Commands), NEW code \in Codes
      PROVE  /\ Same(Fails(k, s, code), k) /\ Fails(k, s, code).todo = s
             /\ Fails(k, s, code).refused = k.refused
  BY <1>0 DEF Fails, Same, Shape
<1>5. QED BY <1>2, <1>3, <1>4

LEMMA Verdicts ==
    ASSUME NEW k \in InFlight, k.todo /= <<>>, NEW code \in Codes
    PROVE  /\ Same(Checked(k, code), k) /\ Checked(k, code).refused = k.refused
           /\ Checked(k, code).todo = IF code = "ok" THEN Tail(k.todo) ELSE <<>>
<1>1. <<>> \in Seq(Commands)
  BY EmptySeq
<1>2. QED BY <1>1, Outcomes DEF Checked

\* Once a request has ended, it need know nothing of what it read.
LEMMA EndsSoundly ==
    ASSUME NEW k \in InFlight, Sound(k), NEW n \in InFlight, n.todo = <<>>, n.op = k.op,
           n.user = k.user, n.invitation = k.invitation, n.memo = k.memo, n.page = k.page,
           n.limit = k.limit, n.target = k.target, n.address = k.address \/ n.op /= "invite", n.owner = k.owner \/ n.op /= "transfer",
           n.role = k.role \/ n.op \notin {"update_role", "invite"},
           n.slug = k.slug \/ n.op /= "create_team", n.team = k.team \/ n.op = "accept"
    PROVE  Sound(n) /\ Due(n) = "end"
<1>1. Path(n.op, n.todo) /\ Due(n) = "end"
  BY PathEnds DEF Due
<1>2. Knows(n)
  <2> HIDE DEF Due
  <2>1. "accept" \notin DOMAIN Routes /\ "create_team" \notin DOMAIN Routes
    BY DEF Routes
  <2> QED BY <1>1, <2>1 DEF Sound, Knows
<1>3. QED BY <1>1, <1>2 DEF Sound

LEMMA NextDue ==
    ASSUME NEW k \in InFlight, Sound(k), k.todo /= <<>>,
           NEW n \in InFlight, n.op = k.op, n.todo = Tail(k.todo)
    PROVE  /\ Path(n.op, n.todo) /\ <<Due(k), Due(n)>> \in Order[k.op]
           /\ Due(k) = Head(k.todo) /\ Due(k) \in Commands
           /\ k.op \in Operations
<1>1. Path(k.op, k.todo) /\ k.op \in Operations
  BY DEF Sound, InFlight
<1>2. /\ Head(k.todo) \in Commands /\ Path(k.op, Tail(k.todo))
      /\ <<Head(k.todo), IF Tail(k.todo) = <<>> THEN "end" ELSE Head(Tail(k.todo))>>
           \in Order[k.op]
  BY <1>1, PathAdvances
<1>3. /\ Due(k) = Head(k.todo)
      /\ Due(n) = IF Tail(k.todo) = <<>> THEN "end" ELSE Head(Tail(k.todo))
  BY DEF Due
<1>4. QED BY <1>1, <1>2, <1>3

\* Most commands tell a request nothing it has to know.
LEMMA AdvancesSoundly ==
    ASSUME NEW k \in InFlight, Sound(k), k.todo /= <<>>,
           NEW n \in InFlight, Same(n, k), n.todo = Tail(k.todo),
           Due(k) \notin {"insert_team", "find_invitation", "find_user", "find_invitee"},
           Due(k) = "find_team" => k.op \notin {"update_team", "transfer"}
    PROVE  Sound(n)
<1>1. /\ Path(n.op, n.todo) /\ <<Due(k), Due(n)>> \in Order[k.op] /\ k.op \in Operations
  BY NextDue DEF Same
<1> DEFINE a == Due(k)
           b == Due(n)
<1>2. /\ b = "find_slug" => a \in {"count_owned", "find_team"}
      /\ b = "insert_team" => a = "find_slug" /\ k.op = "create_team"
      /\ b = "insert_owner" => a = "insert_team"
      /\ b = "update_team" => a \in {"find_team", "find_slug"}
      /\ b = "find_invitation" => a \in {"authorize", "find_user"}
      /\ b = "find_member" => a = "find_invitee"
      /\ b = "promote" => a = "find_team"
      /\ b = "demote" => a = "promote"
      /\ b = "hand_over" => a = "demote"
      /\ b \notin {"undo_team", "count_owned", "find_user"}
  BY <1>1, Successor
<1>3. /\ a = "find_team" => k.op /= "create_team"
      /\ a \in {"count_owned", "insert_team"} => k.op = "create_team"
      /\ a = "authorize" => k.op \in DOMAIN Routes
      /\ a # "end"
  <2>1. a # "end"
    BY NextDue DEF Same, Commands
  <2>2. QED BY <1>1, <2>1, Roster
<1>4. "accept" \notin DOMAIN Routes /\ "create_team" \notin DOMAIN Routes
  BY DEF Routes
<1> HIDE DEF a, b
<1>5. a = Due(k) /\ b = Due(n)
  BY DEF a, b
<1>6. Knows(n)
  BY <1>2, <1>3, <1>4, <1>5 DEF Sound, Knows, Same
<1>7. QED BY <1>1, <1>6 DEF Sound, Same

-------------------------------------------------------------------------------
(* Requests that arrive.                                                   *)

Fresh(k) ==
    /\ k \in InFlight /\ Sound(k)
    /\ Due(k) \in {"authorize", "count_owned", "count", "find_user", "insert_memo", "delete_memo"}
    /\ k.op \in DOMAIN Routes => Due(k) = "authorize"
    /\ k.op \in {"my_invitations", "accept", "decline"} => Due(k) = "find_user"

\* The part of a new request that all have.
Asks(k, op, u, t, s) ==
    k \in InFlight /\ k.op = op /\ k.user = u /\ k.team = t /\ k.todo = s

LEMMA Requested ==
    ASSUME NEW op \in Operations, NEW u \in Users, NEW s \in Seq(Commands)
    PROVE  Asks(Request(op, u, s), op, u, NoTeam, s)
<1> DEFINE Ids == Seq(Nat)
           Sets == SUBSET (User \cup Invitation)
           Numbers == Int
<1>1. <<>> \in Ids /\ {} \in Sets /\ 0 \in Numbers /\ "ok" \in Codes /\ u \in User
  BY EmptySeq DEF Codes, Users
<1>2. InFlight =
        [op : Operations, todo : Seq(Commands), user : User, team : Team \cup {NoTeam},
         target : User \cup {NoUser}, address : Address \cup {NoAddress},
     owner : User \cup {NoUser}, slug : Slug \cup {NoSlug},
         role : Role \cup {"none"}, invitation : Invitation \cup {NoInvitation},
         memo : Memo \cup {NoMemo}, page : Numbers, limit : Numbers, total : Nat, items : Ids,
         shown : Sets, code : Codes, wrote : BOOLEAN, refused : BOOLEAN]
  BY DEF InFlight
<1> HIDE DEF Ids, Sets, Numbers
<1>3. Request(op, u, s) \in InFlight
  BY <1>1, <1>2 DEF Request, NoCall
<1>4. /\ Request(op, u, s).op = op /\ Request(op, u, s).user = u
      /\ Request(op, u, s).team = NoTeam /\ Request(op, u, s).todo = s
  BY DEF Request, NoCall
<1>5. QED BY <1>3, <1>4 DEF Asks

LEMMA RequestedInTeam ==
    ASSUME NEW op \in Operations, NEW u \in Users, NEW s \in Seq(Commands), NEW t \in Team
    PROVE  Asks(InTeam(op, u, t, s), op, u, t, <<"authorize">> \o s)
<1> DEFINE whole == <<"authorize">> \o s
           k == Request(op, u, whole)
<1>1. whole \in Seq(Commands)
  <2>1. <<"authorize">> \in Seq(Commands)
    BY DEF Commands
  <2>2. QED BY <2>1, ConcatProperties
<1> HIDE DEF whole
<1>2. Asks(k, op, u, NoTeam, whole)
  BY <1>1, Requested
<1>3. InTeam(op, u, t, s) = [k EXCEPT !.team = t]
  BY DEF InTeam, whole
<1> HIDE DEF k
<1>4. Asks([k EXCEPT !.team = t], op, u, t, whole)
  BY <1>2 DEF Asks, InFlight
<1>5. QED BY <1>3, <1>4 DEF whole

\* What a path that begins with a command makes of a request.
LEMMA FreshRequest ==
    ASSUME NEW k \in InFlight, NEW command, Begins(k.op, k.todo, command), Knows(k),
           command \in {"authorize", "count_owned", "count", "find_user", "insert_memo",
                        "delete_memo"},
           k.op \in DOMAIN Routes => command = "authorize",
           k.op \in {"my_invitations", "accept", "decline"} => command = "find_user"
    PROVE  Fresh(k)
BY DEF Fresh, Begins, Sound, Due

LEMMA Clamped ==
    ASSUME NEW p \in PageRequest
    PROVE  ClampPage(p[1]) \in Nat \ {0} /\ ClampLimit(p[2]) \in Nat \ {0}
<1>1. p[1] \in Int /\ p[2] \in Int
  BY PageRequestAssumption
<1>2. QED BY <1>1 DEF ClampPage, ClampLimit, MaxLimit

\* A request that arrives changes nothing, and knows what it has to.
Arrives(c) ==
    /\ Idle(c) /\ (scenario.overlap \/ \A d \in Call : Idle(d))
    /\ UNCHANGED <<storeVars, userVars, scenario, invited, half, undropped>>
    /\ \E k \in InFlight :
         /\ call' = [call EXCEPT ![c] = k] /\ Fresh(k)
         /\ k.op = "transfer" => k.slug = NoSlug /\ (MayNameSelf \/ k.user /= k.target)
         /\ k.op = "create_team" =>
              Cardinality(Created) + Cardinality(InProgress({"create_team"})) < scenario.teams

LEMMA ScenarioFacts ==
    ASSUME TypeOK
    PROVE  /\ scenario.slugs \subseteq Slug /\ scenario.gives \subseteq Given
           /\ scenario.addresses \subseteq Address /\ Users \subseteq User
           /\ scenario.teams \in 0 .. MaxTeams
<1>1. scenario \in Scenario
  BY DEF TypeOK
<1>2. QED BY <1>1, ScenarioAssumption DEF Users

LEMMA RecordedMemos == Recorded \subseteq Memo /\ Created \subseteq Team
BY DEF Recorded, Created

LEMMA UpdateIsSeq ==
    ASSUME NEW slug \in Slug \cup {NoSlug}
    PROVE  UpdateTeamCommands(slug) \in Seq(Commands)
<1>1. /\ <<"find_team">> \in Seq(Commands) /\ <<"find_slug">> \in Seq(Commands)
      /\ <<"update_team">> \in Seq(Commands) /\ <<>> \in Seq(Commands)
  BY DEF Commands
<1>2. ASSUME NEW s \in Seq(Commands)
      PROVE  <<"find_team">> \o s \o <<"update_team">> \in Seq(Commands)
  <2>1. <<"find_team">> \o s \in Seq(Commands)
    BY <1>1, ConcatProperties
  <2>2. QED BY <1>1, <2>1, ConcatProperties
<1>3. QED BY <1>1, <1>2 DEF UpdateTeamCommands

LEMMA Paged ==
    ASSUME NEW k \in InFlight, NEW p \in PageRequest
    PROVE  /\ Page(k, p) \in InFlight /\ Page(k, p).op = k.op /\ Page(k, p).user = k.user
           /\ Page(k, p).team = k.team /\ Page(k, p).todo = k.todo
           /\ Page(k, p).page \in Nat \ {0} /\ Page(k, p).limit \in Nat \ {0}
<1> DEFINE number == ClampPage(p[1])
           size == ClampLimit(p[2])
           Numbers == Int
           Positive == Nat \ {0}
<1>1. /\ number \in Positive /\ size \in Positive
      /\ number \in Numbers /\ size \in Numbers
  BY Clamped
<1>2. InFlight =
        [op : Operations, todo : Seq(Commands), user : User, team : Team \cup {NoTeam},
         target : User \cup {NoUser}, address : Address \cup {NoAddress},
         owner : User \cup {NoUser}, slug : Slug \cup {NoSlug},
         role : Role \cup {"none"}, invitation : Invitation \cup {NoInvitation},
         memo : Memo \cup {NoMemo}, page : Numbers, limit : Numbers, total : Nat,
         items : Seq(Nat), shown : SUBSET (User \cup Invitation), code : Codes,
         wrote : BOOLEAN, refused : BOOLEAN]
  BY DEF InFlight
<1>3. Page(k, p) = [k EXCEPT !.page = number, !.limit = size]
  BY DEF Page
<1> HIDE DEF number, size, Numbers, Positive
<1> DEFINE paged == [k EXCEPT !.page = number, !.limit = size]
<1>4. paged \in InFlight
  BY <1>1, <1>2
<1>5. /\ paged.op = k.op /\ paged.user = k.user /\ paged.team = k.team /\ paged.todo = k.todo
      /\ paged.page = number /\ paged.limit = size
  BY <1>1, <1>2
<1>6. QED BY <1>1, <1>3, <1>4, <1>5 DEF Positive

LEMMA Arrivals ==
    ASSUME TypeOK, NEW c \in Call, RequestArrives(c)
    PROVE  Arrives(c)
<1>0. PICK Numbers, Ids, Sets : InFlight = Shape(Numbers, Ids, Sets)
  BY Shaped
<1>1. CASE CreateTeam(c)
  <2> DEFINE plain(u) == Request("create_team", u, CreateTeamCommands)
  <2>1. PICK u \in Users, slug \in scenario.slugs : Starts(c, [plain(u) EXCEPT !.slug = slug])
    BY <1>1 DEF CreateTeam
  <2>2. /\ Accepting(c, "create_team")
        /\ Cardinality(Created) + Cardinality(InProgress({"create_team"})) < scenario.teams
    BY <1>1 DEF CreateTeam
  <2> DEFINE k == [plain(u) EXCEPT !.slug = slug]
  <2>3. Begins("create_team", CreateTeamCommands, "count_owned")
    BY Beginnings
  <2>4. Asks(plain(u), "create_team", u, NoTeam, CreateTeamCommands)
    <3>1. "create_team" \in Operations
      BY DEF Operations, Routes
    <3>2. CreateTeamCommands \in Seq(Commands)
      BY DEF Commands, CreateTeamCommands
    <3>3. QED BY <3>1, <3>2, Requested
  <2> HIDE DEF plain
  <2>5. /\ k \in InFlight /\ k.op = "create_team" /\ k.user = u /\ k.team = NoTeam
        /\ k.todo = plain(u).todo
        /\ k.slug = slug
    BY <1>0, <2>1, <2>4, ScenarioFacts DEF Asks, Shape, Given, Role
  <2> HIDE DEF k
  <2>6. Knows(k)
    <3>1. Due(k) = "count_owned"
      BY <2>3, <2>4, <2>5 DEF Due, Begins, Asks
    <3>2. QED BY <2>1, <2>5, <3>1, ScenarioFacts, RecordedMemos DEF Knows, Routes, NoTeam
  <2>7. Fresh(k)
    <3>1. k.todo = CreateTeamCommands
      BY <2>4, <2>5 DEF Asks
    <3>2. "create_team" \notin DOMAIN Routes
      BY DEF Routes
    <3>3. QED BY <2>3, <2>5, <2>6, <3>1, <3>2, FreshRequest
  <2>8. /\ call' = [call EXCEPT ![c] = k]
        /\ UNCHANGED <<storeVars, userVars, scenario, invited, half, undropped>>
    BY <2>1 DEF Starts, k
  <2>9. QED BY <2>1, <2>2, <2>5, <2>7, <2>8 DEF Arrives, Accepting
<1>2. CASE UpdateTeam(c)
  <2> DEFINE plain(u, t, slug) == InTeam("update_team", u, t, UpdateTeamCommands(slug))
  <2>1. PICK u \in Users, t \in Created, slug \in scenario.slugs \cup {NoSlug} : Starts(c, [plain(u, t, slug) EXCEPT !.slug = slug])
    BY <1>2 DEF UpdateTeam
  <2>2. /\ Accepting(c, "update_team")
    BY <1>2 DEF UpdateTeam
  <2> DEFINE k == [plain(u, t, slug) EXCEPT !.slug = slug]
  <2>3. Begins("update_team", <<"authorize">> \o UpdateTeamCommands(slug), "authorize")
    BY Beginnings, <2>1, ScenarioFacts
  <2>4. Asks(plain(u, t, slug), "update_team", u, t, <<"authorize">> \o UpdateTeamCommands(slug))
    <3>1. "update_team" \in Operations /\ t \in Team
      BY DEF Operations, Routes, Created
    <3>2. UpdateTeamCommands(slug) \in Seq(Commands)
      BY <2>1, UpdateIsSeq, ScenarioFacts
    <3>3. QED BY <3>1, <3>2, RequestedInTeam
  <2> HIDE DEF plain
  <2>5. /\ k \in InFlight /\ k.op = "update_team" /\ k.user = u /\ k.team = t
        /\ k.todo = plain(u, t, slug).todo
        /\ k.slug = slug
    BY <1>0, <2>1, <2>4, ScenarioFacts DEF Asks, Shape, Given, Role
  <2> HIDE DEF k
  <2>6. Knows(k)
    <3>1. Due(k) = "authorize"
      BY <2>3, <2>4, <2>5 DEF Due, Begins, Asks
    <3>2. QED BY <2>1, <2>5, <3>1, ScenarioFacts, RecordedMemos DEF Knows, Routes, NoTeam
  <2>7. Fresh(k)
    <3>1. k.todo = <<"authorize">> \o UpdateTeamCommands(slug)
      BY <2>4, <2>5 DEF Asks
    <3>2. "update_team" \in DOMAIN Routes
      BY DEF Routes
    <3>3. QED BY <2>3, <2>5, <2>6, <3>1, <3>2, FreshRequest
  <2>8. /\ call' = [call EXCEPT ![c] = k]
        /\ UNCHANGED <<storeVars, userVars, scenario, invited, half, undropped>>
    BY <2>1 DEF Starts, k
  <2>9. QED BY <2>1, <2>2, <2>5, <2>7, <2>8 DEF Arrives, Accepting
<1>3. CASE DeleteTeam(c)
  <2> DEFINE plain(u, t) == InTeam("delete_team", u, t, DeleteTeamCommands)
  <2>1. PICK u \in Users, t \in Created : Starts(c, plain(u, t))
    BY <1>3 DEF DeleteTeam
  <2>2. /\ Accepting(c, "delete_team")
    BY <1>3 DEF DeleteTeam
  <2> DEFINE k == plain(u, t)
  <2>3. Begins("delete_team", <<"authorize">> \o DeleteTeamCommands, "authorize")
    BY Beginnings
  <2>4. Asks(plain(u, t), "delete_team", u, t, <<"authorize">> \o DeleteTeamCommands)
    <3>1. "delete_team" \in Operations /\ t \in Team
      BY DEF Operations, Routes, Created
    <3>2. DeleteTeamCommands \in Seq(Commands)
      BY DEF Commands, DeleteTeamCommands
    <3>3. QED BY <3>1, <3>2, RequestedInTeam
  <2> HIDE DEF plain
  <2>5. /\ k \in InFlight /\ k.op = "delete_team" /\ k.user = u /\ k.team = t
        /\ k.todo = plain(u, t).todo
    BY <2>4 DEF Asks
  <2> HIDE DEF k
  <2>6. Knows(k)
    <3>1. Due(k) = "authorize"
      BY <2>3, <2>4, <2>5 DEF Due, Begins, Asks
    <3>2. QED BY <2>1, <2>5, <3>1, ScenarioFacts, RecordedMemos DEF Knows, Routes, NoTeam
  <2>7. Fresh(k)
    <3>1. k.todo = <<"authorize">> \o DeleteTeamCommands
      BY <2>4, <2>5 DEF Asks
    <3>2. "delete_team" \in DOMAIN Routes
      BY DEF Routes
    <3>3. QED BY <2>3, <2>5, <2>6, <3>1, <3>2, FreshRequest
  <2>8. /\ call' = [call EXCEPT ![c] = k]
        /\ UNCHANGED <<storeVars, userVars, scenario, invited, half, undropped>>
    BY <2>1 DEF Starts, k
  <2>9. QED BY <2>1, <2>2, <2>5, <2>7, <2>8 DEF Arrives, Accepting
<1>4. CASE TransferOwnership(c)
  <2> DEFINE plain(u, t) == InTeam("transfer", u, t, TransferCommands)
  <2>1. PICK u \in Users, new \in Users, t \in Created : Starts(c, [plain(u, t) EXCEPT !.target = new, !.owner = new]) /\ (MayNameSelf \/ new /= u)
    BY <1>4 DEF TransferOwnership
  <2>2. /\ Accepting(c, "transfer")
    BY <1>4 DEF TransferOwnership
  <2> DEFINE k == [plain(u, t) EXCEPT !.target = new, !.owner = new]
  <2>3. Begins("transfer", <<"authorize">> \o TransferCommands, "authorize")
    BY Beginnings
  <2>4. Asks(plain(u, t), "transfer", u, t, <<"authorize">> \o TransferCommands)
    <3>1. "transfer" \in Operations /\ t \in Team
      BY DEF Operations, Routes, Created
    <3>2. TransferCommands \in Seq(Commands)
      BY DEF Commands, TransferCommands
    <3>3. QED BY <3>1, <3>2, RequestedInTeam
  <2> HIDE DEF plain
  <2>5. /\ k \in InFlight /\ k.op = "transfer" /\ k.user = u /\ k.team = t
        /\ k.todo = plain(u, t).todo /\ k.slug = NoSlug
        /\ k.target = new /\ k.owner = new
    <3>1. plain(u, t).slug = NoSlug
      BY DEF plain, InTeam, Request, NoCall
    <3>2. QED BY <1>0, <2>1, <2>4, <3>1, ScenarioFacts DEF Asks, Shape, Given, Role
  <2> HIDE DEF k
  <2>6. Knows(k)
    <3>1. Due(k) = "authorize"
      BY <2>3, <2>4, <2>5 DEF Due, Begins, Asks
    <3>2. QED BY <2>1, <2>5, <3>1, ScenarioFacts, RecordedMemos DEF Knows, Routes, NoTeam
  <2>7. Fresh(k)
    <3>1. k.todo = <<"authorize">> \o TransferCommands
      BY <2>4, <2>5 DEF Asks
    <3>2. "transfer" \in DOMAIN Routes
      BY DEF Routes
    <3>3. QED BY <2>3, <2>5, <2>6, <3>1, <3>2, FreshRequest
  <2>8. /\ call' = [call EXCEPT ![c] = k]
        /\ UNCHANGED <<storeVars, userVars, scenario, invited, half, undropped>>
    BY <2>1 DEF Starts, k
  <2>9. QED BY <2>1, <2>2, <2>5, <2>7, <2>8 DEF Arrives, Accepting
<1>5. CASE GetTeam(c)
  <2> DEFINE plain(u, t) == InTeam("get_team", u, t, <<"find_team">>)
  <2>1. PICK u \in Users, t \in Created : Starts(c, plain(u, t))
    BY <1>5 DEF GetTeam
  <2>2. /\ Accepting(c, "get_team")
    BY <1>5 DEF GetTeam
  <2> DEFINE k == plain(u, t)
  <2>3. Begins("get_team", <<"authorize">> \o <<"find_team">>, "authorize")
    BY Beginnings
  <2>4. Asks(plain(u, t), "get_team", u, t, <<"authorize">> \o <<"find_team">>)
    <3>1. "get_team" \in Operations /\ t \in Team
      BY DEF Operations, Routes, Created
    <3>2. <<"find_team">> \in Seq(Commands)
      BY DEF Commands
    <3>3. QED BY <3>1, <3>2, RequestedInTeam
  <2> HIDE DEF plain
  <2>5. /\ k \in InFlight /\ k.op = "get_team" /\ k.user = u /\ k.team = t
        /\ k.todo = plain(u, t).todo
    BY <2>4 DEF Asks
  <2> HIDE DEF k
  <2>6. Knows(k)
    <3>1. Due(k) = "authorize"
      BY <2>3, <2>4, <2>5 DEF Due, Begins, Asks
    <3>2. QED BY <2>1, <2>5, <3>1, ScenarioFacts, RecordedMemos DEF Knows, Routes, NoTeam
  <2>7. Fresh(k)
    <3>1. k.todo = <<"authorize">> \o <<"find_team">>
      BY <2>4, <2>5 DEF Asks
    <3>2. "get_team" \in DOMAIN Routes
      BY DEF Routes
    <3>3. QED BY <2>3, <2>5, <2>6, <3>1, <3>2, FreshRequest
  <2>8. /\ call' = [call EXCEPT ![c] = k]
        /\ UNCHANGED <<storeVars, userVars, scenario, invited, half, undropped>>
    BY <2>1 DEF Starts, k
  <2>9. QED BY <2>1, <2>2, <2>5, <2>7, <2>8 DEF Arrives, Accepting
<1>6. CASE ListTeams(c)
  <2> DEFINE plain(u) == Request("list_teams", u, <<"count", "find">>)
  <2>1. PICK u \in Users, p \in PageRequest : Starts(c, Page(plain(u), p))
    BY <1>6 DEF ListTeams
  <2>2. /\ Accepting(c, "list_teams")
    BY <1>6 DEF ListTeams
  <2> DEFINE k == Page(plain(u), p)
  <2>3. Begins("list_teams", <<"count", "find">>, "count")
    BY Beginnings
  <2>4. Asks(plain(u), "list_teams", u, NoTeam, <<"count", "find">>)
    <3>1. "list_teams" \in Operations
      BY DEF Operations, Routes
    <3>2. <<"count", "find">> \in Seq(Commands)
      BY DEF Commands
    <3>3. QED BY <3>1, <3>2, Requested
  <2> HIDE DEF plain
  <2>5. /\ k \in InFlight /\ k.op = "list_teams" /\ k.user = u /\ k.team = NoTeam
        /\ k.todo = plain(u).todo
        /\ k.page \in Nat \ {0} /\ k.limit \in Nat \ {0}
    BY <2>1, <2>4, Paged DEF Asks
  <2> HIDE DEF k
  <2>6. Knows(k)
    <3>1. Due(k) = "count"
      BY <2>3, <2>4, <2>5 DEF Due, Begins, Asks
    <3>2. QED BY <2>1, <2>5, <3>1, ScenarioFacts, RecordedMemos DEF Knows, Routes, NoTeam
  <2>7. Fresh(k)
    <3>1. k.todo = <<"count", "find">>
      BY <2>4, <2>5 DEF Asks
    <3>2. "list_teams" \notin DOMAIN Routes
      BY DEF Routes
    <3>3. QED BY <2>3, <2>5, <2>6, <3>1, <3>2, FreshRequest
  <2>8. /\ call' = [call EXCEPT ![c] = k]
        /\ UNCHANGED <<storeVars, userVars, scenario, invited, half, undropped>>
    BY <2>1 DEF Starts, k
  <2>9. QED BY <2>1, <2>2, <2>5, <2>7, <2>8 DEF Arrives, Accepting
<1>7. CASE ListMembers(c)
  <2> DEFINE plain(u, t) == InTeam("list_members", u, t, <<"find">>)
  <2>1. PICK u \in Users, t \in Created : Starts(c, plain(u, t))
    BY <1>7 DEF ListMembers
  <2>2. /\ Accepting(c, "list_members")
    BY <1>7 DEF ListMembers
  <2> DEFINE k == plain(u, t)
  <2>3. Begins("list_members", <<"authorize">> \o <<"find">>, "authorize")
    BY Beginnings
  <2>4. Asks(plain(u, t), "list_members", u, t, <<"authorize">> \o <<"find">>)
    <3>1. "list_members" \in Operations /\ t \in Team
      BY DEF Operations, Routes, Created
    <3>2. <<"find">> \in Seq(Commands)
      BY DEF Commands
    <3>3. QED BY <3>1, <3>2, RequestedInTeam
  <2> HIDE DEF plain
  <2>5. /\ k \in InFlight /\ k.op = "list_members" /\ k.user = u /\ k.team = t
        /\ k.todo = plain(u, t).todo
    BY <2>4 DEF Asks
  <2> HIDE DEF k
  <2>6. Knows(k)
    <3>1. Due(k) = "authorize"
      BY <2>3, <2>4, <2>5 DEF Due, Begins, Asks
    <3>2. QED BY <2>1, <2>5, <3>1, ScenarioFacts, RecordedMemos DEF Knows, Routes, NoTeam
  <2>7. Fresh(k)
    <3>1. k.todo = <<"authorize">> \o <<"find">>
      BY <2>4, <2>5 DEF Asks
    <3>2. "list_members" \in DOMAIN Routes
      BY DEF Routes
    <3>3. QED BY <2>3, <2>5, <2>6, <3>1, <3>2, FreshRequest
  <2>8. /\ call' = [call EXCEPT ![c] = k]
        /\ UNCHANGED <<storeVars, userVars, scenario, invited, half, undropped>>
    BY <2>1 DEF Starts, k
  <2>9. QED BY <2>1, <2>2, <2>5, <2>7, <2>8 DEF Arrives, Accepting
<1>8. CASE RemoveMember(c)
  <2> DEFINE plain(u, t) == InTeam("remove_member", u, t, <<"find_target", "find_requester", "delete_member">>)
  <2>1. PICK u \in Users, target \in Users, t \in Created : Starts(c, [plain(u, t) EXCEPT !.target = target])
    BY <1>8 DEF RemoveMember
  <2>2. /\ Accepting(c, "remove_member")
    BY <1>8 DEF RemoveMember
  <2> DEFINE k == [plain(u, t) EXCEPT !.target = target]
  <2>3. Begins("remove_member", <<"authorize">> \o <<"find_target", "find_requester", "delete_member">>, "authorize")
    BY Beginnings
  <2>4. Asks(plain(u, t), "remove_member", u, t, <<"authorize">> \o <<"find_target", "find_requester", "delete_member">>)
    <3>1. "remove_member" \in Operations /\ t \in Team
      BY DEF Operations, Routes, Created
    <3>2. <<"find_target", "find_requester", "delete_member">> \in Seq(Commands)
      BY DEF Commands
    <3>3. QED BY <3>1, <3>2, RequestedInTeam
  <2> HIDE DEF plain
  <2>5. /\ k \in InFlight /\ k.op = "remove_member" /\ k.user = u /\ k.team = t
        /\ k.todo = plain(u, t).todo
        /\ k.target = target
    BY <1>0, <2>1, <2>4, ScenarioFacts DEF Asks, Shape, Given, Role
  <2> HIDE DEF k
  <2>6. Knows(k)
    <3>1. Due(k) = "authorize"
      BY <2>3, <2>4, <2>5 DEF Due, Begins, Asks
    <3>2. QED BY <2>1, <2>5, <3>1, ScenarioFacts, RecordedMemos DEF Knows, Routes, NoTeam
  <2>7. Fresh(k)
    <3>1. k.todo = <<"authorize">> \o <<"find_target", "find_requester", "delete_member">>
      BY <2>4, <2>5 DEF Asks
    <3>2. "remove_member" \in DOMAIN Routes
      BY DEF Routes
    <3>3. QED BY <2>3, <2>5, <2>6, <3>1, <3>2, FreshRequest
  <2>8. /\ call' = [call EXCEPT ![c] = k]
        /\ UNCHANGED <<storeVars, userVars, scenario, invited, half, undropped>>
    BY <2>1 DEF Starts, k
  <2>9. QED BY <2>1, <2>2, <2>5, <2>7, <2>8 DEF Arrives, Accepting
<1>9. CASE UpdateRole(c)
  <2> DEFINE plain(u, t) == InTeam("update_role", u, t, <<"find_target", "find_requester", "set_role">>)
  <2>1. PICK u \in Users, target \in Users, t \in Created, role \in Given : Starts(c, [plain(u, t) EXCEPT !.target = target, !.role = role])
    BY <1>9 DEF UpdateRole
  <2>2. /\ Accepting(c, "update_role")
    BY <1>9 DEF UpdateRole
  <2> DEFINE k == [plain(u, t) EXCEPT !.target = target, !.role = role]
  <2>3. Begins("update_role", <<"authorize">> \o <<"find_target", "find_requester", "set_role">>, "authorize")
    BY Beginnings
  <2>4. Asks(plain(u, t), "update_role", u, t, <<"authorize">> \o <<"find_target", "find_requester", "set_role">>)
    <3>1. "update_role" \in Operations /\ t \in Team
      BY DEF Operations, Routes, Created
    <3>2. <<"find_target", "find_requester", "set_role">> \in Seq(Commands)
      BY DEF Commands
    <3>3. QED BY <3>1, <3>2, RequestedInTeam
  <2> HIDE DEF plain
  <2>5. /\ k \in InFlight /\ k.op = "update_role" /\ k.user = u /\ k.team = t
        /\ k.todo = plain(u, t).todo
        /\ k.target = target /\ k.role = role
    BY <1>0, <2>1, <2>4, ScenarioFacts DEF Asks, Shape, Given, Role
  <2> HIDE DEF k
  <2>6. Knows(k)
    <3>1. Due(k) = "authorize"
      BY <2>3, <2>4, <2>5 DEF Due, Begins, Asks
    <3>2. QED BY <2>1, <2>5, <3>1, ScenarioFacts, RecordedMemos DEF Knows, Routes, NoTeam
  <2>7. Fresh(k)
    <3>1. k.todo = <<"authorize">> \o <<"find_target", "find_requester", "set_role">>
      BY <2>4, <2>5 DEF Asks
    <3>2. "update_role" \in DOMAIN Routes
      BY DEF Routes
    <3>3. QED BY <2>3, <2>5, <2>6, <3>1, <3>2, FreshRequest
  <2>8. /\ call' = [call EXCEPT ![c] = k]
        /\ UNCHANGED <<storeVars, userVars, scenario, invited, half, undropped>>
    BY <2>1 DEF Starts, k
  <2>9. QED BY <2>1, <2>2, <2>5, <2>7, <2>8 DEF Arrives, Accepting
<1>10. CASE LeaveTeam(c)
  <2> DEFINE plain(u, t) == InTeam("leave", u, t, <<"find_target", "delete_member">>)
  <2>1. PICK u \in Users, t \in Created : Starts(c, [plain(u, t) EXCEPT !.target = u])
    BY <1>10 DEF LeaveTeam
  <2>2. /\ Accepting(c, "leave")
    BY <1>10 DEF LeaveTeam
  <2> DEFINE k == [plain(u, t) EXCEPT !.target = u]
  <2>3. Begins("leave", <<"authorize">> \o <<"find_target", "delete_member">>, "authorize")
    BY Beginnings
  <2>4. Asks(plain(u, t), "leave", u, t, <<"authorize">> \o <<"find_target", "delete_member">>)
    <3>1. "leave" \in Operations /\ t \in Team
      BY DEF Operations, Routes, Created
    <3>2. <<"find_target", "delete_member">> \in Seq(Commands)
      BY DEF Commands
    <3>3. QED BY <3>1, <3>2, RequestedInTeam
  <2> HIDE DEF plain
  <2>5. /\ k \in InFlight /\ k.op = "leave" /\ k.user = u /\ k.team = t
        /\ k.todo = plain(u, t).todo
        /\ k.target = u
    BY <1>0, <2>1, <2>4, ScenarioFacts DEF Asks, Shape, Given, Role
  <2> HIDE DEF k
  <2>6. Knows(k)
    <3>1. Due(k) = "authorize"
      BY <2>3, <2>4, <2>5 DEF Due, Begins, Asks
    <3>2. QED BY <2>1, <2>5, <3>1, ScenarioFacts, RecordedMemos DEF Knows, Routes, NoTeam
  <2>7. Fresh(k)
    <3>1. k.todo = <<"authorize">> \o <<"find_target", "delete_member">>
      BY <2>4, <2>5 DEF Asks
    <3>2. "leave" \in DOMAIN Routes
      BY DEF Routes
    <3>3. QED BY <2>3, <2>5, <2>6, <3>1, <3>2, FreshRequest
  <2>8. /\ call' = [call EXCEPT ![c] = k]
        /\ UNCHANGED <<storeVars, userVars, scenario, invited, half, undropped>>
    BY <2>1 DEF Starts, k
  <2>9. QED BY <2>1, <2>2, <2>5, <2>7, <2>8 DEF Arrives, Accepting
<1>11. CASE CreateInvitation(c)
  <2> DEFINE plain(u, t) == InTeam("invite", u, t, InviteCommands)
  <2>1. PICK u \in Users, address \in scenario.addresses, t \in Created, role \in scenario.gives : Starts(c, [plain(u, t) EXCEPT !.address = address, !.role = role])
    BY <1>11 DEF CreateInvitation
  <2>2. /\ Accepting(c, "invite")
    BY <1>11 DEF CreateInvitation
  <2> DEFINE k == [plain(u, t) EXCEPT !.address = address, !.role = role]
  <2>3. Begins("invite", <<"authorize">> \o InviteCommands, "authorize")
    BY Beginnings
  <2>4. Asks(plain(u, t), "invite", u, t, <<"authorize">> \o InviteCommands)
    <3>1. "invite" \in Operations /\ t \in Team
      BY DEF Operations, Routes, Created
    <3>2. InviteCommands \in Seq(Commands)
      BY DEF Commands, InviteCommands
    <3>3. QED BY <3>1, <3>2, RequestedInTeam
  <2> HIDE DEF plain
  <2>5. /\ k \in InFlight /\ k.op = "invite" /\ k.user = u /\ k.team = t
        /\ k.todo = plain(u, t).todo
        /\ k.address = address /\ k.role = role
    BY <1>0, <2>1, <2>4, ScenarioFacts DEF Asks, Shape, Given, Role
  <2> HIDE DEF k
  <2>6. Knows(k)
    <3>1. Due(k) = "authorize"
      BY <2>3, <2>4, <2>5 DEF Due, Begins, Asks
    <3>2. QED BY <2>1, <2>5, <3>1, ScenarioFacts, RecordedMemos DEF Knows, Routes, NoTeam
  <2>7. Fresh(k)
    <3>1. k.todo = <<"authorize">> \o InviteCommands
      BY <2>4, <2>5 DEF Asks
    <3>2. "invite" \in DOMAIN Routes
      BY DEF Routes
    <3>3. QED BY <2>3, <2>5, <2>6, <3>1, <3>2, FreshRequest
  <2>8. /\ call' = [call EXCEPT ![c] = k]
        /\ UNCHANGED <<storeVars, userVars, scenario, invited, half, undropped>>
    BY <2>1 DEF Starts, k
  <2>9. QED BY <2>1, <2>2, <2>5, <2>7, <2>8 DEF Arrives, Accepting
<1>12. CASE ListTeamInvitations(c)
  <2> DEFINE plain(u, t) == InTeam("list_invitations", u, t, <<"find">>)
  <2>1. PICK u \in Users, t \in Created : Starts(c, plain(u, t))
    BY <1>12 DEF ListTeamInvitations
  <2>2. /\ Accepting(c, "list_invitations")
    BY <1>12 DEF ListTeamInvitations
  <2> DEFINE k == plain(u, t)
  <2>3. Begins("list_invitations", <<"authorize">> \o <<"find">>, "authorize")
    BY Beginnings
  <2>4. Asks(plain(u, t), "list_invitations", u, t, <<"authorize">> \o <<"find">>)
    <3>1. "list_invitations" \in Operations /\ t \in Team
      BY DEF Operations, Routes, Created
    <3>2. <<"find">> \in Seq(Commands)
      BY DEF Commands
    <3>3. QED BY <3>1, <3>2, RequestedInTeam
  <2> HIDE DEF plain
  <2>5. /\ k \in InFlight /\ k.op = "list_invitations" /\ k.user = u /\ k.team = t
        /\ k.todo = plain(u, t).todo
    BY <2>4 DEF Asks
  <2> HIDE DEF k
  <2>6. Knows(k)
    <3>1. Due(k) = "authorize"
      BY <2>3, <2>4, <2>5 DEF Due, Begins, Asks
    <3>2. QED BY <2>1, <2>5, <3>1, ScenarioFacts, RecordedMemos DEF Knows, Routes, NoTeam
  <2>7. Fresh(k)
    <3>1. k.todo = <<"authorize">> \o <<"find">>
      BY <2>4, <2>5 DEF Asks
    <3>2. "list_invitations" \in DOMAIN Routes
      BY DEF Routes
    <3>3. QED BY <2>3, <2>5, <2>6, <3>1, <3>2, FreshRequest
  <2>8. /\ call' = [call EXCEPT ![c] = k]
        /\ UNCHANGED <<storeVars, userVars, scenario, invited, half, undropped>>
    BY <2>1 DEF Starts, k
  <2>9. QED BY <2>1, <2>2, <2>5, <2>7, <2>8 DEF Arrives, Accepting
<1>13. CASE CancelInvitation(c)
  <2> DEFINE plain(u, t) == InTeam("cancel", u, t, <<"find_invitation", "delete_invitation">>)
  <2>1. PICK u \in Users, t \in Created, i \in {i \in Invitation : Invited(i)} : Starts(c, [plain(u, t) EXCEPT !.invitation = i])
    BY <1>13 DEF CancelInvitation
  <2>2. /\ Accepting(c, "cancel")
    BY <1>13 DEF CancelInvitation
  <2> DEFINE k == [plain(u, t) EXCEPT !.invitation = i]
  <2>3. Begins("cancel", <<"authorize">> \o <<"find_invitation", "delete_invitation">>, "authorize")
    BY Beginnings
  <2>4. Asks(plain(u, t), "cancel", u, t, <<"authorize">> \o <<"find_invitation", "delete_invitation">>)
    <3>1. "cancel" \in Operations /\ t \in Team
      BY DEF Operations, Routes, Created
    <3>2. <<"find_invitation", "delete_invitation">> \in Seq(Commands)
      BY DEF Commands
    <3>3. QED BY <3>1, <3>2, RequestedInTeam
  <2> HIDE DEF plain
  <2>5. /\ k \in InFlight /\ k.op = "cancel" /\ k.user = u /\ k.team = t
        /\ k.todo = plain(u, t).todo
        /\ k.invitation = i
    BY <1>0, <2>1, <2>4, ScenarioFacts DEF Asks, Shape, Given, Role
  <2> HIDE DEF k
  <2>6. Knows(k)
    <3>1. Due(k) = "authorize"
      BY <2>3, <2>4, <2>5 DEF Due, Begins, Asks
    <3>2. QED BY <2>1, <2>5, <3>1, ScenarioFacts, RecordedMemos DEF Knows, Routes, NoTeam
  <2>7. Fresh(k)
    <3>1. k.todo = <<"authorize">> \o <<"find_invitation", "delete_invitation">>
      BY <2>4, <2>5 DEF Asks
    <3>2. "cancel" \in DOMAIN Routes
      BY DEF Routes
    <3>3. QED BY <2>3, <2>5, <2>6, <3>1, <3>2, FreshRequest
  <2>8. /\ call' = [call EXCEPT ![c] = k]
        /\ UNCHANGED <<storeVars, userVars, scenario, invited, half, undropped>>
    BY <2>1 DEF Starts, k
  <2>9. QED BY <2>1, <2>2, <2>5, <2>7, <2>8 DEF Arrives, Accepting
<1>14. CASE ListMyInvitations(c)
  <2> DEFINE plain(u) == Request("my_invitations", u, <<"find_user", "find">>)
  <2>1. PICK u \in Users : Starts(c, plain(u))
    BY <1>14 DEF ListMyInvitations
  <2>2. /\ Accepting(c, "my_invitations")
    BY <1>14 DEF ListMyInvitations
  <2> DEFINE k == plain(u)
  <2>3. Begins("my_invitations", <<"find_user", "find">>, "find_user")
    BY Beginnings
  <2>4. Asks(plain(u), "my_invitations", u, NoTeam, <<"find_user", "find">>)
    <3>1. "my_invitations" \in Operations
      BY DEF Operations, Routes
    <3>2. <<"find_user", "find">> \in Seq(Commands)
      BY DEF Commands
    <3>3. QED BY <3>1, <3>2, Requested
  <2> HIDE DEF plain
  <2>5. /\ k \in InFlight /\ k.op = "my_invitations" /\ k.user = u /\ k.team = NoTeam
        /\ k.todo = plain(u).todo
    BY <2>4 DEF Asks
  <2> HIDE DEF k
  <2>6. Knows(k)
    <3>1. Due(k) = "find_user"
      BY <2>3, <2>4, <2>5 DEF Due, Begins, Asks
    <3>2. QED BY <2>1, <2>5, <3>1, ScenarioFacts, RecordedMemos DEF Knows, Routes, NoTeam
  <2>7. Fresh(k)
    <3>1. k.todo = <<"find_user", "find">>
      BY <2>4, <2>5 DEF Asks
    <3>2. "my_invitations" \notin DOMAIN Routes
      BY DEF Routes
    <3>3. QED BY <2>3, <2>5, <2>6, <3>1, <3>2, FreshRequest
  <2>8. /\ call' = [call EXCEPT ![c] = k]
        /\ UNCHANGED <<storeVars, userVars, scenario, invited, half, undropped>>
    BY <2>1 DEF Starts, k
  <2>9. QED BY <2>1, <2>2, <2>5, <2>7, <2>8 DEF Arrives, Accepting
<1>15. CASE AcceptInvitation(c)
  <2> DEFINE plain(u) == Request("accept", u, AcceptCommands)
  <2>1. PICK u \in Users, i \in {i \in Invitation : Invited(i)} : Starts(c, [plain(u) EXCEPT !.invitation = i])
    BY <1>15 DEF AcceptInvitation
  <2>2. /\ Accepting(c, "accept")
    BY <1>15 DEF AcceptInvitation
  <2> DEFINE k == [plain(u) EXCEPT !.invitation = i]
  <2>3. Begins("accept", AcceptCommands, "find_user")
    BY Beginnings
  <2>4. Asks(plain(u), "accept", u, NoTeam, AcceptCommands)
    <3>1. "accept" \in Operations
      BY DEF Operations, Routes
    <3>2. AcceptCommands \in Seq(Commands)
      BY DEF Commands, AcceptCommands
    <3>3. QED BY <3>1, <3>2, Requested
  <2> HIDE DEF plain
  <2>5. /\ k \in InFlight /\ k.op = "accept" /\ k.user = u /\ k.team = NoTeam
        /\ k.todo = plain(u).todo
        /\ k.invitation = i
    BY <1>0, <2>1, <2>4, ScenarioFacts DEF Asks, Shape, Given, Role
  <2> HIDE DEF k
  <2>6. Knows(k)
    <3>1. Due(k) = "find_user"
      BY <2>3, <2>4, <2>5 DEF Due, Begins, Asks
    <3>2. QED BY <2>1, <2>5, <3>1, ScenarioFacts, RecordedMemos DEF Knows, Routes, NoTeam
  <2>7. Fresh(k)
    <3>1. k.todo = AcceptCommands
      BY <2>4, <2>5 DEF Asks
    <3>2. "accept" \notin DOMAIN Routes
      BY DEF Routes
    <3>3. QED BY <2>3, <2>5, <2>6, <3>1, <3>2, FreshRequest
  <2>8. /\ call' = [call EXCEPT ![c] = k]
        /\ UNCHANGED <<storeVars, userVars, scenario, invited, half, undropped>>
    BY <2>1 DEF Starts, k
  <2>9. QED BY <2>1, <2>2, <2>5, <2>7, <2>8 DEF Arrives, Accepting
<1>16. CASE DeclineInvitation(c)
  <2> DEFINE plain(u) == Request("decline", u, <<"find_user", "find_invitation", "delete_invitation">>)
  <2>1. PICK u \in Users, i \in {i \in Invitation : Invited(i)} : Starts(c, [plain(u) EXCEPT !.invitation = i])
    BY <1>16 DEF DeclineInvitation
  <2>2. /\ Accepting(c, "decline")
    BY <1>16 DEF DeclineInvitation
  <2> DEFINE k == [plain(u) EXCEPT !.invitation = i]
  <2>3. Begins("decline", <<"find_user", "find_invitation", "delete_invitation">>, "find_user")
    BY Beginnings
  <2>4. Asks(plain(u), "decline", u, NoTeam, <<"find_user", "find_invitation", "delete_invitation">>)
    <3>1. "decline" \in Operations
      BY DEF Operations, Routes
    <3>2. <<"find_user", "find_invitation", "delete_invitation">> \in Seq(Commands)
      BY DEF Commands
    <3>3. QED BY <3>1, <3>2, Requested
  <2> HIDE DEF plain
  <2>5. /\ k \in InFlight /\ k.op = "decline" /\ k.user = u /\ k.team = NoTeam
        /\ k.todo = plain(u).todo
        /\ k.invitation = i
    BY <1>0, <2>1, <2>4, ScenarioFacts DEF Asks, Shape, Given, Role
  <2> HIDE DEF k
  <2>6. Knows(k)
    <3>1. Due(k) = "find_user"
      BY <2>3, <2>4, <2>5 DEF Due, Begins, Asks
    <3>2. QED BY <2>1, <2>5, <3>1, ScenarioFacts, RecordedMemos DEF Knows, Routes, NoTeam
  <2>7. Fresh(k)
    <3>1. k.todo = <<"find_user", "find_invitation", "delete_invitation">>
      BY <2>4, <2>5 DEF Asks
    <3>2. "decline" \notin DOMAIN Routes
      BY DEF Routes
    <3>3. QED BY <2>3, <2>5, <2>6, <3>1, <3>2, FreshRequest
  <2>8. /\ call' = [call EXCEPT ![c] = k]
        /\ UNCHANGED <<storeVars, userVars, scenario, invited, half, undropped>>
    BY <2>1 DEF Starts, k
  <2>9. QED BY <2>1, <2>2, <2>5, <2>7, <2>8 DEF Arrives, Accepting
<1>17. CASE CreateVoiceMemo(c)
  <2> DEFINE plain(u) == Request("create_own_memo", u, <<"insert_memo">>)
  <2>1. PICK u \in Users : Starts(c, plain(u))
    BY <1>17 DEF CreateVoiceMemo
  <2>2. /\ Accepting(c, "create_own_memo")
    BY <1>17 DEF CreateVoiceMemo
  <2> DEFINE k == plain(u)
  <2>3. Begins("create_own_memo", <<"insert_memo">>, "insert_memo")
    BY Beginnings
  <2>4. Asks(plain(u), "create_own_memo", u, NoTeam, <<"insert_memo">>)
    <3>1. "create_own_memo" \in Operations
      BY DEF Operations, Routes
    <3>2. <<"insert_memo">> \in Seq(Commands)
      BY DEF Commands
    <3>3. QED BY <3>1, <3>2, Requested
  <2> HIDE DEF plain
  <2>5. /\ k \in InFlight /\ k.op = "create_own_memo" /\ k.user = u /\ k.team = NoTeam
        /\ k.todo = plain(u).todo
    BY <2>4 DEF Asks
  <2> HIDE DEF k
  <2>6. Knows(k)
    <3>1. Due(k) = "insert_memo"
      BY <2>3, <2>4, <2>5 DEF Due, Begins, Asks
    <3>2. QED BY <2>1, <2>5, <3>1, ScenarioFacts, RecordedMemos DEF Knows, Routes, NoTeam
  <2>7. Fresh(k)
    <3>1. k.todo = <<"insert_memo">>
      BY <2>4, <2>5 DEF Asks
    <3>2. "create_own_memo" \notin DOMAIN Routes
      BY DEF Routes
    <3>3. QED BY <2>3, <2>5, <2>6, <3>1, <3>2, FreshRequest
  <2>8. /\ call' = [call EXCEPT ![c] = k]
        /\ UNCHANGED <<storeVars, userVars, scenario, invited, half, undropped>>
    BY <2>1 DEF Starts, k
  <2>9. QED BY <2>1, <2>2, <2>5, <2>7, <2>8 DEF Arrives, Accepting
<1>18. CASE CreateTeamVoiceMemo(c)
  <2> DEFINE plain(u, t) == InTeam("create_memo", u, t, <<"insert_memo">>)
  <2>1. PICK u \in Users, t \in Created : Starts(c, plain(u, t))
    BY <1>18 DEF CreateTeamVoiceMemo
  <2>2. /\ Accepting(c, "create_memo")
    BY <1>18 DEF CreateTeamVoiceMemo
  <2> DEFINE k == plain(u, t)
  <2>3. Begins("create_memo", <<"authorize">> \o <<"insert_memo">>, "authorize")
    BY Beginnings
  <2>4. Asks(plain(u, t), "create_memo", u, t, <<"authorize">> \o <<"insert_memo">>)
    <3>1. "create_memo" \in Operations /\ t \in Team
      BY DEF Operations, Routes, Created
    <3>2. <<"insert_memo">> \in Seq(Commands)
      BY DEF Commands
    <3>3. QED BY <3>1, <3>2, RequestedInTeam
  <2> HIDE DEF plain
  <2>5. /\ k \in InFlight /\ k.op = "create_memo" /\ k.user = u /\ k.team = t
        /\ k.todo = plain(u, t).todo
    BY <2>4 DEF Asks
  <2> HIDE DEF k
  <2>6. Knows(k)
    <3>1. Due(k) = "authorize"
      BY <2>3, <2>4, <2>5 DEF Due, Begins, Asks
    <3>2. QED BY <2>1, <2>5, <3>1, ScenarioFacts, RecordedMemos DEF Knows, Routes, NoTeam
  <2>7. Fresh(k)
    <3>1. k.todo = <<"authorize">> \o <<"insert_memo">>
      BY <2>4, <2>5 DEF Asks
    <3>2. "create_memo" \in DOMAIN Routes
      BY DEF Routes
    <3>3. QED BY <2>3, <2>5, <2>6, <3>1, <3>2, FreshRequest
  <2>8. /\ call' = [call EXCEPT ![c] = k]
        /\ UNCHANGED <<storeVars, userVars, scenario, invited, half, undropped>>
    BY <2>1 DEF Starts, k
  <2>9. QED BY <2>1, <2>2, <2>5, <2>7, <2>8 DEF Arrives, Accepting
<1>19. CASE ListByUserID(c)
  <2> DEFINE plain(u) == Request("list_own_memos", u, <<"count", "find">>)
  <2>1. PICK u \in Users, p \in PageRequest : Starts(c, Page(plain(u), p))
    BY <1>19 DEF ListByUserID
  <2>2. /\ Accepting(c, "list_own_memos")
    BY <1>19 DEF ListByUserID
  <2> DEFINE k == Page(plain(u), p)
  <2>3. Begins("list_own_memos", <<"count", "find">>, "count")
    BY Beginnings
  <2>4. Asks(plain(u), "list_own_memos", u, NoTeam, <<"count", "find">>)
    <3>1. "list_own_memos" \in Operations
      BY DEF Operations, Routes
    <3>2. <<"count", "find">> \in Seq(Commands)
      BY DEF Commands
    <3>3. QED BY <3>1, <3>2, Requested
  <2> HIDE DEF plain
  <2>5. /\ k \in InFlight /\ k.op = "list_own_memos" /\ k.user = u /\ k.team = NoTeam
        /\ k.todo = plain(u).todo
        /\ k.page \in Nat \ {0} /\ k.limit \in Nat \ {0}
    BY <2>1, <2>4, Paged DEF Asks
  <2> HIDE DEF k
  <2>6. Knows(k)
    <3>1. Due(k) = "count"
      BY <2>3, <2>4, <2>5 DEF Due, Begins, Asks
    <3>2. QED BY <2>1, <2>5, <3>1, ScenarioFacts, RecordedMemos DEF Knows, Routes, NoTeam
  <2>7. Fresh(k)
    <3>1. k.todo = <<"count", "find">>
      BY <2>4, <2>5 DEF Asks
    <3>2. "list_own_memos" \notin DOMAIN Routes
      BY DEF Routes
    <3>3. QED BY <2>3, <2>5, <2>6, <3>1, <3>2, FreshRequest
  <2>8. /\ call' = [call EXCEPT ![c] = k]
        /\ UNCHANGED <<storeVars, userVars, scenario, invited, half, undropped>>
    BY <2>1 DEF Starts, k
  <2>9. QED BY <2>1, <2>2, <2>5, <2>7, <2>8 DEF Arrives, Accepting
<1>20. CASE ListByTeamID(c)
  <2> DEFINE plain(u, t) == InTeam("list_memos", u, t, <<"count", "find">>)
  <2>1. PICK u \in Users, t \in Created, p \in PageRequest : Starts(c, Page(plain(u, t), p))
    BY <1>20 DEF ListByTeamID
  <2>2. /\ Accepting(c, "list_memos")
    BY <1>20 DEF ListByTeamID
  <2> DEFINE k == Page(plain(u, t), p)
  <2>3. Begins("list_memos", <<"authorize">> \o <<"count", "find">>, "authorize")
    BY Beginnings
  <2>4. Asks(plain(u, t), "list_memos", u, t, <<"authorize">> \o <<"count", "find">>)
    <3>1. "list_memos" \in Operations /\ t \in Team
      BY DEF Operations, Routes, Created
    <3>2. <<"count", "find">> \in Seq(Commands)
      BY DEF Commands
    <3>3. QED BY <3>1, <3>2, RequestedInTeam
  <2> HIDE DEF plain
  <2>5. /\ k \in InFlight /\ k.op = "list_memos" /\ k.user = u /\ k.team = t
        /\ k.todo = plain(u, t).todo
        /\ k.page \in Nat \ {0} /\ k.limit \in Nat \ {0}
    BY <2>1, <2>4, Paged DEF Asks
  <2> HIDE DEF k
  <2>6. Knows(k)
    <3>1. Due(k) = "authorize"
      BY <2>3, <2>4, <2>5 DEF Due, Begins, Asks
    <3>2. QED BY <2>1, <2>5, <3>1, ScenarioFacts, RecordedMemos DEF Knows, Routes, NoTeam
  <2>7. Fresh(k)
    <3>1. k.todo = <<"authorize">> \o <<"count", "find">>
      BY <2>4, <2>5 DEF Asks
    <3>2. "list_memos" \in DOMAIN Routes
      BY DEF Routes
    <3>3. QED BY <2>3, <2>5, <2>6, <3>1, <3>2, FreshRequest
  <2>8. /\ call' = [call EXCEPT ![c] = k]
        /\ UNCHANGED <<storeVars, userVars, scenario, invited, half, undropped>>
    BY <2>1 DEF Starts, k
  <2>9. QED BY <2>1, <2>2, <2>5, <2>7, <2>8 DEF Arrives, Accepting
<1>21. CASE GetVoiceMemo(c)
  <2> DEFINE plain(u, t) == InTeam("get_memo", u, t, <<"find_memo">>)
  <2>1. PICK u \in Users, t \in Created, m \in Recorded : Starts(c, [plain(u, t) EXCEPT !.memo = m])
    BY <1>21 DEF GetVoiceMemo
  <2>2. /\ Accepting(c, "get_memo")
    BY <1>21 DEF GetVoiceMemo
  <2> DEFINE k == [plain(u, t) EXCEPT !.memo = m]
  <2>3. Begins("get_memo", <<"authorize">> \o <<"find_memo">>, "authorize")
    BY Beginnings
  <2>4. Asks(plain(u, t), "get_memo", u, t, <<"authorize">> \o <<"find_memo">>)
    <3>1. "get_memo" \in Operations /\ t \in Team
      BY DEF Operations, Routes, Created
    <3>2. <<"find_memo">> \in Seq(Commands)
      BY DEF Commands
    <3>3. QED BY <3>1, <3>2, RequestedInTeam
  <2> HIDE DEF plain
  <2>5. /\ k \in InFlight /\ k.op = "get_memo" /\ k.user = u /\ k.team = t
        /\ k.todo = plain(u, t).todo
        /\ k.memo = m
    BY <1>0, <2>1, <2>4, RecordedMemos DEF Asks, Shape, Given, Role
  <2> HIDE DEF k
  <2>6. Knows(k)
    <3>1. Due(k) = "authorize"
      BY <2>3, <2>4, <2>5 DEF Due, Begins, Asks
    <3>2. QED BY <2>1, <2>5, <3>1, ScenarioFacts, RecordedMemos DEF Knows, Routes, NoTeam
  <2>7. Fresh(k)
    <3>1. k.todo = <<"authorize">> \o <<"find_memo">>
      BY <2>4, <2>5 DEF Asks
    <3>2. "get_memo" \in DOMAIN Routes
      BY DEF Routes
    <3>3. QED BY <2>3, <2>5, <2>6, <3>1, <3>2, FreshRequest
  <2>8. /\ call' = [call EXCEPT ![c] = k]
        /\ UNCHANGED <<storeVars, userVars, scenario, invited, half, undropped>>
    BY <2>1 DEF Starts, k
  <2>9. QED BY <2>1, <2>2, <2>5, <2>7, <2>8 DEF Arrives, Accepting
<1>22. CASE DeleteTeamVoiceMemo(c)
  <2> DEFINE plain(u, t) == InTeam("delete_memo", u, t, <<"delete_memo">>)
  <2>1. PICK u \in Users, t \in Created, m \in Recorded : Starts(c, [plain(u, t) EXCEPT !.memo = m])
    BY <1>22 DEF DeleteTeamVoiceMemo
  <2>2. /\ Accepting(c, "delete_memo")
    BY <1>22 DEF DeleteTeamVoiceMemo
  <2> DEFINE k == [plain(u, t) EXCEPT !.memo = m]
  <2>3. Begins("delete_memo", <<"authorize">> \o <<"delete_memo">>, "authorize")
    BY Beginnings
  <2>4. Asks(plain(u, t), "delete_memo", u, t, <<"authorize">> \o <<"delete_memo">>)
    <3>1. "delete_memo" \in Operations /\ t \in Team
      BY DEF Operations, Routes, Created
    <3>2. <<"delete_memo">> \in Seq(Commands)
      BY DEF Commands
    <3>3. QED BY <3>1, <3>2, RequestedInTeam
  <2> HIDE DEF plain
  <2>5. /\ k \in InFlight /\ k.op = "delete_memo" /\ k.user = u /\ k.team = t
        /\ k.todo = plain(u, t).todo
        /\ k.memo = m
    BY <1>0, <2>1, <2>4, RecordedMemos DEF Asks, Shape, Given, Role
  <2> HIDE DEF k
  <2>6. Knows(k)
    <3>1. Due(k) = "authorize"
      BY <2>3, <2>4, <2>5 DEF Due, Begins, Asks
    <3>2. QED BY <2>1, <2>5, <3>1, ScenarioFacts, RecordedMemos DEF Knows, Routes, NoTeam
  <2>7. Fresh(k)
    <3>1. k.todo = <<"authorize">> \o <<"delete_memo">>
      BY <2>4, <2>5 DEF Asks
    <3>2. "delete_memo" \in DOMAIN Routes
      BY DEF Routes
    <3>3. QED BY <2>3, <2>5, <2>6, <3>1, <3>2, FreshRequest
  <2>8. /\ call' = [call EXCEPT ![c] = k]
        /\ UNCHANGED <<storeVars, userVars, scenario, invited, half, undropped>>
    BY <2>1 DEF Starts, k
  <2>9. QED BY <2>1, <2>2, <2>5, <2>7, <2>8 DEF Arrives, Accepting
<1>23. CASE DeleteVoiceMemo(c)
  <2> DEFINE plain(u) == Request("delete_own_memo", u, <<"delete_memo">>)
  <2>1. PICK u \in Users, m \in Recorded : Starts(c, [plain(u) EXCEPT !.memo = m])
    BY <1>23 DEF DeleteVoiceMemo
  <2>2. /\ Accepting(c, "delete_own_memo")
    BY <1>23 DEF DeleteVoiceMemo
  <2> DEFINE k == [plain(u) EXCEPT !.memo = m]
  <2>3. Begins("delete_own_memo", <<"delete_memo">>, "delete_memo")
    BY Beginnings
  <2>4. Asks(plain(u), "delete_own_memo", u, NoTeam, <<"delete_memo">>)
    <3>1. "delete_own_memo" \in Operations
      BY DEF Operations, Routes
    <3>2. <<"delete_memo">> \in Seq(Commands)
      BY DEF Commands
    <3>3. QED BY <3>1, <3>2, Requested
  <2> HIDE DEF plain
  <2>5. /\ k \in InFlight /\ k.op = "delete_own_memo" /\ k.user = u /\ k.team = NoTeam
        /\ k.todo = plain(u).todo
        /\ k.memo = m
    BY <1>0, <2>1, <2>4, RecordedMemos DEF Asks, Shape, Given, Role
  <2> HIDE DEF k
  <2>6. Knows(k)
    <3>1. Due(k) = "delete_memo"
      BY <2>3, <2>4, <2>5 DEF Due, Begins, Asks
    <3>2. QED BY <2>1, <2>5, <3>1, ScenarioFacts, RecordedMemos DEF Knows, Routes, NoTeam
  <2>7. Fresh(k)
    <3>1. k.todo = <<"delete_memo">>
      BY <2>4, <2>5 DEF Asks
    <3>2. "delete_own_memo" \notin DOMAIN Routes
      BY DEF Routes
    <3>3. QED BY <2>3, <2>5, <2>6, <3>1, <3>2, FreshRequest
  <2>8. /\ call' = [call EXCEPT ![c] = k]
        /\ UNCHANGED <<storeVars, userVars, scenario, invited, half, undropped>>
    BY <2>1 DEF Starts, k
  <2>9. QED BY <2>1, <2>2, <2>5, <2>7, <2>8 DEF Arrives, Accepting
<1>24. QED BY <1>1, <1>2, <1>3, <1>4, <1>5, <1>6, <1>7, <1>8, <1>9, <1>10, <1>11, <1>12, <1>13, <1>14, <1>15, <1>16, <1>17, <1>18, <1>19, <1>20, <1>21, <1>22, <1>23 DEF RequestArrives

-------------------------------------------------------------------------------
(* Commands that read.                                                     *)

LEMMA Sender ==
    ASSUME TypeOK, NEW c \in Call, ~Idle(c)
    PROVE  call[c] \in InFlight
BY DEF TypeOK, Idle, NoCall

LEMMA Sending ==
    ASSUME TypeOK, NEW c \in Call, NEW command, Sends(c, command)
    PROVE  /\ call[c] \in InFlight /\ ~Idle(c) /\ call[c].todo /= <<>>
           /\ Due(call[c]) = command
BY Sender DEF Sends, Due

LEMMA CountsAreNumbers ==
    ASSUME NEW t PROVE Cardinality(Members(t)) \in Nat
<1>1. Members(t) \in SUBSET User
  BY DEF Members
<1>2. QED BY <1>1, FiniteAssumption, FS_Subset, FS_CardinalityType

\* The request goes on, or ends, and knows what it knew.
GoesOn(n, k) == Same(n, k) /\ n.refused = k.refused /\ n.todo = Tail(k.todo)
Stops(n, k) == Same(n, k) /\ n.refused = k.refused /\ n.todo = <<>>

LEMMA CheckedGoesOn ==
    ASSUME NEW k \in InFlight, k.todo /= <<>>, NEW code \in Codes
    PROVE  /\ code = "ok" => GoesOn(Checked(k, code), k)
           /\ code /= "ok" => Stops(Checked(k, code), k)
BY Verdicts DEF GoesOn, Stops

\* Reads that end the request or let it go on as it is.
PlainReads ==
    {"authorize", "count_owned", "find_slug", "find_requester", "find_member", "find_pending",
     "count_members", "count_pending", "find_memo", "find_deleted_memo", "count", "find"}

MayPerform(k) == roles[k.team][k.user] \in rolePermissions[Routes[k.op]]

PlainOutcome(c) ==
    /\ call[c] \in InFlight /\ ~Idle(c) /\ call[c].todo /= <<>>
    /\ Due(call[c]) \in PlainReads
    /\ \E n \in InFlight :
         /\ Reads(c, n)
         /\ \/ Stops(n, call[c])
            \/ /\ GoesOn(n, call[c])
               /\ Due(call[c]) = "authorize" => MayPerform(call[c])

\* What a read notes for the answer.
LEMMA Noted ==
    ASSUME NEW k \in InFlight
    PROVE  /\ Same(k, k)
           /\ \A x \in Nat : LET r == [k EXCEPT !.total = x]
                             IN  /\ r \in InFlight /\ Same(r, k) /\ r.refused = k.refused
                                 /\ r.todo = k.todo
           /\ \A x \in Nat, y \in Seq(Nat) :
                LET r == [k EXCEPT !.items = y, !.total = x]
                IN  r \in InFlight /\ Same(r, k) /\ r.refused = k.refused /\ r.todo = k.todo
           /\ \A y \in SUBSET (User \cup Invitation) :
                LET r == [k EXCEPT !.shown = y]
                IN  r \in InFlight /\ Same(r, k) /\ r.refused = k.refused /\ r.todo = k.todo
<1> DEFINE Numbers == Nat
           Ids == Seq(Nat)
           Sets == SUBSET (User \cup Invitation)
<1>1. InFlight =
        [op : Operations, todo : Seq(Commands), user : User, team : Team \cup {NoTeam},
         target : User \cup {NoUser}, address : Address \cup {NoAddress},
         owner : User \cup {NoUser}, slug : Slug \cup {NoSlug},
         role : Role \cup {"none"}, invitation : Invitation \cup {NoInvitation},
         memo : Memo \cup {NoMemo}, page : Int, limit : Int, total : Numbers,
         items : Ids, shown : Sets, code : Codes, wrote : BOOLEAN, refused : BOOLEAN]
  BY DEF InFlight
<1> HIDE DEF Numbers, Ids, Sets
<1>2. Same(k, k)
  BY DEF Same
<1>3. ASSUME NEW x \in Numbers
      PROVE  LET r == [k EXCEPT !.total = x]
             IN  r \in InFlight /\ Same(r, k) /\ r.refused = k.refused /\ r.todo = k.todo
  BY <1>1 DEF Same
<1>4. ASSUME NEW x \in Numbers, NEW y \in Ids
      PROVE  LET r == [k EXCEPT !.items = y, !.total = x]
             IN  r \in InFlight /\ Same(r, k) /\ r.refused = k.refused /\ r.todo = k.todo
  BY <1>1 DEF Same
<1>5. ASSUME NEW y \in Sets
      PROVE  LET r == [k EXCEPT !.shown = y]
             IN  r \in InFlight /\ Same(r, k) /\ r.refused = k.refused /\ r.todo = k.todo
  BY <1>1 DEF Same
<1>6. QED BY <1>2, <1>3, <1>4, <1>5 DEF Numbers, Ids, Sets

\* A command that is due is one of the operation's.
LEMMA DueInOrder ==
    ASSUME NEW k \in InFlight, Sound(k), k.todo /= <<>>
    PROVE  /\ \E b : <<Due(k), b>> \in Order[k.op]
           /\ k.op \in Operations /\ Due(k) \in Commands
BY PathAdvances DEF Sound, Due, InFlight

LEMMA PlainReading ==
    ASSUME TypeOK, NEW c \in Call, Sound(call[c]),
           ReadStep(c), ~FindTeam(c), ~FindTarget(c), ~FindInvitation(c),
           ~FindUser(c), ~FindInvitee(c)
    PROVE  PlainOutcome(c)
<1> DEFINE k == call[c]
<1>1. ASSUME NEW command \in PlainReads, Sends(c, command), NEW code \in Codes,
             Reads(c, Checked(k, code)),
             command = "authorize" /\ code = "ok" => MayPerform(k)
      PROVE  PlainOutcome(c)
  <2>1. k \in InFlight /\ ~Idle(c) /\ k.todo /= <<>> /\ Due(k) = command
    BY <1>1, Sending
  <2> HIDE DEF k
  <2>2. CASE code = "ok"
    <3>1. GoesOn(Checked(k, code), k)
      BY <2>1, <2>2, CheckedGoesOn
    <3>2. Checked(k, code) \in InFlight
      BY <3>1 DEF GoesOn, Same
    <3>3. QED BY <1>1, <2>1, <2>2, <3>1, <3>2 DEF PlainOutcome, k
  <2>3. CASE code /= "ok"
    <3>1. Stops(Checked(k, code), k)
      BY <2>1, <2>3, CheckedGoesOn
    <3>2. Checked(k, code) \in InFlight
      BY <3>1 DEF Stops, Same
    <3>3. QED BY <1>1, <2>1, <3>1, <3>2 DEF PlainOutcome, k
  <2>4. QED BY <2>2, <2>3
<1>2. ASSUME NEW command \in PlainReads \ {"authorize"}, Sends(c, command),
             NEW r \in InFlight, Same(r, k), r.refused = k.refused, r.todo = k.todo,
             NEW code \in Codes, Reads(c, Checked(r, code))
      PROVE  PlainOutcome(c)
  <2>1. k \in InFlight /\ ~Idle(c) /\ k.todo /= <<>> /\ Due(k) = command
    BY <1>2, Sending
  <2> HIDE DEF k
  <2>2. CASE code = "ok"
    <3>1. GoesOn(Checked(r, code), r)
      BY <1>2, <2>1, <2>2, CheckedGoesOn
    <3>2. GoesOn(Checked(r, code), k) /\ Checked(r, code) \in InFlight
      BY <1>2, <3>1 DEF GoesOn, Same
    <3>3. QED BY <1>2, <2>1, <3>2 DEF PlainOutcome, k
  <2>3. CASE code /= "ok"
    <3>1. Stops(Checked(r, code), r)
      BY <1>2, <2>1, <2>3, CheckedGoesOn
    <3>2. Stops(Checked(r, code), k) /\ Checked(r, code) \in InFlight
      BY <1>2, <3>1 DEF Stops, Same
    <3>3. QED BY <1>2, <2>1, <3>2 DEF PlainOutcome, k
  <2>4. QED BY <2>2, <2>3
<1>3. ASSUME NEW command \in PlainReads \ {"authorize"}, Sends(c, command),
             NEW r \in InFlight, Same(r, k), r.refused = k.refused, r.todo = k.todo,
             Reads(c, Proceeds(r))
      PROVE  PlainOutcome(c)
  <2>1. k \in InFlight /\ ~Idle(c) /\ k.todo /= <<>> /\ Due(k) = command
    BY <1>3, Sending
  <2> HIDE DEF k
  <2>2. GoesOn(Proceeds(r), r)
    BY <1>3, <2>1, Outcomes DEF GoesOn
  <2>3. GoesOn(Proceeds(r), k) /\ Proceeds(r) \in InFlight
    BY <1>3, <2>2 DEF GoesOn, Same
  <2>4. QED BY <1>3, <2>1, <2>3 DEF PlainOutcome, k
<1>4. /\ {"ok", "forbidden", "limit", "slug_taken", "insufficient", "cannot_remove_self",
          "already_member", "pending", "seats", "memo_not_found", "memo_unauthorized"} \subseteq Codes
  BY DEF Codes
<1>5. ASSUME ~Idle(c)
      PROVE  /\ k \in InFlight /\ Same(k, k)
             /\ \A x \in Nat : LET r == [k EXCEPT !.total = x]
                               IN  /\ r \in InFlight /\ Same(r, k) /\ r.refused = k.refused
                                   /\ r.todo = k.todo
             /\ \A x \in Nat, y \in Seq(Nat) :
                  LET r == [k EXCEPT !.items = y, !.total = x]
                  IN  /\ r \in InFlight /\ Same(r, k) /\ r.refused = k.refused
                      /\ r.todo = k.todo
             /\ \A y \in SUBSET (User \cup Invitation) :
                  LET r == [k EXCEPT !.shown = y]
                  IN  /\ r \in InFlight /\ Same(r, k) /\ r.refused = k.refused
                      /\ r.todo = k.todo
  BY <1>5, Sender, Noted
<1>6. CASE Authorize(c)
  <2> DEFINE code == IF MayPerform(k) THEN "ok" ELSE "forbidden"
  <2>1. Sends(c, "authorize") /\ Reads(c, Checked(k, code))
    BY <1>6 DEF Authorize, MayPerform
  <2>2. code \in Codes /\ (code = "ok" => MayPerform(k))
    BY <1>4
  <2>3. "authorize" \in PlainReads
    BY DEF PlainReads
  <2> HIDE DEF code
  <2>4. QED BY <1>1, <2>1, <2>2, <2>3
<1>7. CASE CountOwned(c)
  <2>1. /\ Sends(c, "count_owned")
        /\ Reads(c, Checked(k, IF TeamsOwnedBy(k.user) = {} THEN "ok" ELSE "limit"))
    BY <1>7 DEF CountOwned
  <2>2. QED BY <1>1, <1>4, <2>1 DEF PlainReads
<1>8. CASE FindSlug(c)
  <2>1. /\ Sends(c, "find_slug")
        /\ Reads(c, Checked(k, IF FindBySlug(k.slug) \ {k.team} = {}
                                 THEN "ok" ELSE "slug_taken"))
    BY <1>8 DEF FindSlug
  <2>2. QED BY <1>1, <1>4, <2>1 DEF PlainReads
<1>9. CASE FindRequester(c)
  <2> DEFINE code == CASE roles[k.team][k.user] /= "owner" -> "insufficient"
                       [] roles[k.team][k.user] = "owner" /\ k.op = "remove_member"
                          /\ k.target = k.user -> "cannot_remove_self"
                       [] OTHER -> "ok"
  <2>1. Sends(c, "find_requester") /\ Reads(c, Checked(k, code))
    BY <1>9 DEF FindRequester
  <2>2. code \in Codes
    BY <1>4
  <2> HIDE DEF code
  <2>3. QED BY <1>1, <2>1, <2>2 DEF PlainReads
<1>10. CASE FindMember(c)
  <2>1. /\ Sends(c, "find_member")
        /\ Reads(c, Checked(k, IF IsMember(k.team, k.target) THEN "already_member" ELSE "ok"))
    BY <1>10 DEF FindMember
  <2>2. QED BY <1>1, <1>4, <2>1 DEF PlainReads
<1>11. CASE FindPending(c)
  <2>1. /\ Sends(c, "find_pending")
        /\ Reads(c, Checked(k, IF PendingFor(k.team, k.address) = {} THEN "ok" ELSE "pending"))
    BY <1>11 DEF FindPending
  <2>2. QED BY <1>1, <1>4, <2>1 DEF PlainReads
<1>12. CASE CountMembers(c)
  <2> DEFINE count == Cardinality(Members(k.team))
  <2>1. /\ Sends(c, "count_members") /\ "count_members" \in PlainReads \ {"authorize"}
        /\ count \in Nat
    BY <1>12, CountsAreNumbers DEF CountMembers, PlainReads
  <2>2. ~Idle(c)
    BY <2>1 DEF Sends
  <2>3. CASE k.op = "accept"
    <3>1. Reads(c, Checked(k, IF count >= Seats THEN "seats" ELSE "ok"))
      BY <1>12, <2>3 DEF CountMembers
    <3>2. QED BY <1>1, <1>4, <2>1, <3>1
  <2>4. CASE k.op /= "accept"
    <3> DEFINE r == [k EXCEPT !.total = count]
    <3>1. Reads(c, Proceeds(r))
      BY <1>12, <2>4 DEF CountMembers
    <3>2. r \in InFlight /\ Same(r, k) /\ r.refused = k.refused /\ r.todo = k.todo
      BY <1>5, <2>1, <2>2
    <3> HIDE DEF r
    <3>3. QED BY <1>3, <2>1, <3>1, <3>2
  <2>5. QED BY <2>3, <2>4
<1>13. CASE CountPending(c)
  <2> DEFINE r == [k EXCEPT !.total = 0]
             code == IF k.total + Cardinality(PendingOf(k.team)) >= Seats THEN "seats" ELSE "ok"
  <2>1. /\ Sends(c, "count_pending") /\ "count_pending" \in PlainReads \ {"authorize"}
        /\ Reads(c, Checked(r, code))
    BY <1>13 DEF CountPending, PlainReads
  <2>2. ~Idle(c)
    BY <2>1 DEF Sends
  <2>3. r \in InFlight /\ Same(r, k) /\ r.refused = k.refused /\ r.todo = k.todo
    BY <1>5, <2>2
  <2>4. code \in Codes
    BY <1>4
  <2> HIDE DEF r, code
  <2>5. QED BY <1>2, <2>1, <2>3, <2>4
<1>14. CASE FindMemo(c)
  <2>1. /\ Sends(c, "find_memo")
        /\ Reads(c, Checked(k, IF MatchesTeam(k.memo, k.team) THEN "ok" ELSE "memo_not_found"))
    BY <1>14 DEF FindMemo
  <2>2. QED BY <1>1, <1>4, <2>1 DEF PlainReads
<1>15. CASE FindDeletedMemo(c)
  <2>1. Sends(c, "find_deleted_memo") /\ Reads(c, Checked(k, DeletedVerdict(k)))
    BY <1>15 DEF FindDeletedMemo
  <2>2. DeletedVerdict(k) \in Codes
    BY <1>4 DEF DeletedVerdict
  <2>3. QED BY <1>1, <2>1, <2>2 DEF PlainReads
<1>16. CASE Count(c)
  <2> DEFINE r == [k EXCEPT !.total = Len(Listing(k))]
  <2>1. /\ Sends(c, "count") /\ "count" \in PlainReads \ {"authorize"} /\ Reads(c, Proceeds(r))
    BY <1>16 DEF Count, PlainReads
  <2>2. /\ ~Idle(c) /\ k \in InFlight
        /\ k.op \in {"list_teams", "list_memos", "list_own_memos"}
    <3>1. ~Idle(c) /\ k \in InFlight /\ k.todo /= <<>> /\ Due(k) = "count"
      BY <2>1, Sending
    <3>2. PICK b : <<Due(k), b>> \in Order[k.op] /\ k.op \in Operations
      BY <3>1, DueInOrder
    <3>3. QED BY <3>1, <3>2, Roster
  <2>3. Len(Listing(k)) \in Nat
    BY <2>2, Listed, LenProperties DEF TypeOK
  <2>4. r \in InFlight /\ Same(r, k) /\ r.refused = k.refused /\ r.todo = k.todo
    BY <1>5, <2>2, <2>3
  <2> HIDE DEF r
  <2>5. QED BY <1>3, <2>1, <2>4
<1>17. CASE Find(c)
  <2>1. Sends(c, "find") /\ "find" \in PlainReads \ {"authorize"}
    BY <1>17 DEF Find, PlainReads
  <2>2. ~Idle(c) /\ k \in InFlight /\ k.todo /= <<>> /\ Due(k) = "find"
    BY <2>1, Sending
  <2>3. k.op \in {"list_teams", "list_memos", "list_own_memos", "list_members",
                  "list_invitations", "my_invitations"}
    <3>1. PICK b : <<Due(k), b>> \in Order[k.op] /\ k.op \in Operations
      BY <2>2, DueInOrder
    <3>2. QED BY <2>2, <3>1, Roster
  <2>4. CASE k.op \in {"list_teams", "list_memos", "list_own_memos"}
    <3> DEFINE items == PageOf(Listing(k), k.page, k.limit)
               total == TotalPages(k.total, k.limit)
               r == [k EXCEPT !.items = items, !.total = total]
    <3>1. Reads(c, Proceeds(r))
      BY <1>17, <2>4 DEF Find
    <3>2. k.page \in Nat \ {0} /\ k.limit \in Nat \ {0} /\ k.total \in Nat
      BY <2>2, <2>4 DEF Sound, Knows, InFlight
    <3>3. items \in Seq(Nat)
      BY <2>2, <2>4, <3>2, Listed, PageIsPart DEF TypeOK
    <3>4. total \in Nat
      BY <3>2 DEF TotalPages
    <3> HIDE DEF items, total
    <3>5. r \in InFlight /\ Same(r, k) /\ r.refused = k.refused /\ r.todo = k.todo
      BY <1>5, <2>2, <3>3, <3>4
    <3> HIDE DEF r
    <3>6. QED BY <1>3, <2>1, <3>1, <3>5
  <2>5. CASE k.op \in {"list_members", "list_invitations", "my_invitations"}
    <3> DEFINE shown == CASE k.op = "list_members" -> Members(k.team)
                          [] k.op = "list_invitations" -> PendingOf(k.team)
                          [] k.op = "my_invitations" -> PendingTo(k.address)
               r == [k EXCEPT !.shown = shown]
    <3>1. Reads(c, Proceeds(r))
      BY <1>17, <2>5 DEF Find
    <3>2. shown \in SUBSET (User \cup Invitation)
      BY <2>5 DEF Members, PendingOf, PendingTo
    <3> HIDE DEF shown
    <3>3. r \in InFlight /\ Same(r, k) /\ r.refused = k.refused /\ r.todo = k.todo
      BY <1>5, <2>2, <3>2
    <3> HIDE DEF r
    <3>4. QED BY <1>3, <2>1, <3>1, <3>3
  <2>6. QED BY <2>3, <2>4, <2>5
<1>18. QED
  BY <1>6, <1>7, <1>8, <1>9, <1>10, <1>11, <1>12, <1>13, <1>14, <1>15, <1>16, <1>17
     DEF ReadStep

LEMMA DocumentsTyped ==
    ASSUME TypeOK, NEW t \in Team
    PROVE  /\ t \in Created <=> teams[t].state /= "none"
           /\ t \in Created => teams[t].owner \in User /\ teams[t].slug \in Slug
           /\ t \in Created => teams[t].state \in {"live", "deleted"}
           /\ LiveTeam(t) => t \in Created
           /\ teams[t].slug \in Slug \cup {NoSlug} /\ teams[t].owner \in User \cup {NoUser}
           /\ t \notin Created => teams[t].slug = NoSlug
BY DEF TypeOK, StoreTypeOK, TeamDocument, NotCreated, Created, LiveTeam

\* The team of a request, read by it.
NotesTeam(n, k) ==
    /\ n \in InFlight /\ n.op = k.op /\ n.user = k.user /\ n.team = k.team
    /\ n.target = k.target /\ n.address = k.address /\ n.role = k.role
    /\ n.invitation = k.invitation /\ n.memo = k.memo /\ n.page = k.page /\ n.limit = k.limit
    /\ n.refused = k.refused
    /\ n.owner = IF k.op = "update_team" THEN teams[k.team].owner ELSE k.owner
    /\ n.slug = IF k.op \in {"update_team", "transfer"} /\ k.slug = NoSlug
                  THEN teams[k.team].slug ELSE k.slug

LEMMA TeamFound ==
    ASSUME TypeOK, NEW c \in Call, Sound(call[c]), FindTeam(c)
    PROVE  /\ call[c] \in InFlight /\ ~Idle(c) /\ call[c].todo /= <<>>
           /\ Due(call[c]) = "find_team" /\ call[c].team \in Created
           /\ call[c].op \in {"get_team", "update_team", "transfer", "invite", "accept"}
           /\ \E n \in InFlight :
                /\ Reads(c, n)
                /\ \/ Stops(n, call[c])
                   \/ /\ LiveTeam(call[c].team) /\ NotesTeam(n, call[c])
                      /\ n.todo = Tail(call[c].todo)
<1> DEFINE k == call[c]
           owner == IF k.op = "update_team" THEN teams[k.team].owner ELSE k.owner
           slug == IF k.op \in {"update_team", "transfer"} /\ k.slug = NoSlug
                     THEN teams[k.team].slug ELSE k.slug
           read == [k EXCEPT !.owner = owner, !.slug = slug]
<1>1. /\ Sends(c, "find_team")
      /\ Reads(c, IF LiveTeam(k.team) THEN Proceeds(read) ELSE Fails(k, <<>>, "team_not_found"))
  BY DEF FindTeam
<1>2. k \in InFlight /\ ~Idle(c) /\ k.todo /= <<>> /\ Due(k) = "find_team"
  BY <1>1, Sending
<1>3. k.op \in {"get_team", "update_team", "transfer", "invite", "accept"}
  <2>1. PICK b : <<Due(k), b>> \in Order[k.op] /\ k.op \in Operations
    BY <1>2, DueInOrder
  <2>2. QED BY <1>2, <2>1, Roster
<1>4. k.team \in Created /\ k.team \in Team
  BY <1>2, <1>3, RecordedMemos DEF Sound, Knows, Routes
<1>5. owner \in User \cup {NoUser} /\ slug \in Slug \cup {NoSlug}
  <2>1. k.owner \in User \cup {NoUser} /\ k.slug \in Slug \cup {NoSlug}
    BY <1>2 DEF InFlight
  <2>2. QED BY <1>4, <2>1, DocumentsTyped
<1> HIDE DEF owner, slug
<1>6. /\ read \in InFlight /\ read.todo = k.todo /\ read.refused = k.refused
      /\ read.op = k.op /\ read.user = k.user /\ read.team = k.team
      /\ read.target = k.target /\ read.address = k.address /\ read.role = k.role /\ read.invitation = k.invitation
      /\ read.memo = k.memo /\ read.page = k.page /\ read.limit = k.limit
      /\ read.owner = owner /\ read.slug = slug
  <2>1. PICK Numbers, Ids, Sets : InFlight = Shape(Numbers, Ids, Sets)
    BY Shaped
  <2> HIDE DEF k
  <2>2. QED BY <1>2, <1>5, <2>1 DEF Shape
<1> HIDE DEF read
<1>7. CASE LiveTeam(k.team)
  <2>1. Reads(c, Proceeds(read))
    BY <1>1, <1>7
  <2>2. /\ Same(Proceeds(read), read) /\ Proceeds(read).todo = Tail(read.todo)
        /\ Proceeds(read).refused = read.refused
    BY <1>2, <1>6, Outcomes
  <2>3. NotesTeam(Proceeds(read), k) /\ Proceeds(read).todo = Tail(k.todo)
    BY <1>6, <2>2 DEF NotesTeam, Same, owner, slug
  <2>4. Proceeds(read) \in InFlight
    BY <2>3 DEF NotesTeam
  <2>5. QED BY <1>2, <1>3, <1>4, <1>7, <2>1, <2>3, <2>4
<1>8. CASE ~LiveTeam(k.team)
  <2>1. PICK n : n = Fails(k, <<>>, "team_not_found")
    OBVIOUS
  <2>2. Reads(c, n)
    BY <1>1, <1>8, <2>1
  <2>3. Same(n, k) /\ n.todo = <<>> /\ n.refused = k.refused
    <3>1. <<>> \in Seq(Commands) /\ "team_not_found" \in Codes
      BY EmptySeq DEF Codes
    <3>2. QED BY <1>2, <2>1, <3>1, Outcomes
  <2>4. Stops(n, k) /\ n \in InFlight
    BY <2>3 DEF Stops, Same
  <2>5. QED BY <1>2, <1>3, <1>4, <2>2, <2>4
<1>9. QED BY <1>7, <1>8

\* The requests agree in all but the role that was read.
Reread(n, k) ==
    /\ n \in InFlight /\ n.op = k.op /\ n.user = k.user /\ n.team = k.team
    /\ n.target = k.target /\ n.address = k.address /\ n.owner = k.owner /\ n.slug = k.slug
    /\ n.invitation = k.invitation /\ n.memo = k.memo /\ n.page = k.page /\ n.limit = k.limit
    /\ n.refused = k.refused
    /\ n.role = IF k.op = "transfer" THEN roles[k.team][k.target] ELSE k.role

LEMMA TargetFound ==
    ASSUME TypeOK, NEW c \in Call, Sound(call[c]), FindTarget(c)
    PROVE  /\ call[c] \in InFlight /\ ~Idle(c) /\ call[c].todo /= <<>>
           /\ Due(call[c]) = "find_target" /\ call[c].team \in Created
           /\ call[c].target \in User
           /\ call[c].op \in {"transfer", "remove_member", "update_role", "leave"}
           /\ \E n \in InFlight :
                /\ Reads(c, n) /\ Reread(n, call[c])
                /\ \/ n.todo = <<>>
                   \/ /\ \/ n.todo = Tail(call[c].todo)
                         \/ /\ n.todo = Tail(Tail(call[c].todo)) /\ Tail(call[c].todo) /= <<>>
                            /\ call[c].op \in {"remove_member", "update_role"}
                      /\ IsMember(call[c].team, call[c].target)
                      /\ call[c].op /= "transfer" =>
                           roles[call[c].team][call[c].target] /= "owner"
<1> DEFINE k == call[c]
           role == roles[k.team][k.target]
           read == IF k.op = "transfer" THEN [k EXCEPT !.role = role]
                   ELSE IF k.op /= "leave" /\ role = "member" THEN Proceeds(k) ELSE k
           code == TargetVerdict(k, role)
<1>1. Sends(c, "find_target") /\ Reads(c, Checked(read, code))
  BY DEF FindTarget
<1>2. k \in InFlight /\ ~Idle(c) /\ k.todo /= <<>> /\ Due(k) = "find_target"
  BY <1>1, Sending
<1>3. /\ k.op \in {"transfer", "remove_member", "update_role", "leave"}
      /\ \A b : <<Due(k), b>> \in Order[k.op] => b /= "end"
  <2>1. PICK b : <<Due(k), b>> \in Order[k.op] /\ k.op \in Operations
    BY <1>2, DueInOrder
  <2>2. k.op \in {"transfer", "remove_member", "update_role", "leave"}
    BY <1>2, <2>1, Roster
  <2>3. ASSUME NEW d, <<Due(k), d>> \in Order[k.op] PROVE d /= "end"
    <3>1. d \in {"find_requester", "delete_member", "find_team"}
      BY <1>2, <2>1, <2>2, <2>3, Successor
    <3>2. QED BY <3>1
  <2>4. QED BY <2>2, <2>3
<1>4. /\ k.team \in Created /\ k.team \in Team /\ k.target \in User
      /\ role \in Role \cup {"none"}
  <2>1. k.team \in Created /\ k.team \in Team /\ k.target \in User
    BY <1>2, <1>3, RecordedMemos DEF Sound, Knows, Routes
  <2>2. QED BY <2>1 DEF TypeOK, StoreTypeOK
<1>5. /\ code \in Codes
      /\ code = "ok" => role /= "none" /\ (k.op /= "transfer" => role /= "owner")
  BY <1>3 DEF TargetVerdict, Codes
<1>6. Tail(k.todo) /= <<>>
  <2>1. <<Due(k), IF Tail(k.todo) = <<>> THEN "end" ELSE Head(Tail(k.todo))>> \in Order[k.op]
    BY <1>2, PathAdvances DEF Sound, Due
  <2>2. QED BY <1>3, <2>1
<1>7. /\ read \in InFlight /\ Reread(read, k) /\ read.todo /= <<>>
      /\ \/ read.todo = k.todo
         \/ read.todo = Tail(k.todo) /\ k.op \in {"remove_member", "update_role"}
  <2> HIDE DEF k, role
  <2>1. CASE k.op = "transfer"
    <3>1. read = [k EXCEPT !.role = role]
      BY <2>1
    <3> HIDE DEF read
    <3>2. /\ read \in InFlight /\ read.todo = k.todo /\ read.refused = k.refused
          /\ read.op = k.op /\ read.user = k.user /\ read.team = k.team
          /\ read.target = k.target /\ read.address = k.address /\ read.role = role /\ read.invitation = k.invitation
          /\ read.memo = k.memo /\ read.page = k.page /\ read.limit = k.limit
          /\ read.owner = k.owner /\ read.slug = k.slug
      BY <1>2, <1>4, <3>1 DEF InFlight
    <3>3. QED BY <1>2, <2>1, <3>2 DEF Reread, role
  <2>2. CASE k.op /= "transfer" /\ k.op /= "leave" /\ role = "member"
    <3>1. read = Proceeds(k)
      BY <2>2
    <3>2. Same(Proceeds(k), k) /\ Proceeds(k).todo = Tail(k.todo) /\ Proceeds(k).refused = k.refused
      BY <1>2, Outcomes
    <3> HIDE DEF read
    <3>3. QED BY <1>3, <1>6, <2>2, <3>1, <3>2 DEF Reread, Same
  <2>3. CASE k.op /= "transfer" /\ ~(k.op /= "leave" /\ role = "member")
    <3>1. read = k
      BY <2>3
    <3> HIDE DEF read
    <3>2. QED BY <1>2, <2>3, <3>1 DEF Reread
  <2>4. QED BY <2>1, <2>2, <2>3
<1> HIDE DEF read, code
<1> DEFINE n == Checked(read, code)
<1>8. /\ Same(n, read) /\ n.refused = read.refused
      /\ n.todo = IF code = "ok" THEN Tail(read.todo) ELSE <<>>
  BY <1>5, <1>7, Verdicts
<1> HIDE DEF n
<1>9. n \in InFlight /\ Reads(c, n)
  BY <1>1, <1>8 DEF n, Same
<1>10. Reread(n, k)
  <2> HIDE DEF k
  <2>1. QED BY <1>7, <1>8 DEF Reread, Same
<1>11. code = "ok" => IsMember(k.team, k.target)
  BY <1>5 DEF IsMember
<1>12. \/ n.todo = <<>>
       \/ /\ \/ n.todo = Tail(k.todo)
             \/ /\ n.todo = Tail(Tail(k.todo))
                /\ k.op \in {"remove_member", "update_role"}
          /\ code = "ok"
  <2> HIDE DEF k
  <2>1. QED BY <1>7, <1>8
<1>13. QED BY <1>2, <1>3, <1>4, <1>5, <1>6, <1>9, <1>10, <1>11, <1>12

\* The requests agree in all but the team and the role of an invitation.
Accepts(n, k) ==
    /\ n \in InFlight /\ n.op = k.op /\ n.user = k.user
    /\ n.target = k.target /\ n.address = k.address /\ n.owner = k.owner /\ n.slug = k.slug
    /\ n.invitation = k.invitation /\ n.memo = k.memo /\ n.page = k.page /\ n.limit = k.limit
    /\ n.refused = k.refused
    /\ IF k.op = "accept"
         THEN n.team = invitations[k.invitation].team /\ n.role = invitations[k.invitation].role
         ELSE n.team = k.team /\ n.role = k.role

LEMMA InvitationFound ==
    ASSUME TypeOK, NEW c \in Call, Sound(call[c]), FindInvitation(c)
    PROVE  /\ call[c] \in InFlight /\ ~Idle(c) /\ call[c].todo /= <<>>
           /\ Due(call[c]) = "find_invitation" /\ call[c].invitation \in Invitation
           /\ call[c].op \in {"cancel", "accept", "decline"}
           /\ \E n \in InFlight :
                /\ Reads(c, n) /\ Accepts(n, call[c])
                /\ \/ n.todo = <<>>
                   \/ /\ n.todo = Tail(call[c].todo)
                      /\ Invited(call[c].invitation)
                      /\ call[c].op = "accept" =>
                           /\ invitations[call[c].invitation].address = call[c].address
                           /\ invitations[call[c].invitation].pending
<1> DEFINE k == call[c]
           doc == invitations[k.invitation]
           read == IF k.op = "accept" THEN [k EXCEPT !.team = doc.team, !.role = doc.role] ELSE k
           code == InvitationVerdict(k, doc)
<1>1. Sends(c, "find_invitation") /\ Reads(c, Checked(read, code))
  BY DEF FindInvitation
<1>2. k \in InFlight /\ ~Idle(c) /\ k.todo /= <<>> /\ Due(k) = "find_invitation"
  BY <1>1, Sending
<1>3. k.op \in {"cancel", "accept", "decline"}
  <2>1. PICK b : <<Due(k), b>> \in Order[k.op] /\ k.op \in Operations
    BY <1>2, DueInOrder
  <2>2. QED BY <1>2, <2>1, Roster
<1>4. /\ k.invitation \in Invitation
      /\ doc.team \in Team \cup {NoTeam} /\ doc.role \in Role \cup {"none"}
  <2>1. k.invitation \in Invitation
    BY <1>2, <1>3 DEF Sound, Knows
  <2>2. doc \in InvitationDocument \cup {NotInvited}
    BY <2>1 DEF TypeOK, StoreTypeOK
  <2> HIDE DEF doc
  <2>3. QED BY <2>1, <2>2 DEF InvitationDocument, NotInvited, Role, Given
<1>5. /\ code \in Codes
      /\ code = "ok" =>
           doc /= NotInvited /\ (k.op = "accept" => doc.address = k.address /\ doc.pending)
  <2> HIDE DEF k, doc
  <2>1. QED BY <1>3 DEF InvitationVerdict, Codes
<1> HIDE DEF doc
<1>6. /\ read \in InFlight /\ Accepts(read, k) /\ read.todo = k.todo
  <2>1. CASE k.op = "accept"
    <3>1. read = [k EXCEPT !.team = doc.team, !.role = doc.role]
      BY <2>1
    <3> HIDE DEF k, read
    <3>2. /\ read \in InFlight /\ read.todo = k.todo /\ read.refused = k.refused
          /\ read.op = k.op /\ read.user = k.user /\ read.team = doc.team
          /\ read.target = k.target /\ read.address = k.address /\ read.role = doc.role /\ read.invitation = k.invitation
          /\ read.memo = k.memo /\ read.page = k.page /\ read.limit = k.limit
          /\ read.owner = k.owner /\ read.slug = k.slug
      BY <1>2, <1>4, <3>1 DEF InFlight
    <3>3. QED BY <2>1, <3>2 DEF Accepts, doc
  <2>2. CASE k.op /= "accept"
    <3>1. read = k
      BY <2>2
    <3> HIDE DEF k, read
    <3>2. QED BY <1>2, <2>2, <3>1 DEF Accepts
  <2>3. QED BY <2>1, <2>2
<1> HIDE DEF read, code
<1> DEFINE n == Checked(read, code)
<1>7. /\ Same(n, read) /\ n.refused = read.refused
      /\ n.todo = IF code = "ok" THEN Tail(read.todo) ELSE <<>>
  BY <1>2, <1>5, <1>6, Verdicts
<1> HIDE DEF n
<1>8. n \in InFlight /\ Reads(c, n)
  BY <1>1, <1>7 DEF n, Same
<1>9. Accepts(n, k)
  <2> HIDE DEF k
  <2>1. QED BY <1>6, <1>7 DEF Accepts, Same
<1>10. code = "ok" => Invited(k.invitation)
  BY <1>5 DEF Invited, doc
<1>11. n.todo = <<>> \/ (n.todo = Tail(k.todo) /\ code = "ok")
  <2> HIDE DEF k
  <2>1. QED BY <1>6, <1>7
<1>12. QED BY <1>2, <1>3, <1>4, <1>5, <1>8, <1>9, <1>10, <1>11 DEF doc

\* The requests agree in all but whom the request found.
Finds(n, k) ==
    /\ n \in InFlight /\ n.op = k.op /\ n.user = k.user /\ n.team = k.team
    /\ n.owner = k.owner /\ n.slug = k.slug /\ n.role = k.role
    /\ n.invitation = k.invitation /\ n.memo = k.memo /\ n.page = k.page /\ n.limit = k.limit
    /\ n.refused = k.refused

\* An email of the requester, of now or of before.
HasHeld(u, address) == \E email \in Email : <<u, email>> \in held /\ ToLower(email) = address

LEMMA UserFound ==
    ASSUME TypeOK, NEW c \in Call, Sound(call[c]), FindUser(c)
    PROVE  /\ call[c] \in InFlight /\ ~Idle(c) /\ call[c].todo /= <<>>
           /\ Due(call[c]) = "find_user"
           /\ call[c].op \in {"my_invitations", "accept", "decline"}
           /\ \E n \in InFlight :
                /\ Reads(c, n)
                /\ \/ Stops(n, call[c]) /\ emails[call[c].user] = NoEmail
                   \/ /\ Finds(n, call[c]) /\ n.target = call[c].target
                      /\ n.todo = Tail(call[c].todo)
                      /\ HasHeld(call[c].user, n.address)
<1> DEFINE k == call[c]
<1>1. Sends(c, "find_user")
  BY DEF FindUser
<1>2. k \in InFlight /\ ~Idle(c) /\ k.todo /= <<>> /\ Due(k) = "find_user"
  BY <1>1, Sending
<1>3. k.op \in {"my_invitations", "accept", "decline"}
  <2>1. PICK b : <<Due(k), b>> \in Order[k.op] /\ k.op \in Operations
    BY <1>2, DueInOrder
  <2>2. QED BY <1>2, <2>1, Roster
<1>4. /\ Same(Proceeds(k), k) /\ Proceeds(k).todo = Tail(k.todo)
      /\ Proceeds(k).refused = k.refused
  BY <1>2, Outcomes
<1>5. CASE \E email \in {email \in Email : <<k.user, email>> \in held} :
             Reads(c, [Proceeds(k) EXCEPT !.address = ToLower(email)])
  <2>1. PICK email \in Email : /\ <<k.user, email>> \in held
                              /\ Reads(c, [Proceeds(k) EXCEPT !.address = ToLower(email)])
    BY <1>5
  <2>2. ToLower(email) \in Address
    BY DEF Email, ToLower
  <2> DEFINE on == Proceeds(k)
             n == [on EXCEPT !.address = ToLower(email)]
  <2>3. on \in InFlight /\ Same(on, k) /\ on.todo = Tail(k.todo) /\ on.refused = k.refused
    BY <1>4 DEF Same
  <2> HIDE DEF on, k
  <2>4. /\ n \in InFlight /\ n.todo = on.todo /\ n.refused = on.refused
        /\ n.op = on.op /\ n.user = on.user /\ n.team = on.team
        /\ n.target = on.target /\ n.role = on.role /\ n.invitation = on.invitation
        /\ n.memo = on.memo /\ n.page = on.page /\ n.limit = on.limit
        /\ n.owner = on.owner /\ n.slug = on.slug /\ n.address = ToLower(email)
    BY <2>2, <2>3 DEF InFlight
  <2>5. Reads(c, n)
    BY <2>1 DEF on
  <2> HIDE DEF n
  <2>6. Finds(n, k) /\ n.target = k.target /\ n.todo = Tail(k.todo)
    BY <2>3, <2>4 DEF Finds, Same
  <2>7. HasHeld(k.user, n.address)
    BY <2>1, <2>4 DEF HasHeld
  <2>8. QED BY <1>2, <1>3, <2>4, <2>5, <2>6, <2>7 DEF k
<1>6. CASE emails[k.user] = NoEmail /\ Reads(c, Fails(k, <<>>, "user_not_found"))
  <2>1. PICK n : n = Fails(k, <<>>, "user_not_found")
    OBVIOUS
  <2>2. Same(n, k) /\ n.todo = <<>> /\ n.refused = k.refused
    <3>1. <<>> \in Seq(Commands) /\ "user_not_found" \in Codes
      BY EmptySeq DEF Codes
    <3>2. QED BY <1>2, <2>1, <3>1, Outcomes
  <2>3. Stops(n, k) /\ n \in InFlight
    BY <2>2 DEF Stops, Same
  <2>4. QED BY <1>2, <1>3, <1>6, <2>1, <2>3
<1>7. QED BY <1>5, <1>6 DEF FindUser

LEMMA InviteeFound ==
    ASSUME TypeOK, NEW c \in Call, Sound(call[c]), FindInvitee(c)
    PROVE  /\ call[c] \in InFlight /\ ~Idle(c) /\ call[c].todo /= <<>>
           /\ Due(call[c]) = "find_invitee" /\ call[c].op = "invite"
           /\ Tail(call[c].todo) /= <<>> /\ Head(Tail(call[c].todo)) = "find_member"
           /\ \E n \in InFlight :
                /\ Reads(c, n) /\ Finds(n, call[c]) /\ n.address = call[c].address
                /\ \/ /\ n.todo = Tail(call[c].todo)
                      /\ n.target \in FindByEmail(<<n.address, LowerCase>>)
                   \/ /\ n.todo = Tail(Tail(call[c].todo))
                      /\ n.target = call[c].target
                      /\ FindByEmail(<<n.address, LowerCase>>) = {}
<1> DEFINE k == call[c]
           found == FindByEmail(<<k.address, LowerCase>>)
<1>1. /\ Sends(c, "find_invitee")
      /\ \/ \E u \in found : Reads(c, [Proceeds(k) EXCEPT !.target = u])
         \/ found = {} /\ Reads(c, Proceeds(Proceeds(k)))
  BY DEF FindInvitee
<1>2. k \in InFlight /\ ~Idle(c) /\ k.todo /= <<>> /\ Due(k) = "find_invitee"
  BY <1>1, Sending
<1>3. k.op = "invite" /\ Tail(k.todo) /= <<>> /\ Head(Tail(k.todo)) = "find_member"
  <2>1. k.op \in Operations
    BY <1>2 DEF InFlight
  <2>2. <<Due(k), IF Tail(k.todo) = <<>> THEN "end" ELSE Head(Tail(k.todo))>> \in Order[k.op]
    BY <1>2, PathAdvances DEF Sound, Due
  <2>3. /\ k.op = "invite"
        /\ (IF Tail(k.todo) = <<>> THEN "end" ELSE Head(Tail(k.todo))) = "find_member"
    BY <1>2, <2>1, <2>2, Roster, Successor
  <2>4. QED BY <2>3
<1> DEFINE on == Proceeds(k)
<1>4. on \in InFlight /\ Same(on, k) /\ on.todo = Tail(k.todo) /\ on.refused = k.refused
  BY <1>2, Outcomes DEF Same
<1> HIDE DEF on
<1>5. CASE \E u \in found : Reads(c, [on EXCEPT !.target = u])
  <2>1. PICK u \in found : Reads(c, [on EXCEPT !.target = u])
    BY <1>5
  <2> DEFINE n == [on EXCEPT !.target = u]
  <2>2. u \in User
    BY <2>1 DEF FindByEmail
  <2> HIDE DEF k, found
  <2>3. /\ n \in InFlight /\ n.todo = on.todo /\ n.refused = on.refused
        /\ n.op = on.op /\ n.user = on.user /\ n.team = on.team
        /\ n.target = u /\ n.role = on.role /\ n.invitation = on.invitation
        /\ n.memo = on.memo /\ n.page = on.page /\ n.limit = on.limit
        /\ n.owner = on.owner /\ n.slug = on.slug /\ n.address = on.address
    BY <1>4, <2>2 DEF InFlight
  <2>4. Reads(c, n)
    BY <2>1
  <2> HIDE DEF n
  <2>5. /\ Finds(n, k) /\ n.address = k.address /\ n.todo = Tail(k.todo)
        /\ n.target = u
    BY <1>4, <2>3 DEF Finds, Same
  <2>6. n.target \in FindByEmail(<<n.address, LowerCase>>)
    BY <2>1, <2>5 DEF found
  <2>7. QED BY <1>2, <1>3, <2>3, <2>4, <2>5, <2>6 DEF k
<1>6. CASE found = {} /\ Reads(c, Proceeds(on))
  <2> DEFINE n == Proceeds(on)
  <2> HIDE DEF k, found
  <2>1. on.todo /= <<>>
    BY <1>3, <1>4
  <2>2. Same(n, on) /\ n.todo = Tail(on.todo) /\ n.refused = on.refused
    BY <1>4, <2>1, Outcomes
  <2> HIDE DEF n
  <2>3. /\ Finds(n, k) /\ n.address = k.address /\ n.target = k.target
        /\ n.todo = Tail(Tail(k.todo))
    BY <1>4, <2>2 DEF Finds, Same
  <2>4. n \in InFlight /\ Reads(c, n)
    BY <1>6, <2>3 DEF n, Finds
  <2>5. FindByEmail(<<n.address, LowerCase>>) = {}
    BY <1>6, <2>3 DEF found
  <2>6. QED BY <1>2, <1>3, <2>3, <2>4, <2>5 DEF k
<1>7. QED BY <1>1, <1>5, <1>6 DEF on
-------------------------------------------------------------------------------
(* Commands that write, and commands that are refused.                     *)

\* What is left to be sent after a command that writes.
Remaining(k) ==
    CASE Due(k) = "update_team" /\ WriteVerdict(k) /= "ok" -> <<>>
      [] Due(k) = "delete_team" /\ ~LiveTeam(k.team) -> <<>>
      [] Due(k) \in {"promote", "delete_member", "set_role"} /\ ~IsMember(k.team, k.target) -> <<>>
      [] Due(k) = "demote" /\ ~IsMember(k.team, k.user) -> <<"undo_promote">>
      [] Due(k) = "hand_over" /\ WriteVerdict(k) /= "ok" -> <<"undo_demote", "undo_promote">>
      [] Due(k) = "delete_invitation" /\ ~Invited(k.invitation) -> <<>>
      [] Due(k) = "insert_member" /\ IsMember(k.team, k.user) -> <<>>
      [] Due(k) = "delete_memo" /\ ~Matches(k) -> <<"find_deleted_memo">>
      [] OTHER -> Tail(k.todo)

WriteOutcome(c) ==
    /\ call[c] \in InFlight /\ ~Idle(c) /\ call[c].todo /= <<>>
    /\ \E n \in InFlight :
         /\ Becomes(c, n) /\ Same(n, call[c])
         /\ n.refused = call[c].refused /\ n.todo = Remaining(call[c])

LEMMA Writing ==
    ASSUME TypeOK, NEW c \in Call, WriteStep(c), ~InsertTeam(c)
    PROVE  WriteOutcome(c)
<1> DEFINE k == call[c]
<1>1. ASSUME NEW command, Sends(c, command), NEW s \in Seq(Commands), NEW code \in Codes,
             NEW done, Becomes(c, IF done THEN Wrote(k) ELSE Fails(k, s, code)),
             Remaining(k) = IF done THEN Tail(k.todo) ELSE s
      PROVE  WriteOutcome(c)
  <2>1. k \in InFlight /\ ~Idle(c) /\ k.todo /= <<>>
    BY <1>1, Sending
  <2> HIDE DEF k
  <2>2. /\ Same(Wrote(k), k) /\ Wrote(k).todo = Tail(k.todo) /\ Wrote(k).refused = k.refused
        /\ Same(Fails(k, s, code), k) /\ Fails(k, s, code).todo = s
        /\ Fails(k, s, code).refused = k.refused
    BY <2>1, Outcomes
  <2>3. CASE done
    <3>1. Becomes(c, Wrote(k)) /\ Wrote(k) \in InFlight /\ Wrote(k).todo = Remaining(k)
      BY <1>1, <2>2, <2>3 DEF Same
    <3>2. QED BY <2>1, <2>2, <3>1 DEF WriteOutcome, k
  <2>4. CASE ~done
    <3>1. /\ Becomes(c, Fails(k, s, code)) /\ Fails(k, s, code) \in InFlight
          /\ Fails(k, s, code).todo = Remaining(k)
      BY <1>1, <2>2, <2>4 DEF Same
    <3>2. QED BY <2>1, <2>2, <3>1 DEF WriteOutcome, k
  <2>5. QED BY <2>3, <2>4
<1>2. ASSUME NEW command, Sends(c, command),
             Becomes(c, Wrote(k)) \/ Becomes(c, Proceeds(k)), Remaining(k) = Tail(k.todo)
      PROVE  WriteOutcome(c)
  <2>1. k \in InFlight /\ ~Idle(c) /\ k.todo /= <<>>
    BY <1>2, Sending
  <2> HIDE DEF k
  <2>2. /\ Same(Wrote(k), k) /\ Wrote(k).todo = Remaining(k) /\ Wrote(k).refused = k.refused
        /\ Same(Proceeds(k), k) /\ Proceeds(k).todo = Remaining(k)
        /\ Proceeds(k).refused = k.refused
    BY <1>2, <2>1, Outcomes
  <2>3. Wrote(k) \in InFlight /\ Proceeds(k) \in InFlight
    BY <2>2 DEF Same
  <2>4. QED BY <1>2, <2>1, <2>2, <2>3 DEF WriteOutcome, k
<1>3. /\ {"ok", "team_not_found", "not_member", "invitation_not_found", "duplicate"} \subseteq Codes
      /\ WriteVerdict(k) \in Codes
  BY DEF Codes, WriteVerdict
<1>4. /\ <<>> \in Seq(Commands) /\ <<"undo_promote">> \in Seq(Commands)
      /\ <<"undo_demote", "undo_promote">> \in Seq(Commands)
      /\ <<"find_deleted_memo">> \in Seq(Commands)
  BY DEF Commands
<1>5. CASE InsertOwner(c)
  <2>1. Sends(c, "insert_owner") /\ Becomes(c, Wrote(k))
    BY <1>5 DEF InsertOwner
  <2>2. Due(k) = "insert_owner"
    BY <2>1, Sending
  <2>3. Remaining(k) = Tail(k.todo)
    BY <2>2 DEF Remaining
  <2>4. QED BY <1>2, <2>1, <2>3
<1>6. CASE UndoTeam(c)
  <2>1. Sends(c, "undo_team") /\ Becomes(c, Proceeds(k))
    BY <1>6 DEF UndoTeam
  <2>2. Due(k) = "undo_team"
    BY <2>1, Sending
  <2>3. Remaining(k) = Tail(k.todo)
    BY <2>2 DEF Remaining
  <2>4. QED BY <1>2, <2>1, <2>3
<1>7. CASE DeleteMemos(c)
  <2>1. Sends(c, "delete_memos") /\ Becomes(c, Wrote(k))
    BY <1>7 DEF DeleteMemos
  <2>2. Due(k) = "delete_memos"
    BY <2>1, Sending
  <2>3. Remaining(k) = Tail(k.todo)
    BY <2>2 DEF Remaining
  <2>4. QED BY <1>2, <2>1, <2>3
<1>8. CASE DeleteMembers(c)
  <2>1. Sends(c, "delete_members") /\ Becomes(c, Wrote(k))
    BY <1>8 DEF DeleteMembers
  <2>2. Due(k) = "delete_members"
    BY <2>1, Sending
  <2>3. Remaining(k) = Tail(k.todo)
    BY <2>2 DEF Remaining
  <2>4. QED BY <1>2, <2>1, <2>3
<1>9. CASE DeleteInvitations(c)
  <2>1. Sends(c, "delete_invitations") /\ Becomes(c, Wrote(k))
    BY <1>9 DEF DeleteInvitations
  <2>2. Due(k) = "delete_invitations"
    BY <2>1, Sending
  <2>3. Remaining(k) = Tail(k.todo)
    BY <2>2 DEF Remaining
  <2>4. QED BY <1>2, <2>1, <2>3
<1>10. CASE UndoDemote(c)
  <2>1. Sends(c, "undo_demote") /\ Becomes(c, Proceeds(k))
    BY <1>10 DEF UndoDemote
  <2>2. Due(k) = "undo_demote"
    BY <2>1, Sending
  <2>3. Remaining(k) = Tail(k.todo)
    BY <2>2 DEF Remaining
  <2>4. QED BY <1>2, <2>1, <2>3
<1>11. CASE UndoPromote(c)
  <2>1. Sends(c, "undo_promote") /\ Becomes(c, Proceeds(k))
    BY <1>11 DEF UndoPromote
  <2>2. Due(k) = "undo_promote"
    BY <2>1, Sending
  <2>3. Remaining(k) = Tail(k.todo)
    BY <2>2 DEF Remaining
  <2>4. QED BY <1>2, <2>1, <2>3
<1>12. CASE InsertTheInvitation(c)
  <2>1. Sends(c, "insert_invitation") /\ Becomes(c, Wrote(k))
    BY <1>12 DEF InsertTheInvitation
  <2>2. Due(k) = "insert_invitation"
    BY <2>1, Sending
  <2>3. Remaining(k) = Tail(k.todo)
    BY <2>2 DEF Remaining
  <2>4. QED BY <1>2, <2>1, <2>3
<1>13. CASE DropInvitation(c)
  <2>1. Sends(c, "drop_invitation") /\ Becomes(c, Proceeds(k))
    BY <1>13 DEF DropInvitation
  <2>2. Due(k) = "drop_invitation"
    BY <2>1, Sending
  <2>3. Remaining(k) = Tail(k.todo)
    BY <2>2 DEF Remaining
  <2>4. QED BY <1>2, <2>1, <2>3
<1>14. CASE InsertTheMemo(c)
  <2>1. Sends(c, "insert_memo") /\ Becomes(c, Wrote(k))
    BY <1>14 DEF InsertTheMemo
  <2>2. Due(k) = "insert_memo"
    BY <2>1, Sending
  <2>3. Remaining(k) = Tail(k.todo)
    BY <2>2 DEF Remaining
  <2>4. QED BY <1>2, <2>1, <2>3
<1>15. CASE WriteTeam(c)
  <2> DEFINE done == WriteVerdict(k) = "ok"
  <2>1. Sends(c, "update_team") /\ Becomes(c, IF done THEN Wrote(k) ELSE Fails(k, <<>>, WriteVerdict(k)))
    BY <1>15 DEF WriteTeam
  <2>2. Due(k) = "update_team"
    BY <2>1, Sending
  <2>3. Remaining(k) = IF done THEN Tail(k.todo) ELSE <<>>
    BY <2>2 DEF Remaining
  <2> HIDE DEF done
  <2>4. QED BY <1>1, <1>3, <1>4, <2>1, <2>3
<1>16. CASE DeleteTheTeam(c)
  <2> DEFINE done == LiveTeam(k.team)
  <2>1. Sends(c, "delete_team") /\ Becomes(c, IF done THEN Wrote(k) ELSE Fails(k, <<>>, "team_not_found"))
    BY <1>16 DEF DeleteTheTeam
  <2>2. Due(k) = "delete_team"
    BY <2>1, Sending
  <2>3. Remaining(k) = IF done THEN Tail(k.todo) ELSE <<>>
    BY <2>2 DEF Remaining
  <2> HIDE DEF done
  <2>4. QED BY <1>1, <1>3, <1>4, <2>1, <2>3
<1>17. CASE Promote(c)
  <2> DEFINE done == IsMember(k.team, k.target)
  <2>1. Sends(c, "promote") /\ Becomes(c, IF done THEN Wrote(k) ELSE Fails(k, <<>>, "not_member"))
    BY <1>17 DEF Promote
  <2>2. Due(k) = "promote"
    BY <2>1, Sending
  <2>3. Remaining(k) = IF done THEN Tail(k.todo) ELSE <<>>
    BY <2>2 DEF Remaining
  <2> HIDE DEF done
  <2>4. QED BY <1>1, <1>3, <1>4, <2>1, <2>3
<1>18. CASE Demote(c)
  <2> DEFINE done == IsMember(k.team, k.user)
  <2>1. Sends(c, "demote") /\ Becomes(c, IF done THEN Wrote(k) ELSE Fails(k, <<"undo_promote">>, "not_member"))
    BY <1>18 DEF Demote
  <2>2. Due(k) = "demote"
    BY <2>1, Sending
  <2>3. Remaining(k) = IF done THEN Tail(k.todo) ELSE <<"undo_promote">>
    BY <2>2 DEF Remaining
  <2> HIDE DEF done
  <2>4. QED BY <1>1, <1>3, <1>4, <2>1, <2>3
<1>19. CASE HandOver(c)
  <2> DEFINE done == WriteVerdict(k) = "ok"
  <2>1. Sends(c, "hand_over") /\ Becomes(c, IF done THEN Wrote(k) ELSE Fails(k, <<"undo_demote", "undo_promote">>, WriteVerdict(k)))
    BY <1>19 DEF HandOver
  <2>2. Due(k) = "hand_over"
    BY <2>1, Sending
  <2>3. Remaining(k) = IF done THEN Tail(k.todo) ELSE <<"undo_demote", "undo_promote">>
    BY <2>2 DEF Remaining
  <2> HIDE DEF done
  <2>4. QED BY <1>1, <1>3, <1>4, <2>1, <2>3
<1>20. CASE DeleteTheMember(c)
  <2> DEFINE done == IsMember(k.team, k.target)
  <2>1. Sends(c, "delete_member") /\ Becomes(c, IF done THEN Wrote(k) ELSE Fails(k, <<>>, "not_member"))
    BY <1>20 DEF DeleteTheMember
  <2>2. Due(k) = "delete_member"
    BY <2>1, Sending
  <2>3. Remaining(k) = IF done THEN Tail(k.todo) ELSE <<>>
    BY <2>2 DEF Remaining
  <2> HIDE DEF done
  <2>4. QED BY <1>1, <1>3, <1>4, <2>1, <2>3
<1>21. CASE SetRole(c)
  <2> DEFINE done == IsMember(k.team, k.target)
  <2>1. Sends(c, "set_role") /\ Becomes(c, IF done THEN Wrote(k) ELSE Fails(k, <<>>, "not_member"))
    BY <1>21 DEF SetRole
  <2>2. Due(k) = "set_role"
    BY <2>1, Sending
  <2>3. Remaining(k) = IF done THEN Tail(k.todo) ELSE <<>>
    BY <2>2 DEF Remaining
  <2> HIDE DEF done
  <2>4. QED BY <1>1, <1>3, <1>4, <2>1, <2>3
<1>22. CASE DeleteTheInvitation(c)
  <2> DEFINE done == Invited(k.invitation)
  <2>1. Sends(c, "delete_invitation") /\ Becomes(c, IF done THEN Wrote(k) ELSE Fails(k, <<>>, "invitation_not_found"))
    BY <1>22 DEF DeleteTheInvitation
  <2>2. Due(k) = "delete_invitation"
    BY <2>1, Sending
  <2>3. Remaining(k) = IF done THEN Tail(k.todo) ELSE <<>>
    BY <2>2 DEF Remaining
  <2> HIDE DEF done
  <2>4. QED BY <1>1, <1>3, <1>4, <2>1, <2>3
<1>23. CASE InsertTheMember(c)
  <2> DEFINE done == ~IsMember(k.team, k.user)
  <2>1. Sends(c, "insert_member") /\ Becomes(c, IF done THEN Wrote(k) ELSE Fails(k, <<>>, "duplicate"))
    BY <1>23 DEF InsertTheMember
  <2>2. Due(k) = "insert_member"
    BY <2>1, Sending
  <2>3. Remaining(k) = IF done THEN Tail(k.todo) ELSE <<>>
    BY <2>2 DEF Remaining
  <2> HIDE DEF done
  <2>4. QED BY <1>1, <1>3, <1>4, <2>1, <2>3
<1>24. CASE DeleteTheMemo(c)
  <2> DEFINE found == Matches(k)
             n == [k EXCEPT !.todo = <<"find_deleted_memo">>]
  <2>1. Sends(c, "delete_memo") /\ Becomes(c, IF found THEN Wrote(k) ELSE n)
    BY <1>24 DEF DeleteTheMemo
  <2>2. Due(k) = "delete_memo" /\ k \in InFlight /\ ~Idle(c) /\ k.todo /= <<>>
    BY <2>1, Sending
  <2>3. Remaining(k) = IF found THEN Tail(k.todo) ELSE <<"find_deleted_memo">>
    BY <2>2 DEF Remaining
  <2> HIDE DEF found
  <2>4. CASE found
    BY <1>2, <2>1, <2>3, <2>4
  <2>5. CASE ~found
    <3>1. n \in InFlight /\ Same(n, k) /\ n.refused = k.refused /\ n.todo = <<"find_deleted_memo">>
      <4>1. PICK Numbers, Ids, Sets : InFlight = Shape(Numbers, Ids, Sets)
        BY Shaped
      <4>2. <<"find_deleted_memo">> \in Seq(Commands)
        BY <1>4
      <4> HIDE DEF k
      <4>3. QED BY <2>2, <4>1, <4>2 DEF Same, Shape
    <3> HIDE DEF n
    <3>2. QED BY <2>1, <2>2, <2>3, <2>5, <3>1 DEF WriteOutcome
  <2>6. QED BY <2>4, <2>5
<1>25. QED
  BY <1>5, <1>6, <1>7, <1>8, <1>9, <1>10, <1>11, <1>12, <1>13, <1>14, <1>15, <1>16, <1>17, <1>18, <1>19, <1>20, <1>21, <1>22, <1>23, <1>24
     DEF WriteStep

\* What is left to be sent after a command that was refused.
Unsent(k) ==
    IF Due(k) \in ErrorIgnored THEN Tail(k.todo)
    ELSE IF Due(k) \in ErrorSkips THEN Tail(Tail(k.todo))
    ELSE IF Due(k) \in DOMAIN Undo THEN Undo[Due(k)] ELSE <<>>

LEMMA Refusing ==
    ASSUME TypeOK, NEW c \in Call, Refuse(c)
    PROVE  call[c] \in InFlight /\ ~Idle(c) /\ call[c].todo /= <<>> /\ ~call[c].refused
BY Sender DEF Refuse

\* A request whose command was refused.
LEMMA RefusedLeaves ==
    ASSUME TypeOK, NEW c \in Call, Sound(call[c]), Refuse(c)
    PROVE  \E n \in InFlight :
             Becomes(c, n) /\ Same(n, call[c]) /\ n.refused /\ n.todo = Unsent(call[c])
<1> DEFINE k == call[c]
           s == IF Due(k) \in DOMAIN Undo THEN Undo[Due(k)] ELSE <<>>
           code == IF Due(k) \in DOMAIN ErrorMistaken THEN ErrorMistaken[Due(k)] ELSE "error"
           n == [AfterRefusal(k) EXCEPT !.refused = TRUE]
<1>1. /\ ~Idle(c) /\ k.todo /= <<>> /\ ~k.refused /\ Becomes(c, n) /\ k \in InFlight
  BY Sender DEF Refuse
<1>2. AfterRefusal(k) = IF Due(k) \in ErrorIgnored THEN Proceeds(k)
                        ELSE IF Due(k) \in ErrorSkips THEN Proceeds(Proceeds(k))
                        ELSE Fails(k, s, code)
  BY <1>1 DEF AfterRefusal, Due
<1>2a. Due(k) \in ErrorSkips => Tail(k.todo) /= <<>>
  <2>1. k.op \in Operations
    BY <1>1 DEF InFlight
  <2>2. <<Due(k), IF Tail(k.todo) = <<>> THEN "end" ELSE Head(Tail(k.todo))>> \in Order[k.op]
    BY <1>1, PathAdvances DEF Sound, Due
  <2>3. Due(k) = "find_invitee" =>
          (IF Tail(k.todo) = <<>> THEN "end" ELSE Head(Tail(k.todo))) = "find_member"
    BY <2>1, <2>2, Successor
  <2>4. QED BY <2>3 DEF ErrorSkips
<1>3. s \in Seq(Commands) /\ code \in Codes
  <2>1. /\ DOMAIN Undo = {"insert_owner", "demote", "hand_over"}
        /\ Undo["insert_owner"] = <<"undo_team">> /\ Undo["demote"] = <<"undo_promote">>
        /\ Undo["hand_over"] = <<"undo_demote", "undo_promote">>
    BY DEF Undo
  <2>2. /\ <<>> \in Seq(Commands) /\ <<"undo_team">> \in Seq(Commands)
        /\ <<"undo_promote">> \in Seq(Commands)
        /\ <<"undo_demote", "undo_promote">> \in Seq(Commands)
    BY DEF Commands
  <2>3. s \in Seq(Commands)
    BY <2>1, <2>2
  <2>4. code \in Codes
    BY DEF ErrorMistaken, Codes
  <2>5. QED BY <2>3, <2>4
<1> HIDE DEF s, code, k
<1> DEFINE r == AfterRefusal(k)
<1>4. /\ r \in InFlight /\ Same(r, k) /\ r.todo = Unsent(k)
  <2>1. /\ Same(Proceeds(k), k) /\ Proceeds(k).todo = Tail(k.todo)
        /\ Same(Fails(k, s, code), k) /\ Fails(k, s, code).todo = s
    BY <1>1, <1>3, Outcomes
  <2> HIDE DEF r
  <2>2. r = IF Due(k) \in ErrorIgnored THEN Proceeds(k)
            ELSE IF Due(k) \in ErrorSkips THEN Proceeds(Proceeds(k)) ELSE Fails(k, s, code)
    BY <1>2 DEF r
  <2>3. Due(k) \in ErrorSkips =>
          /\ Same(Proceeds(Proceeds(k)), Proceeds(k))
          /\ Proceeds(Proceeds(k)).todo = Tail(Tail(k.todo))
    <3> DEFINE on == Proceeds(k)
    <3>1. on \in InFlight /\ on.todo = Tail(k.todo)
      BY <2>1 DEF Same
    <3> HIDE DEF on
    <3>2. Due(k) \in ErrorSkips => Same(Proceeds(on), on) /\ Proceeds(on).todo = Tail(on.todo)
      BY <1>2a, <3>1, Outcomes
    <3>3. QED BY <3>1, <3>2 DEF on
  <2>4. s = IF Due(k) \in DOMAIN Undo THEN Undo[Due(k)] ELSE <<>>
    BY DEF s
  <2> HIDE DEF Due
  <2>5. QED BY <2>1, <2>2, <2>3, <2>4 DEF Same, Unsent
<1>5. n = [r EXCEPT !.refused = TRUE]
  OBVIOUS
<1> HIDE DEF r, n
<1>6. /\ n \in InFlight /\ Same(n, r) /\ n.refused /\ n.todo = r.todo
  BY <1>4, <1>5 DEF InFlight, Same
<1>7. Same(n, k)
  BY <1>4, <1>6 DEF Same
<1>8. QED BY <1>1, <1>4, <1>6, <1>7 DEF k

-------------------------------------------------------------------------------
(* What a request knows stays true, and what it learns is true.            *)

LEMMA SoundLasts ==
    ASSUME NEW k, Sound(k), Created \subseteq Created', invited \subseteq invited',
           held \subseteq held'
    PROVE  Sound(k)'
<1>1. Path(k.op, k.todo)' /\ Due(k)' = Due(k)
  BY DEF Sound, Path, Due
<1>2. Knows(k)'
  <2> HIDE DEF Due
  <2>1. Users \subseteq Users'
    BY DEF Users
  <2>2. Knows(k)
    BY DEF Sound
  <2>3. QED BY <1>1, <2>1, <2>2 DEF Knows, ToLower
<1>3. QED BY <1>1, <1>2 DEF Sound

LEMMA FoundsLess ==
    ASSUME NEW k \in InFlight, Sound(k), k.todo /= <<>>, NEW n \in InFlight, n.op = k.op,
           n.todo = Tail(k.todo), Founds(n)
    PROVE  Founds(k) /\ Due(n) /= "count_owned"
<1>1. <<Due(k), Due(n)>> \in Order[k.op] /\ k.op \in Operations
  BY NextDue
<1>2. /\ Due(n) = "find_slug" => Due(k) \in {"count_owned", "find_team"}
      /\ Due(n) = "insert_team" => Due(k) = "find_slug"
      /\ Due(n) /= "count_owned"
  BY <1>1, Successor
<1>3. Due(k) = "find_team" => k.op /= "create_team"
  <2>1. Due(k) = "find_team" =>
          k.op \in {"get_team", "update_team", "transfer", "invite", "accept"}
    BY <1>1, Roster
  <2>2. QED BY <2>1
<1>4. QED BY <1>2, <1>3 DEF Founds

LEMMA EndedFoundsNone ==
    ASSUME NEW n, n.todo = <<>>
    PROVE  ~Founds(n) /\ Due(n) = "end"
BY DEF Founds, Due

\* The undoing of what a request did, and the second look for a memo.
LEMMA UndoesSoundly ==
    ASSUME NEW k \in InFlight, Sound(k), NEW n \in InFlight, Same(n, k),
           \/ /\ Due(k) = "insert_owner" /\ k.op = "create_team" /\ n.todo = <<"undo_team">>
           \/ /\ Due(k) \in {"demote", "hand_over"} /\ k.op = "transfer"
              /\ n.todo \in {<<"undo_promote">>, <<"undo_demote", "undo_promote">>}
           \/ k.op \in {"delete_memo", "delete_own_memo"} /\ n.todo = <<"find_deleted_memo">>
    PROVE  /\ Sound(n) /\ ~Founds(n)
           /\ Due(n) \in {"undo_team", "undo_promote", "undo_demote", "find_deleted_memo"}
<1>1. CASE Due(k) = "insert_owner" /\ k.op = "create_team" /\ n.todo = <<"undo_team">>
  <2>1. n.op = "create_team" /\ Due(n) = "undo_team" /\ Path(n.op, n.todo)
    <3>1. Path("create_team", <<"undo_team">>)
      BY PathEnds DEF Order, Commands
    <3>2. QED BY <1>1, <3>1 DEF Same, Due
  <2>2. Knows(n)
    <3>1. "create_team" \notin DOMAIN Routes
      BY DEF Routes
    <3>2. Due(k) = "insert_owner"
      BY <1>1
    <3> HIDE DEF Due
    <3>3. QED BY <1>1, <2>1, <3>1, <3>2 DEF Sound, Knows, Same
  <2>3. QED BY <2>1, <2>2 DEF Sound, Founds
<1>2. CASE /\ Due(k) \in {"demote", "hand_over"} /\ k.op = "transfer"
           /\ n.todo \in {<<"undo_promote">>, <<"undo_demote", "undo_promote">>}
  <2>1. /\ n.op = "transfer" /\ Due(n) \in {"undo_promote", "undo_demote"}
        /\ Path(n.op, n.todo)
    <3>1. Path("transfer", <<"undo_promote">>)
      BY PathEnds DEF Order, Commands
    <3>2. Path("transfer", <<"undo_demote", "undo_promote">>)
      BY DEF Path, Order, Commands
    <3>3. n.op = "transfer" /\ Path(n.op, n.todo)
      BY <1>2, <3>1, <3>2 DEF Same
    <3>4. Due(n) \in {"undo_promote", "undo_demote"}
      <4>1. CASE n.todo = <<"undo_promote">>
        BY <4>1 DEF Due
      <4>2. CASE n.todo = <<"undo_demote", "undo_promote">>
        BY <4>2 DEF Due
      <4>3. QED BY <1>2, <4>1, <4>2
    <3>5. QED BY <3>3, <3>4
  <2>2. Knows(n)
    <3>1. Knows(k) /\ k.op = "transfer"
      BY <1>2 DEF Sound
    <3> HIDE DEF Due
    <3>2. QED BY <2>1, <3>1 DEF Knows, Same
  <2>3. QED BY <2>1, <2>2 DEF Sound, Founds
<1>3. CASE k.op \in {"delete_memo", "delete_own_memo"} /\ n.todo = <<"find_deleted_memo">>
  <2>1. /\ n.op \in {"delete_memo", "delete_own_memo"} /\ Due(n) = "find_deleted_memo"
        /\ Path(n.op, n.todo)
    <3>1. /\ Path("delete_memo", <<"find_deleted_memo">>)
          /\ Path("delete_own_memo", <<"find_deleted_memo">>)
      BY PathEnds DEF Order, Commands
    <3>2. QED BY <1>3, <3>1 DEF Same, Due
  <2>2. Knows(n)
    <3>1. Knows(k) /\ k.op \in {"delete_memo", "delete_own_memo"}
      BY <1>3 DEF Sound
    <3> HIDE DEF Due
    <3>2. QED BY <2>1, <3>1 DEF Knows, Same
  <2>3. QED BY <2>1, <2>2 DEF Sound, Founds
<1>4. QED BY <1>1, <1>2, <1>3

LEMMA SameEndsSoundly ==
    ASSUME NEW k \in InFlight, Sound(k), NEW n \in InFlight, Same(n, k), n.todo = <<>>
    PROVE  Sound(n) /\ ~Founds(n)
BY EndsSoundly, EndedFoundsNone DEF Same

LEMMA ReadsSoundly ==
    ASSUME TypeOK, Bookkeeping, NEW c \in Call, Sound(call[c]), ReadStep(c)
    PROVE  /\ ~Idle(c)
           /\ \E n \in InFlight :
                Reads(c, n) /\ Sound(n) /\ (Founds(n) => Founds(call[c]))
<1> DEFINE k == call[c]
<1>1. CASE /\ ~FindTeam(c) /\ ~FindTarget(c) /\ ~FindInvitation(c)
           /\ ~FindUser(c) /\ ~FindInvitee(c)
  <2>1. PlainOutcome(c)
    BY <1>1, PlainReading
  <2>2. /\ k \in InFlight /\ ~Idle(c) /\ k.todo /= <<>> /\ Due(k) \in PlainReads
        /\ \E n \in InFlight : Reads(c, n) /\ (Stops(n, k) \/ GoesOn(n, k))
    BY <2>1 DEF PlainOutcome
  <2>3. PICK n \in InFlight : Reads(c, n) /\ (Stops(n, k) \/ GoesOn(n, k))
    BY <2>2
  <2>4. CASE Stops(n, k)
    BY <2>2, <2>3, <2>4, SameEndsSoundly DEF Stops
  <2>5. CASE GoesOn(n, k)
    <3>1. Sound(n)
      <4>1. Due(k) \notin {"insert_team", "find_invitation", "find_team", "find_user",
                           "find_invitee"}
        BY <2>2 DEF PlainReads
      <4>2. QED BY <2>2, <2>5, <4>1, AdvancesSoundly DEF GoesOn
    <3>2. Founds(n) => Founds(k)
      BY <2>2, <2>5, FoundsLess DEF GoesOn, Same
    <3>3. QED BY <2>2, <2>3, <3>1, <3>2
  <2>6. QED BY <2>3, <2>4, <2>5
<1>2. CASE FindTeam(c)
  <2>1. /\ k \in InFlight /\ ~Idle(c) /\ k.todo /= <<>> /\ Due(k) = "find_team"
        /\ k.team \in Created
        /\ k.op \in {"get_team", "update_team", "transfer", "invite", "accept"}
    BY <1>2, TeamFound
  <2>2. PICK n \in InFlight :
          /\ Reads(c, n)
          /\ \/ Stops(n, k)
             \/ LiveTeam(k.team) /\ NotesTeam(n, k) /\ n.todo = Tail(k.todo)
    BY <1>2, TeamFound
  <2>3. CASE Stops(n, k)
    BY <2>1, <2>2, <2>3, SameEndsSoundly DEF Stops
  <2>4. CASE LiveTeam(k.team) /\ NotesTeam(n, k) /\ n.todo = Tail(k.todo)
    <3>1. Path(n.op, n.todo) /\ <<Due(k), Due(n)>> \in Order[k.op] /\ k.op \in Operations
      BY <2>1, <2>4, NextDue DEF NotesTeam
    <3>2. teams[k.team].owner \in User /\ teams[k.team].slug \in Slug
      BY <2>1, DocumentsTyped, RecordedMemos
    <3>3. Due(n) \notin {"find_user", "find_invitation", "find_member", "count_owned",
                         "insert_team", "insert_owner"}
      BY <2>1, <3>1, Successor
    <3>4. Knows(k) /\ k.slug \in Slug \cup {NoSlug} /\ k.op = n.op
      BY <2>1, <2>4 DEF Sound, InFlight, NotesTeam
    <3>5. n.slug \in Slug \/ n.op \notin {"update_team", "transfer"}
      BY <3>2, <3>4, <2>4 DEF NotesTeam
    <3>6. n.owner \in User \/ n.op /= "update_team"
      BY <3>2, <2>4 DEF NotesTeam
    <3>7. Knows(n)
      <4> HIDE DEF k, Due
      <4>1. /\ n.op = k.op /\ n.user = k.user /\ n.team = k.team /\ n.target = k.target
            /\ n.address = k.address /\ n.role = k.role /\ n.invitation = k.invitation /\ n.memo = k.memo
            /\ n.page = k.page /\ n.limit = k.limit
            /\ k.op /= "update_team" => n.owner = k.owner
            /\ k.op /= "create_team"
        BY <2>1, <2>4 DEF NotesTeam
      <4>2. QED BY <2>1, <3>3, <3>4, <3>5, <3>6, <4>1 DEF Knows
    <3>8. Sound(n)
      BY <3>1, <3>7 DEF Sound
    <3>9. Founds(n) => Founds(k)
      BY <2>1, <2>4, FoundsLess DEF NotesTeam
    <3>10. QED BY <2>1, <2>2, <3>8, <3>9
  <2>5. QED BY <2>2, <2>3, <2>4
<1>3. CASE FindTarget(c)
  <2>1. /\ k \in InFlight /\ ~Idle(c) /\ k.todo /= <<>> /\ Due(k) = "find_target"
        /\ k.op \in {"transfer", "remove_member", "update_role", "leave"}
    BY <1>3, TargetFound
  <2>2. PICK n \in InFlight :
          /\ Reads(c, n) /\ Reread(n, k)
          /\ \/ n.todo \in {<<>>, Tail(k.todo)}
             \/ /\ n.todo = Tail(Tail(k.todo)) /\ Tail(k.todo) /= <<>>
                /\ k.op \in {"remove_member", "update_role"}
    BY <1>3, TargetFound
  <2>3. ~Founds(n) /\ n.op = k.op
    BY <2>1, <2>2 DEF Founds, Reread
  <2>4. Path(n.op, n.todo) /\ (k.op = "transfer" => Due(n) \in {"find_team", "end"})
    <3>1. CASE n.todo = <<>>
      BY <3>1, PathEnds DEF Due
    <3>2. CASE n.todo = Tail(k.todo)
      <4>1. Path(n.op, n.todo) /\ <<Due(k), Due(n)>> \in Order[k.op] /\ k.op \in Operations
        BY <2>1, <2>3, <3>2, NextDue
      <4>2. k.op = "transfer" => Due(n) = "find_team"
        BY <2>1, <4>1, Successor
      <4>3. QED BY <4>1, <4>2
    <3>3. CASE /\ n.todo = Tail(Tail(k.todo)) /\ Tail(k.todo) /= <<>>
               /\ k.op \in {"remove_member", "update_role"}
      <4>1. Path(k.op, Tail(k.todo))
        BY <2>1, PathAdvances DEF Sound
      <4>2. Path(k.op, Tail(Tail(k.todo)))
        BY <3>3, <4>1, PathAdvances
      <4>3. QED BY <2>3, <3>3, <4>2
    <3>4. QED BY <2>2, <3>1, <3>2, <3>3
  <2>5. Knows(n)
    <3>1. Knows(k)
      BY DEF Sound
    <3> HIDE DEF k, Due
    <3>2. /\ n.op = k.op /\ n.user = k.user /\ n.team = k.team /\ n.target = k.target
          /\ n.address = k.address /\ n.owner = k.owner /\ n.slug = k.slug
          /\ n.invitation = k.invitation /\ n.memo = k.memo
          /\ n.page = k.page /\ n.limit = k.limit
          /\ k.op /= "transfer" => n.role = k.role
      BY <2>2 DEF Reread
    <3>3. QED BY <2>1, <2>4, <3>1, <3>2 DEF Knows
  <2>6. QED BY <2>1, <2>2, <2>3, <2>4, <2>5 DEF Sound
<1>4. CASE FindInvitation(c)
  <2>1. /\ k \in InFlight /\ ~Idle(c) /\ k.todo /= <<>> /\ Due(k) = "find_invitation"
        /\ k.op \in {"cancel", "accept", "decline"} /\ k.invitation \in Invitation
    BY <1>4, InvitationFound
  <2>2. PICK n \in InFlight :
          /\ Reads(c, n) /\ Accepts(n, k)
          /\ \/ n.todo = <<>>
             \/ /\ n.todo = Tail(k.todo) /\ Invited(k.invitation)
                /\ k.op = "accept" => invitations[k.invitation].address = k.address
    BY <1>4, InvitationFound
  <2>3. ~Founds(n) /\ n.op = k.op
    BY <2>1, <2>2 DEF Founds, Accepts
  <2>4. Path(n.op, n.todo) /\ (n.todo = <<>> => Due(n) = "end")
    <3>1. CASE n.todo = <<>>
      BY <3>1, PathEnds DEF Due
    <3>2. CASE n.todo = Tail(k.todo)
      BY <2>1, <2>3, <3>2, NextDue DEF Due
    <3>3. QED BY <2>2, <3>1, <3>2
  <2>5. n.todo /= <<>> /\ k.op = "accept" =>
          n.team \in Created /\ n.role \in Given /\ <<n.team, n.address>> \in invited
    <3>1. ASSUME Invited(k.invitation)
          PROVE  /\ invitations[k.invitation].team \in Created
                 /\ invitations[k.invitation].role \in Given
                 /\ <<invitations[k.invitation].team, invitations[k.invitation].address>> \in invited
      <4>1. invitations[k.invitation] \in InvitationDocument
        BY <2>1, <3>1 DEF TypeOK, StoreTypeOK, Invited
      <4>2. QED BY <2>1, <3>1, <4>1 DEF Bookkeeping, InvitationDocument
    <3>2. QED BY <2>2, <3>1 DEF Accepts
  <2>6. Knows(n)
    <3>1. Knows(k)
      BY DEF Sound
    <3> HIDE DEF k
    <3>2. /\ n.op = k.op /\ n.user = k.user /\ n.target = k.target /\ n.address = k.address
          /\ n.owner = k.owner /\ n.slug = k.slug
          /\ n.invitation = k.invitation /\ n.memo = k.memo
          /\ n.page = k.page /\ n.limit = k.limit
          /\ k.op /= "accept" => n.role = k.role /\ n.team = k.team
      BY <2>2 DEF Accepts
    <3>3. n.todo /= <<>> \/ Due(n) = "end"
      BY <2>4
    <3> HIDE DEF Due
    <3>4. "accept" \notin DOMAIN Routes
      BY DEF Routes
    <3>5. Due(n) /= "find_member"
      <4>1. CASE n.todo = <<>>
        BY <2>4, <4>1
      <4>2. CASE n.todo = Tail(k.todo)
        <5>1. <<Due(k), Due(n)>> \in Order[k.op] /\ k.op \in Operations
          BY <2>1, <2>3, <4>2, NextDue DEF k
        <5>2. QED BY <2>1, <5>1, Successor
      <4>3. QED BY <2>2, <4>1, <4>2
    <3>6. QED BY <2>1, <2>5, <3>1, <3>2, <3>3, <3>4, <3>5 DEF Knows
  <2>7. QED BY <2>1, <2>2, <2>3, <2>4, <2>6 DEF Sound
<1>5. CASE FindUser(c)
  <2>1. /\ k \in InFlight /\ ~Idle(c) /\ k.todo /= <<>> /\ Due(k) = "find_user"
        /\ k.op \in {"my_invitations", "accept", "decline"}
    BY <1>5, UserFound
  <2>2. PICK n \in InFlight :
          /\ Reads(c, n)
          /\ \/ Stops(n, k)
             \/ /\ Finds(n, k) /\ n.target = k.target /\ n.todo = Tail(k.todo)
                /\ HasHeld(k.user, n.address)
    BY <1>5, UserFound
  <2>3. CASE Stops(n, k)
    BY <2>1, <2>2, <2>3, SameEndsSoundly DEF Stops
  <2>4. CASE /\ Finds(n, k) /\ n.target = k.target /\ n.todo = Tail(k.todo)
             /\ HasHeld(k.user, n.address)
    <3>1. Path(n.op, n.todo) /\ <<Due(k), Due(n)>> \in Order[k.op] /\ k.op \in Operations
      BY <2>1, <2>4, NextDue DEF Finds
    <3>2. /\ Due(n) \in {"find", "find_invitation"}
          /\ k.op = "accept" => Due(n) = "find_invitation"
      <4>1. k.op = "accept" => <<"find_user", Due(n)>> \in Order["accept"]
        BY <2>1, <3>1
      <4>2. Order["accept"] =
              {<<"find_user", "find_invitation">>, <<"find_invitation", "find_team">>,
               <<"find_team", "count_members">>, <<"count_members", "insert_member">>,
               <<"insert_member", "drop_invitation">>, <<"drop_invitation", "end">>}
        BY DEF Order
      <4>3. Due(n) \in {"find", "find_invitation"}
        BY <2>1, <3>1, Successor
      <4> HIDE DEF k, Due
      <4>4. QED BY <4>1, <4>2, <4>3
    <3>3. Knows(n)
      <4>1. Knows(k)
        BY DEF Sound
      <4> HIDE DEF k, Due
      <4>2. {"my_invitations", "accept", "decline"} \cap DOMAIN Routes = {}
        BY DEF Routes
      <4>3. QED BY <2>1, <2>4, <3>2, <4>1, <4>2 DEF Knows, Finds, HasHeld
    <3>4. ~Founds(n) /\ Sound(n)
      BY <2>1, <2>4, <3>1, <3>3 DEF Founds, Sound, Finds
    <3>5. QED BY <2>1, <2>2, <3>4
  <2>5. QED BY <2>2, <2>3, <2>4
<1>6. CASE FindInvitee(c)
  <2>1. /\ k \in InFlight /\ ~Idle(c) /\ k.todo /= <<>> /\ Due(k) = "find_invitee"
        /\ k.op = "invite" /\ Tail(k.todo) /= <<>> /\ Head(Tail(k.todo)) = "find_member"
    BY <1>6, InviteeFound
  <2>2. PICK n \in InFlight :
          /\ Reads(c, n) /\ Finds(n, k) /\ n.address = k.address
          /\ \/ /\ n.todo = Tail(k.todo)
                /\ n.target \in FindByEmail(<<n.address, LowerCase>>)
             \/ n.todo = Tail(Tail(k.todo)) /\ n.target = k.target
    BY <1>6, InviteeFound
  <2>3. Path(k.op, Tail(k.todo)) /\ k.op \in Operations
    BY <2>1, PathAdvances DEF Sound, InFlight
  <2>4. /\ Path(n.op, n.todo) /\ Due(n) \in {"find_member", "find_pending"}
        /\ Due(n) = "find_member" => n.target \in User
    <3>1. CASE n.todo = Tail(k.todo) /\ n.target \in FindByEmail(<<n.address, LowerCase>>)
      <4>1. Due(n) = "find_member"
        BY <2>1, <3>1 DEF Due
      <4>2. n.target \in User
        BY <3>1 DEF FindByEmail
      <4>3. QED BY <2>2, <2>3, <3>1, <4>1, <4>2 DEF Finds
    <3>2. CASE n.todo = Tail(Tail(k.todo))
      <4> DEFINE rest == Tail(k.todo)
                 b == IF Tail(rest) = <<>> THEN "end" ELSE Head(Tail(rest))
      <4>1. Path(k.op, Tail(rest)) /\ <<Head(rest), b>> \in Order[k.op]
        BY <2>1, <2>3, PathAdvances
      <4>2. b = "find_pending"
        <5> HIDE DEF b, rest
        <5>1. Head(rest) = "find_member"
          BY <2>1 DEF rest
        <5>2. QED BY <2>3, <4>1, <5>1, Successor
      <4>3. Due(n) = b
        BY <3>2 DEF Due
      <4>4. QED BY <2>2, <3>2, <4>1, <4>2, <4>3 DEF Finds
    <3>3. QED BY <2>2, <3>1, <3>2
  <2>5. Knows(n)
    <3>1. Knows(k)
      BY DEF Sound
    <3> HIDE DEF k, Due
    <3>2. QED BY <2>1, <2>2, <2>4, <3>1 DEF Knows, Finds
  <2>6. ~Founds(n) /\ Sound(n)
    BY <2>1, <2>2, <2>4, <2>5 DEF Founds, Sound, Finds
  <2>7. QED BY <2>1, <2>2, <2>6
<1>7. QED BY <1>1, <1>2, <1>3, <1>4, <1>5, <1>6

WriteCommands ==
    {"insert_owner", "undo_team", "update_team", "delete_memos", "delete_members",
     "delete_invitations", "delete_team", "promote", "demote", "hand_over", "undo_demote",
     "undo_promote", "delete_member", "set_role", "insert_invitation", "delete_invitation",
     "insert_member", "drop_invitation", "insert_memo", "delete_memo"}

LEMMA WriterDue ==
    ASSUME TypeOK, NEW c \in Call, WriteStep(c), ~InsertTeam(c)
    PROVE  Due(call[c]) \in WriteCommands
<1>1. \E command \in WriteCommands : Sends(c, command)
  BY DEF WriteStep, WriteCommands, InsertOwner, UndoTeam, WriteTeam, DeleteMemos, DeleteMembers,
         DeleteInvitations, DeleteTheTeam, Promote, Demote, HandOver, UndoDemote, UndoPromote,
         DeleteTheMember, SetRole, InsertTheInvitation, DeleteTheInvitation, InsertTheMember,
         DropInvitation, InsertTheMemo, DeleteTheMemo
<1>2. QED BY <1>1, Sending

\* The operation whose command is due.
LEMMA SenderOf ==
    ASSUME NEW k \in InFlight, Sound(k), k.todo /= <<>>
    PROVE  /\ Due(k) \in {"insert_team", "insert_owner", "undo_team"} => k.op = "create_team"
           /\ Due(k) = "update_team" => k.op = "update_team"
           /\ Due(k) \in {"delete_memos", "delete_members", "delete_invitations", "delete_team"} =>
                k.op = "delete_team"
           /\ Due(k) \in {"promote", "demote", "hand_over", "undo_demote", "undo_promote"} =>
                k.op = "transfer"
           /\ Due(k) = "delete_member" => k.op \in {"remove_member", "leave"}
           /\ Due(k) = "set_role" => k.op = "update_role"
           /\ Due(k) = "insert_invitation" => k.op = "invite"
           /\ Due(k) = "delete_invitation" => k.op \in {"cancel", "decline"}
           /\ Due(k) \in {"insert_member", "drop_invitation"} => k.op = "accept"
           /\ Due(k) = "insert_memo" => k.op \in {"create_own_memo", "create_memo"}
           /\ Due(k) \in {"delete_memo", "find_deleted_memo"} =>
                k.op \in {"delete_memo", "delete_own_memo"}
           /\ Due(k) = "authorize" => k.op \in DOMAIN Routes
<1>1. PICK b : <<Due(k), b>> \in Order[k.op] /\ k.op \in Operations
  BY DueInOrder
<1>2. QED BY <1>1, Roster

LEMMA WritesSoundly ==
    ASSUME TypeOK, NEW c \in Call, Sound(call[c]), WriteStep(c), ~InsertTeam(c)
    PROVE  /\ call[c] \in InFlight /\ ~Idle(c) /\ call[c].todo /= <<>>
           /\ \E n \in InFlight :
                /\ Becomes(c, n) /\ Same(n, call[c])
                /\ n.refused = call[c].refused /\ n.todo = Remaining(call[c])
                /\ Sound(n) /\ (Founds(n) => Founds(call[c]))
<1> DEFINE k == call[c]
<1>1. /\ k \in InFlight /\ ~Idle(c) /\ k.todo /= <<>>
      /\ \E n \in InFlight :
           Becomes(c, n) /\ Same(n, k) /\ n.refused = k.refused /\ n.todo = Remaining(k)
  BY Writing DEF WriteOutcome
<1>2. PICK n \in InFlight :
        Becomes(c, n) /\ Same(n, k) /\ n.refused = k.refused /\ n.todo = Remaining(k)
  BY <1>1
<1>3. Due(k) \in WriteCommands
  BY WriterDue
<1> HIDE DEF k
<1>4. Sound(k)
  BY DEF k
<1>5. Sound(n) /\ (Founds(n) => Founds(k))
  <2>1. CASE n.todo = Tail(k.todo)
    <3>1. Due(k) \notin {"insert_team", "find_invitation", "find_team", "find_user",
                        "find_invitee"}
      BY <1>3 DEF WriteCommands
    <3>2. Sound(n)
      BY <1>1, <1>2, <1>4, <2>1, <3>1, AdvancesSoundly
    <3>3. QED BY <1>1, <1>2, <1>4, <2>1, <3>2, FoundsLess DEF Same
  <2>2. CASE n.todo = <<>>
    BY <1>1, <1>2, <1>4, <2>2, SameEndsSoundly
  <2>3. CASE \/ /\ Due(k) \in {"demote", "hand_over"}
                /\ n.todo \in {<<"undo_promote">>, <<"undo_demote", "undo_promote">>}
             \/ Due(k) = "delete_memo" /\ n.todo = <<"find_deleted_memo">>
    <3>1. /\ Due(k) \in {"demote", "hand_over"} => k.op = "transfer"
          /\ Due(k) = "delete_memo" => k.op \in {"delete_memo", "delete_own_memo"}
      BY <1>1, <1>4, SenderOf
    <3>2. QED BY <1>1, <1>2, <1>4, <2>3, <3>1, UndoesSoundly
  <2>4. \/ n.todo \in {<<>>, Tail(k.todo)}
        \/ /\ Due(k) \in {"demote", "hand_over"}
           /\ n.todo \in {<<"undo_promote">>, <<"undo_demote", "undo_promote">>}
        \/ Due(k) = "delete_memo" /\ n.todo = <<"find_deleted_memo">>
    BY <1>2 DEF Remaining
  <2>5. QED BY <2>1, <2>2, <2>3, <2>4
<1>6. QED BY <1>1, <1>2, <1>5 DEF k

\* An invitation whose lookup of the invitee fails goes on without a member's.
LEMMA Skipped ==
    ASSUME NEW k \in InFlight, Sound(k), k.todo /= <<>>, Due(k) = "find_invitee",
           NEW n, n.todo = Tail(Tail(k.todo))
    PROVE  k.op = "invite" /\ Path(k.op, n.todo) /\ Due(n) = "find_pending"
<1> DEFINE rest == Tail(k.todo)
           a == IF rest = <<>> THEN "end" ELSE Head(rest)
           b == IF Tail(rest) = <<>> THEN "end" ELSE Head(Tail(rest))
<1>1. Path(k.op, rest) /\ <<Due(k), a>> \in Order[k.op] /\ k.op \in Operations
  BY PathAdvances DEF Sound, InFlight, Due
<1>2. k.op = "invite" /\ a = "find_member"
  <2> HIDE DEF a, rest
  <2>1. QED BY <1>1, Roster, Successor
<1>3. rest /= <<>> /\ Head(rest) = "find_member"
  BY <1>2
<1>4. Path(k.op, Tail(rest)) /\ <<Head(rest), b>> \in Order[k.op]
  BY <1>1, <1>3, PathAdvances
<1>5. Due(n) = b /\ b = "find_pending"
  <2>1. Due(n) = b
    BY DEF Due
  <2> HIDE DEF b, rest
  <2>2. QED BY <1>1, <1>3, <1>4, <2>1, Successor
<1>6. QED BY <1>2, <1>4, <1>5

LEMMA SkipsSoundly ==
    ASSUME NEW k \in InFlight, Sound(k), k.todo /= <<>>, Due(k) = "find_invitee",
           NEW n \in InFlight, Same(n, k), n.todo = Tail(Tail(k.todo))
    PROVE  Sound(n) /\ ~Founds(n) /\ n.op = "invite" /\ Due(n) = "find_pending"
<1>1. n.op = "invite" /\ Path(n.op, n.todo) /\ Due(n) = "find_pending" /\ k.op = "invite"
  BY Skipped DEF Same
<1>2. Knows(k)
  BY DEF Sound
<1> HIDE DEF Due
<1>3. Knows(n)
  BY <1>1, <1>2 DEF Knows, Same
<1>4. QED BY <1>1, <1>3 DEF Sound, Founds

\* A request that looks a user up, or an invitee.
LEMMA LookedUp ==
    ASSUME TypeOK, NEW c \in Call, Sound(call[c]), FindUser(c) \/ FindInvitee(c)
    PROVE  /\ call[c] \in InFlight /\ ~Idle(c) /\ call[c].todo /= <<>>
           /\ \/ /\ Due(call[c]) = "find_user"
                 /\ call[c].op \in {"my_invitations", "accept", "decline"}
              \/ Due(call[c]) = "find_invitee" /\ call[c].op = "invite"
           /\ \E n \in InFlight :
                /\ Reads(c, n) /\ Finds(n, call[c])
                /\ IF Due(call[c]) = "find_user"
                     THEN Due(n) \in {"end", IF n.op = "my_invitations" THEN "find"
                                                                       ELSE "find_invitation"}
                     ELSE Due(n) \in {"find_member", "find_pending"}
<1> DEFINE k == call[c]
<1>1. CASE FindUser(c)
  <2>1. /\ k \in InFlight /\ ~Idle(c) /\ k.todo /= <<>> /\ Due(k) = "find_user"
        /\ k.op \in {"my_invitations", "accept", "decline"} /\ Sound(k)
    BY <1>1, UserFound
  <2>2. PICK n \in InFlight :
          Reads(c, n) /\ (Stops(n, k) \/ (Finds(n, k) /\ n.todo = Tail(k.todo)))
    BY <1>1, UserFound
  <2> HIDE DEF k
  <2>3. CASE Stops(n, k)
    <3>1. Finds(n, k) /\ Due(n) = "end"
      BY <2>3 DEF Stops, Same, Finds, Due
    <3>2. QED BY <2>1, <2>2, <3>1 DEF k
  <2>4. CASE Finds(n, k) /\ n.todo = Tail(k.todo)
    <3>1. n.op = k.op /\ <<Due(k), Due(n)>> \in Order[k.op]
      BY <2>1, <2>4, NextDue DEF Finds
    <3>2. Due(n) = IF n.op = "my_invitations" THEN "find" ELSE "find_invitation"
      <4> HIDE DEF Due
      <4>1. QED BY <2>1, <3>1 DEF Order
    <3>3. QED BY <2>1, <2>2, <2>4, <3>2 DEF k
  <2>5. QED BY <2>2, <2>3, <2>4
<1>2. CASE FindInvitee(c)
  <2>1. /\ k \in InFlight /\ ~Idle(c) /\ k.todo /= <<>> /\ Due(k) = "find_invitee"
        /\ k.op = "invite" /\ Sound(k) /\ Tail(k.todo) /= <<>>
        /\ Head(Tail(k.todo)) = "find_member"
    BY <1>2, InviteeFound
  <2>2. PICK n \in InFlight :
          Reads(c, n) /\ Finds(n, k) /\ n.todo \in {Tail(k.todo), Tail(Tail(k.todo))}
    BY <1>2, InviteeFound
  <2> HIDE DEF k
  <2>3. Due(n) \in {"find_member", "find_pending"}
    <3>1. CASE n.todo = Tail(k.todo)
      BY <2>1, <3>1 DEF Due
    <3>2. CASE n.todo = Tail(Tail(k.todo))
      BY <2>1, <3>2, Skipped
    <3>3. QED BY <2>2, <3>1, <3>2
  <2>4. QED BY <2>1, <2>2, <2>3 DEF k
<1>3. QED BY <1>1, <1>2

LEMMA RefusesSoundly ==
    ASSUME TypeOK, NEW c \in Call, Sound(call[c]), Refuse(c)
    PROVE  /\ call[c] \in InFlight /\ ~Idle(c) /\ call[c].todo /= <<>> /\ ~call[c].refused
           /\ \E n \in InFlight :
                /\ Becomes(c, n) /\ Same(n, call[c]) /\ n.refused /\ n.todo = Unsent(call[c])
                /\ Sound(n) /\ (Founds(n) => Founds(call[c]))
<1> DEFINE k == call[c]
<1>1. k \in InFlight /\ ~Idle(c) /\ k.todo /= <<>> /\ ~k.refused
  BY Refusing
<1>2. PICK n \in InFlight : Becomes(c, n) /\ Same(n, k) /\ n.refused /\ n.todo = Unsent(k)
  BY RefusedLeaves
<1> HIDE DEF k
<1>3. Sound(k)
  BY DEF k
<1>4. Sound(n) /\ (Founds(n) => Founds(k))
  <2>1. CASE Due(k) \in ErrorIgnored
    <3>1. Due(k) \notin {"insert_team", "find_invitation", "find_team", "find_user",
                        "find_invitee"} /\ n.todo = Tail(k.todo)
      BY <1>2, <2>1 DEF ErrorIgnored, Unsent
    <3>2. Sound(n)
      BY <1>1, <1>2, <1>3, <3>1, AdvancesSoundly
    <3>3. QED BY <1>1, <1>2, <1>3, <3>1, <3>2, FoundsLess DEF Same
  <2>2. CASE Due(k) \notin ErrorIgnored \cup ErrorSkips /\ Due(k) \notin DOMAIN Undo
    <3>1. n.todo = <<>>
      BY <1>2, <2>2 DEF Unsent
    <3>2. QED BY <1>1, <1>2, <1>3, <3>1, SameEndsSoundly
  <2>3. CASE Due(k) \notin ErrorIgnored \cup ErrorSkips /\ Due(k) \in DOMAIN Undo
    <3>1. n.todo = Undo[Due(k)]
      BY <1>2, <2>3 DEF Unsent
    <3>2. /\ Due(k) \in {"insert_owner", "demote", "hand_over"}
          /\ Undo["insert_owner"] = <<"undo_team">> /\ Undo["demote"] = <<"undo_promote">>
          /\ Undo["hand_over"] = <<"undo_demote", "undo_promote">>
      BY <2>3 DEF Undo
    <3>3. /\ Due(k) \in {"demote", "hand_over"} => k.op = "transfer"
          /\ Due(k) = "insert_owner" => k.op = "create_team"
      BY <1>1, <1>3, SenderOf
    <3>4. QED BY <1>1, <1>2, <1>3, <3>1, <3>2, <3>3, UndoesSoundly
  <2>4. CASE Due(k) \in ErrorSkips
    <3>1. Due(k) = "find_invitee" /\ n.todo = Tail(Tail(k.todo))
      BY <1>2, <2>4 DEF ErrorSkips, ErrorIgnored, Unsent
    <3>2. QED BY <1>1, <1>2, <1>3, <3>1, SkipsSoundly
  <2>5. QED BY <2>1, <2>2, <2>3, <2>4
<1>5. QED BY <1>1, <1>2, <1>4 DEF k

-------------------------------------------------------------------------------
(* The requests, after a step of one.                                      *)

CallsSound == \A c \in Call : ~Idle(c) => Sound(call[c])

LEMMA CallsKept ==
    ASSUME TypeOK, CallsSound, NEW c \in Call, NEW n \in InFlight \cup {NoCall},
           call' = [call EXCEPT ![c] = n], n = NoCall \/ Sound(n)',
           Created \subseteq Created', invited \subseteq invited', held \subseteq held'
    PROVE  call' \in [Call -> InFlight \cup {NoCall}] /\ CallsSound'
<1>1. call \in [Call -> InFlight \cup {NoCall}]
  BY DEF TypeOK
<1>2. call' \in [Call -> InFlight \cup {NoCall}] /\ call'[c] = n
  BY <1>1
<1>3. ASSUME NEW d \in Call, ~Idle(d)' PROVE Sound(call[d])'
  <2>1. CASE d = c
    <3>1. n /= NoCall
      BY <1>2, <1>3, <2>1 DEF Idle, NoCall
    <3>2. QED BY <1>2, <2>1, <3>1
  <2>2. CASE d /= c
    <3>1. call'[d] = call[d]
      BY <1>1, <2>2
    <3>2. Sound(call[d])
      BY <1>3, <3>1 DEF CallsSound, Idle
    <3> PICK k : k = call[d]
      OBVIOUS
    <3>3. Sound(k)'
      BY <3>2, SoundLasts
    <3>4. k = call'[d]
      BY <3>1
    <3>5. QED BY <3>3, <3>4
  <2>3. QED BY <2>1, <2>2
<1>4. QED BY <1>2, <1>3 DEF CallsSound

LEMMA FoundersKept ==
    ASSUME TypeOK, TeamsLeft, NEW c \in Call, NEW n,
           call' = [call EXCEPT ![c] = n], scenario' = scenario, Created' = Created,
           Founds(n) => Founds(call[c])
    PROVE  TeamsLeft'
<1>1. Founders' \in SUBSET Founders
  <2>1. ASSUME NEW d \in Call, Founds(call[d])' PROVE Founds(call[d])
    <3>1. CASE d = c
      <4>1. call'[d] = n
        BY <3>1 DEF TypeOK
      <4>2. Founds(n)
        BY <2>1, <4>1 DEF Founds, Due
      <4>3. QED BY <3>1, <4>2
    <3>2. CASE d /= c
      <4>1. call'[d] = call[d]
        BY <3>2 DEF TypeOK
      <4>2. QED BY <2>1, <4>1 DEF Founds, Due
    <3>3. QED BY <3>1, <3>2
  <2>2. QED BY <2>1 DEF Founders
<1>2. IsFiniteSet(Founders)
  <2>1. Founders \in SUBSET Call
    BY DEF Founders
  <2>2. QED BY <2>1, FiniteAssumption, FS_Subset
<1>3. /\ Cardinality(Founders') <= Cardinality(Founders)
      /\ Cardinality(Founders') \in Nat /\ Cardinality(Founders) \in Nat
  BY <1>1, <1>2, FS_Subset, FS_CardinalityType
<1>4. Cardinality(Created) \in Nat /\ scenario.teams \in Nat
  <2>1. IsFiniteSet(Team) /\ Created \in SUBSET Team
    BY FS_Interval, StoreAssumption DEF Team, Created
  <2>2. scenario.teams \in Nat
    BY ScenarioFacts, StoreAssumption
  <2>3. QED BY <2>1, <2>2, FS_Subset, FS_CardinalityType
<1>5. QED BY <1>3, <1>4 DEF TeamsLeft

\* A request that arrives to found a team is one more of them.
LEMMA FoundersMore ==
    ASSUME TypeOK, TeamsLeft, NEW c \in Call, NEW k \in InFlight,
           call' = [call EXCEPT ![c] = k], scenario' = scenario, Created' = Created, Idle(c),
           k.op = "create_team" =>
             Cardinality(Created) + Cardinality(InProgress({"create_team"})) < scenario.teams
    PROVE  TeamsLeft'
<1>1. CASE k.op /= "create_team"
  <2>1. ~Founds(k)
    BY <1>1 DEF Founds
  <2>2. QED BY <2>1, FoundersKept
<1>2. CASE k.op = "create_team"
  <2> DEFINE busy == InProgress({"create_team"})
  <2>1. busy \in SUBSET Call /\ IsFiniteSet(Call)
    BY FiniteAssumption DEF InProgress
  <2>2. IsFiniteSet(busy) /\ Cardinality(busy) \in Nat
    BY <2>1, FS_Subset, FS_CardinalityType
  <2>3. Founders' \in SUBSET (busy \cup {c})
    <3>1. ASSUME NEW d \in Call, d /= c, Founds(call[d])' PROVE d \in busy
      <4>1. call'[d] = call[d]
        BY <3>1 DEF TypeOK
      <4>2. QED BY <3>1, <4>1 DEF Founds, InProgress
    <3>2. QED BY <3>1 DEF Founders
  <2> HIDE DEF busy
  <2>4. /\ IsFiniteSet(busy \cup {c}) /\ Cardinality(busy \cup {c}) \in Nat
        /\ Cardinality(busy \cup {c}) <= Cardinality(busy) + 1
    <3>1. /\ IsFiniteSet(busy \cup {c})
          /\ Cardinality(busy \cup {c})
               = IF c \in busy THEN Cardinality(busy) ELSE Cardinality(busy) + 1
      BY <2>2, FS_AddElement, Zenon
    <3>2. QED BY <2>2, <3>1
  <2>5. Cardinality(Founders') <= Cardinality(busy) + 1 /\ Cardinality(Founders') \in Nat
    <3>1. Cardinality(Founders') <= Cardinality(busy \cup {c}) /\ IsFiniteSet(Founders')
      BY <2>3, <2>4, FS_Subset
    <3>2. Cardinality(Founders') \in Nat
      BY <3>1, FS_CardinalityType
    <3>3. QED BY <2>2, <2>4, <3>1, <3>2
  <2>6. Cardinality(Created) \in Nat /\ scenario.teams \in Nat
    <3>1. IsFiniteSet(Team) /\ Created \in SUBSET Team
      BY FS_Interval, StoreAssumption DEF Team, Created
    <3>2. scenario.teams \in Nat
      BY ScenarioFacts, StoreAssumption
    <3>3. QED BY <3>1, <3>2, FS_Subset, FS_CardinalityType
  <2>7. Cardinality(Created) + Cardinality(busy) < scenario.teams
    BY <1>2 DEF busy
  <2>8. QED BY <2>2, <2>5, <2>6, <2>7 DEF TeamsLeft
<1>3. QED BY <1>1, <1>2

-------------------------------------------------------------------------------
(* The collections, after a command that writes.                           *)

Store ==
    /\ StoreTypeOK
    /\ held \in SUBSET (User \X Email)
    /\ invited \in SUBSET (Team \X (User \cup Address))
    /\ Bookkeeping
    /\ MembersWereInvited

Kept ==
    /\ Store' /\ UNCHANGED <<userVars, half, undropped>>
    /\ invited \subseteq invited' /\ Created' = Created

\* She founded the team, or an email she has, or had, was invited to it.
WasInvited(t, u) ==
    \/ <<t, u>> \in invited
    \/ \E email \in Email : <<u, email>> \in held /\ <<t, ToLower(email)>> \in invited

LEMMA UsersUntouched ==
    ASSUME Store, UNCHANGED userVars
    PROVE  /\ Users' = Users /\ (held \in SUBSET (User \X Email))'
           /\ (\A u \in User : emails[u] /= NoEmail => <<u, emails[u]>> \in held)'
           /\ (\A u, v \in User : emails[u] = emails[v] => u = v \/ emails[u] = NoEmail)'
<1>1. UNCHANGED <<emails, held>>
  BY DEF userVars
<1>2. QED BY <1>1 DEF Users, Store, Bookkeeping

LEMMA RolesWritten ==
    ASSUME Store, roles' \in [Team -> [User -> Role \cup {"none"}]],
           \A t \in Team, u \in User : IsMember(t, u)' =>
             IsMember(t, u) \/ (t \in Created /\ u \in Users /\ WasInvited(t, u)'),
           invited \subseteq invited', invited' \in SUBSET (Team \X (User \cup Address)),
           UNCHANGED <<teams, invitations, memos, userVars, half, undropped>>
    PROVE  Kept
<1>1. Created' = Created /\ StoreTypeOK'
  BY DEF Created, StoreTypeOK, Store, userVars
<1>2. \A t \in Team, u \in User : IsMember(t, u) =>
        t \in Created /\ u \in Users /\ WasInvited(t, u)
  BY DEF Store, Bookkeeping, MembersWereInvited, Members, WasInvited
<1>0. \A t \in Team, u \in User : WasInvited(t, u) => WasInvited(t, u)'
  BY DEF WasInvited, userVars
<1>3. \A t \in Team, u \in User : IsMember(t, u)' =>
        t \in Created /\ u \in Users /\ WasInvited(t, u)'
  BY <1>0, <1>2
<1>4. MembersWereInvited'
  BY <1>3 DEF MembersWereInvited, Members, WasInvited
<1>5. Bookkeeping'
  <2>1. (\E n \in 0 .. MaxTeams : Created = 1 .. n)'
    BY <1>1 DEF Store, Bookkeeping
  <2>2. (\A s, t \in Created : teams[s].slug = teams[t].slug => s = t)'
    BY <1>1 DEF Store, Bookkeeping
  <2>3. (\A t \in Team \ Created : Members(t) = {})'
    BY <1>1, <1>3 DEF Members
  <2>4. (\A i \in Invitation : Invited(i) =>
           /\ invitations[i].team \in Created
           /\ <<invitations[i].team, invitations[i].address>> \in invited)'
    BY <1>1 DEF Store, Bookkeeping, Invited
  <2>5. (\A m \in Memo : memos[m].team \in Created \cup {NoTeam})'
    BY <1>1 DEF Store, Bookkeeping
  <2>6. (\A t \in Team : Members(t) \subseteq Users)'
    BY <1>3, UsersUntouched DEF Members
  <2>7. QED BY <2>1, <2>2, <2>3, <2>4, <2>5, <2>6, UsersUntouched DEF Bookkeeping
<1>6. QED BY <1>1, <1>4, <1>5, UsersUntouched DEF Kept, Store

LEMMA TeamsWritten ==
    ASSUME Store, teams' \in [Team -> TeamDocument \cup {NotCreated}],
           \A t \in Team : teams'[t] = NotCreated <=> teams[t] = NotCreated,
           \A s, t \in Created : teams'[s].slug = teams'[t].slug => s = t,
           UNCHANGED <<roles, invitations, memos, userVars, invited, half, undropped>>
    PROVE  Kept
<1>1. Created' = Created /\ StoreTypeOK'
  BY DEF Created, StoreTypeOK, Store, userVars
<1>2. Bookkeeping'
  <2>1. (\E n \in 0 .. MaxTeams : Created = 1 .. n)'
    BY <1>1 DEF Store, Bookkeeping
  <2>2. (\A s, t \in Created : teams[s].slug = teams[t].slug => s = t)'
    BY <1>1
  <2>3. (\A t \in Team \ Created : Members(t) = {})'
    BY <1>1 DEF Members, IsMember, Store, Bookkeeping
  <2>4. (\A i \in Invitation : Invited(i) =>
           /\ invitations[i].team \in Created
           /\ <<invitations[i].team, invitations[i].address>> \in invited)'
    BY <1>1 DEF Store, Bookkeeping, Invited
  <2>5. (\A m \in Memo : memos[m].team \in Created \cup {NoTeam})'
    BY <1>1 DEF Store, Bookkeeping
  <2>6. (\A t \in Team : Members(t) \subseteq Users)'
    BY UsersUntouched DEF Members, IsMember, Store, Bookkeeping
  <2>7. QED BY <2>1, <2>2, <2>3, <2>4, <2>5, <2>6, UsersUntouched DEF Bookkeeping
<1>3. MembersWereInvited'
  BY DEF Store, MembersWereInvited, Members, IsMember, userVars
<1>4. QED BY <1>1, <1>2, <1>3, UsersUntouched DEF Kept, Store

LEMMA InvitationsWritten ==
    ASSUME Store, invitations' \in [Invitation -> InvitationDocument \cup {NotInvited}],
           \A i \in Invitation : Invited(i)' =>
             /\ invitations'[i].team \in Created
             /\ <<invitations'[i].team, invitations'[i].address>> \in invited',
           invited \subseteq invited', invited' \in SUBSET (Team \X (User \cup Address)),
           UNCHANGED <<teams, roles, memos, userVars, half, undropped>>
    PROVE  Kept
<1>1. Created' = Created /\ StoreTypeOK'
  BY DEF Created, StoreTypeOK, Store, userVars
<1>2. Bookkeeping'
  <2>1. (\E n \in 0 .. MaxTeams : Created = 1 .. n)'
    BY <1>1 DEF Store, Bookkeeping
  <2>2. (\A s, t \in Created : teams[s].slug = teams[t].slug => s = t)'
    BY <1>1 DEF Store, Bookkeeping
  <2>3. (\A t \in Team \ Created : Members(t) = {})'
    BY <1>1 DEF Members, IsMember, Store, Bookkeeping
  <2>4. (\A i \in Invitation : Invited(i) =>
           /\ invitations[i].team \in Created
           /\ <<invitations[i].team, invitations[i].address>> \in invited)'
    BY <1>1 DEF Invited
  <2>5. (\A m \in Memo : memos[m].team \in Created \cup {NoTeam})'
    BY <1>1 DEF Store, Bookkeeping
  <2>6. (\A t \in Team : Members(t) \subseteq Users)'
    BY UsersUntouched DEF Members, IsMember, Store, Bookkeeping
  <2>7. QED BY <2>1, <2>2, <2>3, <2>4, <2>5, <2>6, UsersUntouched DEF Bookkeeping
<1>3. MembersWereInvited'
  BY DEF Store, MembersWereInvited, Members, IsMember, userVars
<1>4. QED BY <1>1, <1>2, <1>3, UsersUntouched DEF Kept, Store

LEMMA MemosWritten ==
    ASSUME Store, memos' \in [Memo -> MemoDocument \cup {NotRecorded}],
           \A m \in Memo : memos'[m].team \in Created \cup {NoTeam},
           UNCHANGED <<teams, roles, invitations, userVars, invited, half, undropped>>
    PROVE  Kept
<1>1. Created' = Created /\ StoreTypeOK'
  BY DEF Created, StoreTypeOK, Store, userVars
<1>2. Bookkeeping'
  <2>1. (\E n \in 0 .. MaxTeams : Created = 1 .. n)'
    BY <1>1 DEF Store, Bookkeeping
  <2>2. (\A s, t \in Created : teams[s].slug = teams[t].slug => s = t)'
    BY <1>1 DEF Store, Bookkeeping
  <2>3. (\A t \in Team \ Created : Members(t) = {})'
    BY <1>1 DEF Members, IsMember, Store, Bookkeeping
  <2>4. (\A i \in Invitation : Invited(i) =>
           /\ invitations[i].team \in Created
           /\ <<invitations[i].team, invitations[i].address>> \in invited)'
    BY <1>1 DEF Store, Bookkeeping, Invited
  <2>5. (\A m \in Memo : memos[m].team \in Created \cup {NoTeam})'
    BY <1>1
  <2>6. (\A t \in Team : Members(t) \subseteq Users)'
    BY UsersUntouched DEF Members, IsMember, Store, Bookkeeping
  <2>7. QED BY <2>1, <2>2, <2>3, <2>4, <2>5, <2>6, UsersUntouched DEF Bookkeeping
<1>3. MembersWereInvited'
  BY DEF Store, MembersWereInvited, Members, IsMember, userVars
<1>4. QED BY <1>1, <1>2, <1>3, UsersUntouched DEF Kept, Store

LEMMA CreatedTeams == Created \in SUBSET Team /\ NoTeam \notin Team
BY StoreAssumption DEF Created, Team, NoTeam

\* One command each.
LEMMA RoleSet ==
    ASSUME Store, NEW t \in Team, NEW u \in User, NEW role \in Role \cup {"none"},
           SetMemberRole(t, u, role) \/ DeleteMember(t, u),
           UNCHANGED <<teams, invitations, memos, userVars, invited, half, undropped>>
    PROVE  Kept
<1>1. roles \in [Team -> [User -> Role \cup {"none"}]]
  BY DEF Store, StoreTypeOK
<1>2. roles' \in [Team -> [User -> Role \cup {"none"}]]
  BY <1>1 DEF SetMemberRole, DeleteMember, Role
<1>3. ASSUME NEW s \in Team, NEW v \in User, IsMember(s, v)' PROVE IsMember(s, v)
  <2>1. CASE s = t /\ v = u
    BY <1>1, <1>3, <2>1 DEF SetMemberRole, DeleteMember, IsMember
  <2>2. CASE s /= t \/ v /= u
    <3>1. roles'[s][v] = roles[s][v]
      BY <1>1, <2>2 DEF SetMemberRole, DeleteMember
    <3>2. QED BY <1>3, <3>1 DEF IsMember
  <2>3. QED BY <2>1, <2>2
<1>4. QED BY <1>2, <1>3, RolesWritten DEF Store

LEMMA MemberInserted ==
    ASSUME Store, NEW t \in Created, NEW u \in Users, NEW role \in Role,
           InsertMember(t, u, role), WasInvited(t, u)', invited \subseteq invited',
           invited' \in SUBSET (Team \X (User \cup Address)),
           UNCHANGED <<teams, invitations, memos, userVars, half, undropped>>
    PROVE  Kept
<1>1. roles \in [Team -> [User -> Role \cup {"none"}]] /\ t \in Team
  BY CreatedTeams DEF Store, StoreTypeOK
<1>2. roles' \in [Team -> [User -> Role \cup {"none"}]]
  BY <1>1 DEF InsertMember, Role
<1>3. ASSUME NEW s \in Team, NEW v \in User, IsMember(s, v)'
      PROVE  IsMember(s, v) \/ (s \in Created /\ v \in Users /\ WasInvited(s, v)')
  <2>1. CASE s /= t \/ v /= u
    <3>1. roles'[s][v] = roles[s][v]
      BY <1>1, <2>1 DEF InsertMember
    <3>2. QED BY <1>3, <3>1 DEF IsMember
  <2>2. QED BY <2>1
<1>4. QED BY <1>2, <1>3, RolesWritten

LEMMA MembersDeleted ==
    ASSUME Store, NEW t \in Team, DeleteAllMembers(t),
           UNCHANGED <<teams, invitations, memos, userVars, invited, half, undropped>>
    PROVE  Kept
<1>1. roles \in [Team -> [User -> Role \cup {"none"}]]
  BY DEF Store, StoreTypeOK
<1>2. roles' \in [Team -> [User -> Role \cup {"none"}]]
  BY <1>1 DEF DeleteAllMembers, Role
<1>3. ASSUME NEW s \in Team, NEW v \in User, IsMember(s, v)' PROVE IsMember(s, v)
  BY <1>1, <1>3 DEF DeleteAllMembers, IsMember
<1>4. QED BY <1>2, <1>3, RolesWritten DEF Store

LEMMA TeamDeleted ==
    ASSUME Store, NEW t \in Team, SoftDeleteTeamDocument(t),
           UNCHANGED <<roles, invitations, memos, userVars, invited, half, undropped>>
    PROVE  Kept
<1>1. teams \in [Team -> TeamDocument \cup {NotCreated}]
  BY DEF Store, StoreTypeOK
<1>2. CASE LiveTeam(t)
  <2> DEFINE d == [teams[t] EXCEPT !.state = "deleted"]
  <2>1. teams[t] \in TeamDocument
    BY <1>1, <1>2 DEF LiveTeam, NotCreated
  <2>2. teams' = [teams EXCEPT ![t] = d]
    BY <1>1, <1>2 DEF SoftDeleteTeamDocument
  <2>3. d \in TeamDocument /\ d /= NotCreated /\ d.slug = teams[t].slug
    BY <2>1 DEF TeamDocument, NotCreated
  <2> HIDE DEF d
  <2>4. /\ teams' \in [Team -> TeamDocument \cup {NotCreated}]
        /\ \A s \in Team : teams'[s].slug = teams[s].slug
        /\ \A s \in Team : teams'[s] = NotCreated <=> teams[s] = NotCreated
    <3>1. teams[t] /= NotCreated
      BY <1>2 DEF LiveTeam, NotCreated
    <3>2. QED BY <1>1, <2>2, <2>3, <3>1
  <2>5. \A r, s \in Created : teams'[r].slug = teams'[s].slug => r = s
    BY <2>4, CreatedTeams DEF Store, Bookkeeping
  <2>6. QED BY <2>4, <2>5, TeamsWritten
<1>3. CASE ~LiveTeam(t)
  <2>1. teams' = teams
    BY <1>3 DEF SoftDeleteTeamDocument
  <2>2. QED BY <1>1, <2>1, TeamsWritten DEF Store, Bookkeeping
<1>4. QED BY <1>2, <1>3

LEMMA TeamWritten ==
    ASSUME Store, NEW k, k.team \in Team, k.owner \in User, k.slug \in Slug, WritesTeam(k),
           UNCHANGED <<roles, invitations, memos, userVars, invited, half, undropped>>
    PROVE  Kept
<1>1. teams \in [Team -> TeamDocument \cup {NotCreated}]
  BY DEF Store, StoreTypeOK
<1>2. CASE teams' = teams
  BY <1>1, <1>2, TeamsWritten DEF Store, Bookkeeping
<1>3. CASE teams' /= teams
  <2> DEFINE t == k.team
             d == [teams[t] EXCEPT !.owner = k.owner, !.slug = k.slug]
  <2>1. LiveTeam(t) /\ ~SlugIndexed(t, k.slug)
    BY <1>3 DEF WritesTeam, WriteVerdict, UpdateTeamDocument
  <2>2. teams' = [teams EXCEPT ![t] = d]
    BY <1>1, <1>3, <2>1 DEF WritesTeam, UpdateTeamDocument
  <2>3. teams[t] \in TeamDocument /\ teams[t] /= NotCreated
    BY <1>1, <2>1 DEF LiveTeam, NotCreated
  <2>4. d \in TeamDocument /\ d /= NotCreated /\ d.slug = k.slug
    <3>1. d.state = teams[t].state /\ d \in TeamDocument /\ d.slug = k.slug
      BY <2>3 DEF TeamDocument
    <3>2. d.state /= "none"
      BY <2>1, <3>1 DEF LiveTeam
    <3>3. QED BY <3>1, <3>2 DEF NotCreated
  <2> HIDE DEF d
  <2>5. /\ teams' \in [Team -> TeamDocument \cup {NotCreated}]
        /\ \A s \in Team \ {t} : teams'[s] = teams[s]
        /\ teams'[t] = d
    BY <1>1, <2>2, <2>4
  <2>6. \A s \in Team : teams'[s] = NotCreated <=> teams[s] = NotCreated
    BY <2>3, <2>4, <2>5
  <2>7. \A s \in Team \ {t} : teams[s].slug /= k.slug
    BY <2>1 DEF SlugIndexed
  <2>8. \A r, s \in Created : teams'[r].slug = teams'[s].slug => r = s
    <3>1. \A r, s \in Created : teams[r].slug = teams[s].slug => r = s
      BY DEF Store, Bookkeeping
    <3>2. QED BY <2>4, <2>5, <2>7, <3>1, CreatedTeams
  <2>9. QED BY <2>5, <2>6, <2>8, TeamsWritten
<1>4. QED BY <1>2, <1>3

LEMMA InvitationInserted ==
    ASSUME Store, NEW t \in Created, NEW address \in Address, NEW role \in Given,
           NEW i \in Invitation, InsertInvitation(i, t, address, role),
           invited' = invited \cup {<<t, address>>},
           UNCHANGED <<teams, roles, memos, userVars, half, undropped>>
    PROVE  Kept
<1> DEFINE d == [team |-> t, address |-> address, role |-> role, pending |-> TRUE]
<1>1. invitations \in [Invitation -> InvitationDocument \cup {NotInvited}] /\ t \in Team
  BY CreatedTeams DEF Store, StoreTypeOK
<1>2. d \in InvitationDocument /\ d.team = t /\ d.address = address
  BY <1>1 DEF InvitationDocument
<1>3. invitations' = [invitations EXCEPT ![i] = d]
  BY DEF InsertInvitation
<1> HIDE DEF d
<1>4. /\ invitations' \in [Invitation -> InvitationDocument \cup {NotInvited}]
      /\ \A j \in Invitation : invitations'[j] = IF j = i THEN d ELSE invitations[j]
  BY <1>1, <1>2, <1>3
<1>5. /\ invited \subseteq invited' /\ invited' \in SUBSET (Team \X (User \cup Address))
      /\ <<t, address>> \in invited'
  BY <1>1 DEF Store
<1>6. \A j \in Invitation : invitations[j] /= NotInvited =>
        /\ invitations[j].team \in Created
        /\ <<invitations[j].team, invitations[j].address>> \in invited
  BY DEF Store, Bookkeeping, Invited
<1>7. \A j \in Invitation : Invited(j)' =>
        /\ invitations'[j].team \in Created
        /\ <<invitations'[j].team, invitations'[j].address>> \in invited'
  BY <1>2, <1>4, <1>5, <1>6 DEF Invited
<1>8. QED BY <1>4, <1>5, <1>7, InvitationsWritten

\* Invitations deleted: one, or those of a team.
LEMMA InvitationsDeleted ==
    ASSUME Store,
           \/ \E i \in Invitation : DeleteInvitation(i)
           \/ \E t \in Team : DeleteAllInvitations(t),
           UNCHANGED <<teams, roles, memos, userVars, invited, half, undropped>>
    PROVE  Kept
<1>1. invitations \in [Invitation -> InvitationDocument \cup {NotInvited}]
  BY DEF Store, StoreTypeOK
<1>2. /\ invitations' \in [Invitation -> InvitationDocument \cup {NotInvited}]
      /\ \A j \in Invitation : invitations'[j] \in {NotInvited, invitations[j]}
  <2>1. CASE \E i \in Invitation : DeleteInvitation(i)
    BY <1>1, <2>1 DEF DeleteInvitation
  <2>2. CASE \E t \in Team : DeleteAllInvitations(t)
    BY <1>1, <2>2 DEF DeleteAllInvitations
  <2>3. QED BY <2>1, <2>2
<1>3. \A j \in Invitation : invitations[j] /= NotInvited =>
        /\ invitations[j].team \in Created
        /\ <<invitations[j].team, invitations[j].address>> \in invited
  BY DEF Store, Bookkeeping, Invited
<1>4. \A j \in Invitation : Invited(j)' =>
        /\ invitations'[j].team \in Created
        /\ <<invitations'[j].team, invitations'[j].address>> \in invited'
  BY <1>2, <1>3 DEF Invited
<1>5. QED BY <1>2, <1>4, InvitationsWritten DEF Store

LEMMA InvitationExpired ==
    ASSUME Store, NEW i \in Invitation, ExpireInvitation(i),
           UNCHANGED <<teams, roles, memos, userVars, invited, half, undropped>>
    PROVE  Kept
<1> DEFINE d == [invitations[i] EXCEPT !.pending = FALSE]
<1>1. invitations \in [Invitation -> InvitationDocument \cup {NotInvited}]
  BY DEF Store, StoreTypeOK
<1>2. invitations[i] \in InvitationDocument /\ invitations[i] /= NotInvited
  <2>1. NotInvited.pending = FALSE /\ invitations[i].pending
    BY DEF NotInvited, ExpireInvitation
  <2>2. QED BY <1>1, <2>1
<1>3. d \in InvitationDocument /\ d.team = invitations[i].team /\ d.address = invitations[i].address
  BY <1>2 DEF InvitationDocument
<1>4. invitations' = [invitations EXCEPT ![i] = d]
  BY <1>1 DEF ExpireInvitation
<1> HIDE DEF d
<1>5. /\ invitations' \in [Invitation -> InvitationDocument \cup {NotInvited}]
      /\ \A j \in Invitation : invitations'[j] = IF j = i THEN d ELSE invitations[j]
  BY <1>1, <1>3, <1>4
<1>6. \A j \in Invitation : invitations[j] /= NotInvited =>
        /\ invitations[j].team \in Created
        /\ <<invitations[j].team, invitations[j].address>> \in invited
  BY DEF Store, Bookkeeping, Invited
<1>7. \A j \in Invitation : Invited(j)' =>
        /\ invitations'[j].team \in Created
        /\ <<invitations'[j].team, invitations'[j].address>> \in invited'
  BY <1>2, <1>3, <1>5, <1>6 DEF Invited
<1>8. QED BY <1>5, <1>7, InvitationsWritten DEF Store

LEMMA MemoInserted ==
    ASSUME Store, NEW u \in User, NEW t \in Created \cup {NoTeam}, NEW m, InsertMemo(m, u, t),
           UNCHANGED <<teams, roles, invitations, userVars, invited, half, undropped>>
    PROVE  Kept
<1> DEFINE d == [state |-> "live", user |-> u, team |-> t]
<1>1. memos \in [Memo -> MemoDocument \cup {NotRecorded}] /\ t \in Team \cup {NoTeam}
  BY CreatedTeams DEF Store, StoreTypeOK
<1>2. d \in MemoDocument /\ d.team = t
  BY <1>1 DEF MemoDocument
<1>3. memos' = [memos EXCEPT ![m] = d]
  BY DEF InsertMemo
<1> HIDE DEF d
<1>4. memos' \in [Memo -> MemoDocument \cup {NotRecorded}]
      /\ \A j \in Memo : memos'[j] = IF j = m THEN d ELSE memos[j]
  BY <1>1, <1>2, <1>3
<1>5. \A j \in Memo : memos[j].team \in Created \cup {NoTeam}
  BY DEF Store, Bookkeeping
<1>6. QED BY <1>2, <1>4, <1>5, MemosWritten

\* Memos deleted: one, or those of a team.
LEMMA MemosDeleted ==
    ASSUME Store,
           \/ \E m \in Memo : LiveMemo(m) /\ SoftDeleteMemo(m)
           \/ \E t \in Team : SoftDeleteMemosOfTeam(t),
           UNCHANGED <<teams, roles, invitations, userVars, invited, half, undropped>>
    PROVE  Kept
<1> DEFINE d(j) == [memos[j] EXCEPT !.state = "deleted"]
<1>1. memos \in [Memo -> MemoDocument \cup {NotRecorded}]
  BY DEF Store, StoreTypeOK
<1>2. ASSUME NEW j \in Memo, LiveMemo(j)
      PROVE  d(j) \in MemoDocument /\ d(j).team = memos[j].team
  <2>1. memos[j] \in MemoDocument
    BY <1>1, <1>2 DEF LiveMemo, NotRecorded
  <2>2. QED BY <2>1 DEF MemoDocument
<1>3. memos' = [j \in Memo |-> memos'[j]]
      /\ \A j \in Memo : memos'[j] = memos[j] \/ (LiveMemo(j) /\ memos'[j] = d(j))
  <2>1. CASE \E m \in Memo : LiveMemo(m) /\ SoftDeleteMemo(m)
    BY <1>1, <2>1 DEF SoftDeleteMemo
  <2>2. CASE \E t \in Team : SoftDeleteMemosOfTeam(t)
    BY <1>1, <2>2 DEF SoftDeleteMemosOfTeam
  <2>3. QED BY <2>1, <2>2
<1> HIDE DEF d
<1>4. memos' \in [Memo -> MemoDocument \cup {NotRecorded}]
  BY <1>1, <1>2, <1>3
<1>5. \A j \in Memo : memos[j].team \in Created \cup {NoTeam}
  BY DEF Store, Bookkeeping
<1>6. QED BY <1>2, <1>3, <1>4, <1>5, MemosWritten


LEMMA StoreUntouched ==
    ASSUME Store, UNCHANGED <<storeVars, userVars, invited>>
    PROVE  Store' /\ Created' = Created
<1>1. /\ UNCHANGED <<teams, roles, invitations, memos, emails, held>> /\ Created' = Created
  BY DEF storeVars, userVars, Created
<1>2. StoreTypeOK' /\ (invited \in SUBSET (Team \X (User \cup Address)))'
  BY <1>1 DEF Store, StoreTypeOK
<1>3. MembersWereInvited'
  BY <1>1 DEF Store, MembersWereInvited, Members, IsMember
<1>4. Bookkeeping'
  BY <1>1, UsersUntouched DEF Store, Bookkeeping, Members, IsMember, Invited
<1>5. QED BY <1>1, <1>2, <1>3, <1>4, UsersUntouched DEF Store

LEMMA StoreSame ==
    ASSUME Store, UNCHANGED <<storeVars, userVars, invited, half, undropped>>
    PROVE  Kept
BY StoreUntouched DEF Kept

\* Nobody loses what she is known by.
LEMMA EmailsWritten ==
    ASSUME TypeOK, Store, EmailChanges \/ UserDeleted
    PROVE  /\ Store' /\ Created' = Created /\ held \subseteq held'
           /\ UNCHANGED <<storeVars, scenario, call, invited, half, undropped>>
<1>1. /\ UNCHANGED <<storeVars, scenario, call, invited, half, undropped>>
      /\ UNCHANGED <<teams, roles, invitations, memos>>
  BY DEF EmailChanges, UserDeleted, storeVars
<1>2. /\ emails \in [User -> Email \cup {NoEmail}] /\ held \in SUBSET (User \X Email)
      /\ \A u \in User : emails[u] /= NoEmail => <<u, emails[u]>> \in held
      /\ \A u, v \in User : emails[u] = emails[v] => u = v \/ emails[u] = NoEmail
  BY DEF Store, StoreTypeOK, Bookkeeping
<1>3. /\ held \subseteq held' /\ (held \in SUBSET (User \X Email))'
      /\ emails' \in [User -> Email \cup {NoEmail}]
      /\ (\A u \in User : emails[u] /= NoEmail => <<u, emails[u]>> \in held)'
      /\ (\A u, v \in User : emails[u] = emails[v] => u = v \/ emails[u] = NoEmail)'
  <2>1. CASE EmailChanges
    <3>1. PICK u \in User, email \in scenario.addresses \X Spelling :
            /\ FindByEmail(email) = {} /\ SetEmail(u, email)
            /\ held' = held \cup {<<u, email>>}
      BY <2>1 DEF EmailChanges
    <3>2. email \in Email
      BY ScenarioFacts DEF Email
    <3>3. \A v \in User : emails[v] /= email
      BY <3>1 DEF FindByEmail
    <3>4. \A v \in User : emails'[v] = IF v = u THEN email ELSE emails[v]
      BY <1>2, <3>1 DEF SetEmail
    <3>5. emails' \in [User -> Email \cup {NoEmail}]
      BY <1>2, <3>1, <3>2 DEF SetEmail
    <3> HIDE DEF Email
    <3>6. QED BY <1>2, <3>1, <3>2, <3>3, <3>4, <3>5
  <2>2. CASE UserDeleted
    <3>1. PICK u \in User : SetEmail(u, NoEmail) /\ held' = held
      BY <2>2 DEF UserDeleted
    <3>2. \A v \in User : emails'[v] = IF v = u THEN NoEmail ELSE emails[v]
      BY <1>2, <3>1 DEF SetEmail
    <3>3. emails' \in [User -> Email \cup {NoEmail}]
      BY <1>2, <3>1 DEF SetEmail
    <3>4. QED BY <1>2, <3>1, <3>2, <3>3
  <2>3. QED BY <2>1, <2>2
<1>4. Users \subseteq Users' /\ Created' = Created
  BY <1>1, <1>3 DEF Users, Created
<1>5. StoreTypeOK' /\ (invited \in SUBSET (Team \X (User \cup Address)))'
  BY <1>1, <1>3 DEF Store, StoreTypeOK
<1>6. MembersWereInvited'
  BY <1>1, <1>3 DEF Store, MembersWereInvited, Members, IsMember
<1>7. Bookkeeping'
  <2>1. (\A t \in Team : Members(t) \subseteq Users)'
    BY <1>1, <1>4 DEF Store, Bookkeeping, Members, IsMember
  <2>2. QED BY <1>1, <1>3, <1>4, <2>1 DEF Store, Bookkeeping, Members, IsMember, Invited
<1>8. QED BY <1>1, <1>3, <1>4, <1>5, <1>6, <1>7 DEF Store
\* What the sender of a command that writes holds.
LEMMA WriterHolds ==
    ASSUME NEW k \in InFlight, Sound(k), k.todo /= <<>>
    PROVE  /\ k.user \in User /\ k.user \in Users
           /\ Due(k) \in WriteCommands \ {"delete_invitation", "drop_invitation", "insert_memo",
                                        "delete_memo"} =>
                k.team \in Created
           /\ Due(k) = "insert_memo" => k.team \in Created \cup {NoTeam}
           /\ Due(k) \in {"promote", "undo_promote", "delete_member", "set_role"} =>
                k.target \in User
           /\ Due(k) = "update_team" => k.owner \in User /\ k.slug \in Slug
           /\ Due(k) = "hand_over" => k.owner \in User /\ k.slug \in Slug
           /\ Due(k) \in {"set_role", "insert_invitation", "insert_member"} => k.role \in Given
           /\ Due(k) = "insert_invitation" => k.address \in Address
           /\ Due(k) = "drop_invitation" => k.team \in Created
           /\ Due(k) = "insert_member" => WasInvited(k.team, k.user)
           /\ Due(k) \in {"delete_invitation", "drop_invitation"} => k.invitation \in Invitation
           /\ Due(k) = "delete_memo" => k.memo \in Memo
<1>1. /\ {"update_team", "delete_team", "transfer", "remove_member", "leave", "update_role",
          "invite", "create_memo", "delete_memo"} \subseteq DOMAIN Routes
      /\ "create_own_memo" \notin DOMAIN Routes
  BY DEF Routes
<1>2. Knows(k) /\ k.user \in User /\ k.user \in Users
  BY DEF Sound, InFlight, Knows
<1> HIDE DEF Due
<1>3. Due(k) \in WriteCommands \ {"delete_invitation", "drop_invitation", "insert_memo",
                               "delete_memo"} =>
        k.team \in Created
  <2>1. Due(k) \in {"insert_owner", "undo_team"} => k.team \in Created
    BY <1>2, SenderOf DEF Knows
  <2>2. Due(k) = "insert_member" => k.team \in Created
    BY <1>2, SenderOf DEF Knows
  <2>3. Due(k) \in WriteCommands \ {"delete_invitation", "drop_invitation", "insert_memo",
                                    "delete_memo", "insert_owner", "undo_team",
                                    "insert_member"} =>
          k.op \in DOMAIN Routes
    BY <1>1, SenderOf DEF WriteCommands
  <2>4. k.op \in DOMAIN Routes => k.team \in Created
    BY <1>2 DEF Knows
  <2>5. QED BY <2>1, <2>2, <2>3, <2>4
<1>4. Due(k) = "insert_memo" => k.team \in Created \cup {NoTeam}
  <2>1. Due(k) = "insert_memo" => k.op \in {"create_own_memo", "create_memo"}
    BY SenderOf
  <2>2. /\ k.op = "create_memo" => k.team \in Created
        /\ k.op = "create_own_memo" => k.team = NoTeam
    BY <1>1, <1>2 DEF Knows
  <2>3. QED BY <2>1, <2>2
<1>5. Due(k) \in {"promote", "undo_promote", "delete_member", "set_role"} =>
                k.target \in User
  BY <1>2, SenderOf DEF Knows
<1>6. Due(k) = "update_team" => k.owner \in User /\ k.slug \in Slug
  BY <1>2, SenderOf DEF Knows
<1>7. Due(k) = "hand_over" => k.owner \in User /\ k.slug \in Slug
  <2>1. Due(k) = "hand_over" => k.op = "transfer"
    BY SenderOf
  <2>2. Due(k) = "hand_over" => k.owner = k.target /\ k.target \in User /\ k.slug \in Slug
    BY <1>2, <2>1 DEF Knows
  <2>3. QED BY <2>2
<1>8. Due(k) \in {"set_role", "insert_invitation", "insert_member"} => k.role \in Given
  BY <1>2, SenderOf DEF Knows
<1>9. Due(k) = "insert_member" => WasInvited(k.team, k.user)
  <2>1. Due(k) = "insert_member" => k.op = "accept"
    BY SenderOf
  <2>2. k.op = "accept" /\ Due(k) = "insert_member" =>
          /\ <<k.team, k.address>> \in invited
          /\ \E email \in Email : <<k.user, email>> \in held /\ ToLower(email) = k.address
    BY <1>2 DEF Knows
  <2>3. QED BY <2>1, <2>2 DEF WasInvited
<1>13. Due(k) = "insert_invitation" => k.address \in Address
  BY <1>2, SenderOf DEF Knows
<1>14. Due(k) = "drop_invitation" => k.team \in Created
  BY <1>2, SenderOf DEF Knows
<1>10. Due(k) \in {"delete_invitation", "drop_invitation"} => k.invitation \in Invitation
  BY <1>2, SenderOf DEF Knows
<1>11. Due(k) = "delete_memo" => k.memo \in Memo
  BY <1>2, SenderOf DEF Knows
<1>12. QED BY <1>2, <1>3, <1>4, <1>5, <1>6, <1>7, <1>8, <1>9, <1>10, <1>11, <1>13, <1>14

LEMMA StoreWritten ==
    ASSUME TypeOK, Store, NEW c \in Call, Sound(call[c]), WriteStep(c), ~InsertTeam(c)
    PROVE  Kept
<1> DEFINE k == call[c]
<1>1. k \in InFlight /\ k.todo /= <<>> /\ Sound(k) /\ Due(k) \in WriteCommands
  BY WritesSoundly, WriterDue
<1>2. /\ k.user \in User /\ k.user \in Users
      /\ Due(k) \in WriteCommands \ {"delete_invitation", "drop_invitation", "insert_memo",
                                     "delete_memo"} =>
           k.team \in Created
      /\ Due(k) = "insert_memo" => k.team \in Created \cup {NoTeam}
      /\ Due(k) \in {"promote", "undo_promote", "delete_member", "set_role"} =>
                k.target \in User
      /\ Due(k) = "update_team" => k.owner \in User /\ k.slug \in Slug
      /\ Due(k) = "hand_over" => k.owner \in User /\ k.slug \in Slug
      /\ Due(k) \in {"set_role", "insert_invitation", "insert_member"} => k.role \in Given
      /\ Due(k) = "insert_invitation" => k.address \in Address
      /\ Due(k) = "drop_invitation" => k.team \in Created
      /\ Due(k) = "insert_member" => WasInvited(k.team, k.user)
      /\ Due(k) \in {"delete_invitation", "drop_invitation"} => k.invitation \in Invitation
      /\ Due(k) = "delete_memo" => k.memo \in Memo
  <2> HIDE DEF k
  <2>1. QED BY <1>1, WriterHolds
<1>3. k.role \in Role \cup {"none"} /\ {"owner", "admin"} \subseteq Role /\ Given \subseteq Role
  BY <1>1 DEF InFlight, Role, Given
<1>4. Created \subseteq Team
  BY CreatedTeams
<1>5. \A command \in WriteCommands : Sends(c, command) => Due(k) = command
  BY Sending
<1>6. UNCHANGED userVars /\ invited \in SUBSET (Team \X (User \cup Address))
  BY WritesSoundly DEF Becomes, Store
<1>7. CASE InsertOwner(c)
  <2>1. Sends(c, "insert_owner") /\ InsertMember(k.team, k.user, "owner")
        /\ invited' = invited \cup {<<k.team, k.user>>}
        /\ UNCHANGED <<teams, invitations, memos, half, undropped>>
    BY <1>7 DEF InsertOwner
  <2>2. k.team \in Created /\ k.team \in Team /\ k.user \in Users
    BY <1>2, <1>4, <1>5, <2>1 DEF WriteCommands
  <2>3. PICK t \in Created, u \in Users : t = k.team /\ u = k.user
    BY <2>2
  <2>4. WasInvited(t, u)' /\ invited' \in SUBSET (Team \X (User \cup Address))
    BY <1>2, <1>6, <2>1, <2>2, <2>3 DEF WasInvited
  <2> HIDE DEF k
  <2>5. InsertMember(t, u, "owner") /\ invited \subseteq invited'
    BY <2>1, <2>3
  <2>6. QED BY <1>3, <1>6, <2>1, <2>4, <2>5, MemberInserted
<1>8. CASE UndoTeam(c) \/ DeleteTheTeam(c)
  <2>1. /\ Sends(c, "undo_team") \/ Sends(c, "delete_team")
        /\ SoftDeleteTeamDocument(k.team)
        /\ UNCHANGED <<roles, invitations, memos, invited, half, undropped>>
    BY <1>8 DEF UndoTeam, DeleteTheTeam
  <2>2. k.team \in Team
    BY <1>2, <1>4, <1>5, <2>1 DEF WriteCommands
  <2> HIDE DEF k
  <2>3. QED BY <1>6, <2>1, <2>2, TeamDeleted
<1>9. CASE WriteTeam(c) \/ HandOver(c)
  <2>1. /\ Sends(c, "update_team") \/ Sends(c, "hand_over")
        /\ WritesTeam(k)
        /\ UNCHANGED <<roles, invitations, memos, invited, half, undropped>>
    BY <1>9 DEF WriteTeam, HandOver
  <2>2. k.team \in Team /\ k.owner \in User /\ k.slug \in Slug
    BY <1>2, <1>4, <1>5, <2>1 DEF WriteCommands
  <2> HIDE DEF k
  <2>3. QED BY <1>6, <2>1, <2>2, TeamWritten
<1>10. CASE DeleteMemos(c) \/ DeleteTheMemo(c)
  <2>1. /\ \/ Sends(c, "delete_memos") /\ SoftDeleteMemosOfTeam(k.team)
           \/ Sends(c, "delete_memo") /\ LiveMemo(k.memo) /\ SoftDeleteMemo(k.memo)
           \/ memos' = memos
        /\ UNCHANGED <<teams, roles, invitations, invited, half, undropped>>
    BY <1>10 DEF DeleteMemos, DeleteTheMemo, Matches, MatchesOwner, MatchesTeam
  <2>2. /\ Sends(c, "delete_memos") => k.team \in Team
        /\ Sends(c, "delete_memo") => k.memo \in Memo
    BY <1>2, <1>4, <1>5 DEF WriteCommands
  <2> HIDE DEF k
  <2>3. CASE memos' = memos
    BY <1>6, <2>1, <2>3, StoreSame DEF storeVars
  <2>4. CASE memos' /= memos
    BY <1>6, <2>1, <2>2, <2>4, MemosDeleted
  <2>5. QED BY <2>3, <2>4
<1>11. CASE DeleteMembers(c)
  <2>1. /\ Sends(c, "delete_members") /\ DeleteAllMembers(k.team)
        /\ UNCHANGED <<teams, invitations, memos, invited, half, undropped>>
    BY <1>11 DEF DeleteMembers
  <2>2. k.team \in Team
    BY <1>2, <1>4, <1>5, <2>1 DEF WriteCommands
  <2> HIDE DEF k
  <2>3. QED BY <1>6, <2>1, <2>2, MembersDeleted
<1>12. CASE DeleteInvitations(c) \/ DeleteTheInvitation(c) \/ DropInvitation(c)
  <2>1. /\ \/ Sends(c, "delete_invitations") /\ DeleteAllInvitations(k.team)
           \/ /\ Sends(c, "delete_invitation") \/ Sends(c, "drop_invitation")
              /\ DeleteInvitation(k.invitation)
        /\ UNCHANGED <<teams, roles, memos, invited, half, undropped>>
    BY <1>12 DEF DeleteInvitations, DeleteTheInvitation, DropInvitation
  <2>2. /\ Sends(c, "delete_invitations") => k.team \in Team
        /\ Sends(c, "delete_invitation") \/ Sends(c, "drop_invitation") =>
             k.invitation \in Invitation
    BY <1>2, <1>4, <1>5 DEF WriteCommands
  <2> HIDE DEF k
  <2>3. QED BY <1>6, <2>1, <2>2, InvitationsDeleted
<1>13. CASE Promote(c) \/ SetRole(c) \/ UndoPromote(c)
  <2>1. /\ Sends(c, "promote") \/ Sends(c, "set_role") \/ Sends(c, "undo_promote")
        /\ SetMemberRole(k.team, k.target, "owner") \/ SetMemberRole(k.team, k.target, k.role)
        /\ UNCHANGED <<teams, invitations, memos, invited, half, undropped>>
    BY <1>13 DEF Promote, SetRole, UndoPromote
  <2>2. k.team \in Team /\ k.target \in User
    BY <1>2, <1>4, <1>5, <2>1 DEF WriteCommands
  <2> HIDE DEF k
  <2>3. QED BY <1>3, <1>6, <2>1, <2>2, RoleSet
<1>14. CASE Demote(c) \/ UndoDemote(c)
  <2>1. /\ Sends(c, "demote") \/ Sends(c, "undo_demote")
        /\ SetMemberRole(k.team, k.user, "owner") \/ SetMemberRole(k.team, k.user, "admin")
        /\ UNCHANGED <<teams, invitations, memos, invited, half, undropped>>
    BY <1>14 DEF Demote, UndoDemote
  <2>2. k.team \in Team /\ k.user \in User
    BY <1>2, <1>4, <1>5, <2>1 DEF WriteCommands
  <2> HIDE DEF k
  <2>3. QED BY <1>3, <1>6, <2>1, <2>2, RoleSet
<1>15. CASE DeleteTheMember(c)
  <2>1. /\ Sends(c, "delete_member") /\ DeleteMember(k.team, k.target)
        /\ UNCHANGED <<teams, invitations, memos, invited, half, undropped>>
    BY <1>15 DEF DeleteTheMember
  <2>2. k.team \in Team /\ k.target \in User
    BY <1>2, <1>4, <1>5, <2>1 DEF WriteCommands
  <2> HIDE DEF k
  <2>3. QED BY <1>3, <1>6, <2>1, <2>2, RoleSet
<1>16. CASE InsertTheInvitation(c)
  <2>1. /\ Sends(c, "insert_invitation")
        /\ \E i \in Invitation : InsertInvitation(i, k.team, k.address, k.role)
        /\ invited' = invited \cup {<<k.team, k.address>>}
        /\ UNCHANGED <<teams, roles, memos, half, undropped>>
    BY <1>16 DEF InsertTheInvitation
  <2>2. k.team \in Created /\ k.address \in Address /\ k.role \in Given
    BY <1>2, <1>5, <2>1 DEF WriteCommands
  <2> HIDE DEF k
  <2>3. QED BY <1>6, <2>1, <2>2, InvitationInserted
<1>17. CASE InsertTheMember(c)
  <2>1. /\ Sends(c, "insert_member")
        /\ roles' = roles \/ InsertMember(k.team, k.user, k.role)
        /\ UNCHANGED <<teams, invitations, memos, invited, half, undropped>>
    BY <1>17 DEF InsertTheMember
  <2>2. k.team \in Created /\ k.role \in Role /\ WasInvited(k.team, k.user)
    BY <1>2, <1>3, <1>5, <2>1 DEF WriteCommands
  <2>3. PICK t \in Created, u \in Users : t = k.team /\ u = k.user
    BY <1>2, <2>2
  <2>7. WasInvited(t, u)' /\ invited \subseteq invited'
        /\ invited' \in SUBSET (Team \X (User \cup Address))
    BY <1>6, <2>1, <2>2, <2>3 DEF WasInvited, userVars
  <2> HIDE DEF k
  <2>4. CASE roles' = roles
    BY <1>6, <2>1, <2>4, StoreSame DEF storeVars
  <2>5. CASE InsertMember(k.team, k.user, k.role)
    BY <1>6, <2>1, <2>2, <2>3, <2>5, <2>7, MemberInserted
  <2>6. QED BY <2>1, <2>4, <2>5
<1>18. CASE InsertTheMemo(c)
  <2>1. /\ Sends(c, "insert_memo") /\ \E m : InsertMemo(m, k.user, k.team)
        /\ UNCHANGED <<teams, roles, invitations, invited, half, undropped>>
    BY <1>18 DEF InsertTheMemo
  <2>2. k.team \in Created \cup {NoTeam}
    BY <1>2, <1>5, <2>1 DEF WriteCommands
  <2> HIDE DEF k
  <2>3. QED BY <1>2, <1>6, <2>1, <2>2, MemoInserted
<1>19. QED
  BY <1>7, <1>8, <1>9, <1>10, <1>11, <1>12, <1>13, <1>14, <1>15, <1>16, <1>17, <1>18
     DEF WriteStep

\* A team founded: the next number, a slug no other team ever had.
LEMMA TeamInserted ==
    ASSUME Basics, NEW c \in Call, InsertTeam(c), ~SlugIndexed(NoTeam, call[c].slug)
    PROVE  /\ Store' /\ UNCHANGED <<userVars, invited, half, undropped>>
           /\ Cardinality(Created) + 1 \in Team
           /\ Created' = Created \cup {Cardinality(Created) + 1}
           /\ TeamsLeft'
           /\ teams'[Cardinality(Created) + 1] =
                [state |-> "live", owner |-> call[c].user, slug |-> call[c].slug]
           /\ \A s \in Team \ {Cardinality(Created) + 1} : teams'[s] = teams[s]
           /\ \E n \in InFlight :
                /\ Becomes(c, n) /\ Sound(n)'
                /\ n.op = "create_team" /\ Due(n) = "insert_owner"
                /\ n.team = Cardinality(Created) + 1 /\ n.user = call[c].user
<1> DEFINE k == call[c]
           t == Cardinality(Created) + 1
           d == [state |-> "live", owner |-> k.user, slug |-> k.slug]
           w == Wrote(k)
           n == [w EXCEPT !.team = t]
<1>1. /\ k \in InFlight /\ ~Idle(c) /\ k.todo /= <<>> /\ Due(k) = "insert_team" /\ Sound(k)
      /\ k.op = "create_team"
  <2>1. k \in InFlight /\ ~Idle(c) /\ k.todo /= <<>> /\ Due(k) = "insert_team"
    <3>1. Sends(c, "insert_team") /\ TypeOK
      BY DEF InsertTeam, Basics
    <3>2. QED BY <3>1, Sending
  <2>2. Sound(k)
    BY <2>1 DEF Basics
  <2> HIDE DEF k
  <2>3. QED BY <2>1, <2>2, SenderOf
<1>2. /\ k.user \in User /\ k.slug \in Slug
      /\ k.user \in Users
  BY <1>1 DEF Sound, Knows, InFlight
<1>3. teams' = [teams EXCEPT ![t] = d] /\ Becomes(c, n)
      /\ UNCHANGED <<roles, invitations, memos, userVars, invited, half, undropped>>
      /\ UNCHANGED <<emails, held>>
  BY DEF InsertTeam, InsertTeamDocument, Becomes, userVars
<1>4. PICK last \in 0 .. MaxTeams : Created = 1 .. last
  BY DEF Basics, Bookkeeping
<1>5. Cardinality(Created) = last
  BY <1>4, FS_Interval
<1>6. /\ Founders \in SUBSET Call /\ IsFiniteSet(Founders) /\ c \in Founders
      /\ Cardinality(Founders) \in Nat /\ Cardinality(Founders) >= 1
  <2>1. Founders \in SUBSET Call /\ c \in Founders
    BY <1>1 DEF Founders, Founds
  <2>2. IsFiniteSet(Founders)
    BY <2>1, FiniteAssumption, FS_Subset
  <2>3. Cardinality(Founders) \in Nat /\ Cardinality(Founders) /= 0
    BY <2>1, <2>2, FS_CardinalityType, FS_EmptySet
  <2>4. QED BY <2>1, <2>2, <2>3
<1>7. scenario.teams \in 0 .. MaxTeams
  BY ScenarioFacts DEF Basics
<1>8. t \in Team /\ t = last + 1 /\ t \notin Created
  <2>1. last + Cardinality(Founders) <= scenario.teams
    BY <1>5 DEF Basics, TeamsLeft
  <2>2. last + 1 <= MaxTeams
    BY <1>4, <1>6, <1>7, <2>1, StoreAssumption
  <2>3. QED BY <1>4, <1>5, <2>2, StoreAssumption DEF Team
<1>9. teams \in [Team -> TeamDocument \cup {NotCreated}]
  BY DEF Basics, TypeOK, StoreTypeOK
<1>10. d \in TeamDocument /\ d /= NotCreated /\ d.slug = k.slug
  BY <1>2 DEF TeamDocument, NotCreated
<1> HIDE DEF d, t, k
<1>11. /\ teams' \in [Team -> TeamDocument \cup {NotCreated}]
       /\ teams'[t] = d /\ \A s \in Team \ {t} : teams'[s] = teams[s]
  BY <1>3, <1>8, <1>9, <1>10
<1>12. Created' = Created \cup {t}
  BY <1>8, <1>10, <1>11 DEF Created
<1>13. Created' = 1 .. (last + 1)
  BY <1>4, <1>8, <1>12, StoreAssumption
<1>14. Bookkeeping'
  <2>1. (\E m \in 0 .. MaxTeams : Created = 1 .. m)'
    <3>1. last + 1 \in 0 .. MaxTeams
      BY <1>4, <1>8, StoreAssumption DEF Team
    <3>2. QED BY <1>13, <3>1
  <2>2. (\A r, s \in Created : teams[r].slug = teams[s].slug => r = s)'
    <3>1. \A s \in Team : teams[s].slug /= k.slug
      BY StoreAssumption DEF SlugIndexed, NoTeam, Team, k
    <3>2. \A r, s \in Created : teams[r].slug = teams[s].slug => r = s
      BY DEF Basics, Bookkeeping
    <3>3. \A s \in Created : s \in Team /\ s /= t /\ teams'[s] = teams[s]
      BY <1>8, <1>11, CreatedTeams
    <3>4. teams'[t].slug = k.slug
      BY <1>10, <1>11
    <3>5. ASSUME NEW r \in Created', NEW s \in Created', teams'[r].slug = teams'[s].slug
          PROVE  r = s
      <4>1. CASE r \in Created /\ s \in Created
        BY <3>2, <3>3, <3>5, <4>1
      <4>2. CASE r = t /\ s \in Created
        BY <3>1, <3>3, <3>4, <3>5, <4>2
      <4>3. CASE r \in Created /\ s = t
        BY <3>1, <3>3, <3>4, <3>5, <4>3
      <4>4. QED BY <1>12, <4>1, <4>2, <4>3
    <3>6. QED BY <3>5
  <2>3. (\A s \in Team \ Created : Members(s) = {})'
    BY <1>3, <1>12 DEF Members, IsMember, Basics, Bookkeeping
  <2>4. (\A i \in Invitation : Invited(i) =>
           /\ invitations[i].team \in Created
           /\ <<invitations[i].team, invitations[i].address>> \in invited)'
    BY <1>3, <1>12 DEF Basics, Bookkeeping, Invited
  <2>5. (\A m \in Memo : memos[m].team \in Created \cup {NoTeam})'
    BY <1>3, <1>12 DEF Basics, Bookkeeping
  <2>6. /\ (\A s \in Team : Members(s) \subseteq Users)'
        /\ (\A u \in User : emails[u] /= NoEmail => <<u, emails[u]>> \in held)'
        /\ (\A u, v \in User : emails[u] = emails[v] => u = v \/ emails[u] = NoEmail)'
    BY <1>3 DEF Basics, Bookkeeping, Members, IsMember, Users
  <2>7. QED BY <2>1, <2>2, <2>3, <2>4, <2>5, <2>6 DEF Bookkeeping
<1>15. Store'
  <2>1. StoreTypeOK'
    BY <1>3, <1>11 DEF StoreTypeOK, Basics, TypeOK
  <2>2. /\ (invited \in SUBSET (Team \X (User \cup Address)))' /\ MembersWereInvited'
        /\ (held \in SUBSET (User \X Email))'
    BY <1>3 DEF Basics, TypeOK, MembersWereInvited, Members, IsMember
  <2>3. QED BY <1>14, <2>1, <2>2 DEF Store
<1>16. n \in InFlight /\ Path(n.op, n.todo) /\ Due(n) = "insert_owner" /\ n.op = "create_team"
       /\ n.user = k.user /\ n.slug = k.slug /\ n.team = t
  <2>1. w \in InFlight /\ w.op = k.op /\ w.todo = Tail(k.todo) /\ w.user = k.user /\ w.slug = k.slug
    <3>1. Same(w, k) /\ w.todo = Tail(k.todo)
      BY <1>1, Outcomes
    <3>2. QED BY <3>1 DEF Same
  <2>2. Path(w.op, w.todo) /\ <<Due(k), Due(w)>> \in Order[k.op]
    BY <1>1, <2>1, NextDue
  <2>3. Due(w) = "insert_owner"
    BY <1>1, <2>2 DEF Order
  <2> HIDE DEF w
  <2>4. /\ n \in InFlight /\ n.op = w.op /\ n.todo = w.todo /\ n.user = w.user
        /\ n.slug = w.slug /\ n.team = t
    <3>1. t \in Team \cup {NoTeam}
      BY <1>8
    <3> DEFINE I == Int
    <3>2. w \in InFlight /\ InFlight = [op : Operations, todo : Seq(Commands), user : User,
             team : Team \cup {NoTeam},
             target : User \cup {NoUser}, address : Address \cup {NoAddress},
             owner : User \cup {NoUser}, slug : Slug \cup {NoSlug},
             role : Role \cup {"none"}, invitation : Invitation \cup {NoInvitation},
             memo : Memo \cup {NoMemo}, page : I, limit : I, total : Nat, items : Seq(Nat),
             shown : SUBSET (User \cup Invitation), code : Codes, wrote : BOOLEAN,
             refused : BOOLEAN]
      BY <2>1 DEF InFlight
    <3> HIDE DEF I
    <3>3. QED BY <3>1, <3>2
  <2> HIDE DEF n
  <2>5. QED BY <1>1, <2>1, <2>2, <2>3, <2>4 DEF Due
<1> HIDE DEF w, n
<1>17. PICK r : r = n
  OBVIOUS
<1>18. Sound(r)'
  <2>1. Path(r.op, r.todo) /\ Due(r) = "insert_owner" /\ r.op = "create_team"
        /\ r.slug \in Slug /\ r.team = t /\ r.user \in Users
    BY <1>2, <1>16, <1>17
  <2>2. Path(r.op, r.todo)' /\ Due(r)' = "insert_owner"
    BY <2>1 DEF Path, Due
  <2>3. r.team \in Created' /\ r.user \in Users'
    BY <1>3, <1>12, <2>1 DEF Users
  <2>4. Knows(r)'
    <3>1. "create_team" \notin DOMAIN Routes
      BY DEF Routes
    <3> HIDE DEF Due
    <3>2. QED BY <2>1, <2>2, <2>3, <3>1 DEF Knows
  <2>5. QED BY <2>2, <2>4 DEF Sound
<1>19. TeamsLeft'
  <2>1. Founders' = Founders \ {c}
    <3>1. \A e \in Call : call'[e] = IF e = c THEN n ELSE call[e]
      BY <1>3 DEF Becomes, Basics, TypeOK
    <3>2. ~Founds(n)
      BY <1>16 DEF Founds
    <3>3. \A e \in Call : Founds(call[e])' <=> e /= c /\ Founds(call[e])
      BY <3>1, <3>2 DEF Founds, Due
    <3>4. QED BY <3>3 DEF Founders
  <2>2. Cardinality(Founders') = Cardinality(Founders) - 1
    BY <1>6, <2>1, FS_RemoveElement
  <2>3. Cardinality(Created') = last + 1
    BY <1>4, <1>13, FS_Interval
  <2>4. Cardinality(Created) + Cardinality(Founders) <= scenario.teams
    BY DEF Basics, TeamsLeft
  <2>5. scenario' = scenario
    BY <1>3 DEF Becomes
  <2>6. Cardinality(Created') + Cardinality(Founders') <= scenario.teams
    BY <1>4, <1>5, <1>6, <1>7, <2>2, <2>3, <2>4, StoreAssumption
  <2>7. QED BY <2>5, <2>6 DEF TeamsLeft
<1>20. /\ r \in InFlight /\ Becomes(c, r) /\ r.op = "create_team"
       /\ Due(r) = "insert_owner" /\ r.team = t /\ r.user = k.user
  BY <1>3, <1>16, <1>17
<1> HIDE DEF Due
<1>21. QED BY <1>3, <1>8, <1>11, <1>12, <1>15, <1>18, <1>19, <1>20 DEF t, d, k

-------------------------------------------------------------------------------
(* Basics is inductive.                                                    *)

LEMMA BasicsParts ==
    Basics <=> /\ Store /\ CallsSound /\ TeamsLeft
               /\ scenario \in Scenario /\ call \in [Call -> InFlight \cup {NoCall}]
               /\ half \in SUBSET Team /\ undropped \in SUBSET Team
BY DEF Basics, TypeOK, Store, CallsSound

LEMMA BasicsAgain ==
    ASSUME Store', CallsSound', TeamsLeft', scenario' \in Scenario,
           call' \in [Call -> InFlight \cup {NoCall}],
           half' \in SUBSET Team /\ undropped' \in SUBSET Team
    PROVE  Basics'
BY DEF Basics, TypeOK, Store, CallsSound

LEMMA BasicsInitially == Init => Basics
<1> SUFFICES ASSUME Init PROVE Basics
  OBVIOUS
<1>1. Created = {} /\ \A t \in Team : Members(t) = {}
  BY DEF Init, StoreInit, Created, Members, IsMember
<1>0. /\ emails \in [User -> Email \cup {NoEmail}]
      /\ \A u, v \in User : emails[u] = emails[v] => u = v \/ emails[u] = NoEmail
  <2>1. scenario \in Scenario /\ emails = scenario.emails
    BY DEF Init
  <2>2. emails \in [User -> Email \cup {NoEmail}]
    BY <2>1, ScenarioAssumption
  <2>3. \A u, v \in User : scenario.emails[u] = scenario.emails[v] =>
          u = v \/ scenario.emails[u] = NoEmail
    BY <2>1, EmailAssumption
  <2>4. QED BY <2>1, <2>2, <2>3
<1>00. /\ held \in SUBSET (User \X Email)
       /\ \A u \in User : emails[u] /= NoEmail => <<u, emails[u]>> \in held
  <2>1. held = {<<u, emails[u]>> : u \in {u \in User : emails[u] /= NoEmail}}
    BY DEF Init
  <2>2. \A u \in User : emails[u] /= NoEmail => emails[u] \in Email
    BY <1>0
  <2> HIDE DEF Email
  <2>3. QED BY <2>1, <2>2
<1>2. Store
  <2>1. StoreTypeOK /\ invited \in SUBSET (Team \X (User \cup Address))
    BY <1>0 DEF Init, StoreInit, StoreTypeOK
  <2>2. Bookkeeping
    <3>1. \E n \in 0 .. MaxTeams : Created = 1 .. n
      BY <1>1, StoreAssumption, 0 \in 0 .. MaxTeams, 1 .. 0 = {}
    <3>2. \A i \in Invitation : ~Invited(i)
      BY DEF Init, StoreInit, Invited
    <3>3. \A m \in Memo : memos[m].team \in Created \cup {NoTeam}
      BY DEF Init, StoreInit, NotRecorded
    <3>4. QED BY <1>0, <1>00, <1>1, <3>1, <3>2, <3>3 DEF Bookkeeping
  <2>3. MembersWereInvited
    BY <1>1 DEF MembersWereInvited
  <2>4. QED BY <1>00, <2>1, <2>2, <2>3 DEF Store
<1>3. \A c \in Call : Idle(c)
  BY DEF Init, Idle, NoCall
<1>4. CallsSound
  BY <1>3 DEF CallsSound
<1>5. TeamsLeft
  <2>1. Founders = {}
    BY DEF Init, Founders, Founds, NoCall
  <2>2. scenario.teams \in 0 .. MaxTeams
    BY ScenarioAssumption DEF Init
  <2>3. Cardinality(Created) = 0 /\ Cardinality(Founders) = 0
    BY <1>1, <2>1, FS_EmptySet
  <2>4. QED BY <2>2, <2>3, StoreAssumption DEF TeamsLeft
<1>6. QED BY <1>2, <1>4, <1>5, BasicsParts DEF Init

LEMMA BasicsKept ==
    ASSUME Basics, Store', Created' = Created, invited \subseteq invited',
           half' \in SUBSET Team /\ undropped' \in SUBSET Team,
           NEW c \in Call, NEW n \in InFlight \cup {NoCall}, Becomes(c, n),
           n = NoCall \/ Sound(n), Founds(n) => Founds(call[c])
    PROVE  Basics'
<1>1. TypeOK /\ CallsSound /\ TeamsLeft
  BY DEF Basics, CallsSound
<1>2. call' = [call EXCEPT ![c] = n] /\ scenario' = scenario /\ held' = held
  BY DEF Becomes, userVars
<1>3. n = NoCall \/ Sound(n)'
  BY <1>2, SoundLasts
<1>4. call' \in [Call -> InFlight \cup {NoCall}] /\ CallsSound'
  BY <1>1, <1>2, <1>3, CallsKept
<1>5. TeamsLeft'
  BY <1>1, <1>2, FoundersKept
<1>6. scenario' \in Scenario
  BY <1>1, <1>2 DEF TypeOK
<1>7. QED BY <1>4, <1>5, <1>6, BasicsAgain

LEMMA ReaderBusy ==
    ASSUME NEW c \in Call, ReadStep(c)
    PROVE  ~Idle(c)
BY DEF ReadStep, Authorize, CountOwned, FindSlug, FindTeam, FindTarget, FindRequester, FindMember,
       FindPending, CountMembers, CountPending, FindInvitation, FindMemo, FindDeletedMemo, Count,
       FindUser, FindInvitee,
       Find, Sends

\* The requests, where no request steps.
LEMMA RequestsUntouched ==
    ASSUME Basics, Store', Created' = Created, held \subseteq held',
           UNCHANGED <<scenario, call, invited, half, undropped>>
    PROVE  Basics'
<1>1. CallsSound'
  <2>1. ASSUME NEW c \in Call, ~Idle(c)' PROVE Sound(call[c])'
    <3>1. Sound(call[c]) /\ call'[c] = call[c]
      BY <2>1 DEF Basics, Idle
    <3>2. PICK k : k = call[c]
      OBVIOUS
    <3>3. Sound(k)'
      BY <3>1, <3>2, SoundLasts
    <3>4. k = call'[c]
      BY <3>1, <3>2
    <3>5. QED BY <3>3, <3>4
  <2>2. QED BY <2>1 DEF CallsSound
<1>2. TeamsLeft'
  <2>1. Founders' = Founders
    BY DEF Founders, Founds, Due
  <2>2. QED BY <2>1 DEF TeamsLeft, Basics
<1>3. /\ scenario' \in Scenario /\ call' \in [Call -> InFlight \cup {NoCall}]
      /\ half' \in SUBSET Team /\ undropped' \in SUBSET Team
  BY DEF Basics, TypeOK
<1>4. QED BY <1>1, <1>2, <1>3, BasicsAgain

LEMMA BasicsStep == Basics /\ [Next]_vars => Basics'
<1> SUFFICES ASSUME Basics, [Next]_vars PROVE Basics'
  OBVIOUS
<1>1. /\ TypeOK /\ Store /\ CallsSound /\ TeamsLeft /\ Bookkeeping
  BY BasicsParts DEF Basics
<1>3. ASSUME NEW c \in Call, RequestArrives(c) PROVE Basics'
  <2>1. /\ Idle(c) /\ UNCHANGED <<storeVars, userVars, scenario, invited, half, undropped>>
        /\ \E k \in InFlight :
             /\ call' = [call EXCEPT ![c] = k] /\ Fresh(k)
             /\ k.op = "create_team" =>
                  Cardinality(Created) + Cardinality(InProgress({"create_team"}))
                    < scenario.teams
    BY <1>1, <1>3, Arrivals DEF Arrives
  <2>2. PICK k \in InFlight :
             /\ call' = [call EXCEPT ![c] = k] /\ Fresh(k)
             /\ k.op = "create_team" =>
                  Cardinality(Created) + Cardinality(InProgress({"create_team"}))
                    < scenario.teams
    BY <2>1
  <2>3. Store' /\ Created' = Created /\ invited' = invited /\ held' = held
    BY <1>1, <2>1, StoreUntouched DEF userVars
  <2>4. Sound(k)'
    <3>1. Sound(k)
      BY <2>2 DEF Fresh
    <3>2. QED BY <2>3, <3>1, SoundLasts
  <2>5. call' \in [Call -> InFlight \cup {NoCall}] /\ CallsSound'
    BY <1>1, <2>2, <2>3, <2>4, CallsKept
  <2>6. TeamsLeft'
    BY <1>1, <2>1, <2>2, <2>3, FoundersMore
  <2>7. scenario' \in Scenario /\ half' \in SUBSET Team /\ undropped' \in SUBSET Team
    BY <1>1, <2>1 DEF TypeOK
  <2>8. QED BY <2>3, <2>5, <2>6, <2>7, BasicsAgain
<1>4. ASSUME NEW c \in Call, ReadStep(c) PROVE Basics'
  <2>1. ~Idle(c) /\ Sound(call[c])
    <3>1. ~Idle(c)
      BY <1>4, ReaderBusy
    <3>2. QED BY <1>1, <3>1 DEF CallsSound
  <2>2. PICK n \in InFlight : Reads(c, n) /\ Sound(n) /\ (Founds(n) => Founds(call[c]))
    BY <1>1, <1>4, <2>1, ReadsSoundly
  <2>3. Becomes(c, n) /\ UNCHANGED <<storeVars, userVars, invited, half, undropped>>
    BY <2>2 DEF Reads, Becomes
  <2>4. /\ Store' /\ Created' = Created
        /\ half' \in SUBSET Team /\ undropped' \in SUBSET Team
    BY <1>1, <2>3, StoreUntouched DEF TypeOK
  <2>5. QED BY <2>2, <2>3, <2>4, BasicsKept
<1>5. ASSUME NEW c \in Call, WriteStep(c), ~InsertTeam(c) PROVE Basics'
  <2>1. Sound(call[c])
    <3>1. ~Idle(c)
      BY <1>1, <1>5, Writing DEF WriteOutcome
    <3>2. QED BY <1>1, <3>1 DEF CallsSound
  <2>2. PICK n \in InFlight : Becomes(c, n) /\ Sound(n) /\ (Founds(n) => Founds(call[c]))
    BY <1>1, <1>5, <2>1, WritesSoundly
  <2>3. Kept
    BY <1>1, <1>5, <2>1, StoreWritten
  <2>4. /\ Store' /\ Created' = Created /\ invited \subseteq invited'
        /\ half' \in SUBSET Team /\ undropped' \in SUBSET Team
    BY <1>1, <2>3 DEF Kept, TypeOK
  <2>5. QED BY <2>2, <2>4, BasicsKept
<1>6. ASSUME NEW c \in Call, InsertTeam(c) PROVE Basics'
  <2>1. CASE SlugIndexed(NoTeam, call[c].slug)
    <3> DEFINE n == Fails(call[c], <<>>, "duplicate")
    <3>1. /\ Becomes(c, n) /\ Sends(c, "insert_team")
          /\ UNCHANGED <<storeVars, userVars, invited, half, undropped>>
      BY <1>6, <2>1 DEF InsertTeam, Becomes, storeVars
    <3>2. call[c] \in InFlight /\ ~Idle(c) /\ call[c].todo /= <<>>
      BY <1>1, <3>1, Sending
    <3>3. Sound(call[c])
      BY <1>1, <3>2 DEF CallsSound
    <3>4. Same(n, call[c]) /\ n.todo = <<>>
      <4>1. <<>> \in Seq(Commands) /\ "duplicate" \in Codes
        BY DEF Codes
      <4>2. QED BY <3>2, <4>1, Outcomes
    <3> HIDE DEF n
    <3>5. n \in InFlight /\ Sound(n) /\ ~Founds(n)
      BY <3>2, <3>3, <3>4, SameEndsSoundly, EndedFoundsNone DEF Same
    <3>6. /\ Store' /\ Created' = Created
          /\ half' \in SUBSET Team /\ undropped' \in SUBSET Team
      BY <1>1, <3>1, StoreUntouched DEF TypeOK
    <3>7. PICK r : r = n
      OBVIOUS
    <3>8. r \in InFlight /\ Sound(r) /\ ~Founds(r) /\ Becomes(c, r)
      BY <3>1, <3>5, <3>7
    <3>9. QED BY <3>1, <3>6, <3>8, BasicsKept
  <2>2. CASE ~SlugIndexed(NoTeam, call[c].slug)
    <3>1. /\ Store' /\ UNCHANGED <<userVars, invited, half, undropped>>
          /\ Created' = Created \cup {Cardinality(Created) + 1}
          /\ TeamsLeft'
          /\ \E n \in InFlight : Becomes(c, n) /\ Sound(n)'
      BY <1>6, <2>2, TeamInserted
    <3>2. PICK n \in InFlight : Becomes(c, n) /\ Sound(n)'
      BY <3>1
    <3>3. call' = [call EXCEPT ![c] = n] /\ scenario' = scenario /\ held' = held
      BY <3>2 DEF Becomes, userVars
    <3>4. call' \in [Call -> InFlight \cup {NoCall}] /\ CallsSound'
      BY <1>1, <3>1, <3>2, <3>3, CallsKept
    <3>5. scenario' \in Scenario /\ half' \in SUBSET Team /\ undropped' \in SUBSET Team
      BY <1>1, <3>1, <3>3 DEF TypeOK
    <3>6. QED BY <3>1, <3>4, <3>5, BasicsAgain
  <2>3. QED BY <2>1, <2>2
<1>7. ASSUME NEW c \in Call, Refuse(c) PROVE Basics'
  <2>1. /\ ~Idle(c) /\ UNCHANGED <<storeVars, invited>>
        /\ half' \in {half, half \cup {call[c].team}}
        /\ undropped' \in {undropped, undropped \cup {call[c].team}}
        /\ half' /= half => Due(call[c]) \in {"delete_invitations", "delete_team"}
        /\ undropped' /= undropped => Due(call[c]) = "drop_invitation"
    <3>1. \A command : Sends(c, command) => Due(call[c]) = command
      BY <1>1, Sending
    <3>2. QED BY <1>7, <3>1 DEF Refuse
  <2>2. Sound(call[c]) /\ call[c] \in InFlight /\ call[c].todo /= <<>>
    BY <1>1, <1>7, <2>1, Refusing DEF CallsSound
  <2>3. PICK n \in InFlight : Becomes(c, n) /\ Sound(n) /\ (Founds(n) => Founds(call[c]))
    BY <1>1, <1>7, <2>2, RefusesSoundly
  <2>4. half' /= half \/ undropped' /= undropped => call[c].team \in Team
    <3>1. Due(call[c]) \in {"delete_invitations", "delete_team", "drop_invitation"} =>
            call[c].team \in Created
      BY <2>2, WriterHolds DEF WriteCommands
    <3>2. QED BY <2>1, <3>1, CreatedTeams
  <2>5. half' \in SUBSET Team /\ undropped' \in SUBSET Team
    BY <1>1, <2>1, <2>4 DEF TypeOK
  <2>6. Store' /\ Created' = Created
    BY <1>1, <2>1, <2>3, StoreUntouched DEF Becomes
  <2>7. QED BY <2>1, <2>3, <2>5, <2>6, BasicsKept
<1>8. ASSUME NEW c \in Call, Respond(c) PROVE Basics'
  <2>1. Becomes(c, NoCall) /\ UNCHANGED <<storeVars, userVars, invited, half, undropped>>
    BY <1>8 DEF Respond, Becomes
  <2>2. /\ Store' /\ Created' = Created
        /\ half' \in SUBSET Team /\ undropped' \in SUBSET Team
    BY <1>1, <2>1, StoreUntouched DEF TypeOK
  <2>3. ~Founds(NoCall)
    BY DEF Founds, NoCall
  <2>4. QED BY <2>1, <2>2, <2>3, BasicsKept
<1>9. CASE Expire
  <2>1. PICK i \in Invitation : ExpireInvitation(i)
    BY <1>9 DEF Expire
  <2>2. UNCHANGED <<teams, roles, memos, userVars, scenario, call, invited, half, undropped>>
    BY <1>9 DEF Expire
  <2>3. Store' /\ Created' = Created
    BY <1>1, <2>1, <2>2, InvitationExpired DEF Kept
  <2>4. QED BY <2>2, <2>3, RequestsUntouched DEF userVars
<1>10. CASE UNCHANGED vars
  <2>1. UNCHANGED <<storeVars, userVars, invited>> /\ UNCHANGED <<scenario, call, half, undropped>>
    BY <1>10 DEF vars
  <2>2. Store' /\ Created' = Created
    BY <1>1, <2>1, StoreUntouched
  <2>3. QED BY <2>1, <2>2, RequestsUntouched DEF userVars
<1>11. CASE EmailChanges \/ UserDeleted
  BY <1>1, <1>11, EmailsWritten, RequestsUntouched
<1>12. QED
  BY <1>3, <1>4, <1>5, <1>6, <1>7, <1>8, <1>9, <1>10, <1>11 DEF Next

\* Type correctness: whatever overlaps, and whatever is refused, the documents
\* and the requests are what the code declares them to be.
THEOREM TypeCorrect == Spec => []TypeOK
<1>1. Init => Basics
  BY BasicsInitially
<1>2. Basics /\ [Next]_vars => Basics'
  BY BasicsStep
<1>3. Basics => TypeOK
  BY DEF Basics
<1>4. QED BY <1>1, <1>2, <1>3, PTL DEF Spec

\* Membership is by invitation, for any number of overlapping requests.
THEOREM MembersHold == Spec => []MembersWereInvited
<1>1. Init => Basics
  BY BasicsInitially
<1>2. Basics /\ [Next]_vars => Basics'
  BY BasicsStep
<1>3. Basics => MembersWereInvited
  BY DEF Basics
<1>4. QED BY <1>1, <1>2, <1>3, PTL DEF Spec

\* Every command that writes a team's document, or deletes memos.
LEMMA TeamWriters ==
    ASSUME TypeOK, Next, teams' /= teams
    PROVE  \E c \in Call : call[c] \in InFlight /\
             \/ SoftDeleteTeamDocument(call[c].team)
             \/ WritesTeam(call[c])
             \/ /\ InsertTeam(c)
                /\ InsertTeamDocument(Cardinality(Created) + 1, call[c].user, call[c].slug)
                /\ ~SlugIndexed(NoTeam, call[c].slug)
<1>1. PICK c \in Call : WriteStep(c)
  <2>1. ASSUME NEW c \in Call PROVE ~RequestArrives(c) /\ ~ReadStep(c) /\ ~Refuse(c) /\ ~Respond(c)
    <3>1. ~RequestArrives(c)
      BY Arrivals DEF Arrives, storeVars
    <3>2. ~ReadStep(c)
      BY DEF ReadStep, Authorize, CountOwned, FindSlug, FindTeam, FindTarget, FindRequester,
             FindMember, FindPending, CountMembers, CountPending, FindInvitation, FindMemo,
             FindDeletedMemo, FindUser, FindInvitee, Count, Find, Reads, storeVars
    <3>3. ~Refuse(c) /\ ~Respond(c)
      BY DEF Refuse, Respond, storeVars
    <3>4. QED BY <3>1, <3>2, <3>3
  <2>2. ~Expire /\ ~EmailChanges /\ ~UserDeleted
    BY DEF Expire, EmailChanges, UserDeleted, storeVars
  <2>3. QED BY <2>1, <2>2 DEF Next
<1>2. call[c] \in InFlight
  <2>1. CASE InsertTeam(c)
    BY <2>1, Sending DEF InsertTeam
  <2>2. CASE ~InsertTeam(c)
    BY <1>1, <2>2, Writing DEF WriteOutcome
  <2>3. QED BY <2>1, <2>2
<1>3. UndoTeam(c) \/ DeleteTheTeam(c) \/ WriteTeam(c) \/ HandOver(c) \/ InsertTeam(c)
  BY <1>1
     DEF WriteStep, InsertOwner, DeleteMemos, DeleteMembers, DeleteInvitations, Promote, Demote,
         UndoDemote, UndoPromote, DeleteTheMember, SetRole, InsertTheInvitation,
         DeleteTheInvitation, InsertTheMember, DropInvitation, InsertTheMemo, DeleteTheMemo
<1>4. QED
  BY <1>2, <1>3 DEF UndoTeam, DeleteTheTeam, WriteTeam, HandOver, InsertTeam

\* A team that was deleted stays as it was: of the commands that write a
\* team's document each asks for one that is not deleted, or makes a new one.
THEOREM DeletedStay == Spec => DeletedTeamsStay
<1>1. Init => Basics
  BY BasicsInitially
<1>2. Basics /\ [Next]_vars => Basics'
  BY BasicsStep
<1>3. Basics /\ [Next]_vars =>
        [\A t \in Team : teams[t].state = "deleted" => teams'[t] = teams[t]]_vars
  <2> SUFFICES ASSUME Basics, Next, NEW t \in Team, teams[t].state = "deleted", teams' /= teams
               PROVE  teams'[t] = teams[t]
    BY DEF vars, storeVars
  <2>1. PICK c \in Call : call[c] \in InFlight /\
             \/ SoftDeleteTeamDocument(call[c].team)
             \/ WritesTeam(call[c])
             \/ /\ InsertTeam(c)
                /\ InsertTeamDocument(Cardinality(Created) + 1, call[c].user, call[c].slug)
                /\ ~SlugIndexed(NoTeam, call[c].slug)
    BY TeamWriters DEF Basics
  <2>2. teams \in [Team -> TeamDocument \cup {NotCreated}]
    BY DEF Basics, TypeOK, StoreTypeOK
  <2>3. CASE SoftDeleteTeamDocument(call[c].team)
    BY <2>2, <2>3 DEF SoftDeleteTeamDocument, LiveTeam
  <2>4. CASE WritesTeam(call[c])
    BY <2>2, <2>4 DEF WritesTeam, UpdateTeamDocument, LiveTeam
  <2>5. CASE /\ InsertTeam(c)
             /\ InsertTeamDocument(Cardinality(Created) + 1, call[c].user, call[c].slug)
             /\ ~SlugIndexed(NoTeam, call[c].slug)
    <3>1. Cardinality(Created) + 1 /= t
      <4>1. PICK last \in 0 .. MaxTeams : Created = 1 .. last
        BY DEF Basics, Bookkeeping
      <4>2. Cardinality(Created) = last
        BY <4>1, FS_Interval
      <4>3. t \in Created
        BY DEF Created, NotCreated
      <4>4. QED BY <4>1, <4>2, <4>3, StoreAssumption
    <3>2. QED BY <2>2, <2>5, <3>1 DEF InsertTeamDocument
  <2>6. QED BY <2>1, <2>3, <2>4, <2>5
<1>4. QED BY <1>1, <1>2, <1>3, PTL DEF Spec, DeletedTeamsStay

-------------------------------------------------------------------------------
(* One request at a time: a team that is deleted leaves nothing behind.    *)

Left == \A t \in Team : teams[t].state = "deleted" => Emptied(t)

\* Where a request waits for more than that its team is there.
Cleaning ==
    {"insert_owner", "undo_team", "delete_memo", "delete_memos", "delete_members",
     "delete_invitations", "delete_team"}

LEMMA AliveEnded ==
    ASSUME NEW n, Due(n) = "end" PROVE Alive(n) /\ Alive(n)'
<1>1. Due(n)' = "end"
  BY DEF Due
<1> HIDE DEF Due
<1>2. QED BY <1>1 DEF Alive

LEMMA AliveStays ==
    ASSUME NEW k, NEW n, Alive(k), n.op = k.op, n.team = k.team,
           Due(k) \notin {"authorize", "find_user", "find_invitation", "end"},
           Due(n) \notin Cleaning,
           k.op \in DOMAIN Routes \cup {"accept"} /\ LiveTeam(k.team) => LiveTeam(k.team)'
    PROVE  Alive(n)'
<1>1. Due(n)' = Due(n)
  BY DEF Due
<1> HIDE DEF Due
<1>2. QED BY <1>1 DEF Alive, Cleaning

LEMMA AliveLasts ==
    ASSUME NEW n, Alive(n), UNCHANGED storeVars PROVE Alive(n)'
<1>1. Due(n)' = Due(n)
  BY DEF Due
<1> HIDE DEF Due
<1>2. QED
  BY <1>1 DEF Alive, LiveTeam, Emptied, Members, IsMember, InvitationsGone, MemosGone, LiveMemo,
              storeVars

LEMMA LeftUntouched ==
    ASSUME Left, UNCHANGED storeVars PROVE Left'
BY DEF Left, Emptied, Members, IsMember, InvitationsGone, MemosGone, LiveMemo, storeVars

LEMMA EndsKept ==
    ASSUME TypeOK, OneAtATime, ~scenario.overlap, NEW c \in Call,
           ~Idle(c) \/ \A d \in Call : Idle(d),
           NEW n, call' = [call EXCEPT ![c] = n], scenario' = scenario,
           Left', n = NoCall \/ Alive(n)'
    PROVE  Ends' /\ OneAtATime'
<1>1. \A d \in Call : call'[d] = IF d = c THEN n ELSE call[d]
  BY DEF TypeOK
<1>2. \A d \in Call \ {c} : Idle(d)
  BY DEF OneAtATime
<1>3. \A d \in Call : ~Idle(d)' => d = c /\ n /= NoCall
  BY <1>1, <1>2 DEF Idle, NoCall
<1>4. \A d \in Call : ~Idle(d)' => Alive(call[d])'
  <2>1. ASSUME NEW d \in Call, ~Idle(d)' PROVE Alive(call[d])'
    <3>1. call'[d] = n /\ Alive(n)'
      BY <1>1, <1>3, <2>1
    <3>2. QED BY <3>1 DEF Alive, Due
  <2>2. QED BY <2>1
<1>5. QED BY <1>3, <1>4 DEF Ends, OneAtATime, Left

LEMMA TeamOpen ==
    ASSUME TypeOK, Left, NEW t \in Created,
           (\E u \in User : IsMember(t, u)) \/ (\E i \in Invitation : invitations[i].team = t)
    PROVE  LiveTeam(t)
<1>1. t \in Team
  BY CreatedTeams
<1>2. teams[t].state /= "deleted"
  BY <1>1 DEF Left, Emptied, Members, InvitationsGone
<1>3. QED BY <1>1, <1>2, DocumentsTyped DEF LiveTeam

\* A request whose command reads.
LEMMA AliveAdvances ==
    ASSUME NEW k \in InFlight, Alive(k), k.todo /= <<>>,
           NEW n \in InFlight, Sound(n), n.op = k.op,
           Due(k) \notin {"insert_owner", "undo_team", "insert_team", "delete_memos",
                          "delete_members", "delete_invitations", "delete_team"},
           \/ <<Due(k), Due(n)>> \in Order[k.op] \/ k.op \in {"remove_member", "update_role"}
           \/ Due(k) = "find_invitee" /\ Due(n) = "find_pending",
           Due(n) \in {"delete_memo", "delete_memos"} => MayPerform(n),
           Due(k) \in {"authorize", "find_invitation"} /\ Due(n) /= "end"
             /\ k.op \in DOMAIN Routes \cup {"accept"} => LiveTeam(n.team),
           Due(k) /= "find_invitation" => n.team = k.team
    PROVE  Alive(n)
<1>1. k.op \in Operations
  BY DEF InFlight
<1>2. Due(n) \notin Cleaning \ {"delete_memo", "delete_memos"}
  <2>1. CASE n.todo = <<>>
    BY <2>1 DEF Due, Cleaning
  <2>2. CASE n.todo /= <<>> /\ k.op \in {"remove_member", "update_role"}
    BY <2>2, SenderOf DEF Cleaning
  <2>3. CASE <<Due(k), Due(n)>> \in Order[k.op]
    BY <1>1, <2>3, Successor DEF Cleaning
  <2>4. CASE Due(n) = "find_pending"
    <3> HIDE DEF Due
    <3>1. QED BY <2>4 DEF Cleaning
  <2>5. QED BY <2>1, <2>2, <2>3, <2>4
<1>3. Due(k) /= "end"
  <2>1. k.todo \in Seq(Commands)
    BY DEF InFlight
  <2>2. Head(k.todo) \in Commands
    BY <2>1, HeadTailProperties
  <2>3. QED BY <2>2 DEF Due, Commands
<1> HIDE DEF Due
<1>4. Due(n) /= "end" /\ n.op \in DOMAIN Routes => LiveTeam(n.team)
  <2>1. CASE Due(k) = "find_invitation" \/ Due(k) = "authorize"
    BY <2>1
  <2>2. CASE Due(k) /= "find_invitation" /\ Due(k) /= "authorize"
    BY <1>3, <2>2 DEF Alive
  <2>3. QED BY <2>1, <2>2
<1>50. Due(k) = "find_user" /\ n.op = "accept" => Due(n) = "find_invitation"
  BY DEF Order
<1>5. Due(n) \notin {"find_user", "find_invitation", "end"} /\ n.op = "accept" =>
        LiveTeam(n.team)
  <2>1. CASE Due(k) = "find_invitation" \/ Due(k) = "authorize"
    BY <2>1
  <2>2. CASE Due(k) /= "find_invitation" /\ Due(k) /= "authorize"
    BY <1>3, <1>50, <2>2 DEF Alive
  <2>3. QED BY <2>1, <2>2
<1>6. QED BY <1>2, <1>4, <1>5 DEF Alive, Cleaning, MayPerform

LEMMA Stepped ==
    ASSUME TypeOK, NEW c \in Call, NEW m, NEW n, Becomes(c, m), Becomes(c, n)
    PROVE  m = n
BY DEF TypeOK, Becomes

LEMMA Permitted ==
    ASSUME NEW k \in InFlight, k.op \in DOMAIN Routes, MayPerform(k)
    PROVE  IsMember(k.team, k.user)
BY DEF MayPerform, rolePermissions, Routes, IsMember, AnyRole, Managers, Role

LEMMA ReadsAlive ==
    ASSUME Basics, Left, NEW c \in Call, ~Idle(c), Alive(call[c]), ReadStep(c),
           NEW n \in InFlight, Reads(c, n), Sound(n)
    PROVE  Alive(n)
<1> DEFINE k == call[c]
<1>1. TypeOK /\ Bookkeeping /\ Sound(k) /\ k \in InFlight
  BY Sender DEF Basics
<1>2. Becomes(c, n)
  BY DEF Reads
<1>3. CASE /\ ~FindTeam(c) /\ ~FindTarget(c) /\ ~FindInvitation(c)
           /\ ~FindUser(c) /\ ~FindInvitee(c)
  <2>1. PlainOutcome(c)
    BY <1>1, <1>3, PlainReading
  <2>2. /\ k.todo /= <<>> /\ Due(k) \in PlainReads
        /\ \E m \in InFlight :
             /\ Reads(c, m)
             /\ Stops(m, k) \/ (GoesOn(m, k) /\ (Due(k) = "authorize" => MayPerform(k)))
    BY <2>1 DEF PlainOutcome
  <2>3. Stops(n, k) \/ (GoesOn(n, k) /\ (Due(k) = "authorize" => MayPerform(k)))
    <3>1. PICK m \in InFlight :
            /\ Reads(c, m)
            /\ Stops(m, k) \/ (GoesOn(m, k) /\ (Due(k) = "authorize" => MayPerform(k)))
      BY <2>2
    <3>2. m = n
      BY <1>1, <1>2, <3>1, Stepped DEF Reads
    <3>3. QED BY <3>1, <3>2
  <2> HIDE DEF k
  <2>4. CASE Stops(n, k)
    BY <2>4, AliveEnded DEF Stops, Due
  <2>5. CASE GoesOn(n, k) /\ (Due(k) = "authorize" => MayPerform(k))
    <3>1. Same(n, k) /\ n.todo = Tail(k.todo) /\ n.op = k.op /\ n.team = k.team
      BY <2>5 DEF GoesOn, Same
    <3>2. <<Due(k), Due(n)>> \in Order[k.op]
      BY <1>1, <2>2, <3>1, NextDue
    <3>3. Due(k) = "authorize" => k.op \in DOMAIN Routes /\ LiveTeam(n.team)
      <4>1. SUFFICES ASSUME Due(k) = "authorize"
                     PROVE  k.op \in DOMAIN Routes /\ LiveTeam(n.team)
        OBVIOUS
      <4>2. k.op \in DOMAIN Routes
        BY <1>1, <2>2, <4>1, SenderOf
      <4>3. k.team \in Created /\ k.user \in User
        BY <1>1, <4>2 DEF Sound, Knows, InFlight
      <4>4. IsMember(k.team, k.user)
        BY <1>1, <2>5, <4>1, <4>2, Permitted
      <4>5. QED BY <1>1, <3>1, <4>2, <4>3, <4>4, TeamOpen
    <3>4. Due(k) \notin {"insert_owner", "undo_team", "insert_team", "delete_memos",
                         "delete_members", "delete_invitations", "delete_team",
                         "find_invitation"}
      BY <2>2 DEF PlainReads
    <3>5. Alive(k)
      BY DEF k
    <3>6. Due(n) \in {"delete_memo", "delete_memos"} => MayPerform(n)
      <4>1. Due(n) \in {"delete_memo", "delete_memos"} => Due(k) = "authorize"
        BY <1>1, <3>2, Successor DEF InFlight
      <4>2. MayPerform(k) => MayPerform(n)
        BY <3>1 DEF MayPerform, Same
      <4>3. QED BY <2>5, <4>1, <4>2
    <3> HIDE DEF Due
    <3>7. QED BY <1>1, <2>2, <3>1, <3>2, <3>3, <3>4, <3>5, <3>6, AliveAdvances
  <2>6. QED BY <2>3, <2>4, <2>5
<1>4. CASE FindTeam(c)
  <2>1. /\ k.todo /= <<>> /\ Due(k) = "find_team"
        /\ \E m \in InFlight :
             /\ Reads(c, m)
             /\ \/ Stops(m, k)
                \/ LiveTeam(k.team) /\ NotesTeam(m, k) /\ m.todo = Tail(k.todo)
    BY <1>1, <1>4, TeamFound
  <2>2. Stops(n, k) \/ (NotesTeam(n, k) /\ n.todo = Tail(k.todo))
    BY <1>1, <1>2, <2>1, Stepped DEF Reads
  <2>3. Alive(k)
    OBVIOUS
  <2> HIDE DEF k
  <2>4. CASE Stops(n, k)
    BY <2>4, AliveEnded DEF Stops, Due
  <2>5. CASE NotesTeam(n, k) /\ n.todo = Tail(k.todo)
    <3>1. n.op = k.op /\ n.team = k.team
      BY <2>5 DEF NotesTeam
    <3>2. <<Due(k), Due(n)>> \in Order[k.op]
      BY <1>1, <2>1, <2>5, <3>1, NextDue
    <3>3. Due(n) \notin {"delete_memo", "delete_memos"}
      <4> HIDE DEF Due
      <4>1. QED BY <1>1, <2>1, <3>2, Successor DEF InFlight
    <3> HIDE DEF Due
    <3>4. QED BY <1>1, <2>1, <2>3, <3>1, <3>2, <3>3, AliveAdvances
  <2>6. QED BY <2>2, <2>4, <2>5
<1>5. CASE FindTarget(c)
  <2>1. /\ k.todo /= <<>> /\ Due(k) = "find_target"
        /\ \E m \in InFlight :
             /\ Reads(c, m) /\ Reread(m, k)
             /\ \/ m.todo \in {<<>>, Tail(k.todo)}
                \/ k.op \in {"remove_member", "update_role"}
    BY <1>1, <1>5, TargetFound
  <2>2. Reread(n, k) /\ (n.todo \in {<<>>, Tail(k.todo)} \/ k.op \in {"remove_member", "update_role"})
    BY <1>1, <1>2, <2>1, Stepped DEF Reads
  <2>3. Alive(k)
    OBVIOUS
  <2> HIDE DEF k
  <2>4. CASE n.todo = <<>>
    BY <2>4, AliveEnded DEF Due
  <2>5. CASE n.todo = Tail(k.todo) \/ k.op \in {"remove_member", "update_role"}
    <3>1. n.op = k.op /\ n.team = k.team
      BY <2>2 DEF Reread
    <3>2. <<Due(k), Due(n)>> \in Order[k.op] \/ k.op \in {"remove_member", "update_role"}
      BY <1>1, <2>1, <2>5, <3>1, NextDue
    <3>3. Due(n) \notin {"delete_memo", "delete_memos"}
      <4>1. CASE n.todo = <<>>
        BY <4>1 DEF Due
      <4>2. CASE n.todo /= <<>> /\ k.op \in {"remove_member", "update_role"}
        BY <1>1, <3>1, <4>2, SenderOf
      <4>3. CASE <<Due(k), Due(n)>> \in Order[k.op]
        <5> HIDE DEF Due
        <5>1. QED BY <1>1, <2>1, <4>3, Successor DEF InFlight
      <4>4. QED BY <3>2, <4>1, <4>2, <4>3
    <3> HIDE DEF Due
    <3>4. QED BY <1>1, <2>1, <2>3, <3>1, <3>2, <3>3, AliveAdvances
  <2>6. QED BY <2>2, <2>4, <2>5
<1>6. CASE FindInvitation(c)
  <2>1. /\ k.todo /= <<>> /\ Due(k) = "find_invitation" /\ k.invitation \in Invitation
        /\ k.op \in {"cancel", "accept", "decline"}
        /\ \E m \in InFlight :
             /\ Reads(c, m) /\ Accepts(m, k)
             /\ m.todo = <<>> \/ (m.todo = Tail(k.todo) /\ Invited(k.invitation))
    BY <1>1, <1>6, InvitationFound
  <2>2. Accepts(n, k) /\ (n.todo = <<>> \/ (n.todo = Tail(k.todo) /\ Invited(k.invitation)))
    BY <1>1, <1>2, <2>1, Stepped DEF Reads
  <2>3. Alive(k)
    OBVIOUS
  <2> HIDE DEF k
  <2>4. CASE n.todo = <<>>
    BY <2>4, AliveEnded DEF Due
  <2>5. CASE n.todo = Tail(k.todo) /\ Invited(k.invitation)
    <3>1. n.op = k.op /\ (k.op /= "accept" => n.team = k.team)
      BY <2>2 DEF Accepts
    <3>2. <<Due(k), Due(n)>> \in Order[k.op]
      BY <1>1, <2>1, <2>5, <3>1, NextDue
    <3>3. k.op = "accept" => LiveTeam(n.team)
      <4>1. invitations[k.invitation].team \in Created
        BY <1>1, <2>1, <2>5 DEF Bookkeeping
      <4>2. LiveTeam(invitations[k.invitation].team)
        BY <1>1, <2>1, <4>1, TeamOpen
      <4>3. QED BY <2>2, <4>2 DEF Accepts
    <3>4. k.op = "cancel" => LiveTeam(n.team)
      <4>1. "cancel" \in DOMAIN Routes
        BY DEF Routes
      <4> HIDE DEF Due
      <4>2. QED
        BY <2>1, <2>3, <3>1, <4>1 DEF Alive
    <3>5. "decline" \notin DOMAIN Routes
      BY DEF Routes
    <3> HIDE DEF Due
    <3>6. Due(n) \notin {"delete_memo", "delete_memos"}
      BY <1>1, <2>1, <3>2, Successor DEF InFlight
    <3>7. QED BY <1>1, <2>1, <2>3, <3>1, <3>2, <3>3, <3>4, <3>5, <3>6, AliveAdvances
  <2>6. QED BY <2>2, <2>4, <2>5
<1>7. CASE FindUser(c) \/ FindInvitee(c)
  <2>1. /\ k.todo /= <<>>
        /\ \/ Due(k) = "find_user" /\ k.op \in {"my_invitations", "accept", "decline"}
           \/ Due(k) = "find_invitee" /\ k.op = "invite"
    BY <1>1, <1>7, LookedUp
  <2>2. /\ Finds(n, k)
        /\ IF Due(k) = "find_user"
             THEN Due(n) \in {"end", IF n.op = "my_invitations" THEN "find" ELSE "find_invitation"}
             ELSE Due(n) \in {"find_member", "find_pending"}
    <3>1. PICK m \in InFlight :
            /\ Reads(c, m) /\ Finds(m, k)
            /\ IF Due(k) = "find_user"
                 THEN Due(m) \in {"end", IF m.op = "my_invitations" THEN "find"
                                                                   ELSE "find_invitation"}
                 ELSE Due(m) \in {"find_member", "find_pending"}
      BY <1>1, <1>7, LookedUp
    <3>2. m = n
      BY <1>1, <1>2, <3>1, Stepped DEF Reads
    <3>3. QED BY <3>1, <3>2
  <2>3. Alive(k)
    OBVIOUS
  <2> HIDE DEF k, Due
  <2>4. n.op = k.op /\ n.team = k.team
    BY <2>2 DEF Finds
  <2>5. "invite" \in DOMAIN Routes /\ DOMAIN Routes \cap {"my_invitations", "accept", "decline"} = {}
    BY DEF Routes
  <2>6. CASE Due(k) = "find_user"
    BY <2>1, <2>2, <2>4, <2>5, <2>6 DEF Alive
  <2>7. CASE Due(k) = "find_invitee"
    <3>1. LiveTeam(k.team) /\ k.op = "invite"
      BY <2>1, <2>3, <2>5, <2>7 DEF Alive
    <3>2. QED BY <2>2, <2>4, <2>7, <3>1 DEF Alive
  <2>8. QED BY <2>1, <2>6, <2>7
<1>8. QED BY <1>3, <1>4, <1>5, <1>6, <1>7

\* A request whose command writes.
LEMMA WriterAlone ==
    ASSUME NEW k \in InFlight, Sound(k), k.todo /= <<>>, Alive(k), Due(k) \in WriteCommands
    PROVE  /\ Due(k) \notin {"delete_invitation", "insert_memo", "delete_memo"} =>
                LiveTeam(k.team)
           /\ Due(k) \in {"insert_memo", "delete_memo"} => k.team = NoTeam \/ LiveTeam(k.team)
<1>1. /\ {"update_team", "delete_team", "transfer", "remove_member", "leave", "update_role",
          "invite", "create_memo", "delete_memo"} \subseteq DOMAIN Routes
      /\ "create_own_memo" \notin DOMAIN Routes /\ "delete_own_memo" \notin DOMAIN Routes
  BY DEF Routes
<1>2. /\ Due(k) \in {"insert_owner", "undo_team"} => LiveTeam(k.team)
      /\ k.op \in DOMAIN Routes => LiveTeam(k.team)
      /\ Due(k) \in {"insert_member", "drop_invitation"} => LiveTeam(k.team)
  <2>1. Due(k) \notin {"authorize", "end", "find_user", "find_invitation"}
    BY DEF WriteCommands
  <2>2. Due(k) \in {"insert_member", "drop_invitation"} => k.op = "accept"
    BY SenderOf
  <2> HIDE DEF Due
  <2>3. QED BY <2>1, <2>2 DEF Alive
<1>3. Due(k) \notin {"delete_invitation", "insert_memo", "insert_owner", "undo_team",
                     "insert_member", "drop_invitation", "delete_memo"} =>
        k.op \in DOMAIN Routes
  <2> HIDE DEF Due
  <2>1. QED BY <1>1, SenderOf DEF WriteCommands
<1>4. Due(k) \in {"insert_memo", "delete_memo"} => k.team = NoTeam \/ LiveTeam(k.team)
  <2>1. Due(k) \in {"insert_memo", "delete_memo"} =>
          k.op \in {"create_own_memo", "create_memo", "delete_own_memo", "delete_memo"}
    BY SenderOf
  <2>2. k.op \in {"create_own_memo", "delete_own_memo"} => k.team = NoTeam
    BY <1>1 DEF Sound, Knows
  <2>3. k.op \in {"create_memo", "delete_memo"} => LiveTeam(k.team)
    BY <1>1, <1>2
  <2>4. QED BY <2>1, <2>2, <2>3
<1> HIDE DEF Due
<1>5. QED BY <1>2, <1>3, <1>4

\* What is due after a write that is not one of a deletion.
LEMMA AfterWrite ==
    ASSUME NEW k \in InFlight, Sound(k), k.todo /= <<>>, Due(k) \in WriteCommands,
           NEW n \in InFlight, n.op = k.op, n.todo = Remaining(k)
    PROVE  /\ Due(n) \in Cleaning => Due(k) \in {"delete_memos", "delete_members",
                                                 "delete_invitations"}
           /\ Due(k) = "delete_memos" => Due(n) = "delete_members"
           /\ Due(k) = "delete_members" => Due(n) = "delete_invitations"
           /\ Due(k) = "delete_invitations" => Due(n) = "delete_team"
           /\ Due(k) \in {"undo_team", "delete_team"} => Due(n) = "end"
<1>1. CASE n.todo = Tail(k.todo)
  <2>1. <<Due(k), Due(n)>> \in Order[k.op] /\ k.op \in Operations
    BY <1>1, NextDue
  <2>2. /\ Due(k) \notin {"insert_team", "insert_owner"} /\ Due(n) \in Cleaning =>
             Due(k) \in {"delete_memos", "delete_members", "delete_invitations"}
        /\ Due(k) = "insert_owner" => Due(n) = "end"
        /\ Due(k) = "delete_memos" => Due(n) = "delete_members"
        /\ Due(k) = "delete_members" => Due(n) = "delete_invitations"
        /\ Due(k) = "delete_invitations" => Due(n) = "delete_team"
        /\ Due(k) \in {"undo_team", "delete_team"} => Due(n) = "end"
    <3> HIDE DEF Due
    <3>1. Due(k) = "delete_memos" => Due(n) = "delete_members"
      BY <2>1 DEF Order, Operations, Routes
    <3>2. Due(k) /= "authorize"
      BY DEF WriteCommands
    <3>3. QED BY <2>1, <3>1, <3>2, Successor DEF Cleaning
  <2> HIDE DEF Due
  <2>3. QED BY <2>2 DEF Cleaning, WriteCommands
<1>2. CASE n.todo /= Tail(k.todo)
  <2>1. /\ Due(k) \notin {"delete_memos", "delete_members", "delete_invitations", "undo_team"}
        /\ Due(k) = "delete_team" => n.todo = <<>>
        /\ n.todo \in {<<>>, <<"undo_promote">>, <<"undo_demote", "undo_promote">>,
                       <<"find_deleted_memo">>}
    <3> HIDE DEF Due
    <3>1. QED BY <1>2 DEF Remaining
  <2>2. Due(n) \in {"end", "undo_promote", "undo_demote", "find_deleted_memo"}
    BY <2>1 DEF Due
  <2>3. n.todo = <<>> => Due(n) = "end"
    BY DEF Due
  <2> HIDE DEF Due
  <2>4. QED BY <2>1, <2>2, <2>3 DEF Cleaning
<1>3. QED BY <1>1, <1>2

\* The effect on the collections: all but the request's own team is left alone.
LEMMA TeamAlone ==
    ASSUME TypeOK, Left, NEW k, NEW n, Alive(k), n.op = k.op, n.team = k.team,
           Due(k) \notin {"authorize", "find_user", "find_invitation", "end"},
           Due(n) \in Cleaning => Alive(n)',
           LiveTeam(k.team) \/ k.team = NoTeam,
           k.op \in DOMAIN Routes \cup {"accept"} => k.team \in Team,
           \A t \in Team : teams'[t].state = teams[t].state,
           \A t \in Team : t /= k.team => roles'[t] = roles[t],
           \A i \in Invitation :
             invitations'[i].team \in {invitations[i].team, k.team, NoTeam},
           \A m \in Memo : LiveMemo(m)' =>
             memos'[m].team = k.team \/ (LiveMemo(m) /\ memos'[m].team = memos[m].team)
    PROVE  Left' /\ Alive(n)'
<1>1. ASSUME NEW t \in Team, (teams[t].state = "deleted")' PROVE Emptied(t)'
  <2>1. teams[t].state = "deleted" /\ t /= k.team /\ t /= NoTeam
    BY <1>1, CreatedTeams DEF LiveTeam
  <2>2. Emptied(t)
    BY <2>1 DEF Left
  <2>3. Members(t)' = {}
    BY <2>1, <2>2 DEF Emptied, Members, IsMember
  <2>4. InvitationsGone(t)'
    BY <2>1, <2>2 DEF Emptied, InvitationsGone
  <2>5. MemosGone(t)'
    BY <2>1, <2>2 DEF Emptied, MemosGone
  <2>6. QED BY <2>3, <2>4, <2>5 DEF Emptied
<1>2. k.op \in DOMAIN Routes \cup {"accept"} /\ LiveTeam(k.team) => LiveTeam(k.team)'
  BY DEF LiveTeam
<1>3. Alive(n)'
  BY <1>2, AliveStays
<1>4. QED BY <1>1, <1>3 DEF Left

LEMMA WritesAlive ==
    ASSUME Basics, Left, NEW c \in Call, ~Idle(c), Alive(call[c]), WriteStep(c), ~InsertTeam(c),
           NEW n \in InFlight, Becomes(c, n)
    PROVE  Left' /\ Alive(n)'
<1> PICK k : k = call[c]
  OBVIOUS
<1>1. /\ TypeOK /\ Bookkeeping /\ Sound(k) /\ Alive(k) /\ k \in InFlight /\ k.todo /= <<>>
      /\ Due(k) \in WriteCommands
  <2>1. TypeOK /\ Bookkeeping /\ Sound(call[c])
    BY DEF Basics
  <2>2. call[c] \in InFlight /\ call[c].todo /= <<>> /\ Due(call[c]) \in WriteCommands
    BY <2>1, Writing, WriterDue DEF WriteOutcome
  <2>3. QED BY <2>1, <2>2
<1>2. Same(n, k) /\ n.todo = Remaining(k)
  <2>1. PICK m \in InFlight : Becomes(c, m) /\ Same(m, call[c]) /\ m.todo = Remaining(call[c])
    BY <1>1, Writing DEF WriteOutcome
  <2>2. m = n
    BY <1>1, <2>1, Stepped
  <2>3. QED BY <2>1, <2>2
<1>3. n.op = k.op /\ n.team = k.team
  BY <1>2 DEF Same
<1>4. /\ Due(k) \notin {"delete_invitation", "insert_memo", "delete_memo"} => LiveTeam(k.team)
      /\ Due(k) \in {"insert_memo", "delete_memo"} => k.team = NoTeam \/ LiveTeam(k.team)
  BY <1>1, WriterAlone
<1>5. k.op \in DOMAIN Routes \cup {"accept"} => k.team \in Team
  <2>1. Due(k) \notin {"find_user", "find_invitation", "end"}
    BY <1>1 DEF WriteCommands
  <2> HIDE DEF Due
  <2>2. k.op \in DOMAIN Routes \cup {"accept"} => k.team \in Created
    BY <1>1, <2>1 DEF Sound, Knows
  <2>3. QED BY <2>2, CreatedTeams
<1>6. /\ Due(n) \in Cleaning => Due(k) \in {"delete_memos", "delete_members",
                                            "delete_invitations"}
      /\ Due(k) = "delete_memos" => Due(n) = "delete_members"
      /\ Due(k) = "delete_members" => Due(n) = "delete_invitations"
      /\ Due(k) = "delete_invitations" => Due(n) = "delete_team"
      /\ Due(k) \in {"undo_team", "delete_team"} => Due(n) = "end"
  BY <1>1, <1>2, <1>3, AfterWrite
<1>7. Due(n)' = Due(n)
  BY DEF Due
<1>8. \A command : Sends(c, command) => Due(k) = command
  BY <1>1, Sending
<1>9. /\ teams \in [Team -> TeamDocument \cup {NotCreated}]
      /\ roles \in [Team -> [User -> Role \cup {"none"}]]
      /\ invitations \in [Invitation -> InvitationDocument \cup {NotInvited}]
      /\ memos \in [Memo -> MemoDocument \cup {NotRecorded}]
  BY <1>1 DEF TypeOK, StoreTypeOK
<1>10. Due(k) \notin {"authorize", "find_user", "find_invitation", "end"}
  BY <1>1 DEF WriteCommands
<1>11. /\ Due(k) \in {"delete_memos", "delete_members", "delete_invitations", "delete_team"} =>
            k.team \in Team /\ n.op \in DOMAIN Routes
  <2>1. Due(k) \in {"delete_memos", "delete_members", "delete_invitations", "delete_team"} =>
            k.op = "delete_team"
    BY <1>1, SenderOf
  <2>2. "delete_team" \in DOMAIN Routes
    BY DEF Routes
  <2>3. QED BY <1>3, <1>5, <2>1, <2>2
<1> HIDE DEF Due
<1>12. CASE UndoTeam(c) \/ DeleteTheTeam(c)
  <2>1. /\ SoftDeleteTeamDocument(k.team) /\ UNCHANGED <<roles, invitations, memos>>
        /\ Due(k) \in {"undo_team", "delete_team"}
    BY <1>8, <1>12 DEF UndoTeam, DeleteTheTeam
  <2>2. Emptied(k.team)
    BY <1>1, <2>1 DEF Alive, Emptied
  <2>3. ASSUME NEW t \in Team, (teams[t].state = "deleted")' PROVE Emptied(t)'
    <3>1. teams[t].state = "deleted" \/ t = k.team
      BY <1>9, <2>1, <2>3 DEF SoftDeleteTeamDocument
    <3>2. Emptied(t)
      BY <2>2, <3>1 DEF Left
    <3>3. QED
      BY <2>1, <3>2 DEF Emptied, Members, IsMember, InvitationsGone, MemosGone, LiveMemo
  <2>4. QED BY <1>6, <2>1, <2>3, AliveEnded DEF Left
<1>13. CASE WriteTeam(c) \/ HandOver(c)
  <2>1. /\ WritesTeam(k) /\ UNCHANGED <<roles, invitations, memos>>
        /\ Due(k) \in {"update_team", "hand_over"}
    BY <1>8, <1>13 DEF WriteTeam, HandOver
  <2>2. \A t \in Team : teams'[t].state = teams[t].state
    <3>1. CASE teams' = teams
      BY <3>1
    <3>2. CASE teams' /= teams
      <4> DEFINE d == [teams[k.team] EXCEPT !.owner = k.owner, !.slug = k.slug]
      <4>1. LiveTeam(k.team) /\ UpdateTeamDocument(k.team, k.owner, k.slug)
        BY <2>1, <3>2 DEF WritesTeam, UpdateTeamDocument
      <4>2. teams' = [teams EXCEPT ![k.team] = d]
        BY <1>9, <4>1 DEF UpdateTeamDocument
      <4>3. k.team \in Team => d.state = teams[k.team].state
        BY <1>9 DEF TeamDocument, NotCreated
      <4> HIDE DEF d
      <4>4. QED BY <1>9, <4>2, <4>3
    <3>3. QED BY <3>1, <3>2
  <2>3. Due(n) \notin Cleaning /\ LiveTeam(k.team)
    BY <1>4, <1>6, <2>1
  <2>4. \A m \in Memo : LiveMemo(m)' <=> LiveMemo(m)
    BY <2>1 DEF LiveMemo
  <2>5. QED BY <1>1, <1>3, <1>5, <1>10, <2>1, <2>2, <2>3, <2>4, TeamAlone
<1>14. CASE \/ InsertOwner(c) \/ DeleteMembers(c) \/ Promote(c) \/ Demote(c) \/ UndoDemote(c)
            \/ UndoPromote(c) \/ DeleteTheMember(c) \/ SetRole(c) \/ InsertTheMember(c)
  <2>1. /\ UNCHANGED <<teams, invitations, memos>>
        /\ Due(k) \in {"insert_owner", "delete_members", "promote", "demote", "undo_demote",
                       "undo_promote", "delete_member", "set_role", "insert_member"}
        /\ Due(k) = "delete_members" => DeleteAllMembers(k.team)
    BY <1>8, <1>14
       DEF InsertOwner, DeleteMembers, Promote, Demote, UndoDemote, UndoPromote,
           DeleteTheMember, SetRole, InsertTheMember
  <2>2. \A t \in Team : t /= k.team => roles'[t] = roles[t]
    BY <1>9, <1>14
       DEF InsertOwner, DeleteMembers, Promote, Demote, UndoDemote, UndoPromote,
           DeleteTheMember, SetRole, InsertTheMember, InsertMember, SetMemberRole, DeleteMember,
           DeleteAllMembers
  <2>3. LiveTeam(k.team)
    BY <1>4, <2>1
  <2>4. Due(n) \in Cleaning => Alive(n)'
    <3>1. SUFFICES ASSUME Due(n) \in Cleaning PROVE Alive(n)'
      OBVIOUS
    <3>2. Due(k) = "delete_members" /\ Due(n) = "delete_invitations"
      BY <1>6, <2>1, <3>1
    <3>3. Members(k.team)' = {}
      BY <1>9, <1>11, <2>1, <3>2 DEF DeleteAllMembers, Members, IsMember
    <3>4. MemosGone(k.team)
      BY <1>1, <3>2 DEF Alive
    <3>5. MemosGone(k.team)' /\ LiveTeam(k.team)'
      BY <2>1, <2>3, <3>4 DEF MemosGone, LiveMemo, LiveTeam
    <3>6. QED BY <1>3, <1>7, <1>11, <3>2, <3>3, <3>5 DEF Alive
  <2>5. \A m \in Memo : LiveMemo(m)' <=> LiveMemo(m)
    BY <2>1 DEF LiveMemo
  <2>6. QED BY <1>1, <1>3, <1>5, <1>10, <2>1, <2>2, <2>3, <2>4, <2>5, TeamAlone
<1>15. CASE \/ DeleteInvitations(c) \/ InsertTheInvitation(c) \/ DeleteTheInvitation(c)
            \/ DropInvitation(c)
  <2>1. /\ UNCHANGED <<teams, roles, memos>>
        /\ Due(k) \in {"delete_invitations", "insert_invitation", "delete_invitation",
                       "drop_invitation"}
        /\ Due(k) = "delete_invitations" => DeleteAllInvitations(k.team)
        /\ Due(k) = "insert_invitation" =>
             \E i \in Invitation : InsertInvitation(i, k.team, k.address, k.role)
        /\ Due(k) \in {"delete_invitation", "drop_invitation"} => DeleteInvitation(k.invitation)
    BY <1>8, <1>15
       DEF DeleteInvitations, InsertTheInvitation, DeleteTheInvitation, DropInvitation
  <2>2. \A i \in Invitation : invitations'[i].team \in {invitations[i].team, k.team, NoTeam}
    <3>1. NotInvited.team = NoTeam
      BY DEF NotInvited
    <3>2. CASE Due(k) = "insert_invitation"
      <4>1. PICK i \in Invitation : InsertInvitation(i, k.team, k.address, k.role)
        BY <2>1, <3>2
      <4> DEFINE d == [team |-> k.team, address |-> k.address, role |-> k.role, pending |-> TRUE]
      <4>2. invitations' = [invitations EXCEPT ![i] = d] /\ d.team = k.team
        BY <4>1 DEF InsertInvitation
      <4> HIDE DEF d
      <4>3. QED BY <1>9, <4>2
    <3>3. CASE Due(k) \in {"delete_invitation", "drop_invitation"}
      BY <1>9, <2>1, <3>1, <3>3 DEF DeleteInvitation
    <3>4. CASE Due(k) = "delete_invitations"
      BY <1>9, <2>1, <3>1, <3>4 DEF DeleteAllInvitations
    <3>5. QED BY <2>1, <3>2, <3>3, <3>4
  <2>3. Due(n) \in Cleaning => Alive(n)'
    <3>1. SUFFICES ASSUME Due(n) \in Cleaning PROVE Alive(n)'
      OBVIOUS
    <3>2. Due(k) = "delete_invitations" /\ Due(n) = "delete_team"
      BY <1>6, <2>1, <3>1
    <3>3. InvitationsGone(k.team)'
      <4>1. NotInvited.team /= k.team
        BY <1>11, <3>2, CreatedTeams DEF NotInvited
      <4>2. QED BY <2>1, <3>2, <4>1 DEF DeleteAllInvitations, InvitationsGone
    <3>4. MemosGone(k.team) /\ Members(k.team) = {} /\ LiveTeam(k.team)
      BY <1>1, <1>4, <3>2 DEF Alive
    <3>5. MemosGone(k.team)' /\ Members(k.team)' = {} /\ LiveTeam(k.team)'
      BY <2>1, <3>4 DEF MemosGone, LiveMemo, LiveTeam, Members, IsMember
    <3>6. QED BY <1>3, <1>7, <1>11, <3>2, <3>3, <3>5 DEF Alive
  <2>4. LiveTeam(k.team) \/ k.team = NoTeam
    <3>1. CASE Due(k) = "delete_invitation"
      <4>1. k.op \in {"cancel", "decline"}
        BY <1>1, <3>1, SenderOf
      <4>2. "cancel" \in DOMAIN Routes /\ "decline" \notin DOMAIN Routes
        BY DEF Routes
      <4>3. k.op = "decline" => k.team = NoTeam
        BY <1>1, <4>2 DEF Sound, Knows
      <4>4. k.op = "cancel" => LiveTeam(k.team)
        BY <1>1, <3>1, <4>2 DEF Alive
      <4>5. QED BY <4>1, <4>3, <4>4
    <3>2. CASE Due(k) /= "delete_invitation"
      BY <1>4, <2>1, <3>2
    <3>3. QED BY <3>1, <3>2
  <2>5. \A m \in Memo : LiveMemo(m)' <=> LiveMemo(m)
    BY <2>1 DEF LiveMemo
  <2>6. QED BY <1>1, <1>3, <1>5, <1>10, <2>1, <2>2, <2>3, <2>4, <2>5, TeamAlone
<1>16. CASE DeleteMemos(c) \/ InsertTheMemo(c) \/ DeleteTheMemo(c)
  <2>1. /\ UNCHANGED <<teams, roles, invitations>>
        /\ Due(k) \in {"delete_memos", "insert_memo", "delete_memo"}
        /\ Due(k) = "delete_memos" => SoftDeleteMemosOfTeam(k.team)
        /\ Due(k) = "insert_memo" => \E m : InsertMemo(m, k.user, k.team)
        /\ Due(k) = "delete_memo" =>
             memos' = memos \/ (LiveMemo(k.memo) /\ SoftDeleteMemo(k.memo))
    BY <1>8, <1>16 DEF DeleteMemos, InsertTheMemo, DeleteTheMemo, Matches, MatchesOwner, MatchesTeam
  <2>2. \A m \in Memo : LiveMemo(m)' =>
          memos'[m].team = k.team \/ (LiveMemo(m) /\ memos'[m] = memos[m])
    <3>1. CASE Due(k) = "insert_memo"
      <4>1. PICK j : InsertMemo(j, k.user, k.team)
        BY <2>1, <3>1
      <4> DEFINE d == [state |-> "live", user |-> k.user, team |-> k.team]
      <4>2. memos' = [memos EXCEPT ![j] = d] /\ d.team = k.team
        BY <4>1 DEF InsertMemo
      <4> HIDE DEF d
      <4>3. QED BY <1>9, <4>2 DEF LiveMemo
    <3>2. CASE Due(k) \in {"delete_memo", "delete_memos"}
      <4> DEFINE d(m) == [memos[m] EXCEPT !.state = "deleted"]
      <4>1. ASSUME NEW m \in Memo, LiveMemo(m) PROVE d(m).state = "deleted"
        <5>1. memos[m] \in MemoDocument
          BY <1>9, <4>1 DEF LiveMemo, NotRecorded
        <5>2. QED BY <5>1 DEF MemoDocument
      <4>2. \A m \in Memo : memos'[m] = memos[m] \/ (LiveMemo(m) /\ memos'[m] = d(m))
        BY <1>9, <2>1, <3>2 DEF SoftDeleteMemo, SoftDeleteMemosOfTeam
      <4> HIDE DEF d
      <4>3. QED BY <4>1, <4>2 DEF LiveMemo
    <3>3. QED BY <2>1, <3>1, <3>2
  <2>3. Due(n) \in Cleaning => Alive(n)'
    <3>1. SUFFICES ASSUME Due(n) \in Cleaning PROVE Alive(n)'
      OBVIOUS
    <3>2. Due(k) = "delete_memos" /\ Due(n) = "delete_members"
      BY <1>6, <2>1, <3>1
    <3>3. MemosGone(k.team)'
      <4>1. SUFFICES ASSUME NEW m \in Memo, LiveMemo(m)', memos'[m].team = k.team PROVE FALSE
        BY DEF MemosGone
      <4>2. memos'[m] = IF LiveMemo(m) /\ memos[m].team = k.team
                          THEN [memos[m] EXCEPT !.state = "deleted"] ELSE memos[m]
        BY <2>1, <3>2 DEF SoftDeleteMemosOfTeam
      <4>3. CASE LiveMemo(m) /\ memos[m].team = k.team
        <5>1. memos[m] \in MemoDocument
          BY <1>9, <4>3 DEF LiveMemo, NotRecorded
        <5>2. memos'[m].state = "deleted"
          BY <4>2, <4>3, <5>1 DEF MemoDocument
        <5>3. QED BY <4>1, <5>2 DEF LiveMemo
      <4>4. CASE ~(LiveMemo(m) /\ memos[m].team = k.team)
        BY <4>1, <4>2, <4>4 DEF LiveMemo
      <4>5. QED BY <4>3, <4>4
    <3>4. LiveTeam(k.team)'
      BY <1>4, <2>1, <3>2 DEF LiveTeam
    <3>5. QED BY <1>3, <1>7, <1>11, <3>2, <3>3, <3>4 DEF Alive
  <2>4. LiveTeam(k.team) \/ k.team = NoTeam
    BY <1>4, <2>1
  <2>5. QED BY <1>1, <1>3, <1>5, <1>10, <2>1, <2>2, <2>3, <2>4, TeamAlone
<1>17. QED
  BY <1>12, <1>13, <1>14, <1>15, <1>16 DEF WriteStep

LEMMA InsertsAlive ==
    ASSUME Basics, Left, NEW c \in Call, InsertTeam(c), ~SlugIndexed(NoTeam, call[c].slug)
    PROVE  Left' /\ \E n \in InFlight : Becomes(c, n) /\ Alive(n)'
<1> PICK t : t = Cardinality(Created) + 1
  OBVIOUS
<1>1. /\ t \in Team /\ teams'[t].state = "live" /\ (\A s \in Team \ {t} : teams'[s] = teams[s])
      /\ \E n \in InFlight :
           Becomes(c, n) /\ n.op = "create_team" /\ Due(n) = "insert_owner" /\ n.team = t
  <2> DEFINE d == [state |-> "live", owner |-> call[c].user, slug |-> call[c].slug]
  <2>1. d.state = "live"
    OBVIOUS
  <2> HIDE DEF d, Due
  <2>2. /\ Cardinality(Created) + 1 \in Team /\ teams'[Cardinality(Created) + 1] = d
        /\ \A s \in Team \ {Cardinality(Created) + 1} : teams'[s] = teams[s]
        /\ \E n \in InFlight :
             /\ Becomes(c, n)
             /\ n.op = "create_team" /\ Due(n) = "insert_owner"
             /\ n.team = Cardinality(Created) + 1
    BY TeamInserted DEF d
  <2>3. QED BY <2>1, <2>2
<1>2. PICK n \in InFlight :
        Becomes(c, n) /\ n.op = "create_team" /\ Due(n) = "insert_owner" /\ n.team = t
  BY <1>1
<1>3. UNCHANGED <<roles, invitations, memos>>
  BY DEF InsertTeam
<1>4. \A s \in Team : Emptied(s) => Emptied(s)'
  BY <1>3 DEF Emptied, Members, IsMember, InvitationsGone, MemosGone, LiveMemo
<1>5. t \notin Created
  <2>1. PICK last \in 0 .. MaxTeams : Created = 1 .. last
    BY DEF Basics, Bookkeeping
  <2>2. Cardinality(Created) = last
    BY <2>1, FS_Interval
  <2>3. QED BY <2>1, <2>2, StoreAssumption
<1>6. Emptied(t)
  <2>1. Members(t) = {}
    BY <1>1, <1>5 DEF Basics, Bookkeeping
  <2>2. InvitationsGone(t)
    <3>1. \A i \in Invitation : Invited(i) => invitations[i].team \in Created
      BY DEF Basics, Bookkeeping
    <3>2. \A i \in Invitation : ~Invited(i) => invitations[i].team = NoTeam
      BY DEF Invited, NotInvited
    <3>3. QED BY <1>1, <1>5, <3>1, <3>2, CreatedTeams DEF InvitationsGone
  <2>3. MemosGone(t)
    BY <1>1, <1>5, CreatedTeams DEF MemosGone, Basics, Bookkeeping
  <2>4. QED BY <2>1, <2>2, <2>3 DEF Emptied
<1>7. Left'
  BY <1>1, <1>4 DEF Left
<1>8. Alive(n)'
  <2>1. Due(n)' = "insert_owner"
    BY <1>2 DEF Due
  <2>2. LiveTeam(n.team)' /\ Emptied(n.team)'
    BY <1>1, <1>2, <1>4, <1>6 DEF LiveTeam
  <2>3. "create_team" \notin DOMAIN Routes
    BY DEF Routes
  <2> HIDE DEF Due
  <2>4. QED BY <1>2, <2>1, <2>2, <2>3 DEF Alive
<1>9. QED BY <1>2, <1>7, <1>8

LEMMA RefusesAlive ==
    ASSUME Basics, NEW c \in Call, ~Idle(c), Alive(call[c]), Refuse(c),
           NEW n \in InFlight, Becomes(c, n)
    PROVE  Alive(n)
<1> PICK k : k = call[c]
  OBVIOUS
<1>1. TypeOK /\ Sound(k) /\ Alive(k)
  BY DEF Basics
<1>2. /\ k \in InFlight /\ k.todo /= <<>> /\ Sound(n) /\ Same(n, k)
      /\ n.todo = Unsent(k)
  <2>1. PICK m \in InFlight :
          Becomes(c, m) /\ Same(m, call[c]) /\ Sound(m) /\ m.todo = Unsent(call[c])
    BY <1>1, RefusesSoundly
  <2>2. m = n
    BY <1>1, <2>1, Stepped
  <2>3. call[c] \in InFlight /\ call[c].todo /= <<>>
    BY <1>1, RefusesSoundly
  <2>4. QED BY <2>1, <2>2, <2>3
<1>3. n.op = k.op /\ n.team = k.team
  BY <1>2 DEF Same
<1>4. CASE Due(k) \in ErrorIgnored
  <2>1. Due(k) \notin {"insert_owner", "insert_team", "delete_memos", "authorize",
                       "delete_members", "delete_invitations", "delete_team",
                       "find_user", "find_invitation"}
    BY <1>4 DEF ErrorIgnored
  <2>2. <<Due(k), Due(n)>> \in Order[k.op] /\ k.op \in Operations
    <3>1. n.todo = Tail(k.todo)
      BY <1>2, <1>4 DEF Unsent
    <3>2. QED BY <1>1, <1>2, <1>3, <3>1, NextDue
  <2>3. CASE Due(k) = "undo_team"
    BY <2>2, <2>3, Successor, AliveEnded
  <2>4. CASE Due(k) /= "undo_team"
    <3>1. Due(n) \notin {"delete_memo", "delete_memos"}
      <4> HIDE DEF Due
      <4>1. QED BY <2>1, <2>2, Successor
    <3>2. QED BY <1>1, <1>2, <1>3, <2>1, <2>2, <2>4, <3>1, AliveAdvances
  <2>5. QED BY <2>3, <2>4
<1>5. CASE Due(k) \notin ErrorIgnored \cup ErrorSkips /\ Due(k) \notin DOMAIN Undo
  <2>1. n.todo = <<>>
    BY <1>2, <1>5 DEF Unsent
  <2>0. Due(n) = "end"
    BY <2>1 DEF Due
  <2>2. QED BY <2>0, AliveEnded
<1>6. CASE Due(k) \notin ErrorIgnored \cup ErrorSkips /\ Due(k) \in DOMAIN Undo
  <2>1. /\ Due(k) \in {"insert_owner", "demote", "hand_over"}
        /\ Undo["insert_owner"] = <<"undo_team">> /\ Undo["demote"] = <<"undo_promote">>
        /\ Undo["hand_over"] = <<"undo_demote", "undo_promote">>
    BY <1>6 DEF Undo
  <2>0. n.todo = Undo[Due(k)]
    BY <1>2, <1>6 DEF Unsent
  <2>2. /\ Due(k) = "insert_owner" => Due(n) = "undo_team"
        /\ Due(k) = "demote" => Due(n) = "undo_promote"
        /\ Due(k) = "hand_over" => Due(n) = "undo_demote"
    BY <2>0, <2>1 DEF Due
  <2> HIDE DEF Due
  <2>3. QED BY <1>1, <1>3, <2>1, <2>2 DEF Alive
<1>7. CASE Due(k) \in ErrorSkips
  <2>1. Due(k) = "find_invitee" /\ n.todo = Tail(Tail(k.todo))
    BY <1>2, <1>7 DEF ErrorSkips, ErrorIgnored, Unsent
  <2>2. Due(n) = "find_pending"
    BY <1>1, <1>2, <2>1, Skipped
  <2> HIDE DEF Due
  <2>3. QED BY <1>1, <1>2, <1>3, <2>1, <2>2, AliveAdvances
<1>8. QED BY <1>4, <1>5, <1>6, <1>7

LEMMA EndsInitially == Init => Ends /\ OneAtATime
BY DEF Init, StoreInit, NotCreated, Ends, OneAtATime, Idle, NoCall

LEMMA ScenarioStays ==
    ASSUME TypeOK, [Next]_vars
    PROVE  scenario' = scenario
<1>1. ASSUME NEW c \in Call, RequestArrives(c) PROVE scenario' = scenario
  BY <1>1, Arrivals DEF Arrives
<1>2. ASSUME NEW c \in Call, ReadStep(c) PROVE scenario' = scenario
  BY <1>2
     DEF ReadStep, Authorize, CountOwned, FindSlug, FindTeam, FindTarget, FindRequester,
         FindMember, FindPending, CountMembers, CountPending, FindInvitation, FindMemo,
         FindDeletedMemo, FindUser, FindInvitee, Count, Find, Reads, Becomes
<1>3. ASSUME NEW c \in Call, WriteStep(c) PROVE scenario' = scenario
  <2>1. CASE InsertTeam(c)
    BY <2>1 DEF InsertTeam, Becomes
  <2>2. CASE ~InsertTeam(c)
    BY <1>3, <2>2, Writing DEF WriteOutcome, Becomes
  <2>3. QED BY <2>1, <2>2
<1>4. ASSUME NEW c \in Call, Refuse(c) \/ Respond(c) PROVE scenario' = scenario
  BY <1>4 DEF Refuse, Respond, Becomes
<1>5. Expire \/ EmailChanges \/ UserDeleted \/ UNCHANGED vars => scenario' = scenario
  BY DEF Expire, EmailChanges, UserDeleted, vars
<1>6. QED BY <1>1, <1>2, <1>3, <1>4, <1>5 DEF Next

LEMMA EndsStep == Basics /\ Ends /\ OneAtATime /\ [Next]_vars => Ends' /\ OneAtATime'
<1> SUFFICES ASSUME Basics, Ends, OneAtATime, [Next]_vars PROVE Ends' /\ OneAtATime'
  OBVIOUS
<1>1. TypeOK /\ Bookkeeping /\ CallsSound
  BY DEF Basics, CallsSound
<1>2. scenario' = scenario
  BY <1>1, ScenarioStays
<1>3. CASE scenario.overlap
  BY <1>2, <1>3 DEF Ends, OneAtATime
<1>4. CASE ~scenario.overlap
  <2>1. Left /\ \A c \in Call : ~Idle(c) => Alive(call[c])
    BY <1>4 DEF Ends, Left
  <2>2. ASSUME NEW c \in Call, RequestArrives(c) PROVE Ends' /\ OneAtATime'
    <3>1. Arrives(c)
      BY <1>1, <2>2, Arrivals
    <3>2. PICK k \in InFlight : call' = [call EXCEPT ![c] = k] /\ Fresh(k)
      BY <3>1 DEF Arrives
    <3>3. UNCHANGED storeVars /\ \A d \in Call : Idle(d)
      BY <1>4, <3>1 DEF Arrives
    <3>4. Alive(k)
      <4> HIDE DEF Due
      <4>1. QED BY <3>2 DEF Fresh, Alive
    <3>5. Alive(k)' /\ Left'
      BY <2>1, <3>3, <3>4, AliveLasts, LeftUntouched
    <3>6. QED BY <1>1, <1>2, <1>4, <3>2, <3>3, <3>5, EndsKept
  <2>3. ASSUME NEW c \in Call, ReadStep(c) PROVE Ends' /\ OneAtATime'
    <3>1. ~Idle(c)
      BY <2>3, ReaderBusy
    <3>2. Sound(call[c])
      BY <1>1, <3>1 DEF CallsSound
    <3>3. PICK n \in InFlight : Reads(c, n) /\ Sound(n)
      BY <1>1, <2>3, <3>2, ReadsSoundly
    <3>4. Alive(n)
      BY <2>1, <2>3, <3>1, <3>3, ReadsAlive
    <3>5. UNCHANGED storeVars /\ Becomes(c, n)
      BY <3>3 DEF Reads
    <3>6. Alive(n)' /\ Left'
      BY <2>1, <3>4, <3>5, AliveLasts, LeftUntouched
    <3>7. QED BY <1>1, <1>2, <1>4, <3>1, <3>5, <3>6, EndsKept DEF Becomes
  <2>4. ASSUME NEW c \in Call, WriteStep(c), ~InsertTeam(c) PROVE Ends' /\ OneAtATime'
    <3>1. ~Idle(c)
      BY <1>1, <2>4, Writing DEF WriteOutcome
    <3>2. PICK n \in InFlight : Becomes(c, n)
      BY <1>1, <2>4, Writing DEF WriteOutcome
    <3>3. Left' /\ Alive(n)'
      BY <2>1, <2>4, <3>1, <3>2, WritesAlive
    <3>4. QED BY <1>1, <1>2, <1>4, <3>1, <3>2, <3>3, EndsKept DEF Becomes
  <2>5. ASSUME NEW c \in Call, InsertTeam(c) PROVE Ends' /\ OneAtATime'
    <3>1. /\ call[c] \in InFlight /\ ~Idle(c) /\ call[c].todo /= <<>>
      BY <1>1, <2>5, Sending DEF InsertTeam
    <3>2. CASE SlugIndexed(NoTeam, call[c].slug)
      <4>1. PICK n : n = Fails(call[c], <<>>, "duplicate")
        OBVIOUS
      <4>2. Becomes(c, n) /\ UNCHANGED storeVars
        BY <2>5, <3>2, <4>1 DEF InsertTeam, storeVars
      <4>3. n.todo = <<>>
        <5>1. <<>> \in Seq(Commands) /\ "duplicate" \in Codes
          BY DEF Codes
        <5>2. QED BY <3>1, <4>1, <5>1, Outcomes
      <4>4. Alive(n)' /\ Left'
        BY <2>1, <4>2, <4>3, AliveEnded, LeftUntouched DEF Due
      <4>5. QED BY <1>1, <1>2, <1>4, <3>1, <4>2, <4>4, EndsKept DEF Becomes
    <3>3. CASE ~SlugIndexed(NoTeam, call[c].slug)
      <4>1. Left' /\ \E n \in InFlight : Becomes(c, n) /\ Alive(n)'
        BY <2>1, <2>5, <3>3, InsertsAlive
      <4>2. QED BY <1>1, <1>2, <1>4, <3>1, <4>1, EndsKept DEF Becomes
    <3>4. QED BY <3>2, <3>3
  <2>6. ASSUME NEW c \in Call, Refuse(c) PROVE Ends' /\ OneAtATime'
    <3>1. ~Idle(c) /\ UNCHANGED storeVars
      BY <2>6 DEF Refuse
    <3>2. PICK n \in InFlight : Becomes(c, n)
      BY <1>1, <2>6, <3>1, RefusedLeaves DEF CallsSound
    <3>3. Alive(n)
      BY <2>1, <2>6, <3>1, <3>2, RefusesAlive
    <3>4. Alive(n)' /\ Left'
      BY <2>1, <3>1, <3>3, AliveLasts, LeftUntouched
    <3>5. QED BY <1>1, <1>2, <1>4, <3>1, <3>2, <3>4, EndsKept DEF Becomes
  <2>7. ASSUME NEW c \in Call, Respond(c) PROVE Ends' /\ OneAtATime'
    <3>1. ~Idle(c) /\ UNCHANGED storeVars /\ Becomes(c, NoCall)
      BY <2>7 DEF Respond
    <3>2. Left'
      BY <2>1, <3>1, LeftUntouched
    <3>3. QED BY <1>1, <1>2, <1>4, <3>1, <3>2, EndsKept DEF Becomes
  <2>8. CASE Expire
    <3>1. PICK i \in Invitation : ExpireInvitation(i)
      BY <2>8 DEF Expire
    <3>2. UNCHANGED <<teams, roles, memos, call>>
      BY <2>8 DEF Expire
    <3>3. \A j \in Invitation : invitations'[j].team = invitations[j].team
      <4> DEFINE d == [invitations[i] EXCEPT !.pending = FALSE]
      <4>1. invitations \in [Invitation -> InvitationDocument \cup {NotInvited}]
        BY <1>1 DEF TypeOK, StoreTypeOK
      <4>2. invitations' = [invitations EXCEPT ![i] = d]
        BY <3>1, <4>1 DEF ExpireInvitation
      <4>3. d.team = invitations[i].team
        BY <4>1 DEF InvitationDocument, NotInvited
      <4> HIDE DEF d
      <4>4. QED BY <4>1, <4>2, <4>3
    <3>4. \A t \in Team : Emptied(t)' <=> Emptied(t)
      BY <3>2, <3>3 DEF Emptied, Members, IsMember, InvitationsGone, MemosGone, LiveMemo
    <3>5. ASSUME NEW c \in Call, ~Idle(c)' PROVE Alive(call[c])'
      <4>1. PICK k : k = call[c]
        OBVIOUS
      <4>2. Alive(k) /\ ~Idle(c)
        BY <2>1, <3>2, <3>5, <4>1 DEF Idle
      <4>3. Due(k)' = Due(k)
        BY DEF Due
      <4>4. Due(k) \in {"insert_owner", "undo_team"} => k.team \in Team
        <5>1. Due(k) \in {"insert_owner", "undo_team"} => k.todo /= <<>>
          BY DEF Due
        <5>2. k \in InFlight /\ Sound(k)
          BY <1>1, <4>1, <4>2, Sender DEF CallsSound
        <5> HIDE DEF Due
        <5>3. QED BY <5>1, <5>2, WriterHolds, CreatedTeams DEF WriteCommands
      <4>5. /\ \A t : LiveTeam(t)' <=> LiveTeam(t)
            /\ \A t : MemosGone(t)' <=> MemosGone(t)
            /\ \A t : Members(t)' = Members(t)
            /\ \A t : InvitationsGone(t)' <=> InvitationsGone(t)
            /\ roles' = roles
        BY <3>2, <3>3 DEF LiveTeam, MemosGone, LiveMemo, Members, IsMember, InvitationsGone
      <4> HIDE DEF Due
      <4>6. Alive(k)'
        BY <4>2, <4>3, <4>5 DEF Alive, Emptied
      <4>7. k = call'[c]
        BY <3>2, <4>1
      <4>8. QED BY <4>6, <4>7 DEF Alive, Due
    <3>6. Left' /\ OneAtATime'
      BY <1>2, <2>1, <3>2, <3>4 DEF Left, OneAtATime, Idle
    <3>7. QED BY <3>5, <3>6 DEF Ends, Left
  <2>9. CASE UNCHANGED vars
    BY <2>9 DEF vars, storeVars, Ends, OneAtATime, Idle, Emptied, Members, IsMember,
                InvitationsGone, MemosGone, LiveMemo, Alive, Due, LiveTeam
  <2>10. CASE EmailChanges \/ UserDeleted
    <3>1. UNCHANGED <<storeVars, call>>
      BY <2>10 DEF EmailChanges, UserDeleted
    <3>2. QED
      BY <1>2, <3>1 DEF storeVars, Ends, OneAtATime, Idle, Emptied, Members, IsMember,
                        InvitationsGone, MemosGone, LiveMemo, Alive, Due, LiveTeam
  <2>11. QED
    BY <2>2, <2>3, <2>4, <2>5, <2>6, <2>7, <2>8, <2>9, <2>10 DEF Next
<1>5. QED BY <1>3, <1>4

\* Nothing is left behind of a team that was deleted, whatever was refused:
\* between requests that do not overlap, a deletion that got as far as the
\* team has emptied it of members, invitations and memos before, and the
\* undoing of a creation finds nothing to empty.
THEOREM DeletedEmpty == Spec => []DeletedTeamsAreEmpty
<1>1. Init => Basics /\ Ends /\ OneAtATime
  BY BasicsInitially, EndsInitially
<1>2. Basics /\ Ends /\ OneAtATime /\ [Next]_vars => (Basics /\ Ends /\ OneAtATime)'
  BY BasicsStep, EndsStep
<1>3. Ends => DeletedTeamsAreEmpty
  <2> SUFFICES ASSUME Ends, AtRest, NEW t \in Team, teams[t].state = "deleted"
               PROVE  /\ Members(t) = {}
                      /\ \A i \in Invitation : invitations[i].team /= t
                      /\ MemosOfTeam(t) = <<>>
    BY DEF DeletedTeamsAreEmpty
  <2>1. Members(t) = {} /\ InvitationsGone(t) /\ MemosGone(t)
    BY DEF Ends, AtRest, Emptied
  <2>2. {m \in Memo : LiveMemo(m) /\ memos[m].team = t} = {}
    BY <2>1 DEF MemosGone
  <2>3. MemosOfTeam(t) = <<>>
    <3>1. NewestFirst({}) = <<>>
      <4>1. 1 .. Cardinality({}) = {}
        BY FS_EmptySet
      <4>2. QED BY <4>1, EmptySeq DEF NewestFirst
    <3>2. QED BY <2>2, <3>1 DEF MemosOfTeam
  <2>4. QED BY <2>1, <2>3 DEF InvitationsGone
<1>4. QED BY <1>1, <1>2, <1>3, PTL DEF Spec


\* A memo is deleted by who may do so, for any users, teams and memos: the
\* private route asks for its creator, those of a team for the team, and one
\* request at a time nothing comes between their authorization and the deletion.
THEOREM MemosHold == Spec => MemosDeletedByRight
<1>1. Init => Basics /\ Ends /\ OneAtATime
  BY BasicsInitially, EndsInitially
<1>2. Basics /\ Ends /\ OneAtATime /\ [Next]_vars => (Basics /\ Ends /\ OneAtATime)'
  BY BasicsStep, EndsStep
<1>3. Basics /\ Ends /\ [Next]_vars =>
        [\A m \in Memo : LiveMemo(m) /\ ~LiveMemo(m)' =>
           \E c \in Call : LET k == call[c] IN
              \/ k.op = "delete_own_memo" /\ k.memo = m /\ memos[m].user = k.user
              \/ /\ (k.op = "delete_memo" /\ k.memo = m) \/ k.op = "delete_team"
                 /\ k.team = memos[m].team /\ k.team \in Team
                 /\ scenario.overlap \/ roles[k.team][k.user] \in rolePermissions[Routes[k.op]]]_vars
  <2> SUFFICES ASSUME Basics, Ends, Next, NEW m \in Memo, LiveMemo(m), ~LiveMemo(m)'
               PROVE  \E c \in Call : LET k == call[c] IN
                        \/ k.op = "delete_own_memo" /\ k.memo = m /\ memos[m].user = k.user
                        \/ /\ (k.op = "delete_memo" /\ k.memo = m) \/ k.op = "delete_team"
                           /\ k.team = memos[m].team /\ k.team \in Team
                           /\ \/ scenario.overlap
                              \/ roles[k.team][k.user] \in rolePermissions[Routes[k.op]]
    BY DEF vars, storeVars
  <2>1. TypeOK /\ CallsSound
    BY DEF Basics, CallsSound
  <2>2. memos' /= memos
    BY DEF LiveMemo
  <2>3. PICK c \in Call : DeleteMemos(c) \/ DeleteTheMemo(c) \/ InsertTheMemo(c)
    <3>1. ASSUME NEW c \in Call PROVE ~RequestArrives(c) /\ ~ReadStep(c) /\ ~Refuse(c) /\ ~Respond(c)
      <4>1. ~RequestArrives(c)
        BY <2>1, <2>2, Arrivals DEF Arrives, storeVars
      <4>2. ~ReadStep(c)
        BY <2>2
           DEF ReadStep, Authorize, CountOwned, FindSlug, FindTeam, FindTarget, FindRequester,
               FindMember, FindPending, CountMembers, CountPending, FindInvitation, FindMemo,
               FindDeletedMemo, FindUser, FindInvitee, Count, Find, Reads, storeVars
      <4>3. ~Refuse(c) /\ ~Respond(c)
        BY <2>2 DEF Refuse, Respond, storeVars
      <4>4. QED BY <4>1, <4>2, <4>3
    <3>2. ~Expire /\ ~EmailChanges /\ ~UserDeleted
      BY <2>2 DEF Expire, EmailChanges, UserDeleted, storeVars
    <3>3. PICK c \in Call : WriteStep(c)
      BY <3>1, <3>2 DEF Next
    <3>4. DeleteMemos(c) \/ DeleteTheMemo(c) \/ InsertTheMemo(c)
      BY <2>2, <3>3
         DEF WriteStep, InsertTeam, InsertOwner, UndoTeam, WriteTeam, DeleteMembers,
             DeleteInvitations, DeleteTheTeam, Promote, Demote, HandOver, UndoDemote, UndoPromote,
             DeleteTheMember, SetRole, InsertTheInvitation, DeleteTheInvitation, InsertTheMember,
             DropInvitation
    <3>5. QED BY <3>4
  <2>4. memos \in [Memo -> MemoDocument \cup {NotRecorded}]
    BY <2>1 DEF TypeOK, StoreTypeOK
  <2>5. ~InsertTheMemo(c)
    <3>1. ASSUME InsertTheMemo(c) PROVE LiveMemo(m)'
      <4> DEFINE d == [state |-> "live", user |-> call[c].user, team |-> call[c].team]
      <4>1. memos' = [memos EXCEPT ![Cardinality(Recorded) + 1] = d] /\ d.state = "live"
        BY <3>1 DEF InsertTheMemo, InsertMemo
      <4> HIDE DEF d
      <4>2. QED BY <2>4, <4>1 DEF LiveMemo
    <3>2. QED BY <3>1
  <2> PICK k : k = call[c]
    OBVIOUS
  <2>6. /\ Due(k) \in {"delete_memos", "delete_memo"} /\ k \in InFlight /\ ~Idle(c)
        /\ k.todo /= <<>>
        /\ Due(k) = "delete_memos" => SoftDeleteMemosOfTeam(k.team)
        /\ Due(k) = "delete_memo" => memos' = memos \/ (Matches(k) /\ SoftDeleteMemo(k.memo))
    BY <2>1, <2>3, <2>5, Sending DEF DeleteMemos, DeleteTheMemo
  <2>7. /\ Due(k) = "delete_memos" => memos[m].team = k.team
        /\ Due(k) = "delete_memo" => k.memo = m /\ Matches(k)
    BY <2>2, <2>4, <2>6 DEF SoftDeleteMemo, SoftDeleteMemosOfTeam, LiveMemo
  <2>8. Sound(k)
    BY <2>1, <2>6 DEF CallsSound
  <2>9. /\ Due(k) = "delete_memos" => k.op = "delete_team"
        /\ Due(k) = "delete_memo" => k.op \in {"delete_memo", "delete_own_memo"}
    BY <2>6, <2>8, SenderOf
  <2>10. "delete_memo" \in DOMAIN Routes /\ "delete_team" \in DOMAIN Routes
    BY DEF Routes
  <2>11. k.op \in {"delete_memo", "delete_team"} => k.team \in Team
    BY <2>8, <2>10, CreatedTeams DEF Sound, Knows
  <2>12. scenario.overlap \/ Alive(k)
    BY <2>6 DEF Ends
  <2> HIDE DEF Due
  <2>13. k.op \in {"delete_memo", "delete_team"} =>
           scenario.overlap \/ roles[k.team][k.user] \in rolePermissions[Routes[k.op]]
    BY <2>6, <2>10, <2>12 DEF Alive
  <2>14. k.op \in {"delete_memo", "delete_own_memo"} /\ Matches(k) =>
           IF k.op = "delete_own_memo" THEN memos[k.memo].user = k.user
                                       ELSE memos[k.memo].team = k.team
    BY DEF Matches, MatchesOwner, MatchesTeam
  <2>15. \/ k.op = "delete_own_memo" /\ k.memo = m /\ memos[m].user = k.user
         \/ /\ (k.op = "delete_memo" /\ k.memo = m) \/ k.op = "delete_team"
            /\ k.team = memos[m].team /\ k.team \in Team
            /\ scenario.overlap \/ roles[k.team][k.user] \in rolePermissions[Routes[k.op]]
    BY <2>6, <2>7, <2>9, <2>11, <2>13, <2>14
  <2>16. QED BY <2>15
<1>4. QED BY <1>1, <1>2, <1>3, PTL DEF Spec, MemosDeletedByRight

===============================================================================
