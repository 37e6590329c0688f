------------------------------ MODULE TeamRulesProofs ------------------------------
(***************************************************************************)
(* What the team API promises about requests that are served one at a      *)
(* time: who owns a team, who fits into it, what the answers mean, and     *)
(* what a listing shows; and how far overlapping requests overfill a team. *)
(* For any users, slugs, invitations, bounds, seats and scenarios.         *)
(***************************************************************************)
EXTENDS TeamsProofs

-------------------------------------------------------------------------------
(* One request at a time, and no owner who names herself in a transfer: a  *)
(* team has the one owner its document names.                              *)

Staged ==
    {"insert_owner", "undo_team", "undo_demote", "undo_promote", "find_target", "find_team",
     "promote", "demote", "hand_over", "find_requester", "set_role", "delete_member",
     "find_slug", "update_team"}

LEMMA Unstaged ==
    ASSUME NEW n, Due(n) \notin Staged PROVE Stage(n) /\ Stage(n)'
<1>1. Due(n)' = Due(n)
  BY DEF Due
<1> HIDE DEF Due
<1>2. QED BY <1>1 DEF Stage, Staged

LEMMA AgreementKept ==
    ASSUME TypeOK, OneAtATime, ~scenario.overlap, NEW c \in Call,
           ~Idle(c) \/ \A d \in Call : Idle(d),
           NEW n \in InFlight \cup {NoCall}, call' = [call EXCEPT ![c] = n],
           n = NoCall => \A t \in Team \ half' : LiveTeam(t)' => Settled(t)',
           n /= NoCall => Names(n)' /\ Placed(n)' /\ SettledBut(n)'
    PROVE  Agreement'
<1>1. \A d \in Call : call'[d] = IF d = c THEN n ELSE call[d]
  BY DEF TypeOK
<1>2. \A d \in Call \ {c} : Idle(d)
  BY DEF OneAtATime
<1>3. \A d \in Call : ~Idle(d)' => d = c /\ n /= NoCall
  BY <1>1, <1>2 DEF Idle, NoCall
<1>4. n /= NoCall => ~Idle(c)'
  BY <1>1 DEF Idle, InFlight, Operations, Routes
<1>5. (\A d \in Call : Idle(d))' => \A t \in Team \ half' : LiveTeam(t)' => Settled(t)'
  BY <1>4
<1>6. ASSUME NEW d \in Call, ~Idle(d)'
      PROVE  (Names(call[d]) /\ Placed(call[d]) /\ SettledBut(call[d]))'
  <2>1. call'[d] = n /\ Names(n)' /\ Placed(n)' /\ SettledBut(n)'
    BY <1>1, <1>3, <1>6
  <2> HIDE DEF Names, Placed, SettledBut
  <2>2. QED BY <2>1 DEF Names, Placed, SettledBut, Stage, Due, Transferring
<1>7. QED BY <1>5, <1>6 DEF Agreement

\* The collections untouched, as by a command that reads.
LEMMA StagesLast ==
    ASSUME NEW n, Names(n), Placed(n), SettledBut(n),
           UNCHANGED <<teams, roles>>, half \subseteq half'
    PROVE  Names(n)' /\ Placed(n)' /\ SettledBut(n)'
<1>1. Due(n)' = Due(n)
  BY DEF Due
<1> HIDE DEF Due
<1>2. Names(n)'
  BY <1>1 DEF Names
<1>3. Placed(n)'
  BY <1>1 DEF Placed, Stage, Transferring, LiveTeam, Owners, IsMember
<1>4. SettledBut(n)'
  BY <1>1 DEF SettledBut, Settled, LiveTeam, Owners
<1>5. QED BY <1>2, <1>3, <1>4

LEMMA NamesKept ==
    ASSUME NEW k \in InFlight, Names(k), NEW n \in InFlight, n.op = k.op, n.user = k.user,
           n.target = k.target, Due(k) = "find_team" \/ n.slug = k.slug,
           <<Due(k), Due(n)>> \in Order[k.op] \/ Due(n) \in {"end", "undo_promote", "undo_demote"}
             \/ k.op /= "transfer"
    PROVE  Names(n)
<1>1. k.op \in Operations
  BY DEF InFlight
<1>2. CASE k.op /= "transfer"
  BY <1>2 DEF Names
<1>3. CASE Due(n) \in {"end", "undo_promote", "undo_demote"}
  <2> HIDE DEF Due
  <2>1. QED BY <1>3 DEF Names
<1>4. CASE <<Due(k), Due(n)>> \in Order[k.op] /\ k.op = "transfer"
  <2>1. /\ Due(n) /= "authorize"
        /\ Due(n) = "find_target" => Due(k) = "authorize"
        /\ Due(n) = "find_team" => Due(k) = "find_target"
    BY <1>1, <1>4, Successor
  <2> HIDE DEF Due
  <2>2. QED BY <1>4, <2>1 DEF Names
<1>5. QED BY <1>2, <1>3, <1>4

LEMMA ReadsNotUnsettled ==
    ASSUME NEW k, SettledBut(k), Due(k) \notin Unsettled
    PROVE  /\ \A t \in Team \ half : LiveTeam(t) => Settled(t)
           /\ \A n : SettledBut(n)
BY DEF SettledBut

LEMMA ReadsAgree ==
    ASSUME Basics, NEW c \in Call, ~Idle(c), ReadStep(c),
           Names(call[c]), Placed(call[c]), SettledBut(call[c]),
           NEW n \in InFlight, Reads(c, n), Sound(n)
    PROVE  Names(n) /\ Placed(n) /\ SettledBut(n)
<1> PICK k : k = call[c]
  OBVIOUS
<1>1. /\ TypeOK /\ Bookkeeping /\ Sound(k) /\ k \in InFlight /\ k.op \in Operations
      /\ Names(k) /\ Placed(k) /\ SettledBut(k)
  BY Sender DEF Basics, InFlight
<1>2. Becomes(c, n)
  BY DEF Reads
<1>3. roles \in [Team -> [User -> Role \cup {"none"}]]
  BY <1>1 DEF TypeOK, StoreTypeOK
<1>4. CASE /\ ~FindTeam(c) /\ ~FindTarget(c) /\ ~FindInvitation(c)
           /\ ~FindUser(c) /\ ~FindInvitee(c)
  <2>1. PlainOutcome(c)
    BY <1>1, <1>4, PlainReading
  <2>2. PICK m \in InFlight :
          /\ Reads(c, m)
          /\ Stops(m, k) \/ (GoesOn(m, k) /\ (Due(k) = "authorize" => MayPerform(k)))
    BY <2>1 DEF PlainOutcome
  <2>3. m = n
    BY <1>1, <1>2, <2>2, Stepped DEF Reads
  <2>4. k.todo /= <<>> /\ Due(k) \in PlainReads
    BY <2>1 DEF PlainOutcome
  <2>5. Due(k) \notin Unsettled
    BY <2>4 DEF PlainReads, Unsettled
  <2>6. \A x : SettledBut(x)
    BY <1>1, <2>5, ReadsNotUnsettled
  <2>7. CASE Stops(n, k)
    <3>1. Due(n) = "end" /\ Same(n, k)
      BY <2>7 DEF Stops, Due
    <3>2. Names(n)
      BY <1>1, <3>1, NamesKept DEF Same
    <3>3. Stage(n)
      BY <3>1, Unstaged DEF Staged
    <3>4. QED BY <2>6, <3>2, <3>3 DEF Placed
  <2>8. CASE GoesOn(n, k) /\ (Due(k) = "authorize" => MayPerform(k))
    <3>1. Same(n, k) /\ n.todo = Tail(k.todo) /\ n.op = k.op
      BY <2>8 DEF GoesOn, Same
    <3>2. <<Due(k), Due(n)>> \in Order[k.op]
      BY <1>1, <2>4, <3>1, NextDue
    <3>3. Names(n)
      BY <1>1, <3>1, <3>2, NamesKept DEF Same
    <3>4. /\ Due(n) = "find_target" => Due(k) = "authorize"
          /\ Due(n) \in {"find_requester", "set_role", "delete_member"} =>
               Due(k) = "find_requester"
          /\ k.op = "update_team" /\ Due(n) \in {"find_slug", "update_team"} =>
               Due(k) = "find_slug"
          /\ k.op = "transfer" => Due(n) /= "find_team"
          /\ Due(n) \notin {"insert_owner", "undo_team", "undo_demote", "undo_promote", "promote",
                            "demote", "hand_over"}
      <4>1. Due(k) \notin {"find_team", "find_target", "insert_team", "promote", "demote",
                           "undo_demote"}
        BY <2>4 DEF PlainReads
      <4>2. Due(k) = "count_owned" => k.op = "create_team"
        BY <1>1, <3>2, Roster
      <4>3. QED BY <1>1, <3>2, <4>1, <4>2, Successor
    <3>5. ASSUME n.team \in Team \ half, LiveTeam(n.team) PROVE Stage(n)
      <4>1. Stage(k)
        BY <1>1, <3>1, <3>5 DEF Placed, Same
      <4>2. k.op = "transfer" /\ Due(n) = "find_target" => roles[k.team][k.user] = "owner"
        <5>1. SUFFICES ASSUME k.op = "transfer", Due(n) = "find_target"
                       PROVE  roles[k.team][k.user] = "owner"
          OBVIOUS
        <5>2. MayPerform(k)
          BY <2>8, <3>4, <5>1
        <5>3. Routes["transfer"] = "team_transfer" /\ rolePermissions["team_transfer"] = {"owner"}
          BY DEF Routes, rolePermissions
        <5>4. QED BY <5>1, <5>2, <5>3 DEF MayPerform
      <4>3. /\ n.op = k.op /\ n.user = k.user /\ n.team = k.team /\ n.target = k.target
            /\ n.owner = k.owner
        BY <3>1 DEF Same
      <4> HIDE DEF Due
      <4>4. QED BY <3>4, <4>1, <4>2, <4>3 DEF Stage
    <3>6. QED BY <2>6, <3>3, <3>5 DEF Placed
  <2>9. QED BY <2>2, <2>3, <2>7, <2>8
<1>5. CASE FindTeam(c)
  <2>1. /\ k.todo /= <<>> /\ Due(k) = "find_team"
        /\ k.op \in {"get_team", "update_team", "transfer", "invite", "accept"}
    BY <1>1, <1>5, TeamFound
  <2>2. PICK m \in InFlight :
          /\ Reads(c, m)
          /\ \/ Stops(m, k)
             \/ LiveTeam(k.team) /\ NotesTeam(m, k) /\ m.todo = Tail(k.todo)
    BY <1>1, <1>5, TeamFound
  <2>3. m = n
    BY <1>1, <1>2, <2>2, Stepped DEF Reads
  <2>4. Due(k) \notin Unsettled
    BY <2>1 DEF Unsettled
  <2>5. /\ \A x : SettledBut(x)
        /\ \A t \in Team \ half : LiveTeam(t) => Settled(t)
    BY <1>1, <2>4, ReadsNotUnsettled
  <2>6. CASE Stops(n, k)
    <3>1. Due(n) = "end" /\ Same(n, k)
      BY <2>6 DEF Stops, Due
    <3>2. Names(n)
      BY <1>1, <3>1, NamesKept DEF Same
    <3>3. Stage(n)
      BY <3>1, Unstaged DEF Staged
    <3>4. QED BY <2>5, <3>2, <3>3 DEF Placed
  <2>7. CASE NotesTeam(n, k) /\ n.todo = Tail(k.todo)
    <3>1. /\ n.op = k.op /\ n.user = k.user /\ n.team = k.team /\ n.target = k.target
          /\ n.role = k.role
          /\ k.op = "update_team" => n.owner = teams[k.team].owner
          /\ k.op = "transfer" /\ k.slug = NoSlug => n.slug = teams[k.team].slug
      BY <2>7 DEF NotesTeam
    <3>2. <<Due(k), Due(n)>> \in Order[k.op]
      BY <1>1, <2>1, <2>7, <3>1, NextDue
    <3>3. Names(n)
      BY <1>1, <2>1, <3>1, <3>2, NamesKept
    <3>4. /\ k.op = "transfer" => Due(n) = "promote"
          /\ k.op = "update_team" => Due(n) \in {"find_slug", "update_team"}
          /\ k.op \in {"get_team", "invite", "accept"} => Due(n) \notin Staged
      <4>1. k.op \in {"get_team", "invite", "accept"} =>
              Due(n) \in {"end", "find_invitee", "count_members"}
        <5> HIDE DEF Due
        <5>1. QED BY <2>1, <3>2 DEF Order
      <4>2. QED BY <1>1, <2>1, <3>2, <4>1, Successor DEF Staged
    <3>5. ASSUME n.team \in Team \ half, LiveTeam(n.team) PROVE Stage(n)
      <4>1. Stage(k) /\ Settled(k.team)
        BY <1>1, <2>5, <3>1, <3>5 DEF Placed
      <4>2. CASE k.op = "transfer"
        <5>1. /\ k.user /= k.target /\ k.slug = NoSlug /\ k.user \in User
              /\ roles[k.team][k.user] = "owner" /\ k.role \in Given /\ IsMember(k.team, k.target)
          <6> HIDE DEF Due
          <6>1. QED BY <1>1, <2>1, <4>1, <4>2 DEF Names, Stage, InFlight
        <5>2. teams[k.team].owner = k.user
          BY <4>1, <5>1 DEF Settled, Owners
        <5>3. Transferring(n)
          BY <3>1, <4>2, <5>1, <5>2 DEF Transferring
        <5>4. Due(n) = "promote"
          BY <3>4, <4>2
        <5> HIDE DEF Due
        <5>5. QED BY <3>1, <4>2, <5>1, <5>3, <5>4 DEF Stage
      <4>3. CASE k.op = "update_team"
        <5>1. Due(n) \in {"find_slug", "update_team"}
          BY <3>4, <4>3
        <5> HIDE DEF Due
        <5>2. QED BY <3>1, <4>3, <5>1 DEF Stage
      <4>4. CASE k.op \in {"get_team", "invite", "accept"}
        BY <3>4, <4>4, Unstaged
      <4>5. QED BY <2>1, <4>2, <4>3, <4>4
    <3>6. QED BY <2>5, <3>3, <3>5 DEF Placed
  <2>8. QED BY <2>2, <2>3, <2>6, <2>7
<1>6. CASE FindTarget(c)
  <2>1. /\ k.todo /= <<>> /\ Due(k) = "find_target" /\ k.target \in User
        /\ k.op \in {"transfer", "remove_member", "update_role", "leave"}
    BY <1>1, <1>6, TargetFound
  <2>2. PICK m \in InFlight :
          /\ Reads(c, m) /\ Reread(m, k)
          /\ \/ m.todo = <<>>
             \/ /\ m.todo = Tail(k.todo) \/ k.op \in {"remove_member", "update_role"}
                /\ IsMember(k.team, k.target)
                /\ k.op /= "transfer" => roles[k.team][k.target] /= "owner"
    BY <1>1, <1>6, TargetFound
  <2>3. m = n
    BY <1>1, <1>2, <2>2, Stepped DEF Reads
  <2>4. Due(k) \notin Unsettled
    BY <2>1 DEF Unsettled
  <2>5. /\ \A x : SettledBut(x)
        /\ \A t \in Team \ half : LiveTeam(t) => Settled(t)
    BY <1>1, <2>4, ReadsNotUnsettled
  <2>6. /\ n.op = k.op /\ n.user = k.user /\ n.team = k.team /\ n.target = k.target
        /\ n.slug = k.slug /\ (k.op = "transfer" => n.role = roles[k.team][k.target])
    BY <2>2, <2>3 DEF Reread
  <2>7. CASE n.todo = <<>>
    <3>1. Due(n) = "end"
      BY <2>7 DEF Due
    <3>2. Names(n)
      BY <1>1, <2>6, <3>1, NamesKept
    <3>3. Stage(n)
      BY <3>1, Unstaged DEF Staged
    <3>4. QED BY <2>5, <3>2, <3>3 DEF Placed
  <2>8. CASE /\ n.todo /= <<>>
             /\ n.todo = Tail(k.todo) \/ k.op \in {"remove_member", "update_role"}
             /\ IsMember(k.team, k.target)
             /\ k.op /= "transfer" => roles[k.team][k.target] /= "owner"
    <3>1. k.op = "transfer" => <<Due(k), Due(n)>> \in Order[k.op] /\ Due(n) = "find_team"
      <4>1. SUFFICES ASSUME k.op = "transfer"
                     PROVE  <<Due(k), Due(n)>> \in Order[k.op] /\ Due(n) = "find_team"
        OBVIOUS
      <4>2. n.todo = Tail(k.todo)
        BY <2>8, <4>1
      <4>3. <<Due(k), Due(n)>> \in Order[k.op]
        BY <1>1, <2>1, <2>6, <4>2, NextDue
      <4>4. QED BY <1>1, <2>1, <4>1, <4>3, Successor
    <3>2. Names(n)
      BY <1>1, <2>6, <3>1, NamesKept
    <3>3. k.op /= "transfer" =>
            Due(n) \notin {"insert_owner", "undo_team", "update_team", "promote", "demote",
                           "hand_over", "undo_demote", "undo_promote"}
      <4>1. /\ Due(n) \in {"insert_owner", "undo_team"} => n.op = "create_team"
            /\ Due(n) = "update_team" => n.op = "update_team"
            /\ Due(n) \in {"promote", "demote", "hand_over", "undo_demote", "undo_promote"} =>
                 n.op = "transfer"
        BY <2>8, SenderOf
      <4>2. QED BY <2>1, <2>6, <4>1
    <3>4. ASSUME n.team \in Team \ half, LiveTeam(n.team) PROVE Stage(n)
      <4>1. Stage(k) /\ Settled(k.team) /\ k.team \in Team
        BY <1>1, <2>5, <2>6, <3>4 DEF Placed
      <4>2. CASE k.op = "transfer"
        <5>1. /\ k.user /= k.target /\ roles[k.team][k.user] = "owner" /\ k.user \in User
          <6> HIDE DEF Due
          <6>1. QED BY <1>1, <2>1, <4>1, <4>2 DEF Names, Stage, InFlight
        <5>2. roles[k.team][k.target] /= "owner"
          BY <2>1, <4>1, <5>1 DEF Settled, Owners
        <5>3. roles[k.team][k.target] \in Given
          BY <1>3, <2>1, <2>8, <4>1, <5>2 DEF IsMember, Given, Role
        <5> HIDE DEF Due
        <5>4. QED BY <2>6, <2>8, <3>1, <4>2, <5>1, <5>3 DEF Stage
      <4>3. CASE k.op /= "transfer"
        <5> HIDE DEF Due
        <5>1. QED BY <2>1, <2>6, <2>8, <3>3, <4>3 DEF Stage
      <4>4. QED BY <4>2, <4>3
    <3>5. QED BY <2>5, <3>2, <3>4 DEF Placed
  <2>9. QED BY <2>2, <2>3, <2>7, <2>8
<1>7. CASE FindInvitation(c)
  <2>1. /\ k.todo /= <<>> /\ Due(k) = "find_invitation" /\ k.op \in {"cancel", "accept", "decline"}
    BY <1>1, <1>7, InvitationFound
  <2>2. PICK m \in InFlight : Reads(c, m) /\ Accepts(m, k) /\ m.todo \in {<<>>, Tail(k.todo)}
    BY <1>1, <1>7, InvitationFound
  <2>3. m = n
    BY <1>1, <1>2, <2>2, Stepped DEF Reads
  <2>4. Due(k) \notin Unsettled
    BY <2>1 DEF Unsettled
  <2>5. \A x : SettledBut(x)
    BY <1>1, <2>4, ReadsNotUnsettled
  <2>6. n.op = k.op /\ n.op /= "transfer"
    BY <2>1, <2>2, <2>3 DEF Accepts
  <2>7. Names(n)
    BY <2>6 DEF Names
  <2>8. Due(n) \in {"end", "find_team", "delete_invitation"}
    <3>1. CASE n.todo = <<>>
      BY <3>1 DEF Due
    <3>2. CASE n.todo = Tail(k.todo)
      <4>1. <<Due(k), Due(n)>> \in Order[k.op]
        BY <1>1, <2>1, <2>6, <3>2, NextDue
      <4>2. QED BY <1>1, <2>1, <4>1, Successor
    <3>3. QED BY <2>2, <2>3, <3>1, <3>2
  <2>9. Stage(n)
    <3> HIDE DEF Due
    <3>1. QED BY <2>6, <2>8 DEF Stage
  <2>10. QED BY <2>5, <2>7, <2>9 DEF Placed
<1>8. CASE FindUser(c) \/ FindInvitee(c)
  <2>1. /\ Due(k) \in {"find_user", "find_invitee"}
        /\ k.op \in {"my_invitations", "accept", "decline", "invite"}
    BY <1>1, <1>8, LookedUp
  <2>2. PICK m \in InFlight :
          /\ Reads(c, m) /\ Finds(m, k)
          /\ Due(m) \in {"end", "find", "find_invitation", "find_member", "find_pending"}
    BY <1>1, <1>8, LookedUp
  <2>3. m = n
    BY <1>1, <1>2, <2>2, Stepped DEF Reads
  <2> HIDE DEF Due
  <2>4. \A x : SettledBut(x)
    BY <1>1, <2>1, ReadsNotUnsettled DEF Unsettled
  <2>5. Names(n)
    BY <2>1, <2>2, <2>3 DEF Names, Finds
  <2>6. Stage(n)
    BY <2>2, <2>3, Unstaged DEF Staged
  <2>7. QED BY <2>4, <2>5, <2>6 DEF Placed
<1>9. QED BY <1>4, <1>5, <1>6, <1>7, <1>8


\* What a command that writes may be followed by, of the commands that tell
\* how far a request has come.
LEMMA StagedAfter ==
    ASSUME NEW op \in Operations, NEW a \in WriteCommands, NEW b, <<a, b>> \in Order[op]
    PROVE  b \in Staged => a \in {"promote", "demote", "undo_demote"}
BY DEF Order, Operations, Routes, WriteCommands, Staged

LEMMA Followed ==
    ASSUME NEW k \in InFlight, Sound(k), k.todo /= <<>>, Due(k) \in WriteCommands,
           NEW n \in InFlight, n.op = k.op, n.todo = Remaining(k)
    PROVE  /\ Due(n) \in Staged => Due(k) \in {"promote", "demote", "hand_over", "undo_demote"}
           /\ Due(k) = "promote" /\ IsMember(k.team, k.target) => Due(n) = "demote"
           /\ Due(k) = "demote" /\ IsMember(k.team, k.user) => Due(n) = "hand_over"
           /\ Due(k) = "hand_over" /\ WriteVerdict(k) = "ok" => Due(n) = "end"
           /\ Due(k) = "undo_demote" => Due(n) = "undo_promote"
           /\ Due(k) = "undo_promote" => Due(n) = "end"
           /\ \/ <<Due(k), Due(n)>> \in Order[k.op]
              \/ Due(n) \in {"end", "undo_promote", "undo_demote"} \/ k.op /= "transfer"
<1>1. CASE n.todo = Tail(k.todo)
  <2>1. <<Due(k), Due(n)>> \in Order[k.op] /\ k.op \in Operations
    BY <1>1, NextDue
  <2>2. /\ Due(k) = "promote" => Due(n) = "demote"
        /\ Due(k) = "demote" => Due(n) = "hand_over"
        /\ Due(k) \in {"hand_over", "undo_promote"} => Due(n) = "end"
        /\ Due(k) = "undo_demote" => Due(n) = "undo_promote"
    BY <2>1, Successor
  <2>3. Due(n) \in Staged => Due(k) \in {"promote", "demote", "undo_demote"}
    BY <2>1, StagedAfter
  <2> HIDE DEF Due
  <2>4. QED BY <2>1, <2>2, <2>3
<1>2. CASE n.todo /= Tail(k.todo)
  <2>1. \/ /\ n.todo = <<>>
           /\ Due(k) \notin {"demote", "hand_over", "undo_demote", "undo_promote"}
           /\ Due(k) = "promote" => ~IsMember(k.team, k.target)
        \/ n.todo = <<"undo_promote">> /\ Due(k) = "demote" /\ ~IsMember(k.team, k.user)
        \/ /\ n.todo = <<"undo_demote", "undo_promote">>
           /\ Due(k) = "hand_over" /\ WriteVerdict(k) /= "ok"
        \/ n.todo = <<"find_deleted_memo">> /\ Due(k) = "delete_memo"
    <3> HIDE DEF Due
    <3>1. QED BY <1>2 DEF Remaining
  <2>2. Due(k) = "delete_memo" => k.op \in {"delete_memo", "delete_own_memo"}
    BY SenderOf
  <2>3. /\ n.todo = <<>> => Due(n) = "end"
        /\ n.todo = <<"undo_promote">> => Due(n) = "undo_promote"
        /\ n.todo = <<"undo_demote", "undo_promote">> => Due(n) = "undo_demote"
        /\ n.todo = <<"find_deleted_memo">> => Due(n) = "find_deleted_memo"
    BY DEF Due
  <2> HIDE DEF Due
  <2>4. QED BY <2>1, <2>2, <2>3 DEF Staged
<1>3. QED BY <1>1, <1>2

\* A request changes its own team only.
LEMMA OwnTeamAgrees ==
    ASSUME NEW k, NEW n, SettledBut(k), n.team = k.team, half' = half, Names(n),
           \A t \in Team \ {k.team} : roles'[t] = roles[t] /\ teams'[t] = teams[t],
           k.team \in Team \ half /\ LiveTeam(k.team)' =>
             Stage(n)' /\ (Due(n) \in Unsettled \/ Settled(k.team)')
    PROVE  Names(n)' /\ Placed(n)' /\ SettledBut(n)'
<1>1. Due(n)' = Due(n)
  BY DEF Due
<1> HIDE DEF Due
<1>2. Names(n)'
  BY <1>1 DEF Names
<1>3. Placed(n)'
  BY DEF Placed
<1>4. SettledBut(n)'
  <2>1. ASSUME NEW t \in Team \ half, LiveTeam(t)'
        PROVE  Settled(t)' \/ (n.team = t /\ Due(n) \in Unsettled)
    <3>1. CASE t = k.team
      BY <2>1, <3>1
    <3>2. CASE t /= k.team
      <4>1. LiveTeam(t) /\ (Settled(t) => Settled(t)')
        BY <2>1, <3>2 DEF LiveTeam, Settled, Owners
      <4>2. Settled(t)
        BY <3>2, <4>1 DEF SettledBut
      <4>3. QED BY <4>1, <4>2
    <3>3. QED BY <3>1, <3>2
  <2>2. QED BY <1>1, <2>1 DEF SettledBut
<1>5. QED BY <1>2, <1>3, <1>4

RoleWritten(t, u, role) == roles' = [roles EXCEPT ![t][u] = role]

\* The owners of a team once one role in it is written.
LEMMA OwnersAfter ==
    ASSUME TypeOK, NEW t \in Team, NEW u \in User, NEW r, RoleWritten(t, u, r)
    PROVE  /\ r = "owner" => Owners(t)' = Owners(t) \cup {u}
           /\ r /= "owner" => Owners(t)' = Owners(t) \ {u}
           /\ roles'[t][u] = r
           /\ \A s \in Team \ {t} : roles'[s] = roles[s]
<1>1. roles \in [Team -> [User -> Role \cup {"none"}]]
  BY DEF TypeOK, StoreTypeOK
<1>2. /\ roles'[t][u] = r /\ \A v \in User \ {u} : roles'[t][v] = roles[t][v]
      /\ \A s \in Team \ {t} : roles'[s] = roles[s]
  BY <1>1 DEF RoleWritten
<1>3. r = "owner" => Owners(t)' = Owners(t) \cup {u}
  BY <1>2 DEF Owners
<1>4. r /= "owner" => Owners(t)' = Owners(t) \ {u}
  BY <1>2 DEF Owners
<1>5. QED BY <1>2, <1>3, <1>4

LEMMA StageTold ==
    ASSUME NEW n, Due(n) \in {"demote", "hand_over", "undo_demote", "undo_promote"},
           n.op = "transfer", Transferring(n)',
           Due(n) \in {"undo_demote", "undo_promote"} => n.refused,
           Due(n) \in {"demote", "undo_promote"} => Owners(n.team)' = {n.user, n.target},
           Due(n) \in {"hand_over", "undo_demote"} =>
             Owners(n.team)' = {n.target} /\ IsMember(n.team, n.user)'
    PROVE  Stage(n)'
<1>1. Due(n)' = Due(n)
  BY DEF Due
<1> HIDE DEF Due
<1>2. QED BY <1>1 DEF Stage

\* The four commands of a transfer, and of its rollback, that write a role.
LEMMA TransferAgrees ==
    ASSUME TypeOK, NEW k \in InFlight, k.op = "transfer", k.target \in User,
           k.team \in Team, Stage(k), Settled(k.team) \/ Due(k) \in Unsettled,
           NEW n \in InFlight, Same(n, k), n.refused = k.refused, UNCHANGED teams,
           \/ /\ Due(k) = "promote" /\ SetMemberRole(k.team, k.target, "owner")
              /\ IsMember(k.team, k.target) => Due(n) = "demote"
           \/ /\ Due(k) = "demote" /\ SetMemberRole(k.team, k.user, "admin")
              /\ IsMember(k.team, k.user) => Due(n) = "hand_over"
           \/ /\ Due(k) = "undo_demote" /\ SetMemberRole(k.team, k.user, "owner")
              /\ Due(n) = "undo_promote"
           \/ /\ Due(k) = "undo_promote" /\ SetMemberRole(k.team, k.target, k.role)
              /\ Due(n) = "end"
    PROVE  /\ \A t \in Team \ {k.team} : roles'[t] = roles[t]
           /\ Stage(n)' /\ (Due(n) \in Unsettled \/ Settled(k.team)')
<1>1. /\ n.op = k.op /\ n.user = k.user /\ n.team = k.team /\ n.target = k.target
      /\ n.slug = k.slug /\ n.role = k.role /\ k.user \in User
  BY DEF Same, InFlight
<1>2. Due(n)' = Due(n)
  BY DEF Due
<1> HIDE DEF Due
<1>3. /\ Transferring(k) /\ k.user /= k.target /\ k.role \in Given
      /\ teams[k.team].owner = k.user
  BY DEF Stage, Transferring
<1>4. ASSUME Due(n) \in {"demote", "hand_over"} => Due(k) \in {"promote", "demote", "hand_over"}
      PROVE  Transferring(n)'
  BY <1>1, <1>2, <1>3, <1>4 DEF Transferring
<1>5. CASE Due(k) = "promote" /\ SetMemberRole(k.team, k.target, "owner")
  <2>1. IsMember(k.team, k.target) /\ Settled(k.team)
    BY <1>5 DEF Stage, Unsettled
  <2>2. Due(n) = "demote"
    BY <1>5, <2>1
  <2>3. PICK r : r = "owner" /\ RoleWritten(k.team, k.target, r)
    BY <1>5, <2>1 DEF SetMemberRole, RoleWritten
  <2>4. Owners(k.team) = {k.user}
    BY <1>3, <2>1 DEF Settled
  <2>5. /\ Owners(k.team)' = {k.user, k.target}
        /\ \A t \in Team \ {k.team} : roles'[t] = roles[t]
    <3>1. /\ Owners(k.team)' = Owners(k.team) \cup {k.target}
          /\ \A t \in Team \ {k.team} : roles'[t] = roles[t]
      BY <2>3, OwnersAfter
    <3>2. QED BY <2>4, <3>1
  <2>6. Transferring(n)'
    BY <1>4, <1>5
  <2>7. Stage(n)'
    BY <1>1, <2>2, <2>5, <2>6, StageTold
  <2>8. QED BY <2>2, <2>5, <2>7 DEF Unsettled
<1>6. CASE Due(k) = "demote" /\ SetMemberRole(k.team, k.user, "admin")
  <2>1. Owners(k.team) = {k.user, k.target}
    BY <1>6 DEF Stage
  <2>2. IsMember(k.team, k.user)
    BY <2>1 DEF Owners, IsMember
  <2>3. Due(n) = "hand_over"
    BY <1>6, <2>2
  <2>4. PICK r : r = "admin" /\ RoleWritten(k.team, k.user, r)
    BY <1>6, <2>2 DEF SetMemberRole, RoleWritten
  <2>5. /\ Owners(k.team)' = Owners(k.team) \ {k.user} /\ roles'[k.team][k.user] = "admin"
        /\ \A t \in Team \ {k.team} : roles'[t] = roles[t]
    <3>1. r /= "owner"
      BY <2>4
    <3>2. /\ Owners(k.team)' = Owners(k.team) \ {k.user} /\ roles'[k.team][k.user] = r
          /\ \A t \in Team \ {k.team} : roles'[t] = roles[t]
      BY <1>1, <2>4, <3>1, OwnersAfter
    <3>3. QED BY <2>4, <3>2
  <2>6. Owners(k.team)' = {k.target} /\ IsMember(k.team, k.user)'
    BY <1>3, <2>1, <2>5 DEF IsMember
  <2>7. Transferring(n)'
    BY <1>4, <1>6
  <2>8. Stage(n)'
    BY <1>1, <2>3, <2>6, <2>7, StageTold
  <2>9. QED BY <2>3, <2>5, <2>8 DEF Unsettled
<1>7. CASE Due(k) = "undo_demote" /\ SetMemberRole(k.team, k.user, "owner")
  <2>1. Owners(k.team) = {k.target} /\ IsMember(k.team, k.user) /\ k.refused
    BY <1>7 DEF Stage
  <2>2. Due(n) = "undo_promote"
    BY <1>7
  <2>3. PICK r : r = "owner" /\ RoleWritten(k.team, k.user, r)
    BY <1>7, <2>1 DEF SetMemberRole, RoleWritten
  <2>4. /\ Owners(k.team)' = {k.user, k.target}
        /\ \A t \in Team \ {k.team} : roles'[t] = roles[t]
    <3>1. /\ Owners(k.team)' = Owners(k.team) \cup {k.user}
          /\ \A t \in Team \ {k.team} : roles'[t] = roles[t]
      BY <1>1, <2>3, OwnersAfter
    <3>2. QED BY <2>1, <3>1
  <2>5. Transferring(n)'
    BY <1>4, <2>2
  <2>6. Stage(n)'
    <3>1. n.refused
      BY <2>1
    <3>2. QED BY <1>1, <2>2, <2>4, <2>5, <3>1, StageTold
  <2>7. QED BY <2>2, <2>4, <2>6 DEF Unsettled
<1>8. CASE Due(k) = "undo_promote" /\ SetMemberRole(k.team, k.target, k.role)
  <2>1. Owners(k.team) = {k.user, k.target}
    BY <1>8 DEF Stage
  <2>2. Due(n) = "end"
    BY <1>8
  <2>3. IsMember(k.team, k.target)
    BY <2>1 DEF Owners, IsMember
  <2>4. RoleWritten(k.team, k.target, k.role) /\ k.role /= "owner"
    BY <1>3, <1>8, <2>3 DEF SetMemberRole, RoleWritten, Given
  <2>5. /\ Owners(k.team)' = Owners(k.team) \ {k.target}
        /\ \A t \in Team \ {k.team} : roles'[t] = roles[t]
    BY <2>4, OwnersAfter
  <2>6. Owners(k.team)' = {k.user}
    BY <1>3, <2>1, <2>5
  <2>7. Settled(k.team)'
    BY <1>3, <2>6 DEF Settled
  <2>8. Stage(n)'
    BY <2>2, Unstaged DEF Staged
  <2>9. QED BY <2>5, <2>7, <2>8
<1>9. QED BY <1>5, <1>6, <1>7, <1>8

\* Whoever joins, leaves, is removed or gets another role is not the owner.
LEMMA OthersAgree ==
    ASSUME TypeOK, NEW k \in InFlight, k.team \in Team, NEW u \in User, NEW r, r /= "owner",
           roles[k.team][u] /= "owner", Settled(k.team), UNCHANGED teams,
           UNCHANGED roles \/ RoleWritten(k.team, u, r)
    PROVE  /\ \A t \in Team \ {k.team} : roles'[t] = roles[t]
           /\ Settled(k.team)'
<1>1. CASE UNCHANGED roles
  BY <1>1 DEF Settled, Owners
<1>2. CASE RoleWritten(k.team, u, r)
  <2>1. /\ Owners(k.team)' = Owners(k.team) \ {u}
        /\ \A t \in Team \ {k.team} : roles'[t] = roles[t]
    BY <1>2, OwnersAfter
  <2>2. u \notin Owners(k.team)
    BY DEF Owners
  <2>3. QED BY <2>1, <2>2 DEF Settled
<1>3. QED BY <1>1, <1>2

\* The founder of a team joins it.
LEMMA FounderAgrees ==
    ASSUME TypeOK, NEW k \in InFlight, k.team \in Team, Emptied(k.team),
           teams[k.team].owner = k.user, UNCHANGED teams,
           InsertMember(k.team, k.user, "owner")
    PROVE  /\ \A t \in Team \ {k.team} : roles'[t] = roles[t]
           /\ Settled(k.team)'
<1>1. PICK r : r = "owner" /\ RoleWritten(k.team, k.user, r)
  BY DEF InsertMember, RoleWritten
<1>2. k.user \in User
  BY DEF InFlight
<1>3. /\ Owners(k.team)' = Owners(k.team) \cup {k.user}
      /\ \A t \in Team \ {k.team} : roles'[t] = roles[t]
  BY <1>1, <1>2, OwnersAfter
<1>4. Owners(k.team) = {}
  BY DEF Emptied, Members, IsMember, Owners
<1>5. QED BY <1>3, <1>4 DEF Settled

\* A team document is written.
LEMMA DocumentWritten ==
    ASSUME TypeOK, NEW t \in Team, LiveTeam(t), NEW owner, NEW slug,
           UpdateTeamDocument(t, owner, slug)
    PROVE  /\ teams'[t].owner = owner
           /\ \A s \in Team \ {t} : teams'[s] = teams[s]
<1> DEFINE d == [teams[t] EXCEPT !.owner = owner, !.slug = slug]
<1>1. teams \in [Team -> TeamDocument \cup {NotCreated}]
  BY DEF TypeOK, StoreTypeOK
<1>2. teams' = [teams EXCEPT ![t] = d]
  BY <1>1 DEF UpdateTeamDocument
<1>3. d.owner = owner
  <2>1. teams[t] \in TeamDocument \cup {NotCreated}
    BY <1>1
  <2>2. QED BY <2>1 DEF TeamDocument, NotCreated
<1> HIDE DEF d
<1>4. QED BY <1>1, <1>2, <1>3

\* A team's slug is its own.
LEMMA SlugIsOwn ==
    ASSUME TypeOK, Bookkeeping, NEW t \in Team, LiveTeam(t)
    PROVE  ~SlugIndexed(t, teams[t].slug)
<1>1. t \in Created /\ teams[t].slug \in Slug
  BY DocumentsTyped
<1>2. ASSUME NEW s \in Team \ {t} PROVE teams[s].slug /= teams[t].slug
  <2>1. CASE s \in Created
    BY <1>1, <2>1 DEF Bookkeeping
  <2>2. CASE s \notin Created
    BY <1>1, <2>2, DocumentsTyped, StoreAssumption
  <2>3. QED BY <2>1, <2>2
<1>3. QED BY <1>2 DEF SlugIndexed

LEMMA WritesAgree ==
    ASSUME Basics, NEW c \in Call, ~Idle(c), Alive(call[c]), WriteStep(c), ~InsertTeam(c),
           Names(call[c]), Placed(call[c]), SettledBut(call[c]),
           NEW n \in InFlight, Becomes(c, n)
    PROVE  Names(n)' /\ Placed(n)' /\ SettledBut(n)'
<1> PICK k : k = call[c]
  OBVIOUS
<1>1. /\ TypeOK /\ Bookkeeping /\ Sound(k) /\ Alive(k) /\ k \in InFlight /\ k.todo /= <<>>
      /\ Due(k) \in WriteCommands /\ Names(k) /\ Placed(k) /\ SettledBut(k)
      /\ k.op \in Operations
  <2>1. TypeOK /\ Bookkeeping /\ Sound(call[c])
    BY DEF Basics
  <2>2. call[c] \in InFlight /\ call[c].todo /= <<>> /\ Due(call[c]) \in WriteCommands
    BY <2>1, Writing, WriterDue DEF WriteOutcome
  <2>3. QED BY <2>1, <2>2 DEF InFlight
<1>2. Same(n, k) /\ n.todo = Remaining(k) /\ n.refused = k.refused
  <2>1. PICK m \in InFlight :
          /\ Becomes(c, m) /\ Same(m, call[c])
          /\ m.refused = call[c].refused /\ m.todo = Remaining(call[c])
    BY <1>1, Writing DEF WriteOutcome
  <2>2. m = n
    BY <1>1, <2>1, Stepped
  <2>3. QED BY <2>1, <2>2
<1>3. /\ n.op = k.op /\ n.user = k.user /\ n.team = k.team /\ n.target = k.target
      /\ n.slug = k.slug
  BY <1>2 DEF Same
<1>4. /\ Due(n) \in Staged => Due(k) \in {"promote", "demote", "hand_over", "undo_demote"}
      /\ Due(k) = "promote" /\ IsMember(k.team, k.target) => Due(n) = "demote"
      /\ Due(k) = "demote" /\ IsMember(k.team, k.user) => Due(n) = "hand_over"
      /\ Due(k) = "hand_over" /\ WriteVerdict(k) = "ok" => Due(n) = "end"
      /\ Due(k) = "undo_demote" => Due(n) = "undo_promote"
      /\ Due(k) = "undo_promote" => Due(n) = "end"
      /\ \/ <<Due(k), Due(n)>> \in Order[k.op]
         \/ Due(n) \in {"end", "undo_promote", "undo_demote"} \/ k.op /= "transfer"
  BY <1>1, <1>2, <1>3, Followed
<1>5. /\ Due(k) = "delete_members" => Due(n) = "delete_invitations"
      /\ Due(k) = "delete_invitations" => Due(n) = "delete_team"
  BY <1>1, <1>2, <1>3, AfterWrite
<1>6. Names(n)
  BY <1>1, <1>3, <1>4, NamesKept
<1>7. \A command : Sends(c, command) => Due(k) = command
  BY <1>1, Sending
<1>8. /\ teams \in [Team -> TeamDocument \cup {NotCreated}]
      /\ roles \in [Team -> [User -> Role \cup {"none"}]]
  BY <1>1 DEF TypeOK, StoreTypeOK
<1>9. Due(n) \notin Staged => Stage(n)'
  BY Unstaged
<1>10. ASSUME k.team \in Team \ half, LiveTeam(k.team)
       PROVE  Stage(k) /\ (Settled(k.team) \/ Due(k) \in Unsettled)
  BY <1>1, <1>10 DEF Placed, SettledBut
<1>11. k.op = "transfer" => k.target \in User /\ k.owner = k.target
  BY <1>1 DEF Sound, Knows
<1> HIDE DEF Due
\* Neither teams nor memberships.
<1>12. CASE \/ DeleteMemos(c) \/ DeleteInvitations(c) \/ InsertTheInvitation(c)
            \/ DeleteTheInvitation(c) \/ DropInvitation(c) \/ InsertTheMemo(c)
            \/ DeleteTheMemo(c)
  <2>1. /\ UNCHANGED <<teams, roles, half>>
        /\ Due(k) \in {"delete_memos", "delete_invitations", "insert_invitation",
                       "delete_invitation", "drop_invitation", "insert_memo", "delete_memo"}
    BY <1>7, <1>12
       DEF DeleteMemos, DeleteInvitations, InsertTheInvitation, DeleteTheInvitation,
           DropInvitation, InsertTheMemo, DeleteTheMemo
  <2>2. Due(k) \in Unsettled => Due(n) \in Unsettled
    BY <1>5, <2>1 DEF Unsettled
  <2>3. Due(n) \notin Staged
    BY <1>4, <2>1
  <2>4. ASSUME k.team \in Team \ half, LiveTeam(k.team)'
        PROVE  Stage(n)' /\ (Due(n) \in Unsettled \/ Settled(k.team)')
    <3>1. LiveTeam(k.team)
      BY <2>1, <2>4 DEF LiveTeam
    <3>2. Settled(k.team) => Settled(k.team)'
      BY <2>1 DEF Settled, Owners
    <3>3. QED BY <1>9, <1>10, <2>2, <2>3, <2>4, <3>1, <3>2
  <2>5. QED BY <1>1, <1>3, <1>6, <2>1, <2>4, OwnTeamAgrees
\* The team goes.
<1>13. CASE UndoTeam(c) \/ DeleteTheTeam(c)
  <2>1. /\ SoftDeleteTeamDocument(k.team) /\ UNCHANGED <<roles, half>>
    BY <1>13 DEF UndoTeam, DeleteTheTeam
  <2>2. \A t \in Team \ {k.team} : teams'[t] = teams[t]
    BY <1>8, <2>1 DEF SoftDeleteTeamDocument
  <2>3. k.team \in Team => ~LiveTeam(k.team)'
    <3> DEFINE d == [teams[k.team] EXCEPT !.state = "deleted"]
    <3>1. CASE ~LiveTeam(k.team)
      BY <2>1, <3>1 DEF SoftDeleteTeamDocument, LiveTeam
    <3>2. CASE LiveTeam(k.team)
      <4>1. teams' = [teams EXCEPT ![k.team] = d]
        BY <1>8, <2>1, <3>2 DEF SoftDeleteTeamDocument
      <4>2. k.team \in Team => d.state = "deleted"
        BY <1>8 DEF TeamDocument, NotCreated
      <4> HIDE DEF d
      <4>3. QED BY <1>8, <4>1, <4>2 DEF LiveTeam
    <3>3. QED BY <3>1, <3>2
  <2>4. QED BY <1>1, <1>3, <1>6, <2>1, <2>2, <2>3, OwnTeamAgrees
\* The team's document is written.
<1>14. CASE WriteTeam(c) \/ HandOver(c)
  <2>1. /\ WritesTeam(k) /\ UNCHANGED <<roles, half>>
        /\ Due(k) \in {"update_team", "hand_over"}
        /\ Due(k) = "update_team" => k.op = "update_team"
        /\ Due(k) = "hand_over" => k.op = "transfer"
    BY <1>1, <1>7, <1>14, SenderOf DEF WriteTeam, HandOver
  <2>2. teams' = teams \/ (LiveTeam(k.team) /\ UpdateTeamDocument(k.team, k.owner, k.slug))
    BY <2>1 DEF WritesTeam, UpdateTeamDocument
  <2>3. k.team \in Team
    BY <1>1, <2>1, WriterHolds, CreatedTeams DEF WriteCommands
  <2>4. \A t \in Team \ {k.team} : teams'[t] = teams[t]
    BY <1>1, <2>2, <2>3, DocumentWritten
  <2>5. ASSUME k.team \in Team \ half, LiveTeam(k.team)'
        PROVE  Stage(n)' /\ (Due(n) \in Unsettled \/ Settled(k.team)')
    <3>1. LiveTeam(k.team)
      BY <2>2, <2>5 DEF LiveTeam
    <3>2. Stage(k) /\ (Settled(k.team) \/ Due(k) \in Unsettled)
      BY <1>10, <2>5, <3>1
    <3>3. CASE Due(k) = "update_team"
      <4>1. k.owner = teams[k.team].owner /\ Settled(k.team)
        BY <2>1, <3>2, <3>3 DEF Stage, Unsettled
      <4>2. teams'[k.team].owner = teams[k.team].owner
        BY <1>1, <2>2, <2>3, <4>1, DocumentWritten
      <4>3. Settled(k.team)'
        BY <2>1, <4>1, <4>2 DEF Settled, Owners
      <4>4. Due(n) \notin Staged
        BY <1>4, <3>3
      <4>5. QED BY <1>9, <4>3, <4>4
    <3>4. CASE Due(k) = "hand_over"
      <4>1. /\ k.slug = teams[k.team].slug /\ Owners(k.team) = {k.target}
            /\ k.owner = k.target
        BY <1>11, <2>1, <3>2, <3>4 DEF Stage, Transferring
      <4>2. ~SlugIndexed(k.team, k.slug)
        BY <1>1, <2>3, <3>1, <4>1, SlugIsOwn
      <4>3. WriteVerdict(k) = "ok"
        BY <3>1, <4>2 DEF WriteVerdict
      <4>4. UpdateTeamDocument(k.team, k.owner, k.slug)
        BY <2>1, <4>3 DEF WritesTeam
      <4>5. teams'[k.team].owner = k.target
        BY <1>1, <2>3, <3>1, <4>1, <4>4, DocumentWritten
      <4>6. Settled(k.team)'
        BY <2>1, <4>1, <4>5 DEF Settled, Owners
      <4>7. Due(n) \notin Staged
        BY <1>4, <3>4, <4>3 DEF Staged
      <4>8. QED BY <1>9, <4>6, <4>7
    <3>5. QED BY <2>1, <3>3, <3>4
  <2>6. QED BY <1>1, <1>3, <1>6, <2>1, <2>4, <2>5, OwnTeamAgrees
\* A role is written.
<1>15. CASE Promote(c) \/ Demote(c) \/ UndoDemote(c) \/ UndoPromote(c)
  <2>1. /\ UNCHANGED <<teams, half>>
        /\ \/ Due(k) = "promote" /\ SetMemberRole(k.team, k.target, "owner")
           \/ Due(k) = "demote" /\ SetMemberRole(k.team, k.user, "admin")
           \/ Due(k) = "undo_demote" /\ SetMemberRole(k.team, k.user, "owner")
           \/ Due(k) = "undo_promote" /\ SetMemberRole(k.team, k.target, k.role)
    BY <1>7, <1>15 DEF Promote, Demote, UndoDemote, UndoPromote
  <2>2. k.op = "transfer"
    BY <1>1, <2>1, SenderOf
  <2>3. \A t \in Team \ {k.team} : roles'[t] = roles[t]
    BY <1>8, <2>1 DEF SetMemberRole
  <2>4. ASSUME k.team \in Team \ half, LiveTeam(k.team)'
        PROVE  Stage(n)' /\ (Due(n) \in Unsettled \/ Settled(k.team)')
    <3>1. LiveTeam(k.team)
      BY <2>1, <2>4 DEF LiveTeam
    <3>2. Stage(k) /\ (Settled(k.team) \/ Due(k) \in Unsettled)
      BY <1>10, <2>4, <3>1
    <3>3. QED BY <1>1, <1>2, <1>4, <1>11, <2>1, <2>2, <2>4, <3>2, TransferAgrees
  <2>5. QED BY <1>1, <1>3, <1>6, <2>1, <2>3, <2>4, OwnTeamAgrees
<1>16. CASE DeleteTheMember(c) \/ SetRole(c)
  <2>1. /\ UNCHANGED <<teams, half>> /\ Due(k) \in {"delete_member", "set_role"}
        /\ \E r \in Given \cup {"none"} :
             UNCHANGED roles \/ RoleWritten(k.team, k.target, r)
    <3>1. Due(k) = "set_role" => k.role \in Given
      BY <1>1, WriterHolds
    <3>2. QED
      BY <1>7, <1>16, <3>1 DEF DeleteTheMember, SetRole, DeleteMember, SetMemberRole,
                                RoleWritten
  <2>2. k.team \in Team /\ k.target \in User
    BY <1>1, <2>1, WriterHolds, CreatedTeams DEF WriteCommands
  <2>3. PICK r \in Given \cup {"none"} :
          UNCHANGED roles \/ RoleWritten(k.team, k.target, r)
    BY <2>1
  <2>4. r /= "owner"
    BY DEF Given
  <2>5. \A t \in Team \ {k.team} : roles'[t] = roles[t]
    BY <1>8, <2>3 DEF RoleWritten
  <2>6. ASSUME k.team \in Team \ half, LiveTeam(k.team)'
        PROVE  Stage(n)' /\ (Due(n) \in Unsettled \/ Settled(k.team)')
    <3>1. LiveTeam(k.team)
      BY <2>1, <2>6 DEF LiveTeam
    <3>2. Stage(k) /\ (Settled(k.team) \/ Due(k) \in Unsettled)
      BY <1>10, <2>6, <3>1
    <3>3. Settled(k.team) /\ roles[k.team][k.target] /= "owner"
      BY <2>1, <3>2 DEF Stage, Unsettled
    <3>4. Settled(k.team)'
      <4>1. CASE UNCHANGED roles
        BY <2>1, <3>3, <4>1 DEF Settled, Owners
      <4>2. CASE RoleWritten(k.team, k.target, r)
        BY <1>1, <2>1, <2>2, <2>4, <3>3, <4>2, OthersAgree
      <4>3. QED BY <2>3, <4>1, <4>2
    <3>5. Due(n) \notin Staged
      BY <1>4, <2>1
    <3>6. QED BY <1>9, <3>4, <3>5
  <2>7. QED BY <1>1, <1>3, <1>6, <2>1, <2>5, <2>6, OwnTeamAgrees
<1>17. CASE InsertTheMember(c)
  <2>1. /\ UNCHANGED <<teams, half>> /\ Due(k) = "insert_member"
        /\ \/ UNCHANGED roles
           \/ /\ RoleWritten(k.team, k.user, k.role)
              /\ ~IsMember(k.team, k.user)
    BY <1>7, <1>17 DEF InsertTheMember, InsertMember, RoleWritten
  <2>2. k.team \in Team /\ k.user \in User /\ k.role \in Given
    BY <1>1, <2>1, WriterHolds, CreatedTeams DEF WriteCommands
  <2>3. k.role /= "owner"
    BY <2>2 DEF Given
  <2>4. \A t \in Team \ {k.team} : roles'[t] = roles[t]
    BY <1>8, <2>1 DEF RoleWritten
  <2>5. ASSUME k.team \in Team \ half, LiveTeam(k.team)'
        PROVE  Stage(n)' /\ (Due(n) \in Unsettled \/ Settled(k.team)')
    <3>1. LiveTeam(k.team)
      BY <2>1, <2>5 DEF LiveTeam
    <3>2. Settled(k.team)
      BY <1>10, <2>1, <2>5, <3>1 DEF Unsettled
    <3>3. Settled(k.team)'
      <4>1. CASE UNCHANGED roles
        BY <2>1, <3>2, <4>1 DEF Settled, Owners
      <4>2. CASE /\ RoleWritten(k.team, k.user, k.role)
                 /\ ~IsMember(k.team, k.user)
        <5>1. roles[k.team][k.user] /= "owner"
          BY <4>2 DEF IsMember
        <5>2. QED BY <1>1, <2>1, <2>2, <2>3, <3>2, <4>2, <5>1, OthersAgree
      <4>3. QED BY <2>1, <4>1, <4>2
    <3>4. Due(n) \notin Staged
      BY <1>4, <2>1
    <3>5. QED BY <1>9, <3>3, <3>4
  <2>6. QED BY <1>1, <1>3, <1>6, <2>1, <2>4, <2>5, OwnTeamAgrees
<1>18. CASE InsertOwner(c)
  <2>1. /\ UNCHANGED <<teams, half>> /\ Due(k) = "insert_owner"
        /\ InsertMember(k.team, k.user, "owner")
    BY <1>7, <1>18 DEF InsertOwner
  <2>2. \A t \in Team \ {k.team} : roles'[t] = roles[t]
    BY <1>8, <2>1 DEF InsertMember
  <2>3. ASSUME k.team \in Team \ half, LiveTeam(k.team)'
        PROVE  Stage(n)' /\ (Due(n) \in Unsettled \/ Settled(k.team)')
    <3>1. LiveTeam(k.team)
      BY <2>1, <2>3 DEF LiveTeam
    <3>2. teams[k.team].owner = k.user
      BY <1>10, <2>1, <2>3, <3>1 DEF Stage
    <3>3. Emptied(k.team)
      BY <1>1, <2>1 DEF Alive
    <3>4. Settled(k.team)'
      BY <1>1, <2>1, <2>3, <3>2, <3>3, FounderAgrees
    <3>5. Due(n) \notin Staged
      BY <1>4, <2>1
    <3>6. QED BY <1>9, <3>4, <3>5
  <2>4. QED BY <1>1, <1>3, <1>6, <2>1, <2>2, <2>3, OwnTeamAgrees
<1>19. CASE DeleteMembers(c)
  <2>1. /\ UNCHANGED <<teams, half>> /\ Due(k) = "delete_members"
        /\ DeleteAllMembers(k.team)
    BY <1>7, <1>19 DEF DeleteMembers
  <2>2. \A t \in Team \ {k.team} : roles'[t] = roles[t]
    BY <1>8, <2>1 DEF DeleteAllMembers
  <2>3. Due(n) \in Unsettled /\ Stage(n)'
    BY <1>5, <1>9, <2>1 DEF Unsettled, Staged
  <2>4. QED BY <1>1, <1>3, <1>6, <2>1, <2>2, <2>3, OwnTeamAgrees
<1>20. QED
  BY <1>12, <1>13, <1>14, <1>15, <1>16, <1>17, <1>18, <1>19 DEF WriteStep

LEMMA InsertsAgree ==
    ASSUME Basics, NEW c \in Call, InsertTeam(c), ~SlugIndexed(NoTeam, call[c].slug),
           SettledBut(call[c])
    PROVE  \E n \in InFlight : Becomes(c, n) /\ Names(n)' /\ Placed(n)' /\ SettledBut(n)'
<1> PICK t : t = Cardinality(Created) + 1
  OBVIOUS
<1>1. /\ t \in Team /\ teams'[t].owner = call[c].user /\ half' = half
      /\ \A s \in Team \ {t} : teams'[s] = teams[s]
      /\ \E n \in InFlight :
           /\ Becomes(c, n) /\ n.op = "create_team" /\ Due(n) = "insert_owner"
           /\ n.team = t /\ n.user = call[c].user
  <2> DEFINE d == [state |-> "live", owner |-> call[c].user, slug |-> call[c].slug]
  <2>1. d.owner = call[c].user
    OBVIOUS
  <2> HIDE DEF d, Due
  <2>2. /\ Cardinality(Created) + 1 \in Team /\ teams'[Cardinality(Created) + 1] = d
        /\ half' = half
        /\ \A s \in Team \ {Cardinality(Created) + 1} : teams'[s] = teams[s]
        /\ \E n \in InFlight :
             /\ Becomes(c, n)
             /\ n.op = "create_team" /\ Due(n) = "insert_owner"
             /\ n.team = Cardinality(Created) + 1 /\ n.user = call[c].user
    BY TeamInserted DEF d
  <2>3. QED BY <2>1, <2>2
<1>2. PICK n \in InFlight :
        /\ Becomes(c, n) /\ n.op = "create_team" /\ Due(n) = "insert_owner"
        /\ n.team = t /\ n.user = call[c].user
  BY <1>1
<1>3. UNCHANGED roles
  BY DEF InsertTeam
<1>4. \A s \in Team \ half : LiveTeam(s) => Settled(s)
  <2>1. Due(call[c]) = "insert_team"
    BY Sending DEF InsertTeam, Basics
  <2>2. Due(call[c]) \notin Unsettled
    BY <2>1 DEF Unsettled
  <2>3. QED BY <2>2, ReadsNotUnsettled
<1>5. Due(n)' = "insert_owner"
  BY <1>2 DEF Due
<1>6. Names(n)'
  BY <1>2 DEF Names
<1>7. Placed(n)'
  <2> HIDE DEF Due
  <2>1. Stage(n)'
    BY <1>1, <1>2, <1>5 DEF Stage
  <2>2. QED BY <2>1 DEF Placed
<1>8. SettledBut(n)'
  <2>1. ASSUME NEW s \in Team \ half, LiveTeam(s)', s /= t PROVE Settled(s)'
    BY <1>1, <1>3, <1>4, <2>1 DEF LiveTeam, Settled, Owners
  <2> HIDE DEF Due
  <2>2. QED BY <1>1, <1>2, <1>5, <2>1 DEF SettledBut, Unsettled
<1>9. QED BY <1>2, <1>6, <1>7, <1>8

LEMMA RefusesAgree ==
    ASSUME Basics, NEW c \in Call, ~Idle(c), Refuse(c),
           Names(call[c]), Placed(call[c]), SettledBut(call[c]),
           NEW n \in InFlight, Becomes(c, n)
    PROVE  Names(n)' /\ Placed(n)' /\ SettledBut(n)'
<1> PICK k : k = call[c]
  OBVIOUS
<1>1. /\ TypeOK /\ Sound(k) /\ k \in InFlight /\ k.todo /= <<>> /\ ~k.refused
      /\ k.op \in Operations /\ Names(k) /\ Placed(k) /\ SettledBut(k)
  <2>1. TypeOK /\ Sound(call[c])
    BY DEF Basics
  <2>2. call[c] \in InFlight /\ call[c].todo /= <<>> /\ ~call[c].refused
    BY <2>1, RefusesSoundly
  <2>3. QED BY <2>1, <2>2 DEF InFlight
<1>2. Same(n, k) /\ n.refused /\ n.todo = Unsent(k)
  <2>1. PICK m \in InFlight :
          /\ Becomes(c, m) /\ Same(m, call[c]) /\ m.refused
          /\ m.todo = Unsent(call[c])
    BY <1>1, RefusesSoundly
  <2>2. m = n
    BY <1>1, <2>1, Stepped
  <2>3. QED BY <2>1, <2>2
<1>3. /\ n.op = k.op /\ n.user = k.user /\ n.team = k.team /\ n.target = k.target
      /\ n.slug = k.slug /\ n.role = k.role /\ n.owner = k.owner
  BY <1>2 DEF Same
<1>4. /\ UNCHANGED <<teams, roles>> /\ half \subseteq half'
      /\ Due(k) \in {"delete_invitations", "delete_team"} => k.team \in half'
  BY <1>1 DEF Refuse, storeVars, Sends, Due
<1>5. SUFFICES /\ Names(n)
               /\ n.team \in Team \ half' /\ LiveTeam(n.team) => Stage(n)
               /\ \A t \in Team \ half' : LiveTeam(t) =>
                    Settled(t) \/ (n.team = t /\ Due(n) \in Unsettled)
  <2>1. Due(n)' = Due(n)
    BY DEF Due
  <2> HIDE DEF Due
  <2>2. Stage(n) => Stage(n)'
    BY <1>4, <2>1 DEF Stage, Transferring, Owners, IsMember
  <2>3. Placed(n)' /\ Names(n)'
    BY <1>4, <1>5, <2>1, <2>2 DEF Placed, LiveTeam, Names
  <2>4. SettledBut(n)'
    BY <1>4, <1>5, <2>1 DEF SettledBut, Settled, LiveTeam, Owners
  <2>5. QED BY <2>3, <2>4
<1>6. n.team \in Team \ half' /\ LiveTeam(n.team) => Stage(k)
  BY <1>1, <1>3, <1>4 DEF Placed
<1>7. \A t \in Team \ half' : LiveTeam(t) =>
        Settled(t) \/ (n.team = t /\ Due(k) \in Unsettled)
  BY <1>1, <1>3, <1>4 DEF SettledBut
<1>8. CASE Due(k) \in ErrorIgnored
  <2>1. <<Due(k), Due(n)>> \in Order[k.op]
    <3>1. n.todo = Tail(k.todo)
      BY <1>2, <1>8 DEF Unsent
    <3>2. QED BY <1>1, <1>3, <3>1, NextDue
  <2>2. Names(n)
    BY <1>1, <1>3, <2>1, NamesKept
  <2>3. CASE Due(k) \in {"undo_team", "undo_demote", "undo_promote"}
    <3>1. ~Stage(k)
      <4> HIDE DEF Due
      <4>1. QED BY <1>1, <2>3 DEF Stage
    <3>2. ~(n.team \in Team \ half' /\ LiveTeam(n.team))
      BY <1>6, <3>1
    <3>3. QED BY <1>7, <2>2, <3>2
  <2>4. CASE Due(k) \in {"find_member", "drop_invitation"}
    <3>1. Due(k) \notin Unsettled
      BY <2>4 DEF Unsettled
    <3>2. Due(n) \notin Staged
      <4>1. CASE Due(k) = "drop_invitation"
        <5>1. Due(k) \in WriteCommands /\ Due(k) \notin {"promote", "demote", "undo_demote"}
          BY <4>1 DEF WriteCommands
        <5>2. QED BY <1>1, <2>1, <5>1, StagedAfter
      <4>2. CASE Due(k) = "find_member"
        <5> PICK b : b = Due(n)
          OBVIOUS
        <5>1. <<"find_member", b>> \in Order[k.op] /\ k.op \in Operations
          BY <1>1, <2>1, <4>2
        <5>2. b = "find_pending"
          BY <5>1 DEF Order, Operations, Routes
        <5>3. QED BY <5>2 DEF Staged
      <4>3. QED BY <2>4, <4>1, <4>2
    <3>3. Stage(n)
      BY <3>2, Unstaged
    <3>4. QED BY <1>7, <2>2, <3>1, <3>3
  <2>5. QED BY <1>8, <2>3, <2>4 DEF ErrorIgnored
<1>9. CASE Due(k) \notin ErrorIgnored \cup ErrorSkips /\ Due(k) \notin DOMAIN Undo
  <2>1. Due(n) = "end"
    <3>1. n.todo = <<>>
      BY <1>2, <1>9 DEF Unsent
    <3>2. QED BY <3>1 DEF Due
  <2>2. Names(n)
    BY <1>1, <1>3, <2>1, NamesKept
  <2>3. Stage(n)
    BY <2>1, Unstaged DEF Staged
  <2>4. ASSUME NEW t \in Team \ half', LiveTeam(t) PROVE Settled(t)
    <3>1. CASE Due(k) \in Unsettled
      <4>1. Due(k) \in {"delete_invitations", "delete_team"}
        BY <1>9, <3>1 DEF Unsettled, ErrorIgnored, Undo
      <4>2. t /= k.team
        BY <1>4, <2>4, <4>1
      <4>3. QED BY <1>3, <1>7, <2>4, <4>2
    <3>2. CASE Due(k) \notin Unsettled
      BY <1>7, <2>4, <3>2
    <3>3. QED BY <3>1, <3>2
  <2>5. QED BY <2>2, <2>3, <2>4
<1>10. CASE Due(k) \notin ErrorIgnored \cup ErrorSkips /\ Due(k) \in DOMAIN Undo
  <2>1. /\ Due(k) \in {"insert_owner", "demote", "hand_over"}
        /\ Undo["insert_owner"] = <<"undo_team">> /\ Undo["demote"] = <<"undo_promote">>
        /\ Undo["hand_over"] = <<"undo_demote", "undo_promote">>
    BY <1>10 DEF Undo
  <2>2. /\ Due(k) = "insert_owner" => Due(n) = "undo_team"
        /\ Due(k) = "demote" => Due(n) = "undo_promote"
        /\ Due(k) = "hand_over" => Due(n) = "undo_demote"
    <3>1. n.todo = Undo[Due(k)]
      BY <1>2, <1>10 DEF Unsent
    <3>2. QED BY <2>1, <3>1 DEF Due
  <2>3. /\ Due(k) = "insert_owner" => k.op = "create_team"
        /\ Due(k) \in {"demote", "hand_over"} => k.op = "transfer"
    BY <1>1, SenderOf
  <2>4. Due(k) \in Unsettled /\ Due(n) \in Unsettled
    BY <2>1, <2>2 DEF Unsettled
  <2>5. Names(n)
    <3>1. Due(n) \in {"end", "undo_promote", "undo_demote"} \/ k.op /= "transfer"
      BY <2>1, <2>2, <2>3
    <3>2. QED BY <1>1, <1>3, <3>1, NamesKept
  <2>6. Stage(k) => Stage(n)
    <3> HIDE DEF Due
    <3>1. CASE Due(k) = "insert_owner"
      BY <1>2, <1>3, <2>2, <2>3, <3>1 DEF Stage
    <3>2. CASE Due(k) \in {"demote", "hand_over"}
      BY <1>2, <1>3, <2>2, <2>3, <3>2 DEF Stage, Transferring
    <3>3. QED BY <2>1, <3>1, <3>2
  <2>7. QED BY <1>6, <1>7, <2>4, <2>5, <2>6
<1>11. CASE Due(k) \in ErrorSkips
  <2>1. Due(k) = "find_invitee"
    BY <1>11 DEF ErrorSkips
  <2>2. n.todo = Tail(Tail(k.todo))
    BY <1>2, <1>11, <2>1 DEF Unsent, ErrorIgnored
  <2>3. k.op = "invite" /\ Due(n) = "find_pending"
    BY <1>1, <1>3, <2>1, <2>2, Skipped
  <2>4. Names(n)
    BY <1>3, <2>3 DEF Names
  <2>5. Stage(n)
    BY <2>3, Unstaged DEF Staged
  <2>6. Due(k) \notin Unsettled
    BY <2>1 DEF Unsettled
  <2> HIDE DEF Due
  <2>7. QED BY <1>7, <2>4, <2>5, <2>6
<1>12. QED BY <1>8, <1>9, <1>10, <1>11

LEMMA AgreementInitially == Init => Agreement
<1> SUFFICES ASSUME Init PROVE Agreement
  OBVIOUS
<1>1. \A t \in Team : ~LiveTeam(t)
  BY DEF Init, StoreInit, NotCreated, LiveTeam
<1>2. \A c \in Call : Idle(c)
  BY DEF Init, Idle, NoCall
<1>3. QED BY <1>1, <1>2 DEF Agreement

LEMMA AgreementStep ==
    Basics /\ Ends /\ OneAtATime /\ Agreement /\ [Next]_vars => Agreement'
<1> SUFFICES ASSUME Basics, Ends, OneAtATime, Agreement, [Next]_vars PROVE Agreement'
  OBVIOUS
<1>1. TypeOK /\ Bookkeeping /\ CallsSound
  BY DEF Basics, CallsSound
<1>2. scenario' = scenario
  BY <1>1, ScenarioStays
<1>3. CASE scenario.overlap \/ MayNameSelf
  BY <1>2, <1>3 DEF Agreement
<1>4. CASE ~scenario.overlap /\ ~MayNameSelf
  <2>1. /\ (\A c \in Call : Idle(c)) => \A t \in Team \ half : LiveTeam(t) => Settled(t)
        /\ \A c \in Call :
             ~Idle(c) => /\ Names(call[c]) /\ Placed(call[c]) /\ SettledBut(call[c])
                         /\ Alive(call[c])
    BY <1>4 DEF Agreement, Ends
  <2>2. ASSUME NEW c \in Call, RequestArrives(c) PROVE Agreement'
    <3>1. Arrives(c)
      BY <1>1, <2>2, Arrivals
    <3>2. PICK k \in InFlight :
            /\ call' = [call EXCEPT ![c] = k] /\ Fresh(k)
            /\ k.op = "transfer" => k.slug = NoSlug /\ k.user /= k.target
      BY <1>4, <3>1 DEF Arrives
    <3>3. UNCHANGED <<storeVars, half>> /\ \A d \in Call : Idle(d)
      BY <1>4, <3>1 DEF Arrives
    <3>4. Names(k) /\ SettledBut(k)
      BY <2>1, <3>2, <3>3 DEF Names, SettledBut
    <3>5. Due(k) \notin Staged
      <4> HIDE DEF Due
      <4>1. QED BY <3>2 DEF Fresh, Staged
    <3>6. Placed(k)
      BY <3>5, Unstaged DEF Placed
    <3>7. Names(k)' /\ Placed(k)' /\ SettledBut(k)'
      BY <3>3, <3>4, <3>6, StagesLast DEF storeVars
    <3>8. k /= NoCall
      BY DEF NoCall, InFlight, Operations, Routes
    <3>9. QED BY <1>1, <1>4, <3>2, <3>3, <3>7, <3>8, AgreementKept
  <2>3. ASSUME NEW c \in Call, NEW n \in InFlight, ~Idle(c), Becomes(c, n),
               Names(n)', Placed(n)', SettledBut(n)'
        PROVE  Agreement'
    <3>1. n /= NoCall
      BY DEF NoCall, InFlight, Operations, Routes
    <3>2. call' = [call EXCEPT ![c] = n]
      BY <2>3 DEF Becomes
    <3>3. QED BY <1>1, <1>4, <2>3, <3>1, <3>2, AgreementKept
  <2>4. ASSUME NEW c \in Call, ReadStep(c) PROVE Agreement'
    <3>1. ~Idle(c)
      BY <2>4, ReaderBusy
    <3>2. Sound(call[c])
      BY <1>1, <3>1 DEF CallsSound
    <3>3. PICK n \in InFlight : Reads(c, n) /\ Sound(n)
      BY <1>1, <2>4, <3>2, ReadsSoundly
    <3>4. Names(n) /\ Placed(n) /\ SettledBut(n)
      BY <2>1, <2>4, <3>1, <3>3, ReadsAgree
    <3>5. UNCHANGED <<teams, roles, half>> /\ Becomes(c, n)
      BY <3>3 DEF Reads, storeVars
    <3>6. Names(n)' /\ Placed(n)' /\ SettledBut(n)'
      BY <3>4, <3>5, StagesLast
    <3>7. QED BY <2>3, <3>1, <3>5, <3>6
  <2>5. ASSUME NEW c \in Call, WriteStep(c), ~InsertTeam(c) PROVE Agreement'
    <3>1. ~Idle(c)
      BY <1>1, <2>5, Writing DEF WriteOutcome
    <3>2. PICK n \in InFlight : Becomes(c, n)
      BY <1>1, <2>5, Writing DEF WriteOutcome
    <3>3. Names(n)' /\ Placed(n)' /\ SettledBut(n)'
      BY <2>1, <2>5, <3>1, <3>2, WritesAgree
    <3>4. QED BY <2>3, <3>1, <3>2, <3>3
  <2>6. ASSUME NEW c \in Call, InsertTeam(c) PROVE Agreement'
    <3>1. /\ call[c] \in InFlight /\ ~Idle(c) /\ call[c].todo /= <<>>
          /\ Due(call[c]) = "insert_team"
      BY <1>1, <2>6, Sending DEF InsertTeam
    <3>2. CASE SlugIndexed(NoTeam, call[c].slug)
      <4>1. PICK n : n = Fails(call[c], <<>>, "duplicate")
        OBVIOUS
      <4>2. Becomes(c, n) /\ UNCHANGED <<teams, roles, half>>
        BY <2>6, <3>2, <4>1 DEF InsertTeam
      <4>3. n \in InFlight /\ Same(n, call[c]) /\ n.todo = <<>>
        <5>1. <<>> \in Seq(Commands) /\ "duplicate" \in Codes
          BY DEF Codes
        <5>2. Same(n, call[c]) /\ n.todo = <<>>
          BY <3>1, <4>1, <5>1, Outcomes
        <5>3. QED BY <5>2 DEF Same
      <4>4. Due(n) = "end"
        BY <4>3 DEF Due
      <4>5. Names(n)
        <5>1. n.op = call[c].op /\ n.user = call[c].user /\ n.target = call[c].target
              /\ n.slug = call[c].slug
          BY <4>3 DEF Same
        <5>2. QED BY <2>1, <3>1, <4>3, <4>4, <5>1, NamesKept
      <4>6. Placed(n)
        BY <4>4, Unstaged DEF Staged, Placed
      <4>7. SettledBut(n)
        <5>1. Due(call[c]) \notin Unsettled
          BY <3>1 DEF Unsettled
        <5>2. QED BY <2>1, <3>1, <5>1, ReadsNotUnsettled
      <4>8. Names(n)' /\ Placed(n)' /\ SettledBut(n)'
        BY <4>2, <4>5, <4>6, <4>7, StagesLast
      <4>9. QED BY <2>3, <3>1, <4>2, <4>3, <4>8
    <3>3. CASE ~SlugIndexed(NoTeam, call[c].slug)
      <4>1. PICK n \in InFlight : Becomes(c, n) /\ Names(n)' /\ Placed(n)' /\ SettledBut(n)'
        BY <2>1, <2>6, <3>1, <3>3, InsertsAgree
      <4>2. QED BY <2>3, <3>1, <4>1
    <3>4. QED BY <3>2, <3>3
  <2>7. ASSUME NEW c \in Call, Refuse(c) PROVE Agreement'
    <3>1. ~Idle(c)
      BY <2>7 DEF Refuse
    <3>2. PICK n \in InFlight : Becomes(c, n)
      BY <1>1, <2>7, <3>1, RefusedLeaves DEF CallsSound
    <3>3. Names(n)' /\ Placed(n)' /\ SettledBut(n)'
      BY <2>1, <2>7, <3>1, <3>2, RefusesAgree
    <3>4. QED BY <2>3, <3>1, <3>2, <3>3
  <2>8. ASSUME NEW c \in Call, Respond(c) PROVE Agreement'
    <3>1. /\ ~Idle(c) /\ call[c].todo = <<>> /\ UNCHANGED <<teams, roles, half>>
          /\ call' = [call EXCEPT ![c] = NoCall]
      BY <2>8 DEF Respond, Becomes, storeVars
    <3>2. Due(call[c]) \notin Unsettled
      BY <3>1 DEF Due, Unsettled
    <3>3. \A t \in Team \ half : LiveTeam(t) => Settled(t)
      BY <2>1, <3>1, <3>2, ReadsNotUnsettled
    <3>4. \A t \in Team \ half' : LiveTeam(t)' => Settled(t)'
      BY <3>1, <3>3 DEF LiveTeam, Settled, Owners
    <3>5. QED BY <1>1, <1>4, <3>1, <3>4, AgreementKept
  <2>9. CASE Expire \/ EmailChanges \/ UserDeleted \/ UNCHANGED vars
    <3>1. UNCHANGED <<teams, roles, half, call, scenario>>
      BY <2>9 DEF Expire, EmailChanges, UserDeleted, vars, storeVars
    <3>2. ASSUME NEW c \in Call, ~Idle(c)'
          PROVE  (Names(call[c]) /\ Placed(call[c]) /\ SettledBut(call[c]))'
      <4>1. PICK k : k = call[c]
        OBVIOUS
      <4>2. ~Idle(c) /\ call'[c] = k
        BY <3>1, <3>2, <4>1 DEF Idle
      <4>3. Names(k)' /\ Placed(k)' /\ SettledBut(k)'
        BY <2>1, <3>1, <4>1, <4>2, StagesLast
      <4> HIDE DEF Names, Placed, SettledBut
      <4>4. QED BY <4>2, <4>3 DEF Names, Placed, SettledBut, Stage, Due, Transferring
    <3>3. (\A c \in Call : Idle(c))' =>
            \A t \in Team \ half' : LiveTeam(t)' => Settled(t)'
      BY <2>1, <3>1 DEF Idle, LiveTeam, Settled, Owners
    <3>4. QED BY <3>2, <3>3 DEF Agreement
  <2>10. QED
    BY <2>2, <2>4, <2>5, <2>6, <2>7, <2>8, <2>9 DEF Next
<1>5. QED BY <1>3, <1>4

\* Between requests that do not overlap, a team that is not half deleted has
\* one owner, the one its document names, whichever command of a creation or of
\* a transfer was refused: what was done before the refusal is undone.  This
\* is so as long as no owner names herself as the next one.
THEOREM OwnersAgree ==
    ASSUME ~MayNameSelf PROVE Spec => []OwnerAgreement
<1>1. Init => Basics /\ Ends /\ OneAtATime /\ Agreement
  BY BasicsInitially, EndsInitially, AgreementInitially
<1>2. /\ Basics /\ Ends /\ OneAtATime /\ Agreement
      /\ [Next]_vars
      => (Basics /\ Ends /\ OneAtATime /\ Agreement)'
  BY BasicsStep, EndsStep, AgreementStep
<1>3. Agreement => OwnerAgreement
  BY DEF Agreement, OwnerAgreement, AtRest, Settled, Owners
<1>4. QED BY <1>1, <1>2, <1>3, PTL DEF Spec

-------------------------------------------------------------------------------
(* Seats.                                                                  *)

\* The commands that make a member of somebody, and the requests that are
\* about to make one of a team.
Joining == {"insert_owner", "insert_member"}

Boarding(t) == {c \in Call : Due(call[c]) \in Joining /\ call[c].team = t}

\* What precedes the commands that take a seat.
LEMMA SeatOrder ==
    ASSUME NEW op \in Operations, NEW b, NEW a, <<a, b>> \in Order[op]
    PROVE  /\ b = "insert_owner" => a = "insert_team"
           /\ b = "insert_member" => a = "count_members" /\ op = "accept"
           /\ b = "insert_invitation" => a = "count_pending"
           /\ b = "count_pending" => a = "count_members" /\ op = "invite"
           /\ b = "count_members" /\ op = "invite" => a = "find_pending"
           /\ b = "count_members" /\ op = "accept" => a = "find_team"
           /\ b = "count_members" => op \in {"invite", "accept"}
           /\ b = "find_team" /\ op = "accept" => a = "find_invitation"
           /\ b = "find_pending" => a = "find_member" /\ op = "invite"
           /\ b = "drop_invitation" => a = "insert_member"
BY DEF Order, Operations, Routes

\* A command that reads goes on in the order of its operation, or ends the
\* request; it may pass over the second look at roles, or at the membership of
\* an invitee nobody found.
LEMMA ReadAhead ==
    ASSUME Basics, NEW c \in Call, ReadStep(c), NEW n \in InFlight, Reads(c, n)
    PROVE  /\ ~Idle(c) /\ call[c] \in InFlight /\ Sound(call[c]) /\ call[c].todo /= <<>>
           /\ call[c].op \in Operations
           /\ n.op = call[c].op /\ n.user = call[c].user
           /\ n.invitation = call[c].invitation /\ n.refused = call[c].refused
           /\ Due(call[c]) /= "find_invitation" => n.team = call[c].team
           /\ Due(call[c]) /= "find_user" => n.address = call[c].address
           /\ Due(call[c]) /= "find_invitee" => n.target = call[c].target
           /\ \/ Due(n) \in {"end", "find_requester", "delete_member", "set_role"}
              \/ <<Due(call[c]), Due(n)>> \in Order[call[c].op]
              \/ Due(call[c]) = "find_invitee" /\ Due(n) = "find_pending"
<1> DEFINE k == call[c]
<1>1. TypeOK /\ ~Idle(c) /\ Sound(k) /\ k \in InFlight /\ k.op \in Operations
  BY ReaderBusy, Sender DEF Basics, InFlight
<1>2. Becomes(c, n)
  BY DEF Reads
<1>3. CASE /\ ~FindTeam(c) /\ ~FindTarget(c) /\ ~FindInvitation(c)
           /\ ~FindUser(c) /\ ~FindInvitee(c)
  <2>1. PlainOutcome(c)
    BY <1>1, <1>3, PlainReading
  <2>2. k.todo /= <<>> /\ (Stops(n, k) \/ GoesOn(n, k))
    BY <1>1, <1>2, <2>1, Stepped DEF PlainOutcome, Reads
  <2> HIDE DEF k
  <2>3. Same(n, k) /\ n.refused = k.refused /\ n.todo \in {<<>>, Tail(k.todo)}
    BY <2>2 DEF Stops, GoesOn
  <2>4. n.todo = Tail(k.todo) => <<Due(k), Due(n)>> \in Order[k.op]
    BY <1>1, <2>2, <2>3, NextDue DEF Same
  <2>5. n.todo = <<>> => Due(n) = "end"
    BY DEF Due
  <2> HIDE DEF Due
  <2>6. QED BY <1>1, <2>2, <2>3, <2>4, <2>5 DEF Same, k
<1>4. CASE FindTeam(c)
  <2>1. k.todo /= <<>> /\ (Stops(n, k) \/ (NotesTeam(n, k) /\ n.todo = Tail(k.todo)))
    BY <1>1, <1>2, <1>4, TeamFound, Stepped DEF Reads
  <2> HIDE DEF k
  <2>2. /\ n.op = k.op /\ n.user = k.user /\ n.target = k.target /\ n.team = k.team
        /\ n.invitation = k.invitation /\ n.refused = k.refused /\ n.address = k.address
        /\ n.todo \in {<<>>, Tail(k.todo)}
    BY <2>1 DEF Stops, Same, NotesTeam
  <2>3. n.todo = Tail(k.todo) => <<Due(k), Due(n)>> \in Order[k.op]
    BY <1>1, <2>1, <2>2, NextDue
  <2>4. n.todo = <<>> => Due(n) = "end"
    BY DEF Due
  <2> HIDE DEF Due
  <2>5. QED BY <1>1, <2>1, <2>2, <2>3, <2>4 DEF k
<1>5. CASE FindTarget(c)
  <2>1. /\ k.todo /= <<>> /\ Due(k) = "find_target" /\ Reread(n, k)
        /\ \/ n.todo \in {<<>>, Tail(k.todo)}
           \/ /\ n.todo = Tail(Tail(k.todo)) /\ Tail(k.todo) /= <<>>
              /\ k.op \in {"remove_member", "update_role"}
    BY <1>1, <1>2, <1>5, TargetFound, Stepped DEF Reads
  <2> HIDE DEF k
  <2>2. /\ n.op = k.op /\ n.user = k.user /\ n.target = k.target /\ n.team = k.team
        /\ n.invitation = k.invitation /\ n.refused = k.refused /\ n.address = k.address
    BY <2>1 DEF Reread
  <2>3. n.todo = Tail(k.todo) => <<Due(k), Due(n)>> \in Order[k.op]
    BY <1>1, <2>1, <2>2, NextDue
  <2>4. n.todo = <<>> => Due(n) = "end"
    BY DEF Due
  <2>5. ASSUME n.todo = Tail(Tail(k.todo)), Tail(k.todo) /= <<>>,
               k.op \in {"remove_member", "update_role"}
        PROVE  Due(n) \in {"delete_member", "set_role", "end"}
    <3> DEFINE s == Tail(k.todo)
    <3>1. /\ Head(k.todo) \in Commands /\ Path(k.op, s)
          /\ <<Head(k.todo), IF s = <<>> THEN "end" ELSE Head(s)>> \in Order[k.op]
      BY <1>1, <2>1, PathAdvances DEF Sound
    <3>2. Head(k.todo) = "find_target"
      BY <2>1 DEF Due
    <3> HIDE DEF s
    <3>3. s /= <<>> /\ n.todo = Tail(s)
      BY <2>5 DEF s
    <3>4. <<"find_target", Head(s)>> \in Order[k.op]
      BY <3>1, <3>2, <3>3
    <3>5. PICK a, b : a = "find_target" /\ b = Head(s) /\ <<a, b>> \in Order[k.op]
      BY <3>4
    <3>6. b = "find_requester"
      BY <1>1, <2>5, <3>5, Successor
    <3>7. <<Head(s), IF Tail(s) = <<>> THEN "end" ELSE Head(Tail(s))>> \in Order[k.op]
      BY <3>1, <3>3, PathAdvances
    <3>8. Due(n) = IF Tail(s) = <<>> THEN "end" ELSE Head(Tail(s))
      BY <3>3 DEF Due
    <3>9. <<b, Due(n)>> \in Order[k.op]
      BY <3>5, <3>7, <3>8
    <3> HIDE DEF Due
    <3>10. QED BY <1>1, <3>6, <3>9, Successor
  <2> HIDE DEF Due
  <2>6. QED BY <1>1, <2>1, <2>2, <2>3, <2>4, <2>5 DEF k
<1>6. CASE FindInvitation(c)
  <2>1. /\ k.todo /= <<>> /\ Due(k) = "find_invitation" /\ Accepts(n, k)
        /\ n.todo \in {<<>>, Tail(k.todo)}
    BY <1>1, <1>2, <1>6, InvitationFound, Stepped DEF Reads
  <2> HIDE DEF k
  <2>2. /\ n.op = k.op /\ n.user = k.user /\ n.target = k.target
        /\ n.invitation = k.invitation /\ n.refused = k.refused /\ n.address = k.address
    BY <2>1 DEF Accepts
  <2>3. n.todo = Tail(k.todo) => <<Due(k), Due(n)>> \in Order[k.op]
    BY <1>1, <2>1, <2>2, NextDue
  <2>4. n.todo = <<>> => Due(n) = "end"
    BY DEF Due
  <2> HIDE DEF Due
  <2>5. QED BY <1>1, <2>1, <2>2, <2>3, <2>4 DEF k
<1>7. CASE FindUser(c)
  <2>1. /\ k.todo /= <<>> /\ Due(k) = "find_user"
        /\ \/ Stops(n, k)
           \/ Finds(n, k) /\ n.target = k.target /\ n.todo = Tail(k.todo)
    BY <1>1, <1>2, <1>7, UserFound, Stepped DEF Reads
  <2> HIDE DEF k
  <2>2. /\ n.op = k.op /\ n.user = k.user /\ n.target = k.target /\ n.team = k.team
        /\ n.invitation = k.invitation /\ n.refused = k.refused
        /\ n.todo \in {<<>>, Tail(k.todo)}
    BY <2>1 DEF Stops, Same, Finds
  <2>3. n.todo = Tail(k.todo) => <<Due(k), Due(n)>> \in Order[k.op]
    BY <1>1, <2>1, <2>2, NextDue
  <2>4. n.todo = <<>> => Due(n) = "end"
    BY DEF Due
  <2> HIDE DEF Due
  <2>5. QED BY <1>1, <2>1, <2>2, <2>3, <2>4 DEF k
<1>8. CASE FindInvitee(c)
  <2>1. /\ k.todo /= <<>> /\ Due(k) = "find_invitee" /\ Finds(n, k) /\ n.address = k.address
        /\ n.todo \in {Tail(k.todo), Tail(Tail(k.todo))}
    BY <1>1, <1>2, <1>8, InviteeFound, Stepped DEF Reads
  <2> HIDE DEF k
  <2>2. /\ n.op = k.op /\ n.user = k.user /\ n.team = k.team
        /\ n.invitation = k.invitation /\ n.refused = k.refused
    BY <2>1 DEF Finds
  <2>3. n.todo = Tail(k.todo) => <<Due(k), Due(n)>> \in Order[k.op]
    BY <1>1, <2>1, <2>2, NextDue
  <2>4. n.todo = Tail(Tail(k.todo)) => Due(n) = "find_pending"
    BY <1>1, <2>1, Skipped
  <2> HIDE DEF Due
  <2>5. QED BY <1>1, <2>1, <2>2, <2>3, <2>4 DEF k
<1>9. QED BY <1>3, <1>4, <1>5, <1>6, <1>7, <1>8

\* What follows a command that writes, and a refusal, takes no seat and counts none.
SeatCommands ==
    {"insert_owner", "insert_member", "find_invitation", "find_team", "find_pending",
     "count_members", "count_pending", "insert_invitation"}

LEMMA AfterWriteNoSeat ==
    ASSUME NEW k \in InFlight, Sound(k), k.todo /= <<>>, Due(k) \in WriteCommands,
           NEW n \in InFlight, n.op = k.op, n.todo = Remaining(k)
    PROVE  /\ Due(n) \notin SeatCommands
           /\ Due(n) = "drop_invitation" =>
                Due(k) = "insert_member" /\ ~IsMember(k.team, k.user)
<1>1. CASE n.todo = Tail(k.todo)
  <2>1. <<Due(k), Due(n)>> \in Order[k.op] /\ k.op \in Operations
    BY <1>1, NextDue
  <2>2. Due(k) = "insert_member" /\ IsMember(k.team, k.user) => n.todo = <<>>
    BY DEF Remaining
  <2>3. n.todo = <<>> => Due(n) = "end"
    BY DEF Due
  <2>4. PICK a, b : a = Due(k) /\ b = Due(n)
    OBVIOUS
  <2>5. /\ a \in WriteCommands => b \notin SeatCommands
        /\ b = "drop_invitation" => a = "insert_member"
    BY <2>1, <2>4 DEF Order, Operations, Routes, WriteCommands, SeatCommands
  <2> HIDE DEF Due
  <2>6. QED BY <2>2, <2>3, <2>4, <2>5
<1>2. CASE n.todo \in {<<>>, <<"undo_promote">>, <<"undo_demote", "undo_promote">>,
                       <<"find_deleted_memo">>}
  BY <1>2 DEF Due, SeatCommands
<1>3. n.todo \in {Tail(k.todo), <<>>, <<"undo_promote">>, <<"undo_demote", "undo_promote">>,
                  <<"find_deleted_memo">>}
  <2> HIDE DEF Due
  <2>1. QED BY DEF Remaining
<1>4. QED BY <1>1, <1>2, <1>3

LEMMA RefusedNoSeat ==
    ASSUME Basics, NEW c \in Call, Refuse(c), NEW n \in InFlight, Becomes(c, n)
    PROVE  /\ ~Idle(c) /\ call[c] \in InFlight /\ Sound(call[c]) /\ call[c].todo /= <<>>
           /\ Same(n, call[c]) /\ Due(n) \notin SeatCommands \ {"find_pending"}
           /\ Due(n) = "find_pending" =>
                Due(call[c]) \in {"find_invitee", "find_member"} /\ call[c].op = "invite"
           /\ Due(n) /= "drop_invitation"
<1> DEFINE k == call[c]
<1>1. TypeOK
  BY DEF Basics
<1>2. k \in InFlight /\ ~Idle(c) /\ k.todo /= <<>> /\ Sound(k)
  <2>1. k \in InFlight /\ ~Idle(c) /\ k.todo /= <<>>
    BY <1>1, Refusing
  <2>2. QED BY <2>1 DEF Basics
<1>3. Same(n, k) /\ n.todo = Unsent(k)
  BY <1>1, <1>2, RefusedLeaves, Stepped
<1> HIDE DEF k
<1>4. CASE Due(k) \in ErrorIgnored
  <2>1. <<Due(k), Due(n)>> \in Order[k.op] /\ k.op \in Operations
    BY <1>2, <1>3, <1>4, NextDue DEF Same, Unsent
  <2>2. PICK a, b : a = Due(k) /\ b = Due(n)
    OBVIOUS
  <2>3. /\ b \notin SeatCommands \ {"find_pending"} /\ b /= "drop_invitation"
        /\ b = "find_pending" => a = "find_member" /\ k.op = "invite"
    BY <1>4, <2>1, <2>2 DEF Order, Operations, Routes, ErrorIgnored, SeatCommands
  <2> HIDE DEF Due
  <2>4. QED BY <1>2, <1>3, <2>2, <2>3 DEF k
<1>5. CASE Due(k) \notin ErrorIgnored /\ Due(k) \notin ErrorSkips
  <2>1. n.todo \in {<<>>, <<"undo_team">>, <<"undo_promote">>, <<"undo_demote", "undo_promote">>}
    BY <1>3, <1>5 DEF Undo, Unsent
  <2>2. Due(n) \in {"end", "undo_team", "undo_promote", "undo_demote"}
    BY <2>1 DEF Due
  <2> HIDE DEF Due
  <2>3. QED BY <1>2, <1>3, <2>2 DEF SeatCommands, k
<1>6. CASE Due(k) \notin ErrorIgnored /\ Due(k) \in ErrorSkips
  <2>1. Due(k) = "find_invitee" /\ n.todo = Tail(Tail(k.todo))
    BY <1>3, <1>6 DEF ErrorSkips, Unsent
  <2>2. k.op = "invite" /\ Due(n) = "find_pending"
    BY <1>2, <2>1, Skipped
  <2> HIDE DEF Due
  <2>3. QED BY <1>2, <1>3, <2>1, <2>2 DEF SeatCommands, k
<1>7. QED BY <1>4, <1>5, <1>6

\* The members of a team once one role is written.
LEMMA MembersAfter ==
    ASSUME TypeOK, NEW t \in Team, NEW u \in User, NEW r, RoleWritten(t, u, r), NEW s \in Team
    PROVE  /\ s = t => Members(s)' \subseteq Members(s) \cup {u}
           /\ s /= t \/ IsMember(t, u) \/ r = "none" => Members(s)' \subseteq Members(s)
<1>1. roles \in [Team -> [User -> Role \cup {"none"}]]
  BY DEF TypeOK, StoreTypeOK
<1>2. \A v \in User : roles'[s][v] = IF s = t /\ v = u THEN r ELSE roles[s][v]
  BY <1>1 DEF RoleWritten
<1>3. QED BY <1>2 DEF Members, IsMember

\* Two commands make members, each one of the team of its request; the founder
\* of a team is let in by no invitation.
LEMMA MembersGrow ==
    ASSUME Basics, NEW c \in Call, WriteStep(c), ~InsertTeam(c), NEW t \in Team
    PROVE  \/ Members(t)' \subseteq Members(t)
           \/ /\ Due(call[c]) \in Joining /\ call[c].team = t
              /\ Members(t)' \subseteq Members(t) \cup {call[c].user}
<1> DEFINE k == call[c]
<1>1. TypeOK /\ Store
  BY BasicsParts DEF Basics
<1>2. k \in InFlight /\ k.todo /= <<>> /\ Sound(k) /\ Due(k) \in WriteCommands
  BY <1>1, WriterDue, Writing DEF WriteOutcome, Basics
<1>3. /\ k.user \in User
      /\ Due(k) \in WriteCommands \ {"delete_invitation", "drop_invitation", "insert_memo",
                                    "delete_memo"} =>
           k.team \in Team
      /\ Due(k) \in {"promote", "undo_promote", "delete_member", "set_role"} => k.target \in User
  <2> HIDE DEF k
  <2>1. QED BY <1>2, WriterHolds, CreatedTeams
<1>4. \A command \in WriteCommands : Sends(c, command) => Due(k) = command
  BY <1>1, Sending
<1>5. CASE InsertOwner(c)
  <2>1. Due(k) = "insert_owner" /\ RoleWritten(k.team, k.user, "owner")
    BY <1>4, <1>5 DEF InsertOwner, InsertMember, RoleWritten, WriteCommands
  <2>2. k.team \in Team
    BY <1>3, <2>1 DEF WriteCommands
  <2> HIDE DEF k, Due
  <2>3. QED BY <1>1, <1>3, <2>1, <2>2, MembersAfter DEF Joining, k
<1>6. CASE InsertTheMember(c)
  <2>1. Due(k) = "insert_member" /\ (roles' = roles \/ RoleWritten(k.team, k.user, k.role))
    BY <1>4, <1>6 DEF InsertTheMember, InsertMember, RoleWritten, WriteCommands
  <2>2. k.team \in Team
    BY <1>3, <2>1 DEF WriteCommands
  <2> HIDE DEF k, Due
  <2>3. roles' = roles => Members(t)' \subseteq Members(t)
    BY DEF Members, IsMember
  <2>4. QED BY <1>1, <1>3, <2>1, <2>2, <2>3, MembersAfter DEF Joining, k
<1>7. CASE DeleteMembers(c)
  <2>1. roles' = [roles EXCEPT ![k.team] = [u \in User |-> "none"]]
    BY <1>7 DEF DeleteMembers, DeleteAllMembers
  <2>2. roles \in [Team -> [User -> Role \cup {"none"}]]
    BY <1>1 DEF TypeOK, StoreTypeOK
  <2> HIDE DEF k
  <2>3. \A u \in User : roles'[t][u] \in {roles[t][u], "none"}
    BY <2>1, <2>2
  <2>4. QED BY <2>3 DEF Members, IsMember
<1>8. CASE Promote(c) \/ SetRole(c) \/ UndoPromote(c) \/ Demote(c) \/ UndoDemote(c)
           \/ DeleteTheMember(c)
  <2>1. \E u \in User : \E r :
          /\ k.team \in Team
          /\ roles' = roles \/ (IsMember(k.team, u) /\ RoleWritten(k.team, u, r))
             \/ RoleWritten(k.team, u, "none")
    <3>1. CASE Promote(c)
      <4>1. Sends(c, "promote") /\ SetMemberRole(k.team, k.target, "owner")
        BY <3>1 DEF Promote
      <4>2. k.team \in Team /\ k.target \in User
        BY <1>3, <1>4, <4>1 DEF WriteCommands
      <4>3. QED BY <4>1, <4>2 DEF SetMemberRole, RoleWritten
    <3>2. CASE SetRole(c)
      <4>1. Sends(c, "set_role") /\ SetMemberRole(k.team, k.target, k.role)
        BY <3>2 DEF SetRole
      <4>2. k.team \in Team /\ k.target \in User
        BY <1>3, <1>4, <4>1 DEF WriteCommands
      <4>3. QED BY <4>1, <4>2 DEF SetMemberRole, RoleWritten
    <3>3. CASE UndoPromote(c)
      <4>1. Sends(c, "undo_promote") /\ SetMemberRole(k.team, k.target, k.role)
        BY <3>3 DEF UndoPromote
      <4>2. k.team \in Team /\ k.target \in User
        BY <1>3, <1>4, <4>1 DEF WriteCommands
      <4>3. QED BY <4>1, <4>2 DEF SetMemberRole, RoleWritten
    <3>4. CASE Demote(c)
      <4>1. Sends(c, "demote") /\ SetMemberRole(k.team, k.user, "admin")
        BY <3>4 DEF Demote
      <4>2. k.team \in Team /\ k.user \in User
        BY <1>3, <1>4, <4>1 DEF WriteCommands
      <4>3. QED BY <4>1, <4>2 DEF SetMemberRole, RoleWritten
    <3>5. CASE UndoDemote(c)
      <4>1. Sends(c, "undo_demote") /\ SetMemberRole(k.team, k.user, "owner")
        BY <3>5 DEF UndoDemote
      <4>2. k.team \in Team /\ k.user \in User
        BY <1>3, <1>4, <4>1 DEF WriteCommands
      <4>3. QED BY <4>1, <4>2 DEF SetMemberRole, RoleWritten
    <3>6. CASE DeleteTheMember(c)
      <4>1. Sends(c, "delete_member") /\ DeleteMember(k.team, k.target)
        BY <3>6 DEF DeleteTheMember
      <4>2. k.team \in Team /\ k.target \in User
        BY <1>3, <1>4, <4>1 DEF WriteCommands
      <4>3. QED BY <4>1, <4>2 DEF DeleteMember, RoleWritten
    <3>7. QED BY <1>8, <3>1, <3>2, <3>3, <3>4, <3>5, <3>6
  <2> HIDE DEF k
  <2>2. roles' = roles => Members(t)' \subseteq Members(t)
    BY DEF Members, IsMember
  <2>3. QED BY <1>1, <2>1, <2>2, MembersAfter
<1>9. CASE roles' = roles
  BY <1>9 DEF Members, IsMember
<1>10. QED
  <2>1. \/ InsertOwner(c) \/ InsertTheMember(c) \/ DeleteMembers(c)
        \/ Promote(c) \/ SetRole(c) \/ UndoPromote(c) \/ Demote(c) \/ UndoDemote(c)
        \/ DeleteTheMember(c) \/ roles' = roles
    BY DEF WriteStep, UndoTeam, WriteTeam, DeleteMemos, DeleteInvitations, DeleteTheTeam,
           HandOver, InsertTheInvitation, DeleteTheInvitation, DropInvitation, InsertTheMemo,
           DeleteTheMemo
  <2>2. QED BY <1>5, <1>6, <1>7, <1>8, <1>9, <2>1

\* Who is about to join after a request has moved.
LEMMA BoardingAfter ==
    ASSUME TypeOK, NEW c \in Call, NEW n, call' = [call EXCEPT ![c] = n], NEW t
    PROVE  /\ Boarding(t)' \subseteq Boarding(t) \cup {c}
           /\ Due(n) \notin Joining \/ n.team /= t => Boarding(t)' \subseteq Boarding(t) \ {c}
<1>1. \A d \in Call : call'[d] = IF d = c THEN n ELSE call[d]
  BY DEF TypeOK
<1>2. \A d \in Call : Due(call[d])' = Due(call'[d])
  BY DEF Due
<1> HIDE DEF Due
<1>3. QED BY <1>1, <1>2 DEF Boarding

\* Requests that overlap may each have seen the last seat free: of the members
\* a team has, and the requests about to make one, all but one of the requests
\* may be too many.
CrowdBounded ==
    \A t \in Team :
        Cardinality(Members(t)) + Cardinality(Boarding(t)) <= Seats + Cardinality(Call) - 1

\* A step makes nobody a member, and nobody about to be; or it found a seat
\* free; or it makes a member of one who was about to be.
Boards(t) ==
    \/ Members(t)' \subseteq Members(t) /\ Boarding(t)' \subseteq Boarding(t)
    \/ Members(t)' \subseteq Members(t) /\ Cardinality(Members(t)) < Seats
    \/ \E c \in Boarding(t), u \in User :
         Members(t)' \subseteq Members(t) \cup {u} /\ Boarding(t)' \subseteq Boarding(t) \ {c}

LEMMA CountMembersDue ==
    ASSUME TypeOK, NEW c \in Call, ReadStep(c)
    PROVE  /\ Due(call[c]) = "count_members" => CountMembers(c)
           /\ Due(call[c]) = "count_pending" => CountPending(c)
           /\ Due(call[c]) = "find_pending" => FindPending(c)
           /\ Due(call[c]) = "find_member" => FindMember(c)
           /\ Due(call[c]) = "find_invitation" => FindInvitation(c)
           /\ Due(call[c]) = "find_team" => FindTeam(c)
<1>1. \A command : Sends(c, command) => Due(call[c]) = command
  BY Sending
<1> HIDE DEF Due
<1>2. QED
  BY <1>1
     DEF ReadStep, Authorize, CountOwned, FindSlug, FindTeam, FindTarget, FindRequester,
         FindInvitee, FindMember, FindPending, CountMembers, CountPending, FindUser,
         FindInvitation, FindMemo, FindDeletedMemo, Count, Find

\* An acceptance goes on to join only if a seat was free.
LEMMA SeatFound ==
    ASSUME TypeOK, NEW c \in Call, CountMembers(c), call[c].op = "accept",
           NEW n \in InFlight, Reads(c, n), n.todo /= <<>>
    PROVE  Cardinality(Members(call[c].team)) < Seats
<1> DEFINE k == call[c]
           code == IF Cardinality(Members(k.team)) >= Seats THEN "seats" ELSE "ok"
<1>1. k \in InFlight /\ k.todo /= <<>> /\ Reads(c, Checked(k, code))
  BY Sending DEF CountMembers
<1>2. n = Checked(k, code)
  BY <1>1, Stepped DEF Reads
<1>3. code \in Codes
  BY DEF Codes
<1>4. code = "ok"
  <2> HIDE DEF code, k
  <2>1. QED BY <1>1, <1>2, <1>3, Verdicts
<1>5. Cardinality(Members(k.team)) \in Nat /\ Seats \in Nat
  BY CountsAreNumbers, SeatsAssumption
<1>6. QED BY <1>4, <1>5

LEMMA BoardsStep ==
    ASSUME Basics, Next, NEW t \in Team
    PROVE  Boards(t)
<1>1. TypeOK
  BY DEF Basics
<1>2. Seats \in Nat \ {0}
  BY SeatsAssumption
<1>3. ASSUME NEW c \in Call, RequestArrives(c) PROVE Boards(t)
  <2>1. PICK n \in InFlight : call' = [call EXCEPT ![c] = n] /\ Fresh(n)
    BY <1>1, <1>3, Arrivals DEF Arrives
  <2>2. UNCHANGED roles
    BY <1>1, <1>3, Arrivals DEF Arrives, storeVars
  <2>3. Due(n) \notin Joining
    BY <2>1 DEF Fresh, Joining
  <2> HIDE DEF Due
  <2>4. QED BY <1>1, <2>1, <2>2, <2>3, BoardingAfter DEF Boards, Members, IsMember
<1>4. ASSUME NEW c \in Call, ReadStep(c) PROVE Boards(t)
  <2> DEFINE k == call[c]
  <2>1. Sound(k)
    BY <1>4, ReaderBusy DEF Basics
  <2>2. PICK n \in InFlight : Reads(c, n)
    BY <1>1, <1>4, <2>1, ReadsSoundly DEF Basics
  <2>3. UNCHANGED roles /\ call' = [call EXCEPT ![c] = n]
    BY <2>2 DEF Reads, Becomes, storeVars
  <2>4. /\ k.op \in Operations /\ n.op = k.op
        /\ Due(k) /= "find_invitation" => n.team = k.team
        /\ \/ Due(n) \in {"end", "find_requester", "delete_member", "set_role", "find_pending"}
           \/ <<Due(k), Due(n)>> \in Order[k.op]
    <3> HIDE DEF Due
    <3>1. QED BY <1>4, <2>2, ReadAhead
  <2>5. CASE Due(n) \notin Joining
    <3> HIDE DEF Due
    <3>1. QED BY <1>1, <2>3, <2>5, BoardingAfter DEF Boards, Members, IsMember
  <2>6. CASE Due(n) \in Joining /\ n.team = t
    <3>1. n.todo /= <<>>
      BY <2>6 DEF Due, Joining
    <3> HIDE DEF Due
    <3>2. <<Due(k), Due(n)>> \in Order[k.op]
      BY <2>4, <2>6 DEF Joining
    <3>3. PICK a, b : a = Due(k) /\ b = Due(n)
      OBVIOUS
    <3>4. \/ a = "insert_team"
          \/ a = "count_members" /\ k.op = "accept"
      BY <2>4, <2>6, <3>2, <3>3, SeatOrder DEF Joining
    <3>5. a /= "insert_team"
      <4>1. \A command : Sends(c, command) => Due(k) = command
        BY <1>1, Sending
      <4>2. QED
        BY <1>4, <3>3, <4>1
           DEF ReadStep, Authorize, CountOwned, FindSlug, FindTeam, FindTarget, FindRequester,
               FindInvitee, FindMember, FindPending, CountMembers, CountPending, FindUser,
               FindInvitation, FindMemo, FindDeletedMemo, Count, Find
    <3>6. CountMembers(c) /\ k.op = "accept" /\ n.team = k.team
      BY <1>1, <1>4, <2>4, <3>3, <3>4, <3>5, CountMembersDue
    <3>7. Cardinality(Members(k.team)) < Seats
      BY <1>1, <2>2, <3>1, <3>6, SeatFound
    <3>8. QED BY <2>3, <2>6, <3>6, <3>7 DEF Boards, Members, IsMember
  <2>7. CASE n.team /= t
    <3> HIDE DEF Due
    <3>1. QED BY <1>1, <2>3, <2>7, BoardingAfter DEF Boards, Members, IsMember
  <2>8. QED BY <2>5, <2>6, <2>7
<1>5. ASSUME NEW c \in Call, WriteStep(c), ~InsertTeam(c) PROVE Boards(t)
  <2> DEFINE k == call[c]
  <2>1. /\ k \in InFlight /\ ~Idle(c) /\ k.todo /= <<>> /\ Due(k) \in WriteCommands
    BY <1>1, <1>5, Writing, WriterDue DEF WriteOutcome
  <2>2. PICK n \in InFlight : Becomes(c, n) /\ Same(n, k) /\ n.todo = Remaining(k)
    BY <1>1, <1>5, Writing DEF WriteOutcome
  <2>3. Sound(k) /\ k.user \in User
    BY <2>1 DEF Basics, InFlight
  <2>4. Due(n) \notin Joining
    <3>1. Due(n) \notin SeatCommands
      <4> HIDE DEF k
      <4>1. QED BY <2>1, <2>2, <2>3, AfterWriteNoSeat DEF Same
    <3> HIDE DEF Due
    <3>2. QED BY <3>1 DEF SeatCommands, Joining
  <2>5. Boarding(t)' \subseteq Boarding(t) \ {c}
    <3> HIDE DEF Due
    <3>1. QED BY <1>1, <2>2, <2>4, BoardingAfter DEF Becomes
  <2>6. \/ Members(t)' \subseteq Members(t)
        \/ c \in Boarding(t) /\ Members(t)' \subseteq Members(t) \cup {k.user}
    BY <1>5, MembersGrow DEF Boarding
  <2>7. QED BY <2>3, <2>5, <2>6 DEF Boards
<1>6. ASSUME NEW c \in Call, InsertTeam(c) PROVE Boards(t)
  <2>1. UNCHANGED roles
    BY <1>6 DEF InsertTeam
  <2>2. Members(t)' = Members(t)
    BY <2>1 DEF Members, IsMember
  <2>3. CASE SlugIndexed(NoTeam, call[c].slug)
    <3>1. PICK n : n = Fails(call[c], <<>>, "duplicate")
      OBVIOUS
    <3>2. Becomes(c, n)
      BY <1>6, <2>3, <3>1 DEF InsertTeam
    <3>3. n.todo = <<>>
      <4>1. call[c] \in InFlight /\ call[c].todo /= <<>>
        BY <1>1, <1>6, Sending DEF InsertTeam
      <4>2. <<>> \in Seq(Commands) /\ "duplicate" \in Codes
        BY DEF Codes
      <4>3. QED BY <3>1, <4>1, <4>2, Outcomes
    <3>4. Due(n) \notin Joining
      BY <3>3 DEF Due, Joining
    <3> HIDE DEF Due
    <3>5. QED BY <1>1, <2>2, <3>2, <3>4, BoardingAfter DEF Boards, Becomes
  <2>4. CASE ~SlugIndexed(NoTeam, call[c].slug)
    <3>1. PICK n \in InFlight : Becomes(c, n) /\ n.team = Cardinality(Created) + 1
      BY <1>6, <2>4, TeamInserted
    <3>2. CASE t = Cardinality(Created) + 1
      <4>1. t \notin Created
        <5>1. PICK m \in 0 .. MaxTeams : Created = 1 .. m
          BY DEF Basics, Bookkeeping
        <5>2. Cardinality(Created) = m
          BY <5>1, FS_Interval, StoreAssumption
        <5>3. QED BY <3>2, <5>1, <5>2
      <4>2. Members(t) = {}
        BY <4>1 DEF Basics, Bookkeeping
      <4>3. Cardinality(Members(t)) = 0
        BY <4>2, FS_EmptySet
      <4>4. QED BY <1>2, <2>2, <4>3 DEF Boards
    <3>3. CASE t /= Cardinality(Created) + 1
      <4>1. n.team /= t
        BY <3>1, <3>3
      <4> HIDE DEF Due
      <4>2. QED BY <1>1, <2>2, <3>1, <4>1, BoardingAfter DEF Boards, Becomes
    <3>4. QED BY <3>2, <3>3
  <2>5. QED BY <2>3, <2>4
<1>7. ASSUME NEW c \in Call, Refuse(c) PROVE Boards(t)
  <2>1. UNCHANGED roles
    BY <1>7 DEF Refuse, storeVars
  <2>2. PICK n \in InFlight : Becomes(c, n)
    <3>1. Sound(call[c])
      BY <1>1, <1>7, Refusing DEF Basics
    <3>2. QED BY <1>1, <1>7, <3>1, RefusedLeaves
  <2>3. Due(n) \notin SeatCommands \ {"find_pending"}
    BY <1>7, <2>2, RefusedNoSeat
  <2> HIDE DEF Due
  <2>4. Due(n) \notin Joining
    BY <2>3 DEF SeatCommands, Joining
  <2>5. QED BY <1>1, <2>1, <2>2, <2>4, BoardingAfter DEF Boards, Becomes, Members, IsMember
<1>8. ASSUME NEW c \in Call, Respond(c) PROVE Boards(t)
  <2>1. UNCHANGED roles /\ call' = [call EXCEPT ![c] = NoCall]
    BY <1>8 DEF Respond, storeVars, Becomes
  <2>2. Due(NoCall) \notin Joining
    BY DEF Due, NoCall, Joining
  <2> HIDE DEF Due
  <2>3. QED BY <1>1, <2>1, <2>2, BoardingAfter DEF Boards, Members, IsMember
<1>9. CASE Expire \/ EmailChanges \/ UserDeleted
  <2>1. UNCHANGED <<roles, call>>
    BY <1>9 DEF Expire, EmailChanges, UserDeleted, storeVars
  <2>2. QED BY <2>1 DEF Boards, Members, IsMember, Boarding, Due
<1>10. QED BY <1>3, <1>4, <1>5, <1>6, <1>7, <1>8, <1>9 DEF Next

LEMMA CrowdStep == Basics /\ CrowdBounded /\ [Next]_vars => CrowdBounded'
<1> SUFFICES ASSUME Basics, CrowdBounded, [Next]_vars, NEW t \in Team
             PROVE  Cardinality(Members(t)') + Cardinality(Boarding(t)')
                      <= Seats + Cardinality(Call) - 1
  BY DEF CrowdBounded
<1>1. /\ IsFiniteSet(User) /\ IsFiniteSet(Call) /\ Seats \in Nat /\ Cardinality(Call) \in Nat
  BY FiniteAssumption, SeatsAssumption, FS_CardinalityType
<1>2. /\ Members(t) \subseteq User /\ Members(t)' \subseteq User
      /\ Boarding(t) \subseteq Call /\ Boarding(t)' \subseteq Call
  BY DEF Members, Boarding
<1>3. \A S \in SUBSET User : \A T \in SUBSET S : IsFiniteSet(S) /\ Cardinality(T) <= Cardinality(S)
  BY <1>1, FS_Subset
<1>4. \A S \in SUBSET Call : \A T \in SUBSET S : IsFiniteSet(S) /\ Cardinality(T) <= Cardinality(S)
  BY <1>1, FS_Subset
<1>5. \A S \in SUBSET User : Cardinality(S) \in Nat
  BY <1>3, FS_CardinalityType
<1>6. \A S \in SUBSET Call : Cardinality(S) \in Nat
  BY <1>4, FS_CardinalityType
<1>7. Cardinality(Members(t)) + Cardinality(Boarding(t)) <= Seats + Cardinality(Call) - 1
  BY DEF CrowdBounded
<1> DEFINE M == Members(t)  B == Boarding(t)  N == Members(t)'  A == Boarding(t)'
<1>8. CASE UNCHANGED vars
  BY <1>7, <1>8 DEF vars, storeVars, Members, IsMember, Boarding, Due
<1>9. CASE Next
  <2>1. Boards(t)
    BY <1>9, BoardsStep
  <2>2. CASE N \subseteq M /\ A \subseteq B
    <3>1. Cardinality(N) <= Cardinality(M) /\ Cardinality(A) <= Cardinality(B)
      BY <1>2, <1>3, <1>4, <2>2
    <3> HIDE DEF M, B, N, A
    <3>2. QED BY <1>1, <1>2, <1>5, <1>6, <1>7, <3>1 DEF M, B, N, A
  <2>3. CASE N \subseteq M /\ Cardinality(M) < Seats
    <3>1. Cardinality(N) <= Cardinality(M) /\ Cardinality(A) <= Cardinality(Call)
      BY <1>2, <1>3, <1>4, <2>3
    <3>2. Cardinality(N) \in Nat /\ Cardinality(M) \in Nat /\ Cardinality(A) \in Nat
      BY <1>2, <1>5, <1>6
    <3> HIDE DEF M, B, N, A
    <3>3. QED BY <1>1, <2>3, <3>1, <3>2 DEF M, B, N, A
  <2>4. CASE \E c \in B, u \in User : N \subseteq M \cup {u} /\ A \subseteq B \ {c}
    <3>1. PICK c \in B, u \in User : N \subseteq M \cup {u} /\ A \subseteq B \ {c}
      BY <2>4
    <3>2. IsFiniteSet(M) /\ IsFiniteSet(B)
      BY <1>2, <1>3, <1>4
    <3>3. Cardinality(M \cup {u}) <= Cardinality(M) + 1
      <4>1. Cardinality(M) \in Nat
        BY <1>2, <1>5
      <4> HIDE DEF M
      <4>2. Cardinality(M \cup {u}) = IF u \in M THEN Cardinality(M) ELSE Cardinality(M) + 1
        BY <3>2, FS_AddElement
      <4>3. QED BY <4>1, <4>2
    <3>4. Cardinality(B \ {c}) = Cardinality(B) - 1
      BY <3>1, <3>2, FS_RemoveElement
    <3>5. Cardinality(N) <= Cardinality(M \cup {u}) /\ Cardinality(A) <= Cardinality(B \ {c})
      <4>1. M \cup {u} \in SUBSET User /\ B \ {c} \in SUBSET Call
        BY <1>2
      <4>2. QED BY <1>3, <1>4, <3>1, <4>1
    <3>6. /\ Cardinality(N) \in Nat /\ Cardinality(M) \in Nat /\ Cardinality(A) \in Nat
          /\ Cardinality(B) \in Nat /\ Cardinality(M \cup {u}) \in Nat
      BY <1>2, <1>5, <1>6
    <3> HIDE DEF M, B, N, A
    <3>7. QED BY <1>1, <1>7, <3>3, <3>4, <3>5, <3>6 DEF M, B, N, A
  <2>5. QED BY <2>1, <2>2, <2>3, <2>4 DEF Boards
<1>10. QED BY <1>8, <1>9

\* Requests one at a time.  The seats that are taken: by members, and by the
\* invitations that are pending, but for the one in S.
Taken(t, S) == Cardinality(Members(t)) + Cardinality(PendingOf(t) \ S)

\* The invitation whose seat its user has by now.
Used(t, k) == IF Due(k) = "drop_invitation" /\ k.team = t THEN {k.invitation} ELSE {}

Fits(t, k) == Cardinality(Members(t)) <= Seats /\ (t \notin undropped => Taken(t, Used(t, k)) <= Seats)

\* What a request has counted by the time a command is due.
Reserves(k) ==
    /\ \A t \in Team : Fits(t, k)
    /\ Due(k) = "count_pending" => k.total = Cardinality(Members(k.team))
    /\ Due(k) = "insert_invitation" => Taken(k.team, {}) < Seats
    /\ Due(k) = "insert_member" => Cardinality(Members(k.team)) < Seats
    /\ /\ k.op = "accept" /\ Due(k) \in {"find_team", "count_members", "insert_member"}
       /\ k.team \notin undropped
       => Taken(k.team, {k.invitation}) < Seats

Seating ==
    ~scenario.overlap =>
        /\ (\A c \in Call : Idle(c)) => Reserves(NoCall)
        /\ \A c \in Call : ~Idle(c) => Reserves(call[c])

LEMMA PendingDocument ==
    ASSUME TypeOK, NEW i \in Invitation, invitations[i].pending
    PROVE  /\ invitations[i] \in InvitationDocument /\ invitations[i].address \in Address
           /\ invitations[i].team \in Team
<1>1. invitations[i] \in InvitationDocument \cup {NotInvited}
  BY DEF TypeOK, StoreTypeOK
<1>2. NotInvited.pending = FALSE
  BY DEF NotInvited
<1>3. QED BY <1>1, <1>2 DEF InvitationDocument

LEMMA TakenCounts ==
    ASSUME NEW t, NEW S
    PROVE  /\ IsFiniteSet(Members(t)) /\ Cardinality(Members(t)) \in Nat
           /\ IsFiniteSet(PendingOf(t) \ S) /\ Cardinality(PendingOf(t) \ S) \in Nat
           /\ Taken(t, S) \in Nat
<1>1. Members(t) \subseteq User /\ PendingOf(t) \ S \subseteq Invitation
  BY DEF Members, PendingOf
<1>2. IsFiniteSet(Members(t)) /\ IsFiniteSet(PendingOf(t) \ S)
  BY <1>1, FiniteAssumption, FS_Subset
<1>3. QED BY <1>2, FS_CardinalityType DEF Taken

\* Nobody joins, and no invitation is sent.
LEMMA TakenShrinks ==
    ASSUME NEW t, NEW S, NEW R,
           Members(t)' \subseteq Members(t), PendingOf(t)' \ R \subseteq PendingOf(t) \ S
    PROVE  /\ Cardinality(Members(t)') <= Cardinality(Members(t))
           /\ Taken(t, R)' <= Taken(t, S)
<1> DEFINE M == Members(t)  P == PendingOf(t) \ S  N == Members(t)'  Q == PendingOf(t)' \ R
<1>1. IsFiniteSet(M) /\ IsFiniteSet(P) /\ N \subseteq M /\ Q \subseteq P
  BY TakenCounts
<1>2. Taken(t, S) = Cardinality(M) + Cardinality(P)
  BY DEF Taken
<1>3. Taken(t, R)' = Cardinality(N) + Cardinality(Q)
  BY DEF Taken
<1> HIDE DEF M, P, N, Q
<1>4. /\ Cardinality(N) <= Cardinality(M) /\ Cardinality(Q) <= Cardinality(P)
      /\ Cardinality(N) \in Nat /\ Cardinality(M) \in Nat
      /\ Cardinality(Q) \in Nat /\ Cardinality(P) \in Nat
  BY <1>1, FS_Subset, FS_CardinalityType
<1>5. QED BY <1>2, <1>3, <1>4 DEF M, N

\* One joins, or one is invited.
LEMMA TakenGrows ==
    ASSUME NEW t, NEW S, NEW x,
           \/ Members(t)' \subseteq Members(t) \cup {x} /\ PendingOf(t)' \ S \subseteq PendingOf(t) \ S
           \/ Members(t)' = Members(t) /\ PendingOf(t)' \ S \subseteq (PendingOf(t) \ S) \cup {x}
    PROVE  /\ Cardinality(Members(t)') <= Cardinality(Members(t)) + 1
           /\ Taken(t, S)' <= Taken(t, S) + 1
<1> DEFINE M == Members(t)  P == PendingOf(t) \ S  N == Members(t)'  Q == PendingOf(t)' \ S
<1>1. IsFiniteSet(M) /\ IsFiniteSet(P)
  BY TakenCounts
<1>2. Taken(t, S) = Cardinality(M) + Cardinality(P)
  BY DEF Taken
<1>3. Taken(t, S)' = Cardinality(N) + Cardinality(Q)
  BY DEF Taken
<1>4. \/ N \subseteq M \cup {x} /\ Q \subseteq P
      \/ N = M /\ Q \subseteq P \cup {x}
  OBVIOUS
<1> HIDE DEF M, P, N, Q
<1>5. /\ IsFiniteSet(M \cup {x}) /\ IsFiniteSet(P \cup {x})
      /\ Cardinality(M) \in Nat /\ Cardinality(P) \in Nat
      /\ Cardinality(M \cup {x}) \in {Cardinality(M), Cardinality(M) + 1}
      /\ Cardinality(P \cup {x}) \in {Cardinality(P), Cardinality(P) + 1}
  BY <1>1, FS_AddElement, FS_CardinalityType
<1>6. CASE N \subseteq M \cup {x} /\ Q \subseteq P
  <2>1. /\ Cardinality(N) <= Cardinality(M \cup {x}) /\ Cardinality(Q) <= Cardinality(P)
        /\ Cardinality(N) \in Nat /\ Cardinality(Q) \in Nat
    BY <1>1, <1>5, <1>6, FS_Subset, FS_CardinalityType
  <2>2. QED BY <1>2, <1>3, <1>5, <2>1 DEF M, N
<1>7. CASE N = M /\ Q \subseteq P \cup {x}
  <2>1. /\ Cardinality(Q) <= Cardinality(P \cup {x}) /\ Cardinality(Q) \in Nat
    BY <1>5, <1>7, FS_Subset, FS_CardinalityType
  <2>2. QED BY <1>2, <1>3, <1>5, <1>7, <2>1 DEF M, N
<1>8. QED BY <1>4, <1>6, <1>7

LEMMA JoinerTakesOne ==
    ASSUME NEW t, NEW S, NEW x,
           Members(t)' \subseteq Members(t) \cup {x}, PendingOf(t)' \subseteq PendingOf(t)
    PROVE  /\ Cardinality(Members(t)') <= Cardinality(Members(t)) + 1
           /\ Taken(t, S)' <= Taken(t, S) + 1
<1>1. PendingOf(t)' \ S \subseteq PendingOf(t) \ S
  OBVIOUS
<1>2. QED BY <1>1, TakenGrows

\* Invitations are only deleted, or expire.
InvitationsShrink ==
    \A i \in Invitation : invitations'[i].pending =>
        /\ invitations[i].pending
        /\ invitations'[i].team = invitations[i].team
        /\ invitations'[i].address = invitations[i].address

LEMMA PendingShrinks ==
    ASSUME InvitationsShrink
    PROVE  \A t : PendingOf(t)' \subseteq PendingOf(t)
BY DEF InvitationsShrink, PendingOf

LEMMA SeatsUntouched ==
    ASSUME UNCHANGED <<roles, invitations>>
    PROVE  /\ \A t : Members(t)' = Members(t) /\ PendingOf(t)' = PendingOf(t)
           /\ \A t, S : Taken(t, S)' = Taken(t, S)
BY DEF PendingOf, Members, IsMember, Taken

\* No command is due that waits for what was counted, or leaves a seat to whom
\* an invitation was for.
LEMMA NothingReserved ==
    ASSUME NEW n, Due(n) \notin {"find_team", "count_members", "count_pending",
                                 "insert_invitation", "insert_member", "drop_invitation"},
           \A t \in Team : /\ Cardinality(Members(t)) <= Seats
                           /\ t \notin undropped => Taken(t, {}) <= Seats
    PROVE  Reserves(n)
<1> HIDE DEF Due
<1>1. QED BY DEF Reserves, Fits, Used

LEMMA ReservesLasts ==
    ASSUME NEW k, Reserves(k), UNCHANGED <<roles, invitations>>, undropped \subseteq undropped'
    PROVE  Reserves(k)'
<1>1. Due(k)' = Due(k)
  BY DEF Due
<1> HIDE DEF Due
<1>2. \A t : Used(t, k)' = Used(t, k)
  BY <1>1 DEF Used
<1>3. \A t : Members(t)' = Members(t)
  BY SeatsUntouched
<1>4. \A t, S : Taken(t, S)' = Taken(t, S)
  BY SeatsUntouched
<1>5. \A t \in Team : Fits(t, k)'
  <2>1. ASSUME NEW t \in Team PROVE Fits(t, k)'
    <3>1. Taken(t, Used(t, k))' = Taken(t, Used(t, k))
      BY <1>2, SeatsUntouched DEF Taken
    <3>2. QED BY <1>3, <3>1 DEF Reserves, Fits
  <2>2. QED BY <2>1
<1> HIDE DEF Fits
<1>6. QED BY <1>1, <1>3, <1>4, <1>5 DEF Reserves

\* What one may rely on whatever the request is about to do.
LEMMA ReservesFits ==
    ASSUME NEW k, Reserves(k), NEW t \in Team
    PROVE  /\ Cardinality(Members(t)) <= Seats
           /\ t \notin undropped /\ Due(k) /= "drop_invitation" => Taken(t, {}) <= Seats
           /\ t \notin undropped /\ t /= k.team => Taken(t, {}) <= Seats
<1> HIDE DEF Due
<1>1. QED BY DEF Reserves, Fits, Used

\* One command invites, and it lets nobody in.
LEMMA InvitationsGrow ==
    ASSUME Basics, NEW c \in Call, WriteStep(c), ~InsertTeam(c)
    PROVE  \/ InvitationsShrink /\ Due(call[c]) /= "insert_invitation"
           \/ /\ Due(call[c]) = "insert_invitation" /\ UNCHANGED roles
              /\ \E i \in Invitation :
                   InsertInvitation(i, call[c].team, call[c].address, call[c].role)
<1> DEFINE k == call[c]
<1>1. TypeOK /\ invitations \in [Invitation -> InvitationDocument \cup {NotInvited}]
  BY DEF Basics, TypeOK, StoreTypeOK
<1>2. \A command : Sends(c, command) => Due(k) = command
  BY <1>1, Sending
<1>3. CASE InsertTheInvitation(c)
  BY <1>2, <1>3 DEF InsertTheInvitation
<1>4. CASE DeleteTheInvitation(c) \/ DropInvitation(c)
  <2>1. /\ Due(k) /= "insert_invitation"
        /\ invitations' = [invitations EXCEPT ![k.invitation] = NotInvited]
    BY <1>2, <1>4 DEF DeleteTheInvitation, DropInvitation, DeleteInvitation
  <2> HIDE DEF k, Due
  <2>2. \A i \in Invitation : invitations'[i] \in {NotInvited, invitations[i]}
    BY <1>1, <2>1
  <2>3. NotInvited.pending = FALSE
    BY DEF NotInvited
  <2>4. InvitationsShrink
    BY <2>2, <2>3 DEF InvitationsShrink
  <2>5. QED BY <2>1, <2>4 DEF k
<1>5. CASE DeleteInvitations(c)
  <2>1. Due(k) /= "insert_invitation" /\ DeleteAllInvitations(k.team)
    BY <1>2, <1>5 DEF DeleteInvitations
  <2> HIDE DEF k, Due
  <2>2. \A i \in Invitation : invitations'[i] \in {NotInvited, invitations[i]}
    BY <1>1, <2>1 DEF DeleteAllInvitations
  <2>3. NotInvited.pending = FALSE
    BY DEF NotInvited
  <2>4. InvitationsShrink
    BY <2>2, <2>3 DEF InvitationsShrink
  <2>5. QED BY <2>1, <2>4 DEF k
<1>6. CASE invitations' = invitations /\ Due(k) /= "insert_invitation"
  BY <1>6 DEF InvitationsShrink
<1>7. QED
  <2>1. \/ InsertTheInvitation(c) \/ DeleteTheInvitation(c) \/ DropInvitation(c)
        \/ DeleteInvitations(c)
        \/ invitations' = invitations /\ \E command \in WriteCommands \ {"insert_invitation"} :
                                           Sends(c, command)
    BY DEF WriteStep, InsertOwner, UndoTeam, WriteTeam, DeleteMemos, DeleteMembers,
           DeleteTheTeam, Promote, Demote, HandOver, UndoDemote, UndoPromote,
           DeleteTheMember, SetRole, InsertTheMember, InsertTheMemo, DeleteTheMemo, WriteCommands
  <2>2. QED BY <1>2, <1>3, <1>4, <1>5, <1>6, <2>1

\* An acceptance drops the invitation it used.
LEMMA InvitationDropped ==
    ASSUME Basics, NEW c \in Call, WriteStep(c), Due(call[c]) = "drop_invitation", NEW t
    PROVE  /\ UNCHANGED roles
           /\ PendingOf(t)' \subseteq PendingOf(t) \ {call[c].invitation}
<1> DEFINE k == call[c]
<1>1. TypeOK /\ invitations \in [Invitation -> InvitationDocument \cup {NotInvited}]
  BY DEF Basics, TypeOK, StoreTypeOK
<1>2. \A command : Sends(c, command) => Due(k) = command
  BY <1>1, Sending
<1> HIDE DEF Due
<1>3. DropInvitation(c)
  BY <1>2
     DEF WriteStep, InsertTeam, InsertOwner, UndoTeam, WriteTeam, DeleteMemos, DeleteMembers,
         DeleteInvitations, DeleteTheTeam, Promote, Demote, HandOver, UndoDemote, UndoPromote,
         DeleteTheMember, SetRole, InsertTheInvitation, DeleteTheInvitation, InsertTheMember,
         InsertTheMemo, DeleteTheMemo
<1>4. UNCHANGED roles /\ invitations' = [invitations EXCEPT ![k.invitation] = NotInvited]
  BY <1>3 DEF DropInvitation, DeleteInvitation
<1> HIDE DEF k
<1>5. NotInvited.pending = FALSE
  BY DEF NotInvited
<1>6. \A i \in Invitation :
        invitations'[i] = IF i = k.invitation THEN NotInvited ELSE invitations[i]
  BY <1>1, <1>4
<1>7. PendingOf(t)' \subseteq PendingOf(t) \ {k.invitation}
  BY <1>5, <1>6 DEF PendingOf
<1>8. QED BY <1>4, <1>7 DEF k

\* One more invitation.
LEMMA InvitationSent ==
    ASSUME TypeOK, NEW t \in Team, NEW address, NEW i \in Invitation, NEW role,
           InsertInvitation(i, t, address, role)
    PROVE  /\ PendingOf(t)' \subseteq PendingOf(t) \cup {i}
           /\ \A s : s /= t => PendingOf(s)' \subseteq PendingOf(s)
<1> DEFINE d == [team |-> t, address |-> address, role |-> role, pending |-> TRUE]
<1>1. invitations \in [Invitation -> InvitationDocument \cup {NotInvited}]
  BY DEF TypeOK, StoreTypeOK
<1>2. d.team = t
  OBVIOUS
<1>3. invitations' = [invitations EXCEPT ![i] = d]
  BY DEF InsertInvitation
<1> HIDE DEF d
<1>4. \A j \in Invitation : invitations'[j] = IF j = i THEN d ELSE invitations[j]
  BY <1>1, <1>3
<1>5. QED BY <1>2, <1>4 DEF PendingOf

\* Who joins has a seat by then: the founder is alone in her team, and whoever
\* accepts goes on to drop her invitation.
LEMMA JoinerSeated ==
    ASSUME Basics, NEW c \in Call, ~Idle(c), Alive(call[c]), Reserves(call[c]),
           NEW n \in InFlight, Same(n, call[c]), n.todo = Remaining(call[c]),
           Due(call[c]) \in Joining, call[c].todo /= <<>>,
           InvitationsShrink, NEW t \in Team, call[c].team = t,
           Members(t)' \subseteq Members(t) \cup {call[c].user}
    PROVE  /\ Cardinality(Members(t)') <= Seats
           /\ t \notin undropped => Taken(t, Used(t, n))' <= Seats
<1> PICK k : k = call[c]
  OBVIOUS
<1>1. k \in InFlight /\ Sound(k) /\ k.user \in User /\ Reserves(k)
  <2>1. call[c] \in InFlight /\ Sound(call[c])
    BY Sender DEF Basics
  <2>2. QED BY <2>1 DEF InFlight
<1>2. Due(n)' = Due(n)
  BY DEF Due
<1>3. n.op = k.op /\ n.team = t /\ n.invitation = k.invitation
  BY DEF Same
<1>4. PendingOf(t)' \subseteq PendingOf(t)
  BY PendingShrinks
<1>5. Seats \in Nat \ {0} /\ \A S : Taken(t, S) \in Nat
  BY SeatsAssumption, TakenCounts
<1>6. Cardinality(Members(t)) \in Nat
  BY TakenCounts
<1>7. /\ Cardinality(Members(t)') \in Nat
      /\ \A S : Taken(t, S)' \in Nat
  <2>1. Members(t)' \subseteq User /\ \A S : PendingOf(t)' \ S \subseteq Invitation
    BY DEF Members, PendingOf
  <2>2. /\ IsFiniteSet(Members(t)') /\ \A S : IsFiniteSet(PendingOf(t)' \ S)
    BY <2>1, FiniteAssumption, FS_Subset
  <2>3. Cardinality(Members(t)') \in Nat /\ \A S : Cardinality(PendingOf(t)' \ S) \in Nat
    BY <2>2, FS_CardinalityType
  <2>4. ASSUME NEW S PROVE Taken(t, S)' \in Nat
    <3>1. Taken(t, S)' = Cardinality(Members(t)') + Cardinality(PendingOf(t)' \ S)
      BY DEF Taken
    <3>2. Cardinality(PendingOf(t)' \ S) \in Nat
      BY <2>3
    <3>3. QED BY <2>3, <3>1, <3>2
  <2>5. QED BY <2>3, <2>4
<1>8. \A S : /\ Cardinality(Members(t)') <= Cardinality(Members(t)) + 1
             /\ Taken(t, S)' <= Taken(t, S) + 1
  <2>1. ASSUME NEW S
        PROVE  /\ Cardinality(Members(t)') <= Cardinality(Members(t)) + 1
               /\ Taken(t, S)' <= Taken(t, S) + 1
    <3>1. PICK x : Members(t)' \subseteq Members(t) \cup {x}
      OBVIOUS
    <3>2. QED BY <1>4, <3>1, JoinerTakesOne
  <2>2. QED BY <2>1
<1>9. CASE Due(k) = "insert_owner"
  <2> HIDE DEF Due
  <2>1. Emptied(t)
    BY <1>9 DEF Alive
  <2>2. Members(t) = {} /\ PendingOf(t) = {}
    BY <2>1 DEF Emptied, InvitationsGone, PendingOf
  <2>3. \A S : PendingOf(t) \ S = {}
    BY <2>2
  <2>4. Cardinality(Members(t)) = 0 /\ \A S : Cardinality(PendingOf(t) \ S) = 0
    BY <2>2, <2>3, FS_EmptySet
  <2>5. ASSUME NEW S PROVE Taken(t, S) = 0
    <3>1. Cardinality(PendingOf(t) \ S) = 0
      BY <2>4
    <3>2. QED BY <2>4, <3>1 DEF Taken
  <2>6. Cardinality(Members(t)') <= Seats /\ \A S : Taken(t, S)' <= Seats
    BY <1>5, <1>6, <1>7, <1>8, <2>4, <2>5
  <2>7. QED BY <2>6 DEF Taken
<1>10. CASE Due(k) = "insert_member"
  <2>1. k.op = "accept"
    BY <1>1, <1>10, SenderOf
  <2>2. /\ Cardinality(Members(t)) < Seats
        /\ t \notin undropped => Taken(t, {k.invitation}) < Seats
    <3> HIDE DEF Due
    <3>1. QED BY <1>1, <1>10, <2>1 DEF Reserves
  <2>3. Cardinality(Members(t)') <= Seats
    BY <1>5, <1>6, <1>7, <1>8, <2>2
  <2>4. CASE IsMember(t, k.user)
    <3>1. Members(t)' \subseteq Members(t)
      BY <1>1, <2>4 DEF Members
    <3>2. t \notin undropped => Taken(t, {}) <= Seats
      BY <1>1, <1>10, ReservesFits
    <3>3. Taken(t, Used(t, n))' <= Taken(t, {})
      <4>1. PICK S : S = Used(t, n)'
        OBVIOUS
      <4>2. PendingOf(t)' \ S \subseteq PendingOf(t) \ {}
        BY <1>4
      <4>3. Taken(t, S)' <= Taken(t, {})
        BY <3>1, <4>2, TakenShrinks
      <4>4. QED BY <4>1, <4>3 DEF Taken
    <3>4. Taken(t, Used(t, n))' \in Nat
      <4>1. PICK S : S = Used(t, n)'
        OBVIOUS
      <4>2. QED BY <1>7, <4>1 DEF Taken
    <3>5. QED BY <1>5, <2>3, <3>2, <3>3, <3>4
  <2>5. CASE ~IsMember(t, k.user)
    <3>1. n.todo = Tail(k.todo)
      <4> HIDE DEF Due
      <4>1. QED BY <1>10, <2>5 DEF Remaining
    <3>2. <<Due(k), Due(n)>> \in Order[k.op]
      BY <1>1, <1>3, <3>1, NextDue
    <3>3. Due(n) = "drop_invitation"
      <4> PICK b : b = Due(n)
        OBVIOUS
      <4>1. <<"insert_member", b>> \in Order["accept"]
        BY <1>10, <2>1, <3>2
      <4>2. b = "drop_invitation"
        BY <4>1 DEF Order
      <4>3. QED BY <4>2
    <3> HIDE DEF Due
    <3>4. Used(t, n)' = {k.invitation}
      BY <1>2, <1>3, <3>3 DEF Used
    <3>5. Taken(t, Used(t, n))' = Taken(t, {k.invitation})'
      BY <3>4 DEF Taken
    <3>6. t \notin undropped => Taken(t, {k.invitation})' <= Seats
      BY <1>5, <1>7, <1>8, <2>2
    <3>7. QED BY <2>3, <3>5, <3>6
  <2>6. QED BY <2>4, <2>5
<1> HIDE DEF Due
<1>11. QED BY <1>9, <1>10 DEF Joining

LEMMA WritesSeat ==
    ASSUME Basics, NEW c \in Call, ~Idle(c), Alive(call[c]), Reserves(call[c]),
           WriteStep(c), ~InsertTeam(c),
           NEW n \in InFlight, Becomes(c, n), Same(n, call[c]), n.todo = Remaining(call[c]),
           NEW t \in Team
    PROVE  /\ Cardinality(Members(t)') <= Seats
           /\ t \notin undropped => Taken(t, Used(t, n))' <= Seats
<1> DEFINE k == call[c]
<1>1. TypeOK /\ Sound(k) /\ k \in InFlight /\ k.todo /= <<>> /\ Due(k) \in WriteCommands
  BY Writing, WriterDue DEF Basics, WriteOutcome
<1>2. Seats \in Nat \ {0}
  BY SeatsAssumption
<1>3. \A S : Taken(t, S) \in Nat /\ Cardinality(Members(t)) \in Nat
  BY TakenCounts
<1>4. PICK S : S = Used(t, n)'
  OBVIOUS
<1>5. Cardinality(Members(t)') \in Nat /\ Taken(t, S)' \in Nat
  <2>1. Members(t)' \subseteq User /\ PendingOf(t)' \ S \subseteq Invitation
    BY DEF Members, PendingOf
  <2>2. IsFiniteSet(Members(t)') /\ IsFiniteSet(PendingOf(t)' \ S)
    BY <2>1, FiniteAssumption, FS_Subset
  <2>3. Taken(t, S)' = Cardinality(Members(t)') + Cardinality(PendingOf(t)' \ S)
    BY DEF Taken
  <2>4. QED BY <2>2, <2>3, FS_CardinalityType
<1>6. Taken(t, Used(t, n))' = Taken(t, S)'
  BY <1>4 DEF Taken
<1>7. Cardinality(Members(t)) <= Seats
  BY ReservesFits
<1>8. CASE Members(t)' \subseteq Members(t) /\ InvitationsShrink
  <2>1. PendingOf(t)' \subseteq PendingOf(t)
    BY <1>8, PendingShrinks
  <2>2. CASE Due(k) /= "drop_invitation"
    <3>1. t \notin undropped => Taken(t, {}) <= Seats
      BY <2>2, ReservesFits
    <3>2. /\ Cardinality(Members(t)') <= Cardinality(Members(t))
          /\ Taken(t, S)' <= Taken(t, {})
      <4>1. PendingOf(t)' \ S \subseteq PendingOf(t) \ {}
        BY <2>1
      <4>2. QED BY <1>8, <4>1, TakenShrinks
    <3>3. QED BY <1>2, <1>3, <1>5, <1>6, <1>7, <3>1, <3>2
  <2>3. CASE Due(k) = "drop_invitation"
    <3>1. PendingOf(t)' \subseteq PendingOf(t) \ {k.invitation}
      BY <2>3, InvitationDropped
    <3>2. PICK R : R = Used(t, k)
      OBVIOUS
    <3>3. t \notin undropped => Taken(t, R) <= Seats
      BY <3>2 DEF Reserves, Fits
    <3>4. R \subseteq {k.invitation}
      BY <3>2 DEF Used
    <3>5. /\ Cardinality(Members(t)') <= Cardinality(Members(t))
          /\ Taken(t, S)' <= Taken(t, R)
      <4>1. PendingOf(t)' \ S \subseteq PendingOf(t) \ R
        BY <3>1, <3>4
      <4>2. QED BY <1>8, <4>1, TakenShrinks
    <3>6. QED BY <1>2, <1>3, <1>5, <1>6, <1>7, <3>3, <3>5
  <2>4. QED BY <2>2, <2>3
<1>9. CASE /\ InvitationsShrink /\ Due(k) \in Joining /\ k.team = t
           /\ Members(t)' \subseteq Members(t) \cup {k.user}
  BY <1>1, <1>9, JoinerSeated
<1>10. CASE /\ Due(k) = "insert_invitation" /\ UNCHANGED roles
            /\ \E i \in Invitation : InsertInvitation(i, k.team, k.address, k.role)
  <2> HIDE DEF Due
  <2>1. PICK i \in Invitation : InsertInvitation(i, k.team, k.address, k.role)
    BY <1>10
  <2>2. k.team \in Team
    <3>1. k.team \in Created
      BY <1>1, <1>10, WriterHolds DEF WriteCommands
    <3>2. QED BY <3>1, CreatedTeams
  <2>3. Members(t)' = Members(t)
    BY <1>10 DEF Members, IsMember
  <2>4. t \notin undropped => Taken(t, {}) <= Seats
    BY <1>10, ReservesFits
  <2>5. Taken(k.team, {}) < Seats
    BY <1>10 DEF Reserves
  <2>6. CASE t /= k.team
    <3>1. PendingOf(t)' \ S \subseteq PendingOf(t) \ {}
      BY <1>1, <2>1, <2>2, <2>6, InvitationSent
    <3>2. Taken(t, S)' <= Taken(t, {})
      BY <2>3, <3>1, TakenShrinks
    <3>3. QED BY <1>2, <1>3, <1>5, <1>6, <1>7, <2>3, <2>4, <3>2
  <2>7. CASE t = k.team
    <3>1. PendingOf(t)' \subseteq PendingOf(t) \cup {i}
      BY <1>1, <2>1, <2>2, <2>7, InvitationSent
    <3>2. S = {}
      <4>1. Due(n) \notin {"drop_invitation"}
        <5>1. Due(n) = "drop_invitation" => Due(k) = "insert_member"
          BY <1>1, AfterWriteNoSeat DEF Same
        <5>2. QED BY <1>10, <5>1
      <4>2. Due(n)' = Due(n)
        BY DEF Due
      <4>3. QED BY <1>4, <4>1, <4>2 DEF Used
    <3>3. Taken(t, S)' <= Taken(t, S) + 1
      <4>1. PendingOf(t)' \ S \subseteq (PendingOf(t) \ S) \cup {i}
        BY <3>1
      <4>2. QED BY <2>3, <4>1, TakenGrows
    <3>4. Taken(t, S) < Seats
      BY <2>5, <2>7, <3>2
    <3>5. QED BY <1>2, <1>3, <1>5, <1>6, <1>7, <2>3, <3>3, <3>4
  <2>8. QED BY <2>6, <2>7
<1>11. QED
  <2>1. \/ InvitationsShrink /\ Due(k) /= "insert_invitation"
        \/ /\ Due(k) = "insert_invitation" /\ UNCHANGED roles
           /\ \E i \in Invitation : InsertInvitation(i, k.team, k.address, k.role)
    BY InvitationsGrow
  <2>2. \/ Members(t)' \subseteq Members(t)
        \/ /\ Due(k) \in Joining /\ k.team = t
           /\ Members(t)' \subseteq Members(t) \cup {k.user}
    BY MembersGrow
  <2> HIDE DEF k, Due
  <2>3. QED BY <1>8, <1>9, <1>10, <2>1, <2>2

\* An invitation is sent only while the members counted and the invitations
\* leave a seat.
LEMMA RoomFound ==
    ASSUME TypeOK, NEW c \in Call, CountPending(c), NEW n \in InFlight, Reads(c, n), n.todo /= <<>>
    PROVE  ~(call[c].total + Cardinality(PendingOf(call[c].team)) >= Seats)
<1> DEFINE k == call[c]
           read == [k EXCEPT !.total = 0]
           code == IF k.total + Cardinality(PendingOf(k.team)) >= Seats THEN "seats" ELSE "ok"
<1>1. k \in InFlight /\ k.todo /= <<>> /\ Reads(c, Checked(read, code))
  BY Sending DEF CountPending
<1>2. n = Checked(read, code)
  BY <1>1, Stepped DEF Reads
<1>3. code \in Codes
  BY DEF Codes
<1>4. read \in InFlight /\ read.todo /= <<>>
  BY <1>1, Noted
<1>5. code = "ok"
  <2> HIDE DEF code, read
  <2>1. QED BY <1>2, <1>3, <1>4, Verdicts
<1>6. QED BY <1>5

LEMMA MembersCounted ==
    ASSUME TypeOK, NEW c \in Call, CountMembers(c), call[c].op /= "accept",
           NEW n \in InFlight, Reads(c, n)
    PROVE  n.total = Cardinality(Members(call[c].team))
<1> DEFINE k == call[c]
           x == Cardinality(Members(k.team))
           read == [k EXCEPT !.total = x]
<1>1. k \in InFlight /\ Reads(c, Proceeds(read))
  BY Sending DEF CountMembers
<1>2. n = Proceeds(read)
  BY <1>1, Stepped DEF Reads
<1>3. x \in Nat
  BY CountsAreNumbers
<1> HIDE DEF x
<1>4. read \in InFlight
  BY <1>1, <1>3, Noted
<1>5. read.total = x
  <2>1. PICK Numbers, Ids, Sets : InFlight = Shape(Numbers, Ids, Sets)
    BY Shaped
  <2> HIDE DEF k
  <2>2. QED BY <1>1, <1>3, <2>1 DEF Shape
<1> HIDE DEF read
<1>6. Proceeds(read).total = read.total
  <2>1. PICK Numbers, Ids, Sets : InFlight = Shape(Numbers, Ids, Sets)
    BY Shaped
  <2>2. QED BY <1>4, <2>1 DEF Shape, Proceeds
<1>7. QED BY <1>2, <1>5, <1>6 DEF x

\* Who accepts an invitation has a seat kept by it.
LEMMA InvitationHolds ==
    ASSUME TypeOK, NEW c \in Call, Sound(call[c]), FindInvitation(c), call[c].op = "accept",
           NEW n \in InFlight, Reads(c, n), n.todo /= <<>>
    PROVE  n.team \in Team /\ n.invitation \in PendingOf(n.team)
<1> DEFINE k == call[c]
<1>1. /\ k \in InFlight /\ k.invitation \in Invitation
      /\ n.team = invitations[k.invitation].team
      /\ n.invitation = k.invitation
      /\ invitations[k.invitation].pending
  <2>1. PICK m \in InFlight :
          /\ Reads(c, m) /\ Accepts(m, k)
          /\ \/ m.todo = <<>>
             \/ k.op = "accept" => invitations[k.invitation].pending
    BY InvitationFound
  <2>2. k \in InFlight /\ k.invitation \in Invitation
    BY InvitationFound
  <2>3. m = n
    BY <2>1, Stepped DEF Reads
  <2> HIDE DEF k
  <2>4. n.team = invitations[k.invitation].team /\ n.invitation = k.invitation
    BY <2>1, <2>3 DEF Accepts, k
  <2>5. QED BY <2>1, <2>2, <2>3, <2>4 DEF k
<1> HIDE DEF k
<1>2. n.team \in Team
  BY <1>1, PendingDocument
<1>3. QED BY <1>1, <1>2 DEF PendingOf, k

\* One invitation less.
LEMMA OneLess ==
    ASSUME NEW t, NEW i \in PendingOf(t), Taken(t, {}) <= Seats
    PROVE  Taken(t, {i}) < Seats
<1> DEFINE P == PendingOf(t)
<1>1. P \ {} = P /\ IsFiniteSet(P \ {}) /\ Cardinality(Members(t)) \in Nat
  BY TakenCounts
<1>2. /\ Taken(t, {}) = Cardinality(Members(t)) + Cardinality(P)
      /\ Taken(t, {i}) = Cardinality(Members(t)) + Cardinality(P \ {i})
  BY <1>1 DEF Taken
<1> HIDE DEF P
<1>3. Cardinality(P \ {i}) = Cardinality(P) - 1 /\ Cardinality(P) \in Nat
  BY <1>1, FS_RemoveElement, FS_CardinalityType DEF P
<1>4. QED BY <1>1, <1>2, <1>3, SeatsAssumption

LEMMA ReadsReserve ==
    ASSUME Basics, NEW c \in Call, ReadStep(c), Reserves(call[c]),
           NEW n \in InFlight, Reads(c, n)
    PROVE  Reserves(n)
<1> PICK k : k = call[c]
  OBVIOUS
<1>1. TypeOK /\ Reserves(k)
  BY DEF Basics
<1>2. /\ k \in InFlight /\ Sound(k) /\ k.todo /= <<>> /\ k.op \in Operations
      /\ n.op = k.op /\ n.invitation = k.invitation
      /\ Due(k) /= "find_invitation" => n.team = k.team
      /\ \/ Due(n) \in {"end", "find_requester", "delete_member", "set_role", "find_pending"}
         \/ <<Due(k), Due(n)>> \in Order[k.op]
  <2> HIDE DEF Due
  <2>1. QED BY ReadAhead
<1>3. Due(k) \notin WriteCommands
  <2>1. \E command \in PlainReads \cup {"find_team", "find_target", "find_invitation",
                                        "find_user", "find_invitee"} :
          Sends(c, command)
    BY DEF ReadStep, PlainReads, Authorize, CountOwned, FindSlug, FindTeam, FindTarget,
           FindRequester, FindInvitee, FindMember, FindPending, CountMembers, CountPending,
           FindUser, FindInvitation, FindMemo, FindDeletedMemo, Count, Find
  <2>2. \A command : Sends(c, command) => Due(k) = command
    BY <1>1, Sending
  <2> HIDE DEF Due
  <2>3. QED BY <2>1, <2>2 DEF PlainReads, WriteCommands
<1>4. \A t \in Team : /\ Cardinality(Members(t)) <= Seats
                      /\ t \notin undropped => Taken(t, {}) <= Seats
  <2>1. Due(k) /= "drop_invitation"
    BY <1>3 DEF WriteCommands
  <2>2. QED BY <1>1, <2>1, ReservesFits
<1> DEFINE Tells == {"find_team", "count_members", "count_pending", "insert_invitation",
                     "insert_member", "drop_invitation"}
<1>5. CASE Due(n) \notin Tells
  BY <1>4, <1>5, NothingReserved
<1>6. CASE Due(n) \in Tells
  <2>1. n.todo /= <<>>
    BY <1>6 DEF Due
  <2>2. /\ Due(k) = "count_members" => CountMembers(c)
        /\ Due(k) = "count_pending" => CountPending(c)
        /\ Due(k) = "find_invitation" => FindInvitation(c)
    BY <1>1, CountMembersDue
  <2> HIDE DEF Due
  <2>3. PICK a, b : a = Due(k) /\ b = Due(n) /\ <<a, b>> \in Order[k.op]
    BY <1>2, <1>6
  <2>4. /\ b = "insert_member" => a = "count_members" /\ k.op = "accept"
        /\ b = "insert_invitation" => a = "count_pending"
        /\ b = "count_pending" => a = "count_members" /\ k.op = "invite"
        /\ b = "count_members" /\ k.op = "accept" => a = "find_team"
        /\ b = "count_members" => k.op \in {"invite", "accept"}
        /\ b = "find_team" /\ k.op = "accept" => a = "find_invitation"
        /\ b = "drop_invitation" => a = "insert_member"
    BY <1>2, <2>3, SeatOrder
  <2>5. b /= "drop_invitation" /\ \A t \in Team : Fits(t, n)
    <3>1. b /= "drop_invitation"
      BY <1>3, <2>3, <2>4 DEF WriteCommands
    <3>2. QED BY <1>4, <2>3, <3>1 DEF Fits, Used
  <2>6. CASE b = "find_team" /\ k.op = "accept"
    <3>1. n.team \in Team /\ n.invitation \in PendingOf(n.team)
      BY <1>1, <1>2, <2>1, <2>2, <2>3, <2>4, <2>6, InvitationHolds
    <3>2. n.team \notin undropped => Taken(n.team, {n.invitation}) < Seats
      BY <1>4, <3>1, OneLess
    <3>3. QED BY <1>2, <2>3, <2>5, <2>6, <3>2 DEF Reserves
  <2>7. CASE b \in {"find_team", "count_members"} /\ k.op /= "accept"
    BY <1>2, <2>3, <2>5, <2>7 DEF Reserves
  <2>8. CASE b \in {"count_members", "insert_member"} /\ k.op = "accept"
    <3>1. a \in {"find_team", "count_members"}
      BY <2>4, <2>8
    <3>2. n.team = k.team
      BY <1>2, <2>3, <3>1
    <3>3. k.team \notin undropped => Taken(k.team, {k.invitation}) < Seats
      BY <1>1, <2>3, <2>8, <3>1 DEF Reserves
    <3>4. b = "insert_member" => Cardinality(Members(k.team)) < Seats
      BY <1>1, <1>2, <2>1, <2>2, <2>3, <2>4, <2>8, SeatFound
    <3>5. QED BY <1>2, <2>3, <2>5, <2>8, <3>2, <3>3, <3>4 DEF Reserves
  <2>9. CASE b = "count_pending"
    <3>1. n.total = Cardinality(Members(k.team)) /\ n.team = k.team
      BY <1>1, <1>2, <2>2, <2>3, <2>4, <2>9, MembersCounted
    <3>2. QED BY <1>2, <2>3, <2>4, <2>5, <2>9, <3>1 DEF Reserves
  <2>10. CASE b = "insert_invitation"
    <3>1. ~(k.total + Cardinality(PendingOf(k.team)) >= Seats) /\ n.team = k.team
      BY <1>1, <1>2, <2>1, <2>2, <2>3, <2>4, <2>10, RoomFound
    <3>2. k.total = Cardinality(Members(k.team))
      BY <1>1, <2>3, <2>4, <2>10 DEF Reserves
    <3>3. Taken(k.team, {}) < Seats
      <4>1. PendingOf(k.team) \ {} = PendingOf(k.team)
        OBVIOUS
      <4>2. /\ Taken(k.team, {}) = Cardinality(Members(k.team)) + Cardinality(PendingOf(k.team))
            /\ Taken(k.team, {}) \in Nat
        BY <4>1, TakenCounts DEF Taken
      <4>3. QED BY <3>1, <3>2, <4>2, SeatsAssumption
    <3>4. k.op = "invite"
      BY <1>2, <2>3, <2>4, <2>10, Roster
    <3>5. QED BY <1>2, <2>3, <2>5, <2>10, <3>1, <3>3, <3>4 DEF Reserves
  <2>11. QED BY <1>2, <1>6, <2>3, <2>4, <2>5, <2>6, <2>7, <2>8, <2>9, <2>10
<1>7. QED BY <1>5, <1>6

LEMMA SeatingKept ==
    ASSUME TypeOK, OneAtATime, ~scenario.overlap, NEW c \in Call,
           ~Idle(c) \/ \A d \in Call : Idle(d),
           NEW n, call' = [call EXCEPT ![c] = n], scenario' = scenario, Reserves(n)',
           n.op = "none" => n = NoCall
    PROVE  Seating'
<1>1. \A d \in Call : call'[d] = IF d = c THEN n ELSE call[d]
  BY DEF TypeOK
<1>2. \A d \in Call \ {c} : Idle(d)
  BY DEF OneAtATime
<1>3. \A d \in Call : ~Idle(d)' => d = c
  BY <1>1, <1>2 DEF Idle
<1>4. ASSUME NEW d \in Call, ~Idle(d)' PROVE Reserves(call[d])'
  <2>1. call'[d] = n /\ Reserves(n)'
    BY <1>1, <1>3, <1>4
  <2>2. QED BY <2>1 DEF Reserves, Fits, Used, Due
<1>5. Idle(c)' => Reserves(NoCall)'
  <2>1. Idle(c)' => n = NoCall
    BY <1>1 DEF Idle
  <2>2. QED BY <2>1
<1>6. QED BY <1>4, <1>5 DEF Seating

\* An invitation expires.
LEMMA ReservesExpire ==
    ASSUME NEW k, Reserves(k), UNCHANGED <<roles, undropped>>, InvitationsShrink
    PROVE  Reserves(k)'
<1>1. Due(k)' = Due(k)
  BY DEF Due
<1> HIDE DEF Due
<1>2. \A t : Used(t, k)' = Used(t, k)
  BY <1>1 DEF Used
<1>3. \A t : Members(t)' = Members(t) /\ PendingOf(t)' \subseteq PendingOf(t)
  BY PendingShrinks DEF Members, IsMember
<1>4. \A t, S : Taken(t, S)' <= Taken(t, S) /\ Taken(t, S) \in Nat /\ Taken(t, S)' \in Nat
  <2>1. ASSUME NEW t, NEW S
        PROVE  Taken(t, S)' <= Taken(t, S) /\ Taken(t, S) \in Nat /\ Taken(t, S)' \in Nat
    <3>1. Members(t)' \subseteq Members(t) /\ PendingOf(t)' \ S \subseteq PendingOf(t) \ S
      <4>1. Members(t)' = Members(t) /\ PendingOf(t)' \subseteq PendingOf(t)
        BY <1>3
      <4>2. QED BY <4>1
    <3>2. Taken(t, S)' <= Taken(t, S) /\ Taken(t, S) \in Nat
      BY <3>1, TakenShrinks, TakenCounts
    <3>3. Taken(t, S)' \in Nat
      <4>1. Members(t)' \subseteq User /\ PendingOf(t)' \ S \subseteq Invitation
        BY DEF Members, PendingOf
      <4>2. IsFiniteSet(Members(t)') /\ IsFiniteSet(PendingOf(t)' \ S)
        BY <4>1, FiniteAssumption, FS_Subset
      <4>3. QED BY <4>2, FS_CardinalityType DEF Taken
    <3>4. QED BY <3>2, <3>3
  <2>2. QED BY <2>1
<1>5. Seats \in Nat
  BY SeatsAssumption
<1>6. \A t \in Team : Fits(t, k)'
  <2>1. ASSUME NEW t \in Team PROVE Fits(t, k)'
    <3>1. PICK S : S = Used(t, k)
      OBVIOUS
    <3>2. Taken(t, Used(t, k))' = Taken(t, S)'
      BY <1>2, <3>1 DEF Taken
    <3>3. /\ Cardinality(Members(t)) <= Seats
          /\ t \notin undropped => Taken(t, S) <= Seats
      BY <3>1 DEF Reserves, Fits
    <3>4. Taken(t, S)' <= Taken(t, S) /\ Taken(t, S) \in Nat /\ Taken(t, S)' \in Nat
      BY <1>4
    <3>5. t \notin undropped => Taken(t, S)' <= Seats
      <4>1. PICK a, b : a = Taken(t, S) /\ b = Taken(t, S)'
        OBVIOUS
      <4>2. QED BY <1>5, <3>3, <3>4, <4>1
    <3>6. Members(t)' = Members(t) /\ undropped' = undropped
      BY <1>3
    <3>7. QED BY <3>2, <3>3, <3>5, <3>6 DEF Fits
  <2>2. QED BY <2>1
<1>7. \A t, S : Taken(t, S) < Seats => Taken(t, S)' < Seats
  <2>1. ASSUME NEW t, NEW S, Taken(t, S) < Seats PROVE Taken(t, S)' < Seats
    <3>1. PICK a, b : a = Taken(t, S) /\ b = Taken(t, S)'
      OBVIOUS
    <3>2. QED BY <1>4, <1>5, <2>1, <3>1
  <2>2. QED BY <2>1
<1> HIDE DEF Fits
<1>8. QED BY <1>1, <1>3, <1>6, <1>7 DEF Reserves

LEMMA SeatingStep == Basics /\ Ends /\ OneAtATime /\ Seating /\ [Next]_vars => Seating'
<1> SUFFICES ASSUME Basics, Ends, OneAtATime, Seating, [Next]_vars PROVE Seating'
  OBVIOUS
<1>1. TypeOK
  BY DEF Basics
<1>2. scenario' = scenario
  BY <1>1, ScenarioStays
<1>3. CASE scenario.overlap
  BY <1>2, <1>3 DEF Seating
<1>4. CASE ~scenario.overlap
  <2>1. /\ (\A c \in Call : Idle(c)) => Reserves(NoCall)
        /\ \A c \in Call : ~Idle(c) => Reserves(call[c])
    BY <1>4 DEF Seating
  <2>2. \A n \in InFlight : n.op /= "none"
    BY DEF InFlight, Operations, Routes
  <2>3. ASSUME NEW c \in Call, RequestArrives(c) PROVE Seating'
    <3>1. Arrives(c)
      BY <1>1, <2>3, Arrivals
    <3>2. PICK k \in InFlight : call' = [call EXCEPT ![c] = k] /\ Fresh(k)
      BY <3>1 DEF Arrives
    <3>3. UNCHANGED <<roles, invitations, undropped>> /\ \A d \in Call : Idle(d)
      BY <1>4, <3>1 DEF Arrives, storeVars
    <3>4. Reserves(k)
      <4>1. Due(k) \in {"authorize", "count_owned", "count", "find_user", "insert_memo",
                        "delete_memo"}
        BY <3>2 DEF Fresh
      <4>2. Due(NoCall) = "end" /\ Reserves(NoCall)
        BY <2>1, <3>3 DEF Due, NoCall
      <4> HIDE DEF Due
      <4>3. \A t \in Team : /\ Cardinality(Members(t)) <= Seats
                            /\ t \notin undropped => Taken(t, {}) <= Seats
        BY <4>2, ReservesFits
      <4>4. QED BY <4>1, <4>3, NothingReserved
    <3>5. Reserves(k)'
      BY <3>3, <3>4, ReservesLasts
    <3>6. QED BY <1>1, <1>2, <1>4, <2>2, <3>2, <3>3, <3>5, SeatingKept
  <2>4. ASSUME NEW c \in Call, ReadStep(c) PROVE Seating'
    <3>1. ~Idle(c)
      BY <2>4, ReaderBusy
    <3>2. Sound(call[c])
      BY <3>1 DEF Basics
    <3>3. PICK n \in InFlight : Reads(c, n)
      BY <1>1, <2>4, <3>2, ReadsSoundly DEF Basics
    <3>4. Reserves(n)
      BY <2>1, <2>4, <3>1, <3>3, ReadsReserve
    <3>5. UNCHANGED <<roles, invitations, undropped>> /\ Becomes(c, n)
      BY <3>3 DEF Reads, storeVars
    <3>6. Reserves(n)'
      BY <3>4, <3>5, ReservesLasts
    <3>7. QED BY <1>1, <1>2, <1>4, <2>2, <3>1, <3>5, <3>6, SeatingKept DEF Becomes
  <2>5. ASSUME NEW c \in Call, WriteStep(c), ~InsertTeam(c) PROVE Seating'
    <3>1. /\ ~Idle(c) /\ call[c] \in InFlight /\ call[c].todo /= <<>>
          /\ Due(call[c]) \in WriteCommands
      BY <1>1, <2>5, Writing, WriterDue DEF WriteOutcome
    <3>2. PICK n \in InFlight :
            Becomes(c, n) /\ Same(n, call[c]) /\ n.todo = Remaining(call[c])
      BY <1>1, <2>5, Writing DEF WriteOutcome
    <3>3. Sound(call[c]) /\ Alive(call[c]) /\ Reserves(call[c])
      BY <1>4, <2>1, <3>1 DEF Basics, Ends
    <3>4. Reserves(n)'
      <4>1. Due(n) \notin SeatCommands
        BY <3>1, <3>2, <3>3, AfterWriteNoSeat DEF Same
      <4>2. Due(n)' = Due(n)
        BY DEF Due
      <4>3. \A t \in Team : /\ Cardinality(Members(t)') <= Seats
                            /\ t \notin undropped => Taken(t, Used(t, n))' <= Seats
        BY <2>5, <3>1, <3>2, <3>3, WritesSeat
      <4>4. undropped' = undropped
        BY <2>5 DEF WriteStep, InsertOwner, UndoTeam, WriteTeam, DeleteMemos, DeleteMembers,
                    DeleteInvitations, DeleteTheTeam, Promote, Demote, HandOver, UndoDemote,
                    UndoPromote, DeleteTheMember, SetRole, InsertTheInvitation,
                    DeleteTheInvitation, InsertTheMember, DropInvitation, InsertTheMemo,
                    DeleteTheMemo
      <4> HIDE DEF Due
      <4>5. \A t \in Team : Fits(t, n)'
        BY <4>3, <4>4 DEF Fits
      <4> HIDE DEF Fits
      <4>6. QED BY <4>1, <4>2, <4>5 DEF Reserves, SeatCommands
    <3>5. QED BY <1>1, <1>2, <1>4, <2>2, <3>1, <3>2, <3>4, SeatingKept DEF Becomes
  <2>6. ASSUME NEW c \in Call, InsertTeam(c) PROVE Seating'
    <3>1. /\ call[c] \in InFlight /\ ~Idle(c) /\ call[c].todo /= <<>>
          /\ Due(call[c]) = "insert_team"
          /\ UNCHANGED <<roles, invitations, undropped>>
      BY <1>1, <2>6, Sending DEF InsertTeam
    <3>2. PICK n \in InFlight : Becomes(c, n) /\ Due(n) \in {"end", "insert_owner"}
      <4>1. CASE SlugIndexed(NoTeam, call[c].slug)
        <5>1. PICK n : n = Fails(call[c], <<>>, "duplicate")
          OBVIOUS
        <5>2. Becomes(c, n)
          BY <2>6, <4>1, <5>1 DEF InsertTeam
        <5>3. n \in InFlight /\ n.todo = <<>>
          <6>1. <<>> \in Seq(Commands) /\ "duplicate" \in Codes
            BY DEF Codes
          <6>2. QED BY <3>1, <5>1, <6>1, Outcomes DEF Same
        <5>4. Due(n) = "end"
          BY <5>3 DEF Due
        <5> HIDE DEF Due
        <5>5. QED BY <5>2, <5>3, <5>4
      <4>2. CASE ~SlugIndexed(NoTeam, call[c].slug)
        BY <1>1, <2>6, <4>2, TeamInserted DEF Basics
      <4>3. QED BY <4>1, <4>2
    <3>3. Reserves(n)
      <4> HIDE DEF Due
      <4>1. \A t \in Team : /\ Cardinality(Members(t)) <= Seats
                            /\ t \notin undropped => Taken(t, {}) <= Seats
        BY <2>1, <3>1, ReservesFits
      <4>2. QED BY <3>2, <4>1, NothingReserved
    <3>4. Reserves(n)'
      BY <3>1, <3>3, ReservesLasts
    <3>5. QED BY <1>1, <1>2, <1>4, <2>2, <3>1, <3>2, <3>4, SeatingKept DEF Becomes
  <2>7. ASSUME NEW c \in Call, Refuse(c) PROVE Seating'
    <3>1. ~Idle(c) /\ UNCHANGED <<roles, invitations>>
      BY <2>7 DEF Refuse, storeVars
    <3>2. /\ Reserves(call[c]) /\ Sound(call[c])
          /\ Due(call[c]) = "drop_invitation" => call[c].team \in undropped'
          /\ undropped \subseteq undropped'
      BY <2>1, <2>7, <3>1 DEF Basics, Refuse, Sends, Due
    <3>3. PICK n \in InFlight : Becomes(c, n)
      BY <1>1, <2>7, <3>2, RefusedLeaves
    <3>4. Due(n) \notin (SeatCommands \ {"find_pending"}) \cup {"drop_invitation"}
      BY <2>7, <3>3, RefusedNoSeat
    <3>5. Reserves(n)'
      <4>1. Due(n)' = Due(n)
        BY DEF Due
      <4> HIDE DEF Due
      <4>2. \A t \in Team : /\ Cardinality(Members(t)) <= Seats
                            /\ t \notin undropped' => Taken(t, {}) <= Seats
        <5>1. ASSUME NEW t \in Team
              PROVE  /\ Cardinality(Members(t)) <= Seats
                     /\ t \notin undropped' => Taken(t, {}) <= Seats
          BY <3>2, ReservesFits
        <5>2. QED BY <5>1
      <4>3. \A t \in Team : Fits(t, n)'
        <5>1. ASSUME NEW t \in Team PROVE Fits(t, n)'
          <6>1. Used(t, n)' = {}
            BY <3>4, <4>1 DEF Used
          <6>2. Taken(t, Used(t, n))' = Taken(t, {})
            BY <3>1, <6>1, SeatsUntouched DEF Taken
          <6>3. Members(t)' = Members(t)
            BY <3>1, SeatsUntouched
          <6>4. QED BY <4>2, <6>2, <6>3 DEF Fits
        <5>2. QED BY <5>1
      <4> HIDE DEF Fits
      <4>4. QED BY <3>4, <4>1, <4>3 DEF Reserves, SeatCommands
    <3>6. QED BY <1>1, <1>2, <1>4, <2>2, <3>1, <3>3, <3>5, SeatingKept DEF Becomes
  <2>8. ASSUME NEW c \in Call, Respond(c) PROVE Seating'
    <3>1. /\ ~Idle(c) /\ UNCHANGED <<roles, invitations, undropped>> /\ Becomes(c, NoCall)
          /\ call[c].todo = <<>>
      BY <2>8 DEF Respond, storeVars
    <3>2. Due(call[c]) = "end" /\ Due(NoCall) = "end" /\ Reserves(call[c])
      BY <2>1, <3>1 DEF Due, NoCall
    <3>3. Reserves(NoCall)
      <4> HIDE DEF Due
      <4>1. \A t \in Team : /\ Cardinality(Members(t)) <= Seats
                            /\ t \notin undropped => Taken(t, {}) <= Seats
        BY <3>2, ReservesFits
      <4>2. QED BY <3>2, <4>1, NothingReserved
    <3>4. Reserves(NoCall)'
      BY <3>1, <3>3, ReservesLasts
    <3>5. QED BY <1>1, <1>2, <1>4, <3>1, <3>4, SeatingKept DEF Becomes
  <2>9. CASE Expire
    <3>1. PICK i \in Invitation : ExpireInvitation(i)
      BY <2>9 DEF Expire
    <3>2. UNCHANGED <<roles, call, undropped>>
      BY <2>9 DEF Expire
    <3>3. InvitationsShrink
      <4> DEFINE d == [invitations[i] EXCEPT !.pending = FALSE]
      <4>1. invitations \in [Invitation -> InvitationDocument \cup {NotInvited}]
        BY <1>1 DEF TypeOK, StoreTypeOK
      <4>2. invitations' = [invitations EXCEPT ![i] = d]
        BY <3>1, <4>1 DEF ExpireInvitation
      <4>3. d.pending = FALSE
        BY <4>1 DEF InvitationDocument, NotInvited
      <4> HIDE DEF d
      <4>4. QED BY <4>1, <4>2, <4>3 DEF InvitationsShrink
    <3>4. \A k : Reserves(k) => Reserves(k)'
      BY <3>2, <3>3, ReservesExpire
    <3>5. (\A c \in Call : Idle(c))' => Reserves(NoCall)'
      BY <2>1, <3>2, <3>4 DEF Idle
    <3>6. ASSUME NEW c \in Call, ~Idle(c)' PROVE Reserves(call[c])'
      <4>1. PICK k : k = call[c]
        OBVIOUS
      <4>2. Reserves(k)' /\ call'[c] = k
        BY <2>1, <3>2, <3>4, <3>6, <4>1 DEF Idle
      <4>3. QED BY <4>2 DEF Reserves, Fits, Used, Due
    <3>7. QED BY <3>5, <3>6 DEF Seating
  <2>10. CASE EmailChanges \/ UserDeleted \/ UNCHANGED vars
    <3>1. UNCHANGED <<roles, invitations, call, undropped>>
      BY <2>10 DEF EmailChanges, UserDeleted, vars, storeVars
    <3>2. \A k : Reserves(k) => Reserves(k)'
      BY <3>1, ReservesLasts
    <3>3. (\A c \in Call : Idle(c))' => Reserves(NoCall)'
      BY <2>1, <3>1, <3>2 DEF Idle
    <3>4. ASSUME NEW c \in Call, ~Idle(c)' PROVE Reserves(call[c])'
      <4>1. PICK k : k = call[c]
        OBVIOUS
      <4>2. Reserves(k)' /\ call'[c] = k
        BY <2>1, <3>1, <3>2, <3>4, <4>1 DEF Idle
      <4>3. QED BY <4>2 DEF Reserves, Fits, Used, Due
    <3>5. QED BY <3>3, <3>4 DEF Seating
  <2>11. QED BY <2>3, <2>4, <2>5, <2>6, <2>7, <2>8, <2>9, <2>10 DEF Next
<1>5. QED BY <1>3, <1>4

LEMMA SeatsInitially == Init => CrowdBounded /\ Seating
<1> SUFFICES ASSUME Init PROVE CrowdBounded /\ Seating
  OBVIOUS
<1>1. \A t \in Team : Members(t) = {}
  BY DEF Init, StoreInit, Members, IsMember
<1>2. \A t : Boarding(t) = {}
  BY DEF Init, Boarding, NoCall, Due, Joining
<1>3. \A t : PendingOf(t) = {}
  BY DEF Init, StoreInit, NotInvited, PendingOf
<1>4. Cardinality({}) = 0 /\ Cardinality(Call) \in Nat /\ Seats \in Nat \ {0}
  BY FS_EmptySet, FS_CardinalityType, FiniteAssumption, SeatsAssumption
<1>5. CrowdBounded
  BY <1>1, <1>2, <1>4 DEF CrowdBounded
<1>6. Reserves(NoCall)
  <2>1. \A t \in Team : Cardinality(Members(t)) <= Seats /\ Taken(t, {}) <= Seats
    <3>1. ASSUME NEW t \in Team
          PROVE  Cardinality(Members(t)) <= Seats /\ Taken(t, {}) <= Seats
      <4>1. Members(t) = {} /\ PendingOf(t) \ {} = {}
        BY <1>1, <1>3
      <4>2. QED BY <1>4, <4>1 DEF Taken
    <3>2. QED BY <3>1
  <2>2. Due(NoCall) = "end"
    BY DEF Due, NoCall
  <2> HIDE DEF Due
  <2>3. QED BY <2>1, <2>2, NothingReserved
<1>7. \A c \in Call : Idle(c)
  BY DEF Init, Idle, NoCall
<1>8. QED BY <1>5, <1>6, <1>7 DEF Seating

\* The seats hold.  Whatever overlaps, a team gets at most one member too many
\* for each request after the first.  One request at a time, the members of a
\* team fit its seats always, and between requests its members and all of its
\* pending invitations do together, until an accepted invitation could not be
\* dropped: an invitation keeps a seat from the time it is sent to the time it
\* is taken.
THEOREM SeatsHold == Spec => []SeatsRespected
<1>1. Init => Basics /\ Ends /\ OneAtATime /\ CrowdBounded /\ Seating
  BY BasicsInitially, EndsInitially, SeatsInitially
<1>2. /\ Basics /\ Ends /\ OneAtATime /\ CrowdBounded /\ Seating
      /\ [Next]_vars
      => (Basics /\ Ends /\ OneAtATime /\ CrowdBounded /\ Seating)'
  BY BasicsStep, EndsStep, CrowdStep, SeatingStep
<1>3. Basics /\ CrowdBounded /\ Seating => SeatsRespected
  <2> SUFFICES ASSUME Basics, CrowdBounded, Seating, NEW t \in Team
               PROVE  /\ Cardinality(Members(t))
                           <= Seats + (IF scenario.overlap THEN Cardinality(Call) - 1 ELSE 0)
                      /\ AtRest /\ t \notin undropped =>
                           Cardinality(Members(t)) + Cardinality(PendingOf(t)) <= Seats
    BY DEF SeatsRespected
  <2>1. /\ TypeOK /\ Seats \in Nat /\ Cardinality(Call) \in Nat
        /\ Cardinality(Members(t)) \in Nat
    BY SeatsAssumption, FiniteAssumption, FS_CardinalityType, TakenCounts DEF Basics
  <2>2. Cardinality(Boarding(t)) \in Nat
    <3>1. Boarding(t) \subseteq Call
      BY DEF Boarding
    <3>2. QED BY <3>1, FiniteAssumption, FS_Subset, FS_CardinalityType
  <2>3. CASE scenario.overlap
    <3>1. Cardinality(Members(t)) + Cardinality(Boarding(t)) <= Seats + Cardinality(Call) - 1
      BY DEF CrowdBounded
    <3>2. QED BY <2>1, <2>2, <2>3, <3>1 DEF AtRest
  <2>4. CASE ~scenario.overlap
    <3>1. /\ (\A c \in Call : Idle(c)) => Reserves(NoCall)
          /\ \A c \in Call : ~Idle(c) => Reserves(call[c])
      BY <2>4 DEF Seating
    <3>2. \A k : Reserves(k) => Cardinality(Members(t)) <= Seats
      BY ReservesFits
    <3>3. Cardinality(Members(t)) <= Seats
      BY <3>1, <3>2
    <3>4. ASSUME \A c \in Call : Idle(c), t \notin undropped
          PROVE  Cardinality(Members(t)) + Cardinality(PendingOf(t)) <= Seats
      <4>1. Reserves(NoCall) /\ Due(NoCall) = "end"
        BY <3>1, <3>4 DEF Due, NoCall
      <4>2. Taken(t, {}) <= Seats
        <5> HIDE DEF Due
        <5>1. QED BY <3>4, <4>1, ReservesFits
      <4>3. PendingOf(t) \ {} = PendingOf(t)
        OBVIOUS
      <4>4. QED BY <4>2, <4>3 DEF Taken
    <3>5. QED BY <2>1, <2>4, <3>3, <3>4 DEF AtRest
  <2>5. QED BY <2>3, <2>4
<1>4. QED BY <1>1, <1>2, <1>3, PTL DEF Spec

-------------------------------------------------------------------------------
(* What requests are told.                                                 *)

\* What the handlers know of the answers of the services.
LEMMA HandlerCodes ==
    /\ \A op \in Operations :
         /\ "ok" \in DOMAIN Handlers[op] /\ Handlers[op]["ok"] \in {200, 201, 204}
         /\ {"forbidden", "error", "duplicate", "user_not_found"} \cap DOMAIN Handlers[op] = {}
    /\ {"limit", "slug_taken"} \subseteq DOMAIN Handlers["create_team"]
    /\ {"team_not_found", "slug_taken"} \subseteq DOMAIN Handlers["update_team"]
    /\ "team_not_found" \in DOMAIN Handlers["delete_team"]
    /\ "team_not_found" \in DOMAIN Handlers["get_team"]
    /\ {"not_member", "team_not_found"} \subseteq DOMAIN Handlers["transfer"]
    /\ {"not_member", "cannot_remove_owner", "cannot_remove_self", "insufficient"}
         \subseteq DOMAIN Handlers["remove_member"]
    /\ {"not_member", "cannot_change_owner", "insufficient"}
         \subseteq DOMAIN Handlers["update_role"]
    /\ {"not_member", "owner_cannot_leave"} \subseteq DOMAIN Handlers["leave"]
    /\ {"already_member", "pending", "seats"} \subseteq DOMAIN Handlers["invite"]
    /\ "invitation_not_found" \in DOMAIN Handlers["cancel"]
    /\ {"invitation_not_found", "mismatch", "expired", "seats"} \subseteq DOMAIN Handlers["accept"]
    /\ {"invitation_not_found", "mismatch"} \subseteq DOMAIN Handlers["decline"]
    /\ "memo_not_found" \in DOMAIN Handlers["get_memo"]
    /\ "memo_not_found" \in DOMAIN Handlers["delete_memo"]
    /\ {"memo_not_found", "memo_unauthorized"} \subseteq DOMAIN Handlers["delete_own_memo"]
BY DEF Handlers, Operations, Routes, CreateTeamHandler, ListTeamsHandler, GetTeamHandler,
       UpdateTeamHandler, DeleteTeamHandler, TransferOwnershipHandler, ListMembersHandler,
       RemoveMemberHandler, UpdateRoleHandler, LeaveTeamHandler, CreateInvitationHandler,
       ListTeamInvitationsHandler, CancelInvitationHandler, ListMyInvitationsHandler,
       AcceptInvitationHandler, DeclineInvitationHandler, ListVoiceMemosHandler,
       ListTeamVoiceMemosHandler, CreateVoiceMemoHandler, CreateTeamVoiceMemoHandler,
       GetTeamVoiceMemoHandler, DeleteVoiceMemoHandler, DeleteTeamVoiceMemoHandler

\* What a step makes of the answer, and of the note that something was written.
LEMMA Words ==
    ASSUME NEW k \in InFlight
    PROVE  /\ Proceeds(k).code = k.code /\ Proceeds(k).wrote = k.wrote
           /\ Wrote(k).code = k.code /\ Wrote(k).wrote = TRUE
           /\ \A s, code : Fails(k, s, code).code = code /\ Fails(k, s, code).wrote = k.wrote
           /\ \A code : /\ Checked(k, code).code = IF code = "ok" THEN k.code ELSE code
                        /\ Checked(k, code).wrote = k.wrote
           /\ [k EXCEPT !.refused = TRUE].code = k.code
           /\ [k EXCEPT !.refused = TRUE].wrote = k.wrote
<1>1. PICK Numbers, Ids, Sets : InFlight = Shape(Numbers, Ids, Sets)
  BY Shaped
<1>2. QED BY <1>1 DEF Shape, Proceeds, Wrote, Fails, Checked

\* The user asks for her invitations, though she was deleted.
Unregistered(k) == k.op \in {"my_invitations", "accept", "decline"} /\ emails[k.user] = NoEmail

\* The answer a request has so far, when a command reads.
Says(n, k) ==
    /\ n.wrote = k.wrote
    /\ \/ n.code = k.code
       \/ n.todo = <<>> /\ (n.code = "forbidden" \/ n.code \in DOMAIN Handlers[k.op])
       \/ n.todo = <<>> /\ n.code = "user_not_found" /\ Unregistered(k)

LEMMA CheckedSays ==
    ASSUME NEW k \in InFlight, NEW r \in InFlight, r.wrote = k.wrote, r.code = k.code,
           r.todo /= <<>>, NEW code \in Codes,
           code \in {"ok", "forbidden"} \/ code \in DOMAIN Handlers[k.op]
    PROVE  Says(Checked(r, code), k)
<1>1. /\ Checked(r, code).wrote = k.wrote
      /\ Checked(r, code).code = IF code = "ok" THEN k.code ELSE code
      /\ Checked(r, code).todo = IF code = "ok" THEN Tail(r.todo) ELSE <<>>
  <2>1. /\ Checked(r, code).wrote = r.wrote
        /\ Checked(r, code).code = IF code = "ok" THEN r.code ELSE code
    BY Words
  <2>2. Checked(r, code).todo = IF code = "ok" THEN Tail(r.todo) ELSE <<>>
    BY Verdicts
  <2>3. QED BY <2>1, <2>2
<1> HIDE DEF Checked
<1>2. QED BY <1>1 DEF Says

\* What the notes of a read leave as it was.
LEMMA NotesSay ==
    ASSUME NEW k \in InFlight
    PROVE  /\ \A x : Says(Proceeds([k EXCEPT !.total = x]), k)
           /\ \A x, y : Says(Proceeds([k EXCEPT !.items = y, !.total = x]), k)
           /\ \A y : Says(Proceeds([k EXCEPT !.shown = y]), k)
           /\ \A x, y : Says(Proceeds([k EXCEPT !.owner = x, !.slug = y]), k)
           /\ \A x : Says([Proceeds(k) EXCEPT !.address = x], k)
           /\ \A x : Says([Proceeds(k) EXCEPT !.target = x], k)
           /\ Says(Proceeds(k), k) /\ Says(Proceeds(Proceeds(k)), k)
<1>1. PICK Numbers, Ids, Sets : InFlight = Shape(Numbers, Ids, Sets)
  BY Shaped
<1>2. QED BY <1>1 DEF Shape, Proceeds, Says

LEMMA ReadsSay ==
    ASSUME TypeOK, NEW c \in Call, Sound(call[c]), Alive(call[c]), ReadStep(c),
           NEW n \in InFlight, Reads(c, n)
    PROVE  Says(n, call[c])
<1> DEFINE k == call[c]
<1>1. ASSUME NEW m, Reads(c, m), Says(m, k) PROVE Says(n, k)
  <2>1. m = n
    BY <1>1, Stepped DEF Reads
  <2>2. QED BY <1>1, <2>1
<1>2. ASSUME NEW command, Sends(c, command)
      PROVE  /\ k \in InFlight /\ k.todo /= <<>> /\ Due(k) = command
             /\ command = "count_owned" => k.op = "create_team"
             /\ command = "find_slug" => k.op \in {"create_team", "update_team"}
             /\ command = "find_team" =>
                  k.op \in {"get_team", "update_team", "transfer", "invite", "accept"}
             /\ command = "find_target" =>
                  k.op \in {"transfer", "remove_member", "update_role", "leave"}
             /\ command = "find_requester" => k.op \in {"remove_member", "update_role"}
             /\ command \in {"find_invitee", "find_member", "find_pending", "count_pending"} =>
                  k.op = "invite"
             /\ command = "find_user" => k.op \in {"my_invitations", "accept", "decline"}
             /\ command = "find_invitation" => k.op \in {"cancel", "accept", "decline"}
             /\ command = "find_memo" => k.op = "get_memo"
             /\ command = "find_deleted_memo" => k.op \in {"delete_memo", "delete_own_memo"}
             /\ k.op \in Operations
  <2>1. k \in InFlight /\ k.todo /= <<>> /\ Due(k) = command
    BY <1>2, Sending
  <2>2. PICK b : <<command, b>> \in Order[k.op] /\ k.op \in Operations
    BY <2>1, DueInOrder
  <2>3. QED BY <2>1, <2>2, Roster
<1>3. ASSUME NEW command, Sends(c, command), NEW code \in Codes, Reads(c, Checked(k, code)),
             code \in {"ok", "forbidden"} \/ code \in DOMAIN Handlers[k.op]
      PROVE  Says(n, k)
  <2>1. Says(Checked(k, code), k)
    BY <1>2, <1>3, CheckedSays
  <2>2. QED BY <1>1, <1>3, <2>1
<1>4. CASE Authorize(c)
  BY <1>3, <1>4 DEF Authorize, Codes
<1>5. CASE CountOwned(c)
  <2>1. /\ Sends(c, "count_owned")
        /\ Reads(c, Checked(k, IF TeamsOwnedBy(k.user) = {} THEN "ok" ELSE "limit"))
    BY <1>5 DEF CountOwned
  <2>2. k.op = "create_team"
    BY <1>2, <2>1
  <2>3. QED BY <1>3, <2>1, <2>2, HandlerCodes DEF Codes
<1>6. CASE FindSlug(c)
  <2>1. /\ Sends(c, "find_slug")
        /\ Reads(c, Checked(k, IF FindBySlug(k.slug) \ {k.team} = {}
                                 THEN "ok" ELSE "slug_taken"))
    BY <1>6 DEF FindSlug
  <2>2. k.op \in {"create_team", "update_team"}
    BY <1>2, <2>1
  <2>3. QED BY <1>3, <2>1, <2>2, HandlerCodes DEF Codes
<1>7. CASE FindTeam(c)
  <2> DEFINE owner == IF k.op = "update_team" THEN teams[k.team].owner ELSE k.owner
             slug == IF k.op \in {"update_team", "transfer"} /\ k.slug = NoSlug
                       THEN teams[k.team].slug ELSE k.slug
             read == [k EXCEPT !.owner = owner, !.slug = slug]
  <2>1. /\ Sends(c, "find_team")
        /\ Reads(c, IF LiveTeam(k.team) THEN Proceeds(read) ELSE Fails(k, <<>>, "team_not_found"))
    BY <1>7 DEF FindTeam
  <2>2. k \in InFlight /\ Due(k) = "find_team"
    BY <1>2, <2>1
  <2>3. k.op \in {"get_team", "update_team", "transfer", "invite", "accept"}
    BY <1>2, <2>1
  <2>4. CASE LiveTeam(k.team)
    BY <1>1, <2>1, <2>2, <2>4, NotesSay
  <2>5. CASE ~LiveTeam(k.team)
    <3>1. k.op \notin {"invite", "accept"}
      <4> HIDE DEF k, Due
      <4>1. QED BY <2>2, <2>5 DEF Alive, Routes, k
    <3>2. "team_not_found" \in DOMAIN Handlers[k.op] /\ "team_not_found" \in Codes
      BY <2>3, <3>1, HandlerCodes DEF Codes
    <3>3. Reads(c, Checked(k, "team_not_found"))
      BY <2>1, <2>5 DEF Checked
    <3>4. QED BY <1>3, <2>1, <3>2, <3>3
  <2>6. QED BY <2>4, <2>5
<1>8. CASE FindTarget(c)
  <2> DEFINE role == roles[k.team][k.target]
             read == IF k.op = "transfer" THEN [k EXCEPT !.role = role]
                     ELSE IF k.op /= "leave" /\ role = "member" THEN Proceeds(k) ELSE k
             code == TargetVerdict(k, role)
  <2>1. Sends(c, "find_target") /\ Reads(c, Checked(read, code))
    BY <1>8 DEF FindTarget
  <2>2. k \in InFlight /\ k.todo /= <<>> /\ Due(k) = "find_target"
    BY <1>2, <2>1
  <2>3. k.op \in {"transfer", "remove_member", "update_role", "leave"}
    BY <1>2, <2>1
  <2>4. code \in Codes /\ (code = "ok" \/ code \in DOMAIN Handlers[k.op])
    <3>1. PICK op : op = k.op /\ op \in {"transfer", "remove_member", "update_role", "leave"}
      BY <2>3
    <3> HIDE DEF role, k
    <3>2. /\ code \in {"ok", "not_member", "cannot_remove_owner", "cannot_change_owner",
                       "owner_cannot_leave", "cannot_remove_self"}
          /\ code = "cannot_remove_owner" => op = "remove_member"
          /\ code = "cannot_change_owner" => op = "update_role"
          /\ code = "owner_cannot_leave" => op = "leave"
          /\ code = "cannot_remove_self" => op = "remove_member"
      BY <3>1 DEF TargetVerdict
    <3> HIDE DEF code
    <3>3. QED BY <3>1, <3>2, HandlerCodes DEF Codes
  <2>5. read \in InFlight /\ read.wrote = k.wrote /\ read.code = k.code /\ read.todo /= <<>>
    <3>1. Tail(k.todo) /= <<>>
      <4>1. /\ k.op \in Operations
            /\ <<Due(k), IF Tail(k.todo) = <<>> THEN "end" ELSE Head(Tail(k.todo))>> \in Order[k.op]
        BY <1>2, <2>1, <2>2, PathAdvances DEF Sound, Due
      <4>2. PICK a, b : /\ a = Due(k) /\ b = (IF Tail(k.todo) = <<>> THEN "end" ELSE Head(Tail(k.todo)))
                        /\ <<a, b>> \in Order[k.op]
        BY <4>1
      <4> HIDE DEF Due, k
      <4>3. b \in {"find_requester", "delete_member", "find_team"}
        BY <2>2, <2>3, <4>1, <4>2, Successor
      <4>4. QED BY <4>2, <4>3
    <3>2. CASE k.op = "transfer"
      <4>1. read = [k EXCEPT !.role = role] /\ role \in Role \cup {"none"}
        <5>1. k.team \in Created /\ k.team \in Team /\ k.target \in User
          BY <2>2, <2>3, RecordedMemos DEF Sound, Knows, Routes
        <5>2. QED BY <3>2, <5>1 DEF TypeOK, StoreTypeOK
      <4> HIDE DEF k, read, role
      <4>2. PICK Numbers, Ids, Sets : InFlight = Shape(Numbers, Ids, Sets)
        BY Shaped
      <4>3. QED BY <2>2, <4>1, <4>2 DEF Shape
    <3>3. CASE k.op /= "transfer" /\ k.op /= "leave" /\ role = "member"
      <4>1. read = Proceeds(k)
        BY <3>3
      <4> HIDE DEF k, read
      <4>2. Same(Proceeds(k), k) /\ Proceeds(k).todo = Tail(k.todo)
        BY <2>2, Outcomes
      <4>3. Proceeds(k).wrote = k.wrote /\ Proceeds(k).code = k.code
        BY <2>2, Words
      <4>4. QED BY <3>1, <4>1, <4>2, <4>3 DEF Same
    <3>4. CASE k.op /= "transfer" /\ ~(k.op /= "leave" /\ role = "member")
      <4>1. read = k
        BY <3>4
      <4> HIDE DEF k, read
      <4>2. QED BY <2>2, <4>1
    <3>5. QED BY <3>2, <3>3, <3>4
  <2> HIDE DEF read, code
  <2>6. Says(Checked(read, code), k)
    BY <2>2, <2>4, <2>5, CheckedSays
  <2>7. QED BY <1>1, <2>1, <2>6
<1>9. CASE FindRequester(c)
  <2> DEFINE code == CASE roles[k.team][k.user] /= "owner" -> "insufficient"
                       [] roles[k.team][k.user] = "owner" /\ k.op = "remove_member"
                          /\ k.target = k.user -> "cannot_remove_self"
                       [] OTHER -> "ok"
  <2>1. Sends(c, "find_requester") /\ Reads(c, Checked(k, code))
    BY <1>9 DEF FindRequester
  <2>2. k.op \in {"remove_member", "update_role"}
    BY <1>2, <2>1
  <2>3. /\ code \in {"ok", "insufficient", "cannot_remove_self"}
        /\ code = "cannot_remove_self" => k.op = "remove_member"
    OBVIOUS
  <2> HIDE DEF code
  <2>4. code \in Codes /\ (code = "ok" \/ code \in DOMAIN Handlers[k.op])
    BY <2>2, <2>3, HandlerCodes DEF Codes
  <2>5. QED BY <1>3, <2>1, <2>4
<1>10. CASE FindMember(c) \/ FindPending(c)
  <2>1. PICK command \in {"find_member", "find_pending"},
             code \in {"ok", "already_member", "pending"} :
          Sends(c, command) /\ Reads(c, Checked(k, code))
    BY <1>10 DEF FindMember, FindPending
  <2>2. k.op = "invite"
    BY <1>2, <2>1
  <2>3. code \in Codes /\ (code = "ok" \/ code \in DOMAIN Handlers[k.op])
    BY <2>1, <2>2, HandlerCodes DEF Codes
  <2>4. QED BY <1>3, <2>1, <2>3
<1>11. CASE CountMembers(c)
  <2> DEFINE count == Cardinality(Members(k.team))
  <2>1. Sends(c, "count_members")
    BY <1>11 DEF CountMembers
  <2>2. k \in InFlight
    BY <1>2, <2>1
  <2>3. CASE k.op = "accept"
    <3>1. PICK code \in {"ok", "seats"} : Reads(c, Checked(k, code))
      BY <1>11, <2>3 DEF CountMembers
    <3>2. code \in Codes /\ (code = "ok" \/ code \in DOMAIN Handlers[k.op])
      BY <2>3, <3>1, HandlerCodes DEF Codes
    <3>3. QED BY <1>3, <2>1, <3>1, <3>2
  <2>4. CASE k.op /= "accept"
    <3>1. Reads(c, Proceeds([k EXCEPT !.total = count]))
      BY <1>11, <2>4 DEF CountMembers
    <3>2. QED BY <1>1, <2>2, <3>1, NotesSay
  <2>5. QED BY <2>3, <2>4
<1>12. CASE CountPending(c)
  <2> DEFINE r == [k EXCEPT !.total = 0]
             code == IF k.total + Cardinality(PendingOf(k.team)) >= Seats THEN "seats" ELSE "ok"
  <2>1. Sends(c, "count_pending") /\ Reads(c, Checked(r, code))
    BY <1>12 DEF CountPending
  <2>2. k \in InFlight /\ k.todo /= <<>> /\ k.op = "invite"
    BY <1>2, <2>1
  <2>3. code \in Codes /\ (code = "ok" \/ code \in DOMAIN Handlers[k.op])
    BY <2>2, HandlerCodes DEF Codes
  <2>4. r \in InFlight /\ r.todo = k.todo /\ r.wrote = k.wrote /\ r.code = k.code
    <3> HIDE DEF k
    <3>1. PICK Numbers, Ids, Sets : InFlight = Shape(Numbers, Ids, Sets)
      BY Shaped
    <3>2. QED BY <2>2, <3>1 DEF Shape
  <2> HIDE DEF r, code
  <2>5. Says(Checked(r, code), k)
    BY <2>2, <2>3, <2>4, CheckedSays
  <2>6. QED BY <1>1, <2>1, <2>5
<1>13. CASE FindInvitation(c)
  <2> DEFINE doc == invitations[k.invitation]
             read == IF k.op = "accept" THEN [k EXCEPT !.team = doc.team, !.role = doc.role] ELSE k
             code == InvitationVerdict(k, doc)
  <2>1. Sends(c, "find_invitation") /\ Reads(c, Checked(read, code))
    BY <1>13 DEF FindInvitation
  <2>2. k \in InFlight /\ k.todo /= <<>>
    BY <1>2, <2>1
  <2>3. k.op \in {"cancel", "accept", "decline"}
    BY <1>2, <2>1
  <2>4. /\ code \in {"ok", "invitation_not_found", "mismatch", "expired"}
        /\ code = "mismatch" => k.op \in {"accept", "decline"}
        /\ code = "expired" => k.op = "accept"
    <3> HIDE DEF k, doc
    <3>1. QED BY <2>3 DEF InvitationVerdict
  <2> HIDE DEF code
  <2>5. code \in Codes /\ (code = "ok" \/ code \in DOMAIN Handlers[k.op])
    BY <2>3, <2>4, HandlerCodes DEF Codes
  <2>6. read \in InFlight /\ read.wrote = k.wrote /\ read.code = k.code /\ read.todo = k.todo
    <3>1. doc.team \in Team \cup {NoTeam} /\ doc.role \in Role \cup {"none"}
      <4>1. k.invitation \in Invitation
        BY <2>2, <2>3 DEF Sound, Knows
      <4>2. doc \in InvitationDocument \cup {NotInvited}
        BY <4>1 DEF TypeOK, StoreTypeOK
      <4> HIDE DEF doc
      <4>3. QED BY <4>2 DEF InvitationDocument, NotInvited, Role, Given
    <3> HIDE DEF k, doc
    <3>2. PICK Numbers, Ids, Sets : InFlight = Shape(Numbers, Ids, Sets)
      BY Shaped
    <3>3. CASE k.op = "accept"
      <4>1. read = [k EXCEPT !.team = doc.team, !.role = doc.role]
        BY <3>3
      <4> HIDE DEF read
      <4>2. QED BY <2>2, <3>1, <3>2, <4>1 DEF Shape
    <3>4. CASE k.op /= "accept"
      BY <2>2, <3>4
    <3>5. QED BY <3>3, <3>4
  <2> HIDE DEF read
  <2>7. Says(Checked(read, code), k)
    BY <2>2, <2>5, <2>6, CheckedSays
  <2>8. QED BY <1>1, <2>1, <2>7
<1>14. CASE FindMemo(c) \/ FindDeletedMemo(c)
  <2>1. PICK command \in {"find_memo", "find_deleted_memo"},
             code \in {"ok", "memo_not_found", "memo_unauthorized"} :
          /\ Sends(c, command) /\ Reads(c, Checked(k, code))
          /\ code = "memo_unauthorized" => k.op = "delete_own_memo"
    <3>1. CASE FindMemo(c)
      BY <3>1 DEF FindMemo
    <3>2. CASE FindDeletedMemo(c)
      <4>1. /\ DeletedVerdict(k) \in {"ok", "memo_not_found", "memo_unauthorized"}
            /\ DeletedVerdict(k) = "memo_unauthorized" => k.op = "delete_own_memo"
        BY DEF DeletedVerdict
      <4>2. QED BY <3>2, <4>1 DEF FindDeletedMemo
    <3>3. QED BY <1>14, <3>1, <3>2
  <2>2. k.op \in {"get_memo", "delete_memo", "delete_own_memo"}
    BY <1>2, <2>1
  <2>3. code \in Codes /\ (code = "ok" \/ code \in DOMAIN Handlers[k.op])
    BY <2>1, <2>2, HandlerCodes DEF Codes
  <2>4. QED BY <1>3, <2>1, <2>3
<1>15. CASE Count(c)
  <2>1. Sends(c, "count") /\ Reads(c, Proceeds([k EXCEPT !.total = Len(Listing(k))]))
    BY <1>15 DEF Count
  <2>2. k \in InFlight
    BY <1>2, <2>1
  <2>3. PICK x : x = Len(Listing(k))
    OBVIOUS
  <2>4. Reads(c, Proceeds([k EXCEPT !.total = x])) /\ Says(Proceeds([k EXCEPT !.total = x]), k)
    BY <2>1, <2>2, <2>3, NotesSay
  <2>5. QED BY <1>1, <2>4
<1>16. CASE Find(c)
  <2>1. Sends(c, "find")
    BY <1>16 DEF Find
  <2>2. k \in InFlight
    BY <1>2, <2>1
  <2>3. \/ \E x, y : Reads(c, Proceeds([k EXCEPT !.items = y, !.total = x]))
        \/ \E y : Reads(c, Proceeds([k EXCEPT !.shown = y]))
    <3>1. CASE k.op \in {"list_teams", "list_memos", "list_own_memos"}
      BY <1>16, <3>1 DEF Find
    <3>2. CASE k.op \notin {"list_teams", "list_memos", "list_own_memos"}
      BY <1>16, <3>2 DEF Find
    <3>3. QED BY <3>1, <3>2
  <2>4. CASE \E x, y : Reads(c, Proceeds([k EXCEPT !.items = y, !.total = x]))
    <3>1. PICK x, y : Reads(c, Proceeds([k EXCEPT !.items = y, !.total = x]))
      BY <2>4
    <3>2. Says(Proceeds([k EXCEPT !.items = y, !.total = x]), k)
      BY <2>2, NotesSay
    <3>3. QED BY <1>1, <3>1, <3>2
  <2>5. CASE \E y : Reads(c, Proceeds([k EXCEPT !.shown = y]))
    <3>1. PICK y : Reads(c, Proceeds([k EXCEPT !.shown = y]))
      BY <2>5
    <3>2. Says(Proceeds([k EXCEPT !.shown = y]), k)
      BY <2>2, NotesSay
    <3>3. QED BY <1>1, <3>1, <3>2
  <2>6. QED BY <2>3, <2>4, <2>5
<1>17. CASE FindInvitee(c)
  <2>1. \/ \E u : Reads(c, [Proceeds(k) EXCEPT !.target = u])
        \/ Reads(c, Proceeds(Proceeds(k)))
    BY <1>17 DEF FindInvitee
  <2>2. k \in InFlight
    BY <1>2, <1>17 DEF FindInvitee
  <2>3. CASE \E u : Reads(c, [Proceeds(k) EXCEPT !.target = u])
    <3>1. PICK u : Reads(c, [Proceeds(k) EXCEPT !.target = u])
      BY <2>3
    <3>2. Says([Proceeds(k) EXCEPT !.target = u], k)
      BY <2>2, NotesSay
    <3>3. QED BY <1>1, <3>1, <3>2
  <2>4. CASE Reads(c, Proceeds(Proceeds(k)))
    BY <1>1, <2>2, <2>4, NotesSay
  <2>5. QED BY <2>1, <2>3, <2>4
<1>18. CASE FindUser(c)
  <2>1. /\ Sends(c, "find_user")
        /\ \/ \E x : Reads(c, [Proceeds(k) EXCEPT !.address = x])
           \/ emails[k.user] = NoEmail /\ Reads(c, Fails(k, <<>>, "user_not_found"))
    BY <1>18 DEF FindUser
  <2>2. k \in InFlight /\ k.todo /= <<>> /\ k.op \in {"my_invitations", "accept", "decline"}
    BY <1>2, <2>1
  <2>3. CASE \E x : Reads(c, [Proceeds(k) EXCEPT !.address = x])
    <3>1. PICK x : Reads(c, [Proceeds(k) EXCEPT !.address = x])
      BY <2>3
    <3>2. Says([Proceeds(k) EXCEPT !.address = x], k)
      BY <2>2, NotesSay
    <3>3. QED BY <1>1, <3>1, <3>2
  <2>4. CASE emails[k.user] = NoEmail /\ Reads(c, Fails(k, <<>>, "user_not_found"))
    <3> DEFINE m == Fails(k, <<>>, "user_not_found")
    <3>1. m.todo = <<>> /\ m.code = "user_not_found" /\ m.wrote = k.wrote
      <4>1. m.todo = <<>>
        <5>1. <<>> \in Seq(Commands) /\ "user_not_found" \in Codes
          BY EmptySeq DEF Codes
        <5>2. QED BY <2>2, <5>1, Outcomes
      <4>2. \A s, code : Fails(k, s, code).code = code /\ Fails(k, s, code).wrote = k.wrote
        BY <2>2, Words
      <4> HIDE DEF k
      <4>3. QED BY <4>1, <4>2
    <3>2. Unregistered(k)
      BY <2>2, <2>4 DEF Unregistered
    <3>3. Says(m, k)
      <4> HIDE DEF m, k
      <4>1. QED BY <3>1, <3>2 DEF Says
    <3>4. QED BY <1>1, <2>4, <3>3
  <2>5. QED BY <2>1, <2>3, <2>4
<1>19. QED
  BY <1>4, <1>5, <1>6, <1>7, <1>8, <1>9, <1>10, <1>11, <1>12, <1>13, <1>14, <1>15, <1>16,
     <1>17, <1>18
     DEF ReadStep

\* Where a request may be that has written, and the undoing of what it wrote.
Undoing == {"undo_team", "undo_demote", "undo_promote"}

Later ==
    {"end", "insert_owner", "delete_members", "delete_invitations", "delete_team", "demote",
     "hand_over", "drop_invitation"} \cup Undoing

\* Why a command that writes has nothing to write, and what its request is told.
Fault(k, code) ==
    \/ Due(k) \in {"update_team", "hand_over"} /\ code = WriteVerdict(k) /\ code /= "ok"
    \/ Due(k) = "delete_team" /\ ~LiveTeam(k.team) /\ code = "team_not_found"
    \/ /\ Due(k) \in {"promote", "delete_member", "set_role"}
       /\ ~IsMember(k.team, k.target) /\ code = "not_member"
    \/ Due(k) = "demote" /\ ~IsMember(k.team, k.user) /\ code = "not_member"
    \/ Due(k) = "delete_invitation" /\ code = "invitation_not_found"
    \/ Due(k) = "insert_member" /\ IsMember(k.team, k.user) /\ code = "duplicate"

\* The answer a request has so far, when a command writes.
WriteSays(n, k) ==
    \/ /\ n.wrote = TRUE /\ n.code = k.code
       /\ Due(n) \in Later \ Undoing /\ Due(k) \notin Undoing
    \/ /\ n.wrote = k.wrote /\ n.code = k.code
       /\ \/ /\ Due(k) \in Undoing \cup {"drop_invitation"}
             /\ Due(n) = "end" \/ (Due(n) = "undo_promote" /\ Due(k) \in Undoing)
          \/ Due(k) = "delete_memo" /\ Due(n) = "find_deleted_memo"
    \/ /\ n.wrote = k.wrote /\ Fault(k, n.code) /\ Due(n) \in Undoing \cup {"end"}
       /\ Due(n) = "end" \/ Due(k) \in {"demote", "hand_over"}

LEMMA LaterCommands ==
    ASSUME NEW op \in Operations, NEW b, NEW a, <<a, b>> \in Order[op]
    PROVE  /\ a \in WriteCommands \cup {"insert_team"} => b \in Later
           /\ a \in WriteCommands \ Undoing => b \notin Undoing
           /\ a \in Undoing \cup {"drop_invitation"} => b \in {"end", "undo_promote"}
           /\ a = "drop_invitation" => b = "end"
BY DEF Order, Operations, Routes, WriteCommands, Later, Undoing

LEMMA WritesSay ==
    ASSUME TypeOK, NEW c \in Call, Sound(call[c]), WriteStep(c), ~InsertTeam(c),
           NEW n \in InFlight, Becomes(c, n)
    PROVE  WriteSays(n, call[c])
<1> DEFINE k == call[c]
<1>1. ASSUME NEW m, Becomes(c, m) PROVE m = n
  BY <1>1, Stepped
<1>2. ASSUME NEW command, Sends(c, command)
      PROVE  k \in InFlight /\ k.todo /= <<>> /\ Due(k) = command /\ k.op \in Operations
  BY <1>2, Sending, DueInOrder
<1>3. ASSUME NEW command \in WriteCommands \ Undoing, Sends(c, command), Becomes(c, Wrote(k))
      PROVE  WriteSays(n, k)
  <2>1. n = Wrote(k) /\ k \in InFlight /\ k.todo /= <<>> /\ Due(k) = command
    BY <1>1, <1>2, <1>3
  <2>2. n.wrote = TRUE /\ n.code = k.code /\ n.todo = Tail(k.todo) /\ n.op = k.op
    BY <2>1, Outcomes, Words DEF Same
  <2>3. <<Due(k), Due(n)>> \in Order[k.op] /\ k.op \in Operations
    BY <2>1, <2>2, NextDue
  <2> HIDE DEF Due, k
  <2>4. Due(n) \in Later \ Undoing
    BY <1>3, <2>1, <2>3, LaterCommands
  <2>5. QED BY <1>3, <2>1, <2>2, <2>4 DEF WriteSays
<1>4. ASSUME NEW command \in Undoing \cup {"drop_invitation"}, Sends(c, command),
             Becomes(c, Proceeds(k))
      PROVE  WriteSays(n, k)
  <2>1. n = Proceeds(k) /\ k \in InFlight /\ k.todo /= <<>> /\ Due(k) = command
    BY <1>1, <1>2, <1>4
  <2>2. n.wrote = k.wrote /\ n.code = k.code /\ n.todo = Tail(k.todo) /\ n.op = k.op
    BY <2>1, Outcomes, Words DEF Same
  <2>3. <<Due(k), Due(n)>> \in Order[k.op] /\ k.op \in Operations
    BY <2>1, <2>2, NextDue
  <2> HIDE DEF Due, k
  <2>4. Due(n) = "end" \/ (Due(n) = "undo_promote" /\ Due(k) \in Undoing)
    BY <1>4, <2>1, <2>3, LaterCommands
  <2>5. QED BY <1>4, <2>1, <2>2, <2>4 DEF WriteSays
<1>5. ASSUME NEW command, Sends(c, command), NEW code \in Codes, Fault(k, code),
             NEW s \in {<<>>, <<"undo_promote">>, <<"undo_demote", "undo_promote">>},
             s = <<>> \/ command \in {"demote", "hand_over"}, Becomes(c, Fails(k, s, code))
      PROVE  WriteSays(n, k)
  <2>1. n = Fails(k, s, code) /\ k \in InFlight
    BY <1>1, <1>2, <1>5
  <2>2. k.todo /= <<>>
    BY <1>2, <1>5
  <2>3. s \in Seq(Commands) /\ (IF s = <<>> THEN "end" ELSE Head(s)) \in Undoing \cup {"end"}
    <3>1. CASE s = <<>>
      BY <3>1 DEF Undoing
    <3>2. CASE s = <<"undo_promote">>
      BY <3>2 DEF Undoing, Commands
    <3>3. CASE s = <<"undo_demote", "undo_promote">>
      BY <3>3 DEF Undoing, Commands
    <3>4. QED BY <3>1, <3>2, <3>3
  <2>4. n.wrote = k.wrote /\ n.code = code /\ n.todo = s
    <3>1. \A x, y : Fails(k, x, y).code = y /\ Fails(k, x, y).wrote = k.wrote
      BY <2>1, Words
    <3>2. n.todo = s
      BY <2>1, <2>2, <2>3, Outcomes
    <3> HIDE DEF k
    <3>3. QED BY <2>1, <3>1, <3>2
  <2>5. Due(n) \in Undoing \cup {"end"} /\ (s = <<>> => Due(n) = "end")
    BY <2>3, <2>4 DEF Due
  <2>6. Due(k) = command
    BY <1>2, <1>5
  <2> HIDE DEF Due, k, Fault
  <2>7. QED BY <1>5, <2>4, <2>5, <2>6 DEF WriteSays
<1>6. /\ {"team_not_found", "not_member", "invitation_not_found", "duplicate"} \subseteq Codes
      /\ WriteVerdict(k) \in Codes
  BY DEF Codes, WriteVerdict
<1>7. CASE InsertOwner(c) \/ DeleteMemos(c) \/ DeleteMembers(c) \/ DeleteInvitations(c) \/ InsertTheInvitation(c) \/ InsertTheMemo(c)
  <2>1. PICK command \in {"insert_owner", "delete_memos", "delete_members", "delete_invitations", "insert_invitation", "insert_memo"} :
          Sends(c, command) /\ Becomes(c, Wrote(k))
    BY <1>7 DEF InsertOwner, DeleteMemos, DeleteMembers, DeleteInvitations, InsertTheInvitation, InsertTheMemo
  <2>2. command \in WriteCommands \ Undoing
    BY <2>1 DEF WriteCommands, Undoing
  <2>3. QED BY <1>3, <2>1, <2>2
<1>8. CASE UndoTeam(c) \/ UndoDemote(c) \/ UndoPromote(c) \/ DropInvitation(c)
  <2>1. PICK command \in Undoing \cup {"drop_invitation"} :
          Sends(c, command) /\ Becomes(c, Proceeds(k))
    BY <1>8 DEF Undoing, UndoTeam, UndoDemote, UndoPromote, DropInvitation
  <2>2. QED BY <1>4, <2>1
<1>9. CASE WriteTeam(c)
  <2>1. Sends(c, "update_team")
    BY <1>9 DEF WriteTeam
  <2>2. CASE WriteVerdict(k) = "ok"
    <3>1. Becomes(c, Wrote(k))
      BY <1>9, <2>2 DEF WriteTeam
    <3>2. QED BY <1>3, <2>1, <3>1 DEF WriteCommands, Undoing
  <2>3. CASE ~(WriteVerdict(k) = "ok")
    <3>1. Becomes(c, Fails(k, <<>>, WriteVerdict(k)))
      BY <1>9, <2>3 DEF WriteTeam
    <3>2. Due(k) = "update_team"
      BY <1>2, <2>1
    <3>3. Fault(k, WriteVerdict(k))
      <4> HIDE DEF Due, k
      <4>1. QED BY <2>3, <3>2 DEF Fault
    <3>4. QED BY <1>5, <1>6, <2>1, <3>1, <3>3
  <2>4. QED BY <2>2, <2>3
<1>10. CASE HandOver(c)
  <2>1. Sends(c, "hand_over")
    BY <1>10 DEF HandOver
  <2>2. CASE WriteVerdict(k) = "ok"
    <3>1. Becomes(c, Wrote(k))
      BY <1>10, <2>2 DEF HandOver
    <3>2. QED BY <1>3, <2>1, <3>1 DEF WriteCommands, Undoing
  <2>3. CASE ~(WriteVerdict(k) = "ok")
    <3>1. Becomes(c, Fails(k, <<"undo_demote", "undo_promote">>, WriteVerdict(k)))
      BY <1>10, <2>3 DEF HandOver
    <3>2. Due(k) = "hand_over"
      BY <1>2, <2>1
    <3>3. Fault(k, WriteVerdict(k))
      <4> HIDE DEF Due, k
      <4>1. QED BY <2>3, <3>2 DEF Fault
    <3>4. QED BY <1>5, <1>6, <2>1, <3>1, <3>3
  <2>4. QED BY <2>2, <2>3
<1>11. CASE DeleteTheTeam(c)
  <2>1. Sends(c, "delete_team")
    BY <1>11 DEF DeleteTheTeam
  <2>2. CASE LiveTeam(k.team)
    <3>1. Becomes(c, Wrote(k))
      BY <1>11, <2>2 DEF DeleteTheTeam
    <3>2. QED BY <1>3, <2>1, <3>1 DEF WriteCommands, Undoing
  <2>3. CASE ~(LiveTeam(k.team))
    <3>1. Becomes(c, Fails(k, <<>>, "team_not_found"))
      BY <1>11, <2>3 DEF DeleteTheTeam
    <3>2. Due(k) = "delete_team"
      BY <1>2, <2>1
    <3>3. Fault(k, "team_not_found")
      <4> HIDE DEF Due, k
      <4>1. QED BY <2>3, <3>2 DEF Fault
    <3>4. QED BY <1>5, <1>6, <2>1, <3>1, <3>3
  <2>4. QED BY <2>2, <2>3
<1>12. CASE Promote(c)
  <2>1. Sends(c, "promote")
    BY <1>12 DEF Promote
  <2>2. CASE IsMember(k.team, k.target)
    <3>1. Becomes(c, Wrote(k))
      BY <1>12, <2>2 DEF Promote
    <3>2. QED BY <1>3, <2>1, <3>1 DEF WriteCommands, Undoing
  <2>3. CASE ~(IsMember(k.team, k.target))
    <3>1. Becomes(c, Fails(k, <<>>, "not_member"))
      BY <1>12, <2>3 DEF Promote
    <3>2. Due(k) = "promote"
      BY <1>2, <2>1
    <3>3. Fault(k, "not_member")
      <4> HIDE DEF Due, k
      <4>1. QED BY <2>3, <3>2 DEF Fault
    <3>4. QED BY <1>5, <1>6, <2>1, <3>1, <3>3
  <2>4. QED BY <2>2, <2>3
<1>13. CASE Demote(c)
  <2>1. Sends(c, "demote")
    BY <1>13 DEF Demote
  <2>2. CASE IsMember(k.team, k.user)
    <3>1. Becomes(c, Wrote(k))
      BY <1>13, <2>2 DEF Demote
    <3>2. QED BY <1>3, <2>1, <3>1 DEF WriteCommands, Undoing
  <2>3. CASE ~(IsMember(k.team, k.user))
    <3>1. Becomes(c, Fails(k, <<"undo_promote">>, "not_member"))
      BY <1>13, <2>3 DEF Demote
    <3>2. Due(k) = "demote"
      BY <1>2, <2>1
    <3>3. Fault(k, "not_member")
      <4> HIDE DEF Due, k
      <4>1. QED BY <2>3, <3>2 DEF Fault
    <3>4. QED BY <1>5, <1>6, <2>1, <3>1, <3>3
  <2>4. QED BY <2>2, <2>3
<1>14. CASE DeleteTheMember(c)
  <2>1. Sends(c, "delete_member")
    BY <1>14 DEF DeleteTheMember
  <2>2. CASE IsMember(k.team, k.target)
    <3>1. Becomes(c, Wrote(k))
      BY <1>14, <2>2 DEF DeleteTheMember
    <3>2. QED BY <1>3, <2>1, <3>1 DEF WriteCommands, Undoing
  <2>3. CASE ~(IsMember(k.team, k.target))
    <3>1. Becomes(c, Fails(k, <<>>, "not_member"))
      BY <1>14, <2>3 DEF DeleteTheMember
    <3>2. Due(k) = "delete_member"
      BY <1>2, <2>1
    <3>3. Fault(k, "not_member")
      <4> HIDE DEF Due, k
      <4>1. QED BY <2>3, <3>2 DEF Fault
    <3>4. QED BY <1>5, <1>6, <2>1, <3>1, <3>3
  <2>4. QED BY <2>2, <2>3
<1>15. CASE SetRole(c)
  <2>1. Sends(c, "set_role")
    BY <1>15 DEF SetRole
  <2>2. CASE IsMember(k.team, k.target)
    <3>1. Becomes(c, Wrote(k))
      BY <1>15, <2>2 DEF SetRole
    <3>2. QED BY <1>3, <2>1, <3>1 DEF WriteCommands, Undoing
  <2>3. CASE ~(IsMember(k.team, k.target))
    <3>1. Becomes(c, Fails(k, <<>>, "not_member"))
      BY <1>15, <2>3 DEF SetRole
    <3>2. Due(k) = "set_role"
      BY <1>2, <2>1
    <3>3. Fault(k, "not_member")
      <4> HIDE DEF Due, k
      <4>1. QED BY <2>3, <3>2 DEF Fault
    <3>4. QED BY <1>5, <1>6, <2>1, <3>1, <3>3
  <2>4. QED BY <2>2, <2>3
<1>16. CASE DeleteTheInvitation(c)
  <2>1. Sends(c, "delete_invitation")
    BY <1>16 DEF DeleteTheInvitation
  <2>2. CASE Invited(k.invitation)
    <3>1. Becomes(c, Wrote(k))
      BY <1>16, <2>2 DEF DeleteTheInvitation
    <3>2. QED BY <1>3, <2>1, <3>1 DEF WriteCommands, Undoing
  <2>3. CASE ~(Invited(k.invitation))
    <3>1. Becomes(c, Fails(k, <<>>, "invitation_not_found"))
      BY <1>16, <2>3 DEF DeleteTheInvitation
    <3>2. Due(k) = "delete_invitation"
      BY <1>2, <2>1
    <3>3. Fault(k, "invitation_not_found")
      <4> HIDE DEF Due, k
      <4>1. QED BY <2>3, <3>2 DEF Fault
    <3>4. QED BY <1>5, <1>6, <2>1, <3>1, <3>3
  <2>4. QED BY <2>2, <2>3
<1>17. CASE InsertTheMember(c)
  <2>1. Sends(c, "insert_member")
    BY <1>17 DEF InsertTheMember
  <2>2. CASE ~IsMember(k.team, k.user)
    <3>1. Becomes(c, Wrote(k))
      BY <1>17, <2>2 DEF InsertTheMember
    <3>2. QED BY <1>3, <2>1, <3>1 DEF WriteCommands, Undoing
  <2>3. CASE ~(~IsMember(k.team, k.user))
    <3>1. Becomes(c, Fails(k, <<>>, "duplicate"))
      BY <1>17, <2>3 DEF InsertTheMember
    <3>2. Due(k) = "insert_member"
      BY <1>2, <2>1
    <3>3. Fault(k, "duplicate")
      <4> HIDE DEF Due, k
      <4>1. QED BY <2>3, <3>2 DEF Fault
    <3>4. QED BY <1>5, <1>6, <2>1, <3>1, <3>3
  <2>4. QED BY <2>2, <2>3
<1>18. CASE DeleteTheMemo(c)
  <2>1. Sends(c, "delete_memo")
    BY <1>18 DEF DeleteTheMemo
  <2>2. CASE Matches(k)
    <3>1. Becomes(c, Wrote(k))
      BY <1>18, <2>2 DEF DeleteTheMemo
    <3>2. QED BY <1>3, <2>1, <3>1 DEF WriteCommands, Undoing
  <2>3. CASE ~Matches(k)
    <3>1. k \in InFlight /\ Due(k) = "delete_memo"
      BY <1>2, <2>1
    <3>2. n = [k EXCEPT !.todo = <<"find_deleted_memo">>]
      BY <1>1, <1>18, <2>3 DEF DeleteTheMemo
    <3>3. n.wrote = k.wrote /\ n.code = k.code /\ n.todo = <<"find_deleted_memo">>
      <4> HIDE DEF k
      <4>1. PICK Numbers, Ids, Sets : InFlight = Shape(Numbers, Ids, Sets)
        BY Shaped
      <4>2. QED BY <3>1, <3>2, <4>1 DEF Shape
    <3>4. Due(n) = "find_deleted_memo"
      BY <3>3 DEF Due
    <3> HIDE DEF Due, Fault, Later
    <3>5. QED BY <3>1, <3>3, <3>4 DEF WriteSays
  <2>4. QED BY <2>2, <2>3
<1>19. QED
  BY <1>7, <1>8, <1>9, <1>10, <1>11, <1>12, <1>13, <1>14, <1>15, <1>16, <1>17, <1>18 DEF WriteStep

\* A request that arrives has been told nothing, and has written nothing.
Quiet(k) == k.code = "ok" /\ k.wrote = FALSE

LEMMA RequestsQuiet ==
    ASSUME NEW op, NEW u, NEW commands, NEW t
    PROVE  /\ Quiet(Request(op, u, commands)) /\ Quiet(InTeam(op, u, t, commands))
           /\ \A x : Quiet([Request(op, u, commands) EXCEPT !.slug = x])
           /\ \A x : Quiet([Request(op, u, commands) EXCEPT !.invitation = x])
           /\ \A p : Quiet(Page(Request(op, u, commands), p))
           /\ \A p : Quiet(Page(InTeam(op, u, t, commands), p))
           /\ \A x : Quiet([InTeam(op, u, t, commands) EXCEPT !.slug = x])
           /\ \A x : Quiet([InTeam(op, u, t, commands) EXCEPT !.target = x])
           /\ \A x, y : Quiet([InTeam(op, u, t, commands) EXCEPT !.target = x, !.owner = y])
           /\ \A x, y : Quiet([InTeam(op, u, t, commands) EXCEPT !.target = x, !.role = y])
           /\ \A x : Quiet([InTeam(op, u, t, commands) EXCEPT !.invitation = x])
           /\ \A x : Quiet([InTeam(op, u, t, commands) EXCEPT !.memo = x])
           /\ \A x : Quiet([Request(op, u, commands) EXCEPT !.memo = x])
           /\ \A x, y : Quiet([InTeam(op, u, t, commands) EXCEPT !.address = x, !.role = y])
BY DEF Quiet, Request, InTeam, NoCall, Page

LEMMA ArrivesQuiet ==
    ASSUME TypeOK, NEW c \in Call, RequestArrives(c)
    PROVE  Quiet(call'[c])
<1>1. ASSUME NEW k, Quiet(k), Starts(c, k) PROVE Quiet(call'[c])
  BY <1>1 DEF Starts, TypeOK
<1>2. CASE CreateTeam(c)
  BY <1>1, <1>2, RequestsQuiet DEF CreateTeam
<1>3. CASE UpdateTeam(c)
  BY <1>1, <1>3, RequestsQuiet DEF UpdateTeam
<1>4. CASE DeleteTeam(c)
  BY <1>1, <1>4, RequestsQuiet DEF DeleteTeam
<1>5. CASE TransferOwnership(c)
  BY <1>1, <1>5, RequestsQuiet DEF TransferOwnership
<1>6. CASE GetTeam(c)
  BY <1>1, <1>6, RequestsQuiet DEF GetTeam
<1>7. CASE ListTeams(c)
  BY <1>1, <1>7, RequestsQuiet DEF ListTeams
<1>8. CASE ListMembers(c)
  BY <1>1, <1>8, RequestsQuiet DEF ListMembers
<1>9. CASE RemoveMember(c)
  BY <1>1, <1>9, RequestsQuiet DEF RemoveMember
<1>10. CASE UpdateRole(c)
  BY <1>1, <1>10, RequestsQuiet DEF UpdateRole
<1>11. CASE LeaveTeam(c)
  BY <1>1, <1>11, RequestsQuiet DEF LeaveTeam
<1>12. CASE CreateInvitation(c)
  BY <1>1, <1>12, RequestsQuiet DEF CreateInvitation
<1>13. CASE ListTeamInvitations(c)
  BY <1>1, <1>13, RequestsQuiet DEF ListTeamInvitations
<1>14. CASE CancelInvitation(c)
  BY <1>1, <1>14, RequestsQuiet DEF CancelInvitation
<1>15. CASE ListMyInvitations(c)
  BY <1>1, <1>15, RequestsQuiet DEF ListMyInvitations
<1>16. CASE AcceptInvitation(c)
  BY <1>1, <1>16, RequestsQuiet DEF AcceptInvitation
<1>17. CASE DeclineInvitation(c)
  BY <1>1, <1>17, RequestsQuiet DEF DeclineInvitation
<1>18. CASE CreateVoiceMemo(c)
  BY <1>1, <1>18, RequestsQuiet DEF CreateVoiceMemo
<1>19. CASE CreateTeamVoiceMemo(c)
  BY <1>1, <1>19, RequestsQuiet DEF CreateTeamVoiceMemo
<1>20. CASE ListByUserID(c)
  BY <1>1, <1>20, RequestsQuiet DEF ListByUserID
<1>21. CASE ListByTeamID(c)
  BY <1>1, <1>21, RequestsQuiet DEF ListByTeamID
<1>22. CASE GetVoiceMemo(c)
  BY <1>1, <1>22, RequestsQuiet DEF GetVoiceMemo
<1>23. CASE DeleteTeamVoiceMemo(c)
  BY <1>1, <1>23, RequestsQuiet DEF DeleteTeamVoiceMemo
<1>24. CASE DeleteVoiceMemo(c)
  BY <1>1, <1>24, RequestsQuiet DEF DeleteVoiceMemo
<1>25. QED
  BY <1>24, <1>2, <1>3, <1>4, <1>5, <1>6, <1>7, <1>8, <1>9, <1>10, <1>11, <1>12, <1>13, <1>14, <1>15, <1>16, <1>17, <1>18, <1>19, <1>20, <1>21, <1>22, <1>23 DEF RequestArrives

\* What a request was told so far.  Until it is ended or undoes what it did, it
\* was told nothing; once it wrote, it can only be told that all is well, or of
\* an error its handler does not know; and a transfer is that of a member until
\* it gives the role away.
Told(k) ==
    /\ Due(k) \notin Undoing \cup {"end"} => k.code = "ok"
    /\ k.wrote => k.code \in {"ok", "error", "duplicate"} /\ Due(k) \in Later
    /\ k.op = "transfer" /\ Due(k) \in {"find_target", "find_team", "promote", "demote"} =>
         IsMember(k.team, k.user)

TellsTruth == ~scenario.overlap => \A c \in Call : ~Idle(c) => Told(call[c])

LEMMA ToldLasts ==
    ASSUME NEW n, Told(n), UNCHANGED roles PROVE Told(n)'
<1>1. Due(n)' = Due(n)
  BY DEF Due
<1> HIDE DEF Due
<1>2. QED BY <1>1 DEF Told, IsMember, Later, Undoing

LEMMA ToldEnd ==
    ASSUME NEW n, Due(n) \in Undoing \cup {"end"},
           n.wrote => n.code \in {"ok", "error", "duplicate"}
    PROVE  Told(n)'
<1>1. Due(n)' = Due(n)
  BY DEF Due
<1> HIDE DEF Due
<1>2. QED BY <1>1 DEF Told, Later, Undoing

LEMMA ReadsTell ==
    ASSUME Basics, NEW c \in Call, ReadStep(c), Alive(call[c]), Told(call[c]),
           NEW n \in InFlight, Reads(c, n)
    PROVE  Told(n)
<1> DEFINE k == call[c]
           Reading == {"find_target", "find_team", "promote", "demote"}
<1>1. TypeOK
  BY DEF Basics
<1>2. /\ ~Idle(c) /\ k \in InFlight /\ Sound(k) /\ k.todo /= <<>> /\ k.op \in Operations
      /\ n.op = k.op /\ n.user = k.user
      /\ Due(k) /= "find_invitation" => n.team = k.team
      /\ \/ Due(n) \in {"end", "find_requester", "delete_member", "set_role", "find_pending"}
         \/ <<Due(k), Due(n)>> \in Order[k.op]
  <2> HIDE DEF Due
  <2>1. QED BY ReadAhead
<1>3. Says(n, k)
  BY <1>1, <1>2, ReadsSay
<1>4. Due(k) \notin Later
  <2>1. \E command \in PlainReads \cup {"find_team", "find_target", "find_invitation",
                                        "find_user", "find_invitee"} :
          Sends(c, command)
    BY DEF ReadStep, PlainReads, Authorize, CountOwned, FindSlug, FindTeam, FindTarget,
           FindRequester, FindInvitee, FindMember, FindPending, CountMembers, CountPending,
           FindUser, FindInvitation, FindMemo, FindDeletedMemo, Count, Find
  <2>2. Due(k) \in PlainReads \cup {"find_team", "find_target", "find_invitation",
                                     "find_user", "find_invitee"}
    BY <1>1, <2>1, Sending
  <2> HIDE DEF Due
  <2>3. QED BY <2>2 DEF PlainReads, Later, Undoing
<1>5. k.code = "ok" /\ ~k.wrote
  <2> HIDE DEF Due, k
  <2>1. Told(k)
    BY DEF k
  <2>2. QED BY <1>4, <2>1 DEF Told, Later
<1>6. ~n.wrote /\ (Due(n) /= "end" => n.code = "ok")
  BY <1>3, <1>5 DEF Says, Due
<1>7. n.op = "transfer" /\ Due(n) \in Reading => IsMember(n.team, n.user)
  <2> SUFFICES ASSUME n.op = "transfer", Due(n) \in Reading PROVE IsMember(n.team, n.user)
    OBVIOUS
  <2>1. <<Due(k), Due(n)>> \in Order[k.op] /\ k.op = "transfer"
    <3> HIDE DEF Due, k
    <3>1. QED BY <1>2
  <2>2. PICK a, b : a = Due(k) /\ b = Due(n) /\ <<a, b>> \in Order[k.op]
    BY <2>1
  <2>3. a \in Reading \cup {"authorize"}
    <3> HIDE DEF Due, k
    <3>1. QED BY <1>2, <2>1, <2>2, Successor
  <2>4. n.team = k.team
    <3> HIDE DEF Due, k
    <3>1. QED BY <1>2, <2>2, <2>3
  <2>5. CASE a = "authorize"
    <3>1. /\ ~FindTeam(c) /\ ~FindTarget(c) /\ ~FindInvitation(c)
          /\ ~FindUser(c) /\ ~FindInvitee(c)
      <4>1. \A command : Sends(c, command) => Due(k) = command
        BY <1>1, Sending
      <4> HIDE DEF Due, k
      <4>2. QED BY <2>2, <2>5, <4>1 DEF FindTeam, FindTarget, FindInvitation, FindUser, FindInvitee
    <3>2. PICK m \in InFlight :
            /\ Reads(c, m)
            /\ Stops(m, k) \/ (GoesOn(m, k) /\ (Due(k) = "authorize" => MayPerform(k)))
      BY <1>1, <1>2, <3>1, PlainReading DEF PlainOutcome
    <3>3. m = n
      BY <1>1, <3>2, Stepped DEF Reads
    <3>4. n.todo /= <<>>
      BY DEF Due
    <3>5. MayPerform(k)
      <4> HIDE DEF Due, k
      <4>1. QED BY <2>2, <2>5, <3>2, <3>3, <3>4 DEF Stops
    <3>6. k.op \in DOMAIN Routes
      BY <2>1 DEF Routes
    <3>7. IsMember(k.team, k.user)
      BY <1>2, <3>5, <3>6, Permitted
    <3>8. QED BY <1>2, <2>4, <3>7
  <2>6. CASE a \in Reading
    <3>1. Told(k)
      OBVIOUS
    <3> HIDE DEF Due, k
    <3>2. QED BY <1>2, <2>1, <2>2, <2>4, <2>6, <3>1 DEF Told
  <2>7. QED BY <2>3, <2>5, <2>6
<1> HIDE DEF Due, k
<1>8. QED BY <1>6, <1>7 DEF Told

LEMMA WriteDue ==
    ASSUME TypeOK, NEW c \in Call, WriteStep(c), ~InsertTeam(c)
    PROVE  /\ Due(call[c]) = "promote" => Promote(c)
           /\ Due(call[c]) = "demote" => Demote(c)
           /\ Due(call[c]) = "update_team" => WriteTeam(c)
           /\ Due(call[c]) = "insert_member" => InsertTheMember(c)
<1>1. \A command : Sends(c, command) => Due(call[c]) = command
  BY Sending
<1> HIDE DEF Due
<1>2. Due(call[c]) = "promote" => Promote(c)
  BY <1>1
     DEF WriteStep, InsertOwner, UndoTeam, WriteTeam, DeleteMemos, DeleteMembers,
         DeleteInvitations, DeleteTheTeam, Demote, HandOver, UndoDemote, UndoPromote,
         DeleteTheMember, SetRole, InsertTheInvitation, DeleteTheInvitation,
         InsertTheMember, DropInvitation, InsertTheMemo, DeleteTheMemo
<1>3. Due(call[c]) = "demote" => Demote(c)
  BY <1>1
     DEF WriteStep, InsertOwner, UndoTeam, WriteTeam, DeleteMemos, DeleteMembers,
         DeleteInvitations, DeleteTheTeam, Promote, HandOver, UndoDemote, UndoPromote,
         DeleteTheMember, SetRole, InsertTheInvitation, DeleteTheInvitation,
         InsertTheMember, DropInvitation, InsertTheMemo, DeleteTheMemo
<1>4. Due(call[c]) = "update_team" => WriteTeam(c)
  BY <1>1
     DEF WriteStep, InsertOwner, UndoTeam, DeleteMemos, DeleteMembers, DeleteInvitations,
         DeleteTheTeam, Promote, Demote, HandOver, UndoDemote, UndoPromote,
         DeleteTheMember, SetRole, InsertTheInvitation, DeleteTheInvitation,
         InsertTheMember, DropInvitation, InsertTheMemo, DeleteTheMemo
<1>5. Due(call[c]) = "insert_member" => InsertTheMember(c)
  BY <1>1
     DEF WriteStep, InsertOwner, UndoTeam, WriteTeam, DeleteMemos, DeleteMembers,
         DeleteInvitations, DeleteTheTeam, Promote, Demote, HandOver, UndoDemote,
         UndoPromote, DeleteTheMember, SetRole, InsertTheInvitation, DeleteTheInvitation,
         DropInvitation, InsertTheMemo, DeleteTheMemo
<1>6. QED BY <1>2, <1>3, <1>4, <1>5

LEMMA WritesTell ==
    ASSUME Basics, NEW c \in Call, ~Idle(c), WriteStep(c), ~InsertTeam(c),
           Alive(call[c]), Told(call[c]),
           NEW n \in InFlight, Becomes(c, n), Same(n, call[c])
    PROVE  Told(n)'
<1> DEFINE k == call[c]
<1>1. TypeOK /\ Sound(k) /\ k \in InFlight /\ k.todo /= <<>>
  BY Writing DEF Basics, WriteOutcome
<1>2. WriteSays(n, k) /\ Told(k) /\ Alive(k)
  BY <1>1, WritesSay
<1>3. Due(k) \in WriteCommands
  BY <1>1, WriterDue
<1>4. Due(n)' = Due(n)
  BY DEF Due
<1>5. k.code \in {"ok", "error", "duplicate"} \/ ~k.wrote
  <2> HIDE DEF Due, k
  <2>1. QED BY <1>2 DEF Told
<1>6. CASE n.wrote = TRUE /\ n.code = k.code /\ Due(n) \in Later /\ Due(k) \notin Undoing
  <2>1. k.code = "ok"
    <3> HIDE DEF Due, k
    <3>1. QED BY <1>2, <1>3, <1>6 DEF Told, WriteCommands
  <2>2. n.op = "transfer" /\ Due(n) = "demote" => IsMember(n.team, n.user)'
    <3> SUFFICES ASSUME n.op = "transfer", Due(n) = "demote" PROVE IsMember(n.team, n.user)'
      OBVIOUS
    <3>1. n.todo = Tail(k.todo)
      <4>1. PICK m \in InFlight : Becomes(c, m) /\ m.todo = Remaining(k)
        BY <1>1, Writing DEF WriteOutcome
      <4>2. m = n
        BY <1>1, <4>1, Stepped
      <4>3. Remaining(k) \in {<<>>, <<"undo_promote">>, <<"undo_demote", "undo_promote">>,
                              <<"find_deleted_memo">>, Tail(k.todo)}
        <5> HIDE DEF Due, k
        <5>1. QED BY DEF Remaining
      <4>4. PICK rest : rest = Remaining(k)
        OBVIOUS
      <4>5. Head(rest) = "demote" /\ rest /= <<>>
        BY <4>1, <4>2, <4>4 DEF Due
      <4>6. rest /= <<"undo_promote">>
        BY <4>5
      <4>7. rest /= <<"undo_demote", "undo_promote">> /\ rest /= <<"find_deleted_memo">>
        BY <4>5
      <4> HIDE DEF Due, k
      <4>8. QED BY <4>1, <4>2, <4>3, <4>4, <4>5, <4>6, <4>7
    <3>2. <<Due(k), Due(n)>> \in Order[k.op] /\ k.op = "transfer" /\ k.op \in Operations
      BY <1>1, <3>1, NextDue DEF Same
    <3>3. PICK a, b : a = Due(k) /\ b = Due(n) /\ <<a, b>> \in Order[k.op]
      BY <3>2
    <3>4. a = "promote"
      <4> HIDE DEF Due, k
      <4>1. QED BY <3>2, <3>3, Successor
    <3>5. IsMember(k.team, k.user)
      <4> HIDE DEF Due, k
      <4>1. QED BY <1>2, <3>2, <3>3, <3>4 DEF Told
    <3>6. Promote(c)
      BY <1>1, <3>3, <3>4, WriteDue
    <3>7. SetMemberRole(k.team, k.target, "owner")
      BY <3>6 DEF Promote
    <3>8. roles \in [Team -> [User -> Role \cup {"none"}]]
      BY <1>1 DEF TypeOK, StoreTypeOK
    <3>9. roles'[k.team][k.user] /= "none"
      BY <3>5, <3>7, <3>8 DEF SetMemberRole, IsMember
    <3>10. n.team = k.team /\ n.user = k.user
      BY DEF Same
    <3>11. QED BY <3>9, <3>10 DEF IsMember
  <2> HIDE DEF Due, k
  <2>3. QED BY <1>4, <1>6, <2>1, <2>2 DEF Told, Later, Undoing
<1>7. CASE /\ n.wrote = k.wrote /\ n.code = k.code
           /\ Due(k) \in Undoing \cup {"drop_invitation"} /\ Due(n) \in {"end", "undo_promote"}
  <2>1. Due(n) \in Undoing \cup {"end"}
    BY <1>7 DEF Undoing
  <2> HIDE DEF Due, k
  <2>2. QED BY <1>5, <1>7, <2>1, ToldEnd
<1>8. CASE /\ n.wrote = k.wrote /\ n.code = k.code
           /\ Due(k) = "delete_memo" /\ Due(n) = "find_deleted_memo"
  <2> HIDE DEF Due, k
  <2>1. k.code = "ok" /\ ~k.wrote
    BY <1>2, <1>8 DEF Told, Later, Undoing
  <2>2. QED BY <1>4, <1>8, <2>1 DEF Told
<1>9. CASE n.wrote = k.wrote /\ Fault(k, n.code) /\ Due(n) \in Undoing \cup {"end"}
  <2>1. n.wrote => n.code \in {"ok", "error", "duplicate"}
    <3> SUFFICES ASSUME k.wrote PROVE n.code \in {"ok", "error", "duplicate"}
      BY <1>9
    <3>1. /\ Due(k) \in {"promote", "demote", "hand_over"} => k.op = "transfer"
          /\ Due(k) = "delete_team" => k.op = "delete_team"
      BY <1>1, SenderOf
    <3> HIDE DEF Due, k
    <3>2. Due(k) \in Later
      BY <1>2 DEF Told
    <3>3. k.op \in {"transfer", "delete_team"} /\ Due(k) \notin {"authorize", "end"} =>
            LiveTeam(k.team)
      BY <1>2 DEF Alive, Routes
    <3>4. Due(k) \in {"hand_over", "delete_team", "demote"}
      BY <1>9, <3>2 DEF Fault, Later, Undoing
    <3>5. CASE Due(k) = "hand_over"
      BY <1>9, <3>1, <3>3, <3>5 DEF Fault, WriteVerdict
    <3>6. CASE Due(k) = "delete_team"
      BY <1>9, <3>1, <3>3, <3>6 DEF Fault
    <3>7. CASE Due(k) = "demote"
      <4>1. IsMember(k.team, k.user)
        BY <1>2, <3>1, <3>7 DEF Told
      <4>2. QED BY <1>9, <3>7, <4>1 DEF Fault
    <3>8. QED BY <3>4, <3>5, <3>6, <3>7
  <2>2. QED BY <1>9, <2>1, ToldEnd
<1> HIDE DEF Due, k
<1>10. QED BY <1>2, <1>6, <1>7, <1>8, <1>9 DEF WriteSays

LEMMA InsertsTell ==
    ASSUME Basics, NEW c \in Call, ~Idle(c), InsertTeam(c), Told(call[c])
    PROVE  \E n : Becomes(c, n) /\ Told(n)'
<1> DEFINE k == call[c]
<1>1. /\ k \in InFlight /\ k.todo /= <<>> /\ Due(k) = "insert_team"
  BY Sending DEF InsertTeam, Basics
<1>2. CASE SlugIndexed(NoTeam, k.slug)
  <2>1. PICK n : n = Fails(k, <<>>, "duplicate")
    OBVIOUS
  <2>2. Becomes(c, n)
    BY <1>2, <2>1 DEF InsertTeam
  <2>3. n.todo = <<>>
    <3>1. <<>> \in Seq(Commands) /\ "duplicate" \in Codes
      BY DEF Codes
    <3>2. QED BY <1>1, <2>1, <3>1, Outcomes
  <2>4. n.code = "duplicate"
    <3>1. \A x, y : Fails(k, x, y).code = y /\ Fails(k, x, y).wrote = k.wrote
      BY <1>1, Words
    <3> HIDE DEF k
    <3>2. QED BY <2>1, <3>1
  <2>5. Due(n) = "end"
    BY <2>3 DEF Due
  <2> HIDE DEF Due
  <2>6. QED BY <2>2, <2>4, <2>5, ToldEnd
<1>3. CASE ~SlugIndexed(NoTeam, k.slug)
  <2>1. PICK n \in InFlight : Becomes(c, n) /\ Due(n) = "insert_owner" /\ n.op = "create_team"
    BY <1>3, TeamInserted
  <2>2. n = [Wrote(k) EXCEPT !.team = Cardinality(Created) + 1]
    <3>1. Becomes(c, [Wrote(k) EXCEPT !.team = Cardinality(Created) + 1])
      BY <1>3 DEF InsertTeam
    <3>2. QED BY <2>1, <3>1, Stepped DEF Basics
  <2>3. n.code = k.code
    <3>1. PICK Numbers, Ids, Sets : InFlight = Shape(Numbers, Ids, Sets)
      BY Shaped
    <3> HIDE DEF k
    <3>2. QED BY <1>1, <2>2, <3>1 DEF Shape, Wrote
  <2>4. k.code = "ok"
    <3>1. Told(k)
      OBVIOUS
    <3> HIDE DEF Due, k
    <3>2. QED BY <1>1, <3>1 DEF Told, Undoing
  <2>5. Due(n)' = Due(n)
    BY DEF Due
  <2> HIDE DEF Due, k
  <2>6. QED BY <2>1, <2>3, <2>4, <2>5 DEF Told, Later
<1>4. QED BY <1>2, <1>3

LEMMA RefusesTell ==
    ASSUME Basics, NEW c \in Call, Refuse(c), Told(call[c]), NEW n \in InFlight, Becomes(c, n)
    PROVE  Told(n)'
<1> DEFINE k == call[c]
<1>1. /\ k \in InFlight /\ k.todo /= <<>> /\ Sound(k) /\ TypeOK /\ Told(k)
      /\ UNCHANGED roles
  BY RefusedNoSeat DEF Basics, Refuse, storeVars
<1>2. n = [AfterRefusal(k) EXCEPT !.refused = TRUE]
  <2>1. Becomes(c, [AfterRefusal(k) EXCEPT !.refused = TRUE])
    BY DEF Refuse
  <2>2. QED BY <1>1, <2>1, Stepped
<1>3. ASSUME NEW m \in InFlight, m = AfterRefusal(k)
      PROVE  n.code = m.code /\ n.wrote = m.wrote
  <2>1. n = [m EXCEPT !.refused = TRUE]
    BY <1>2, <1>3
  <2>2. QED BY <2>1, Words
<1>4. /\ Same(n, k)
      /\ n.todo = Unsent(k)
  BY <1>1, RefusedLeaves, Stepped
<1>5. Due(k) = Head(k.todo)
  BY <1>1 DEF Due
<1>6. CASE Due(k) \in ErrorIgnored
  <2>1. AfterRefusal(k) = Proceeds(k)
    BY <1>5, <1>6 DEF AfterRefusal
  <2>2. n.code = k.code /\ n.wrote = k.wrote
    <3>1. Proceeds(k) \in InFlight
      BY <1>1, Outcomes DEF Same
    <3>2. Proceeds(k).code = k.code /\ Proceeds(k).wrote = k.wrote
      BY <1>1, Words
    <3>3. QED BY <1>3, <2>1, <3>1, <3>2
  <2>3. <<Due(k), Due(n)>> \in Order[k.op] /\ k.op \in Operations
    BY <1>1, <1>4, <1>6, NextDue DEF Same, Unsent
  <2>4. CASE Due(k) = "find_member"
    <3>1. PICK a, b : a = Due(k) /\ b = Due(n) /\ <<a, b>> \in Order[k.op]
      BY <2>3
    <3>2. k.op = "invite"
      <4> HIDE DEF Due, k
      <4>1. QED BY <2>3, <2>4, <3>1, Roster
    <3>3. n.op = "invite"
      BY <1>4, <3>2 DEF Same
    <3>4. Due(n)' = Due(n)
      BY DEF Due
    <3> HIDE DEF Due, k
    <3>5. k.code = "ok" /\ ~k.wrote
      BY <1>1, <2>4 DEF Told, Later, Undoing
    <3>6. QED BY <2>2, <3>3, <3>4, <3>5 DEF Told
  <2>5. CASE Due(k) /= "find_member"
    <3>1. PICK a, b : a = Due(k) /\ b = Due(n) /\ <<a, b>> \in Order[k.op]
      BY <2>3
    <3> HIDE DEF Due, k
    <3>2. a \in Undoing \cup {"drop_invitation"}
      BY <1>6, <2>5, <3>1 DEF ErrorIgnored, Undoing
    <3>3. b \in Undoing \cup {"end"}
      BY <2>3, <3>1, <3>2, LaterCommands DEF Undoing
    <3>4. k.wrote => k.code \in {"ok", "error", "duplicate"}
      BY <1>1 DEF Told
    <3>5. QED BY <2>2, <3>1, <3>3, <3>4, ToldEnd
  <2>6. QED BY <2>4, <2>5
<1>7. CASE Due(k) \in ErrorSkips
  <2>1. AfterRefusal(k) = Proceeds(Proceeds(k))
    BY <1>5, <1>7 DEF AfterRefusal, ErrorSkips, ErrorIgnored
  <2>2. Due(k) = "find_invitee" /\ n.todo = Tail(Tail(k.todo))
    <3> HIDE DEF Due
    <3>1. QED BY <1>4, <1>7 DEF ErrorSkips, ErrorIgnored, Unsent
  <2>3. k.op = "invite" /\ Due(n) = "find_pending" /\ n.op = k.op
    BY <1>1, <1>4, <2>2, Skipped DEF Same
  <2>4. k.code = "ok" /\ ~k.wrote
    <3> HIDE DEF Due, k
    <3>1. QED BY <1>1, <2>2 DEF Told, Later, Undoing
  <2>5. n.code = k.code /\ n.wrote = k.wrote
    <3>1. PICK Numbers, Ids, Sets : InFlight = Shape(Numbers, Ids, Sets)
      BY Shaped
    <3>2. n = [Proceeds(Proceeds(k)) EXCEPT !.refused = TRUE]
      BY <1>2, <2>1
    <3> HIDE DEF k
    <3>3. QED BY <1>1, <3>1, <3>2 DEF Shape, Proceeds
  <2>6. Due(n)' = Due(n)
    BY DEF Due
  <2> HIDE DEF Due, k
  <2>7. QED BY <2>3, <2>4, <2>5, <2>6 DEF Told
<1>8. CASE Due(k) \notin ErrorIgnored \cup ErrorSkips
  <2> DEFINE s == IF Due(k) \in DOMAIN Undo THEN Undo[Due(k)] ELSE <<>>
             e == IF Due(k) \in DOMAIN ErrorMistaken THEN ErrorMistaken[Due(k)] ELSE "error"
  <2>1. AfterRefusal(k) = Fails(k, s, e)
    BY <1>5, <1>8 DEF AfterRefusal
  <2>2. s \in {<<>>, <<"undo_team">>, <<"undo_promote">>, <<"undo_demote", "undo_promote">>}
    <3> HIDE DEF Due
    <3>1. QED BY DEF Undo
  <2>3. e \in Codes /\ (e /= "error" => Due(k) \in {"find_target", "find_requester"})
    <3> HIDE DEF Due
    <3>1. QED BY DEF ErrorMistaken, Codes
  <2>4. n.todo = s
    BY <1>4, <1>8 DEF Unsent
  <2> HIDE DEF s, e
  <2>5. Due(n) \in Undoing \cup {"end"}
    BY <2>2, <2>4 DEF Due, Undoing
  <2>6. n.code = e /\ n.wrote = k.wrote
    <3>1. s \in Seq(Commands)
      <4>1. CASE s = <<>>
        BY <4>1
      <4>2. CASE s = <<"undo_team">>
        BY <4>2 DEF Commands
      <4>3. CASE s = <<"undo_promote">>
        BY <4>3 DEF Commands
      <4>4. CASE s = <<"undo_demote", "undo_promote">>
        BY <4>4 DEF Commands
      <4>5. QED BY <2>2, <4>1, <4>2, <4>3, <4>4
    <3>2. Fails(k, s, e) \in InFlight
      BY <1>1, <2>3, <3>1, Outcomes DEF Same
    <3>3. \A x, y : Fails(k, x, y).code = y /\ Fails(k, x, y).wrote = k.wrote
      BY <1>1, Words
    <3> HIDE DEF k
    <3>4. QED BY <1>3, <2>1, <3>2, <3>3
  <2> HIDE DEF Due, k
  <2>7. n.wrote => n.code \in {"ok", "error", "duplicate"}
    BY <1>1, <2>3, <2>6 DEF Told, Later, Undoing
  <2>8. QED BY <2>5, <2>7, ToldEnd
<1>9. QED BY <1>6, <1>7, <1>8

LEMMA TellingKept ==
    ASSUME TypeOK, OneAtATime, ~scenario.overlap, NEW c \in Call,
           ~Idle(c) \/ \A d \in Call : Idle(d),
           NEW n, call' = [call EXCEPT ![c] = n], scenario' = scenario,
           n = NoCall \/ Told(n)'
    PROVE  TellsTruth'
<1>1. \A d \in Call : call'[d] = IF d = c THEN n ELSE call[d]
  BY DEF TypeOK
<1>2. \A d \in Call \ {c} : Idle(d)
  BY DEF OneAtATime
<1>3. \A d \in Call : ~Idle(d)' => d = c /\ n /= NoCall
  BY <1>1, <1>2 DEF Idle, NoCall
<1>4. ASSUME NEW d \in Call, ~Idle(d)' PROVE Told(call[d])'
  <2>1. call'[d] = n /\ Told(n)'
    BY <1>1, <1>3, <1>4
  <2>2. QED BY <2>1 DEF Told, Due
<1>5. QED BY <1>4 DEF TellsTruth

LEMMA TellingStep ==
    Basics /\ Ends /\ OneAtATime /\ TellsTruth /\ [Next]_vars => TellsTruth'
<1> SUFFICES ASSUME Basics, Ends, OneAtATime, TellsTruth, [Next]_vars PROVE TellsTruth'
  OBVIOUS
<1>1. TypeOK
  BY DEF Basics
<1>2. scenario' = scenario
  BY <1>1, ScenarioStays
<1>3. CASE scenario.overlap
  BY <1>2, <1>3 DEF TellsTruth
<1>4. CASE ~scenario.overlap
  <2>1. \A c \in Call : ~Idle(c) => Told(call[c]) /\ Alive(call[c])
    BY <1>4 DEF TellsTruth, Ends
  <2>2. ASSUME NEW c \in Call, RequestArrives(c) PROVE TellsTruth'
    <3>1. Arrives(c) /\ Quiet(call'[c])
      BY <1>1, <2>2, Arrivals, ArrivesQuiet
    <3>2. PICK k \in InFlight : call' = [call EXCEPT ![c] = k] /\ Fresh(k)
      BY <3>1 DEF Arrives
    <3>3. \A d \in Call : Idle(d)
      BY <1>4, <3>1 DEF Arrives
    <3>4. call'[c] = k
      BY <1>1, <3>2 DEF TypeOK
    <3>5. k.code = "ok" /\ ~k.wrote
      BY <3>1, <3>4 DEF Quiet
    <3>6. Told(k)'
      <4>1. Due(k) \in {"authorize", "count_owned", "count", "find_user", "insert_memo",
                        "delete_memo"}
        BY <3>2 DEF Fresh
      <4>2. Due(k)' = Due(k)
        BY DEF Due
      <4> HIDE DEF Due
      <4>3. QED BY <3>5, <4>1, <4>2 DEF Told
    <3>7. QED BY <1>1, <1>2, <1>4, <3>2, <3>3, <3>6, TellingKept
  <2>3. ASSUME NEW c \in Call, ReadStep(c) PROVE TellsTruth'
    <3>1. ~Idle(c)
      BY <2>3, ReaderBusy
    <3>2. Sound(call[c])
      BY <3>1 DEF Basics
    <3>3. PICK n \in InFlight : Reads(c, n)
      BY <1>1, <2>3, <3>2, ReadsSoundly DEF Basics
    <3>4. Told(n)
      BY <2>1, <2>3, <3>1, <3>3, ReadsTell
    <3>5. UNCHANGED roles /\ Becomes(c, n)
      BY <3>3 DEF Reads, storeVars
    <3>6. Told(n)'
      BY <3>4, <3>5, ToldLasts
    <3>7. QED BY <1>1, <1>2, <1>4, <3>1, <3>5, <3>6, TellingKept DEF Becomes
  <2>4. ASSUME NEW c \in Call, WriteStep(c), ~InsertTeam(c) PROVE TellsTruth'
    <3>1. ~Idle(c)
      BY <1>1, <2>4, Writing DEF WriteOutcome
    <3>2. PICK n \in InFlight : Becomes(c, n) /\ Same(n, call[c])
      BY <1>1, <2>4, Writing DEF WriteOutcome
    <3>3. Told(n)'
      BY <2>1, <2>4, <3>1, <3>2, WritesTell
    <3>4. QED BY <1>1, <1>2, <1>4, <3>1, <3>2, <3>3, TellingKept DEF Becomes
  <2>5. ASSUME NEW c \in Call, InsertTeam(c) PROVE TellsTruth'
    <3>1. ~Idle(c)
      BY <2>5 DEF InsertTeam, Sends
    <3>2. PICK n : Becomes(c, n) /\ Told(n)'
      BY <2>1, <2>5, <3>1, InsertsTell
    <3>3. QED BY <1>1, <1>2, <1>4, <3>1, <3>2, TellingKept DEF Becomes
  <2>6. ASSUME NEW c \in Call, Refuse(c) PROVE TellsTruth'
    <3>1. ~Idle(c)
      BY <2>6 DEF Refuse
    <3>2. PICK n \in InFlight : Becomes(c, n)
      BY <1>1, <2>6, <3>1, RefusedLeaves DEF Basics
    <3>3. Told(n)'
      BY <2>1, <2>6, <3>1, <3>2, RefusesTell
    <3>4. QED BY <1>1, <1>2, <1>4, <3>1, <3>2, <3>3, TellingKept DEF Becomes
  <2>7. ASSUME NEW c \in Call, Respond(c) PROVE TellsTruth'
    <3>1. ~Idle(c) /\ Becomes(c, NoCall)
      BY <2>7 DEF Respond
    <3>2. QED BY <1>1, <1>2, <1>4, <3>1, TellingKept DEF Becomes
  <2>8. CASE Expire \/ EmailChanges \/ UserDeleted \/ UNCHANGED vars
    <3>1. UNCHANGED <<roles, call>>
      BY <2>8 DEF Expire, EmailChanges, UserDeleted, vars, storeVars
    <3>2. ASSUME NEW c \in Call, ~Idle(c)' PROVE Told(call[c])'
      <4>1. PICK k : k = call[c]
        OBVIOUS
      <4>2. Told(k) /\ call'[c] = k
        BY <2>1, <3>1, <3>2, <4>1 DEF Idle
      <4>3. Told(k)'
        BY <3>1, <4>2, ToldLasts
      <4>4. QED BY <4>2, <4>3 DEF Told, Due
    <3>3. QED BY <3>2 DEF TellsTruth
  <2>9. QED BY <2>2, <2>3, <2>4, <2>5, <2>6, <2>7, <2>8 DEF Next
<1>5. QED BY <1>3, <1>4

\* A request that is told no, whichever command was refused, has changed
\* nothing: whatever reaches a handler after the first write is an error that
\* the handler does not know, and becomes a 500.
THEOREM RefusalsHold == Spec => []RefusalsChangeNothing
<1>1. Init => Basics /\ Ends /\ OneAtATime /\ TellsTruth
  BY BasicsInitially, EndsInitially DEF Init, TellsTruth, Idle, NoCall
<1>2. /\ Basics /\ Ends /\ OneAtATime /\ TellsTruth
      /\ [Next]_vars
      => (Basics /\ Ends /\ OneAtATime /\ TellsTruth)'
  BY BasicsStep, EndsStep, TellingStep
<1>3. Basics /\ TellsTruth => RefusalsChangeNothing
  <2> SUFFICES ASSUME Basics, TellsTruth, NEW c \in Call, AnsweredAlone(c), call[c].wrote
               PROVE  Status(call[c]) \notin 400 .. 499
    BY DEF RefusalsChangeNothing
  <2> DEFINE k == call[c]
  <2>1. k \in InFlight /\ k.op \in Operations
    BY Sender DEF AnsweredAlone, Answered, Basics, InFlight
  <2>2. k.code \in {"ok", "error", "duplicate"}
    BY DEF AnsweredAlone, Answered, TellsTruth, Told
  <2>3. CASE k.code = "ok"
    <3>1. "ok" \in DOMAIN Handlers[k.op] /\ Handlers[k.op]["ok"] \in {200, 201, 204}
      BY <2>1, HandlerCodes
    <3>2. Status(k) = Handlers[k.op]["ok"]
      BY <2>3, <3>1 DEF Status
    <3>3. QED BY <3>1, <3>2
  <2>4. CASE k.code \in {"error", "duplicate"}
    <3>1. k.code \notin DOMAIN Handlers[k.op]
      BY <2>1, <2>4, HandlerCodes
    <3>2. Status(k) = 500
      BY <2>4, <3>1 DEF Status
    <3>3. QED BY <3>2
  <2>5. QED BY <2>2, <2>3, <2>4
<1>4. QED BY <1>1, <1>2, <1>3, PTL DEF Spec

-------------------------------------------------------------------------------
(* One request at a time: what a 500 is for, if no command failed.         *)

\* What a request knows of the slug it is about to write: nobody has it yet,
\* or it is that of the team itself; and a slug that was asked for is looked up.
Seeks(k) ==
    /\ Due(k) = "insert_team" => FindBySlug(k.slug) = {}
    /\ k.op = "update_team" /\ k.slug /= NoSlug =>
         /\ Due(k) = "authorize" =>
              k.todo = <<"authorize", "find_team", "find_slug", "update_team">>
         /\ Due(k) = "find_team" => k.todo = <<"find_team", "find_slug", "update_team">>
    /\ Due(k) = "update_team" => FindBySlug(k.slug) \ {k.team} = {}
    /\ k.op = "transfer" /\ Due(k) \in {"authorize", "find_target", "find_team"} =>
         k.slug = NoSlug
    /\ Due(k) \in {"promote", "demote", "hand_over"} => k.slug = teams[k.team].slug

\* An answer that needs no further explanation.
Fine(k) ==
    \/ k.code = "forbidden" \/ k.code \in DOMAIN Handlers[k.op]
    \/ /\ k.op \in {"create_team", "update_team"}
       /\ \E t \in Team : teams[t].state = "deleted" /\ teams[t].slug = k.slug
    \/ Unregistered(k)
    \/ k.op = "accept" /\ IsMember(k.team, k.user)

Explained(k) ==
    ~k.refused => Seeks(k) /\ Due(k) \notin Undoing /\ (Due(k) = "end" => Fine(k))

AllExplained == ~scenario.overlap => \A c \in Call : ~Idle(c) => Explained(call[c])

LEMMA ExplainedLasts ==
    ASSUME NEW n, Explained(n), UNCHANGED <<teams, roles, emails>> PROVE Explained(n)'
<1>1. Due(n)' = Due(n)
  BY DEF Due
<1> HIDE DEF Due
<1>2. QED
  BY <1>1 DEF Explained, Seeks, Fine, Unregistered, FindBySlug, LiveTeam, IsMember, Undoing

\* Who was deleted stays so: nobody registers twice.
LEMMA ExplainedThrough ==
    ASSUME TypeOK, NEW n, Sound(n), Explained(n), EmailChanges \/ UserDeleted
    PROVE  Explained(n)'
<1>1. UNCHANGED <<teams, roles>>
  BY DEF EmailChanges, UserDeleted, storeVars
<1>2. Unregistered(n) => Unregistered(n)'
  <2> SUFFICES ASSUME Unregistered(n) PROVE emails'[n.user] = NoEmail
    BY DEF Unregistered
  <2>1. n.user \in Users /\ emails[n.user] = NoEmail
    BY DEF Sound, Knows, Unregistered
  <2>2. PICK u, email :
          emails' = [emails EXCEPT ![u] = email] /\ (u = n.user => email = NoEmail)
    <3>1. CASE EmailChanges
      <4>1. PICK u \in User, email \in scenario.addresses \X Spelling :
              (u \in Users => emails[u] /= NoEmail) /\ SetEmail(u, email)
        BY <3>1 DEF EmailChanges
      <4>2. u /= n.user /\ emails' = [emails EXCEPT ![u] = email]
        BY <2>1, <4>1 DEF SetEmail
      <4>3. QED BY <4>2
    <3>2. CASE UserDeleted
      BY <3>2 DEF UserDeleted, SetEmail
    <3>3. QED BY <3>1, <3>2
  <2>3. n.user \in DOMAIN emails
    BY <2>1 DEF Users, TypeOK, StoreTypeOK
  <2>4. QED BY <2>1, <2>2, <2>3
<1>3. Due(n)' = Due(n)
  BY DEF Due
<1> HIDE DEF Due
<1>4. QED BY <1>1, <1>2, <1>3 DEF Explained, Seeks, Fine, FindBySlug, LiveTeam, IsMember, Undoing

\* No other command waits for what is known of the slug.
LEMMA NothingSought ==
    ASSUME NEW n, Due(n) \notin {"insert_team", "authorize", "find_target", "find_team",
                                 "update_team", "promote", "demote", "hand_over"}
    PROVE  Seeks(n) /\ Seeks(n)'
<1>1. Due(n)' = Due(n)
  BY DEF Due
<1> HIDE DEF Due
<1>2. QED BY <1>1 DEF Seeks

LEMMA SlugLooked ==
    ASSUME TypeOK, NEW c \in Call, FindSlug(c), NEW n \in InFlight, Reads(c, n), n.todo /= <<>>
    PROVE  FindBySlug(call[c].slug) \ {call[c].team} = {}
<1> DEFINE k == call[c]
           code == IF FindBySlug(k.slug) \ {k.team} = {} THEN "ok" ELSE "slug_taken"
<1>1. k \in InFlight /\ k.todo /= <<>> /\ Reads(c, Checked(k, code))
  BY Sending DEF FindSlug
<1>2. n = Checked(k, code)
  BY <1>1, Stepped DEF Reads
<1>3. code \in Codes
  BY DEF Codes
<1>4. code = "ok"
  <2> HIDE DEF code, k
  <2>1. QED BY <1>1, <1>2, <1>3, Verdicts
<1>5. QED BY <1>4

LEMMA SlugDue ==
    ASSUME TypeOK, NEW c \in Call, ReadStep(c), Due(call[c]) = "find_slug"
    PROVE  FindSlug(c)
<1>1. \A command : Sends(c, command) => Due(call[c]) = command
  BY Sending
<1> HIDE DEF Due
<1>2. QED
  BY <1>1
     DEF ReadStep, Authorize, CountOwned, FindTeam, FindTarget, FindRequester, FindMember,
         FindInvitee, FindPending, CountMembers, CountPending, FindUser, FindInvitation,
         FindMemo, FindDeletedMemo, Count, Find

\* Only reading the team changes the slug a request has.
LEMMA ReadsSlug ==
    ASSUME Basics, NEW c \in Call, ReadStep(c), NEW n \in InFlight, Reads(c, n)
    PROVE  /\ Due(call[c]) /= "find_team" => n.slug = call[c].slug
           /\ Due(call[c]) = "find_team" /\ n.todo /= <<>> =>
                /\ n.slug = IF call[c].op \in {"update_team", "transfer"} /\ call[c].slug = NoSlug
                              THEN teams[call[c].team].slug ELSE call[c].slug
                /\ LiveTeam(call[c].team) /\ n.todo = Tail(call[c].todo)
           /\ Due(call[c]) = "authorize" /\ n.todo /= <<>> => n.todo = Tail(call[c].todo)
<1> DEFINE k == call[c]
<1>1. TypeOK /\ Sound(k) /\ k \in InFlight
  <2> HIDE DEF Due
  <2>1. QED BY ReadAhead DEF Basics
<1>2. ASSUME NEW m, Reads(c, m) PROVE m = n
  BY <1>1, <1>2, Stepped DEF Reads
<1>3. CASE FindTeam(c)
  <2>1. PICK m \in InFlight :
          /\ Reads(c, m)
          /\ Stops(m, k) \/ (LiveTeam(k.team) /\ NotesTeam(m, k) /\ m.todo = Tail(k.todo))
    BY <1>1, <1>3, TeamFound
  <2>2. m = n /\ Due(k) = "find_team"
    BY <1>1, <1>2, <1>3, <2>1, TeamFound
  <2> HIDE DEF k, Due
  <2>3. QED BY <2>1, <2>2 DEF Stops, NotesTeam, k
<1>4. CASE FindTarget(c)
  <2>1. PICK m \in InFlight : Reads(c, m) /\ Reread(m, k)
    BY <1>1, <1>4, TargetFound
  <2>2. m = n /\ Due(k) = "find_target"
    BY <1>1, <1>2, <1>4, <2>1, TargetFound
  <2> HIDE DEF k, Due
  <2>3. QED BY <2>1, <2>2 DEF Reread, k
<1>5. CASE FindInvitation(c)
  <2>1. PICK m \in InFlight : Reads(c, m) /\ Accepts(m, k)
    BY <1>1, <1>5, InvitationFound
  <2>2. m = n /\ Due(k) = "find_invitation"
    BY <1>1, <1>2, <1>5, <2>1, InvitationFound
  <2> HIDE DEF k, Due
  <2>3. QED BY <2>1, <2>2 DEF Accepts, k
<1>6. CASE FindUser(c) \/ FindInvitee(c)
  <2>1. PICK m \in InFlight : Reads(c, m) /\ Finds(m, k)
    <3> HIDE DEF Due
    <3>1. QED BY <1>1, <1>6, LookedUp
  <2>2. m = n /\ Due(k) \in {"find_user", "find_invitee"}
    <3>1. Due(k) \in {"find_user", "find_invitee"}
      <4> HIDE DEF Due
      <4>1. QED BY <1>1, <1>6, LookedUp
    <3>2. QED BY <1>2, <2>1, <3>1
  <2> HIDE DEF k, Due
  <2>3. QED BY <2>1, <2>2 DEF Finds, k
<1>7. CASE /\ ~FindTeam(c) /\ ~FindTarget(c) /\ ~FindInvitation(c)
           /\ ~FindUser(c) /\ ~FindInvitee(c)
  <2>1. PICK m \in InFlight : Reads(c, m) /\ (Stops(m, k) \/ GoesOn(m, k))
    BY <1>1, <1>7, PlainReading DEF PlainOutcome
  <2>2. m = n
    BY <1>2, <2>1
  <2>3. Due(k) /= "find_team"
    BY <1>1, <1>7, PlainReading DEF PlainOutcome, PlainReads
  <2> HIDE DEF k, Due
  <2>4. QED BY <2>1, <2>2, <2>3 DEF Stops, GoesOn, Same, k
<1>8. QED BY <1>3, <1>4, <1>5, <1>6, <1>7

LEMMA SlugSuccessor ==
    ASSUME NEW op \in Operations, NEW b, NEW a, <<a, b>> \in Order[op]
    PROVE  /\ b = "update_team" => op = "update_team" /\ a \in {"find_team", "find_slug"}
           /\ b \in {"promote", "demote", "hand_over"} => op = "transfer"
           /\ op = "update_team" /\ b = "find_team" => a = "authorize"
           /\ b /= "authorize"
BY DEF Order, Operations, Routes

LEMMA ReadsSeek ==
    ASSUME Basics, NEW c \in Call, ReadStep(c), Seeks(call[c]), NEW n \in InFlight, Reads(c, n)
    PROVE  Seeks(n) /\ Due(n) \notin Undoing
<1> DEFINE k == call[c]
<1>1. TypeOK /\ Bookkeeping
  BY DEF Basics
<1>2. /\ k \in InFlight /\ Sound(k) /\ k.todo /= <<>> /\ k.op \in Operations
      /\ n.op = k.op
      /\ Due(k) /= "find_invitation" => n.team = k.team
      /\ \/ Due(n) \in {"end", "find_requester", "delete_member", "set_role", "find_pending"}
         \/ <<Due(k), Due(n)>> \in Order[k.op]
  <2> HIDE DEF Due
  <2>1. QED BY ReadAhead
<1>3. /\ Due(k) /= "find_team" => n.slug = k.slug
      /\ Due(k) = "find_team" /\ n.todo /= <<>> =>
           /\ n.slug = IF k.op \in {"update_team", "transfer"} /\ k.slug = NoSlug
                         THEN teams[k.team].slug ELSE k.slug
           /\ LiveTeam(k.team) /\ n.todo = Tail(k.todo)
      /\ Due(k) = "authorize" /\ n.todo /= <<>> => n.todo = Tail(k.todo)
  BY ReadsSlug
<1>4. Due(k) \notin WriteCommands \cup {"insert_team"}
  <2>1. \E command \in PlainReads \cup {"find_team", "find_target", "find_invitation",
                                        "find_user", "find_invitee"} :
          Sends(c, command)
    BY DEF ReadStep, PlainReads, Authorize, CountOwned, FindSlug, FindTeam, FindTarget,
           FindRequester, FindInvitee, FindMember, FindPending, CountMembers, CountPending,
           FindUser, FindInvitation, FindMemo, FindDeletedMemo, Count, Find
  <2>2. Due(k) \in PlainReads \cup {"find_team", "find_target", "find_invitation",
                                     "find_user", "find_invitee"}
    BY <1>1, <2>1, Sending
  <2> HIDE DEF Due
  <2>3. QED BY <2>2 DEF PlainReads, WriteCommands
<1>5. CASE Due(n) \in {"end", "find_requester", "delete_member", "set_role", "find_pending"}
  <2> HIDE DEF Due
  <2>1. QED BY <1>5, NothingSought DEF Undoing
<1>6. CASE <<Due(k), Due(n)>> \in Order[k.op] /\ Due(n) /= "end"
  <2>1. PICK a, b : a = Due(k) /\ b = Due(n) /\ <<a, b>> \in Order[k.op]
    BY <1>6
  <2>2. n.todo /= <<>>
    BY <1>6 DEF Due
  <2>3. Seeks(k)
    OBVIOUS
  <2>4. b \notin Undoing
    <3> HIDE DEF Due, k
    <3>1. QED BY <1>2, <1>4, <2>1, Successor DEF Undoing, WriteCommands
  <2>5. b = "insert_team" => FindBySlug(n.slug) = {}
    <3> SUFFICES ASSUME b = "insert_team" PROVE FindBySlug(n.slug) = {}
      OBVIOUS
    <3>1. a = "find_slug" /\ k.op = "create_team"
      <4> HIDE DEF Due, k
      <4>1. QED BY <1>2, <2>1, Successor
    <3>2. FindSlug(c)
      BY <1>1, <2>1, <3>1, SlugDue
    <3>3. FindBySlug(k.slug) \ {k.team} = {}
      BY <1>1, <2>2, <3>2, SlugLooked
    <3>4. k.team = NoTeam /\ n.slug = k.slug
      <4> HIDE DEF Due, k
      <4>1. QED BY <1>2, <1>3, <2>1, <3>1 DEF Sound, Knows
    <3>5. QED BY <3>3, <3>4, CreatedTeams DEF FindBySlug
  <2>6. b = "update_team" => FindBySlug(n.slug) \ {n.team} = {}
    <3> SUFFICES ASSUME b = "update_team" PROVE FindBySlug(n.slug) \ {n.team} = {}
      OBVIOUS
    <3>1. k.op = "update_team" /\ a \in {"find_team", "find_slug"} /\ n.team = k.team
      <4> HIDE DEF Due, k
      <4>1. QED BY <1>2, <2>1, SlugSuccessor
    <3>2. CASE a = "find_slug"
      <4>1. FindSlug(c)
        BY <1>1, <2>1, <3>2, SlugDue
      <4>2. FindBySlug(k.slug) \ {k.team} = {}
        BY <1>1, <2>2, <4>1, SlugLooked
      <4>3. n.slug = k.slug
        BY <1>3, <2>1, <3>2
      <4>4. QED BY <3>1, <4>2, <4>3
    <3>3. CASE a = "find_team"
      <4>1. k.slug = NoSlug
        <5> SUFFICES ASSUME k.slug /= NoSlug PROVE FALSE
          OBVIOUS
        <5>1. k.todo = <<"find_team", "find_slug", "update_team">>
          <6> HIDE DEF Due, k
          <6>1. QED BY <2>1, <2>3, <3>1, <3>3 DEF Seeks
        <5>2. n.todo = Tail(k.todo)
          BY <1>3, <2>1, <2>2, <3>3
        <5>3. Due(n) = "find_slug"
          BY <5>1, <5>2 DEF Due
        <5>4. QED BY <2>1, <5>3
      <4>2. n.slug = teams[k.team].slug /\ LiveTeam(k.team)
        BY <1>3, <2>1, <2>2, <3>1, <3>3, <4>1
      <4>3. k.team \in Created /\ k.team \in Team
        BY <1>2, <3>1, CreatedTeams DEF Sound, Knows, Routes
      <4>4. ASSUME NEW t \in FindBySlug(n.slug) PROVE t = k.team
        <5>1. t \in Team /\ LiveTeam(t) /\ teams[t].slug = teams[k.team].slug
          BY <4>2, <4>4 DEF FindBySlug
        <5>2. t \in Created
          BY <1>1, <5>1, DocumentsTyped
        <5>3. QED BY <1>1, <4>3, <5>1, <5>2 DEF Bookkeeping
      <4>5. QED BY <3>1, <4>4
    <3>4. QED BY <3>1, <3>2, <3>3
  <2>7. k.op = "update_team" /\ n.slug /= NoSlug =>
          /\ b /= "authorize"
          /\ b = "find_team" => n.todo = <<"find_team", "find_slug", "update_team">>
    <3>1. b /= "authorize" /\ (k.op = "update_team" /\ b = "find_team" => a = "authorize")
      <4> HIDE DEF Due, k
      <4>1. QED BY <1>2, <2>1, SlugSuccessor
    <3>2. ASSUME k.op = "update_team", n.slug /= NoSlug, b = "find_team"
          PROVE  n.todo = <<"find_team", "find_slug", "update_team">>
      <4>1. a = "authorize"
        BY <3>1, <3>2
      <4>2. n.todo = Tail(k.todo) /\ n.slug = k.slug
        BY <1>3, <2>1, <2>2, <4>1
      <4>3. k.todo = <<"authorize", "find_team", "find_slug", "update_team">>
        <5> HIDE DEF Due, k
        <5>1. QED BY <2>1, <2>3, <3>2, <4>1, <4>2 DEF Seeks
      <4>4. QED BY <4>2, <4>3
    <3>3. QED BY <3>1, <3>2
  <2>8. k.op = "transfer" /\ b \in {"authorize", "find_target", "find_team"} => n.slug = NoSlug
    <3> SUFFICES ASSUME k.op = "transfer", b \in {"authorize", "find_target", "find_team"}
                 PROVE  n.slug = NoSlug
      OBVIOUS
    <3> HIDE DEF Due, k
    <3>1. a \in {"authorize", "find_target"}
      BY <1>2, <2>1, Successor, SlugSuccessor
    <3>2. QED BY <1>3, <2>1, <2>3, <3>1 DEF Seeks
  <2>9. b \in {"promote", "demote", "hand_over"} => n.slug = teams[n.team].slug
    <3> SUFFICES ASSUME b \in {"promote", "demote", "hand_over"}
                 PROVE  n.slug = teams[n.team].slug
      OBVIOUS
    <3> HIDE DEF Due, k
    <3>1. k.op = "transfer" /\ a = "find_team"
      BY <1>2, <1>4, <2>1, Successor, SlugSuccessor DEF WriteCommands
    <3>2. k.slug = NoSlug
      BY <2>1, <2>3, <3>1 DEF Seeks
    <3>3. QED BY <1>2, <1>3, <2>1, <2>2, <3>1, <3>2
  <2> HIDE DEF Due, k
  <2>10. QED BY <1>2, <2>1, <2>4, <2>5, <2>6, <2>7, <2>8, <2>9 DEF Seeks
<1>7. QED BY <1>2, <1>5, <1>6

\* An update of a team that is asked for a slug looks that slug up.
IsFor(k, op) == k.op = op

LEMMA RequestsFor ==
    ASSUME NEW op, NEW u, NEW commands, NEW t
    PROVE  /\ IsFor(Request(op, u, commands), op) /\ IsFor(InTeam(op, u, t, commands), op)
           /\ \A x : IsFor([Request(op, u, commands) EXCEPT !.slug = x], op)
           /\ \A x : IsFor([Request(op, u, commands) EXCEPT !.invitation = x], op)
           /\ \A x : IsFor([Request(op, u, commands) EXCEPT !.memo = x], op)
           /\ \A p : IsFor(Page(Request(op, u, commands), p), op)
           /\ \A p : IsFor(Page(InTeam(op, u, t, commands), p), op)
           /\ \A x : IsFor([InTeam(op, u, t, commands) EXCEPT !.slug = x], op)
           /\ \A x : IsFor([InTeam(op, u, t, commands) EXCEPT !.target = x], op)
           /\ \A x, y : IsFor([InTeam(op, u, t, commands) EXCEPT !.target = x, !.owner = y], op)
           /\ \A x, y : IsFor([InTeam(op, u, t, commands) EXCEPT !.target = x, !.role = y], op)
           /\ \A x, y : IsFor([InTeam(op, u, t, commands) EXCEPT !.address = x, !.role = y], op)
           /\ \A x : IsFor([InTeam(op, u, t, commands) EXCEPT !.invitation = x], op)
           /\ \A x : IsFor([InTeam(op, u, t, commands) EXCEPT !.memo = x], op)
BY DEF IsFor, Request, InTeam, NoCall, Page

\* Two sequences put together, element by element.
LEMMA PutTogether ==
    ASSUME NEW m \in Nat, NEW n \in Nat, NEW s, NEW t, NEW whole,
           s \in Seq(Commands), t \in Seq(Commands), whole \in Seq(Commands),
           Len(s) = m, Len(t) = n, Len(whole) = m + n,
           \A i \in 1 .. m + n : whole[i] = IF i <= m THEN s[i] ELSE t[i - m]
    PROVE  s \o t = whole
<1> DEFINE both == s \o t
<1>1. /\ both \in Seq(Commands) /\ Len(both) = Len(s) + Len(t)
      /\ \A i \in 1 .. Len(s) + Len(t) :
           both[i] = IF i <= Len(s) THEN s[i] ELSE t[i - Len(s)]
  BY ConcatProperties
<1> HIDE DEF both
<1>2. both = whole
  BY <1>1, SeqEqual
<1>3. QED BY <1>2 DEF both

\* The sequences of commands an update is made of, spelled out.
LEMMA SpelledOut ==
    ASSUME NEW a \in Commands, NEW b \in Commands, NEW e \in Commands
    PROVE  /\ <<a>> \o <<b>> = <<a, b>>
           /\ <<a, b>> \o <<e>> = <<a, b, e>>
<1>2. <<a>> \o <<b>> = <<a, b>>
  <2>1. /\ <<a>> \in Seq(Commands) /\ Len(<<a>>) = 1 /\ <<a>>[1] = a
        /\ <<b>> \in Seq(Commands) /\ Len(<<b>>) = 1 /\ <<b>>[1] = b
        /\ <<a, b>> \in Seq(Commands) /\ Len(<<a, b>>) = 2
        /\ <<a, b>>[1] = a /\ <<a, b>>[2] = b
    OBVIOUS
  <2>2. PICK s, t, whole : s = <<a>> /\ t = <<b>> /\ whole = <<a, b>>
    OBVIOUS
  <2>3. /\ s \in Seq(Commands) /\ t \in Seq(Commands) /\ whole \in Seq(Commands)
        /\ Len(s) = 1 /\ Len(t) = 1 /\ Len(whole) = 1 + 1
        /\ \A i \in 1 .. 1 + 1 : whole[i] = IF i <= 1 THEN s[i] ELSE t[i - 1]
    BY <2>1, <2>2
  <2>4. s \o t = whole
    BY <2>3, PutTogether
  <2>5. QED BY <2>2, <2>4
<1>3. <<a, b>> \o <<e>> = <<a, b, e>>
  <2>1. /\ <<a, b>> \in Seq(Commands) /\ Len(<<a, b>>) = 2
        /\ <<a, b>>[1] = a /\ <<a, b>>[2] = b
        /\ <<e>> \in Seq(Commands) /\ Len(<<e>>) = 1 /\ <<e>>[1] = e
        /\ <<a, b, e>> \in Seq(Commands) /\ Len(<<a, b, e>>) = 3
        /\ <<a, b, e>>[1] = a /\ <<a, b, e>>[2] = b /\ <<a, b, e>>[3] = e
    OBVIOUS
  <2>2. PICK s, t, whole : s = <<a, b>> /\ t = <<e>> /\ whole = <<a, b, e>>
    OBVIOUS
  <2>3. /\ s \in Seq(Commands) /\ t \in Seq(Commands) /\ whole \in Seq(Commands)
        /\ Len(s) = 2 /\ Len(t) = 1 /\ Len(whole) = 2 + 1
        /\ \A i \in 1 .. 2 + 1 : whole[i] = IF i <= 2 THEN s[i] ELSE t[i - 2]
    BY <2>1, <2>2
  <2>4. s \o t = whole
    BY <2>3, PutTogether
  <2>5. QED BY <2>2, <2>4
<1>4. QED BY <1>2, <1>3

LEMMA SpelledAfter ==
    ASSUME NEW a \in Commands, NEW b \in Commands, NEW e \in Commands, NEW f \in Commands,
           NEW rest, rest = <<b, e, f>>
    PROVE  <<a>> \o rest = <<a, b, e, f>>
<1>1. /\ <<a>> \in Seq(Commands) /\ Len(<<a>>) = 1 /\ <<a>>[1] = a
      /\ <<b, e, f>> \in Seq(Commands) /\ Len(<<b, e, f>>) = 3
      /\ <<b, e, f>>[1] = b /\ <<b, e, f>>[2] = e /\ <<b, e, f>>[3] = f
  OBVIOUS
<1>2. /\ <<a, b, e, f>> \in Seq(Commands) /\ Len(<<a, b, e, f>>) = 4
      /\ <<a, b, e, f>>[1] = a /\ <<a, b, e, f>>[2] = b
      /\ <<a, b, e, f>>[3] = e /\ <<a, b, e, f>>[4] = f
  OBVIOUS
<1>3. PICK s, whole : s = <<a>> /\ whole = <<a, b, e, f>>
  OBVIOUS
<1>4. /\ s \in Seq(Commands) /\ rest \in Seq(Commands) /\ whole \in Seq(Commands)
      /\ Len(s) = 1 /\ Len(rest) = 3 /\ Len(whole) = 1 + 3
      /\ \A i \in 1 .. 1 + 3 : whole[i] = IF i <= 1 THEN s[i] ELSE rest[i - 1]
  BY <1>1, <1>2, <1>3
<1>5. s \o rest = whole
  BY <1>4, PutTogether
<1>6. QED BY <1>3, <1>5

LEMMA UpdateArrives ==
    ASSUME TypeOK, NEW c \in Call, RequestArrives(c), call'[c].op = "update_team",
           call'[c].slug /= NoSlug
    PROVE  call'[c].todo = <<"authorize", "find_team", "find_slug", "update_team">>
<1> DEFINE n == call'[c]
<1>1. ASSUME NEW k, Starts(c, k) PROVE n = k
  BY <1>1 DEF Starts, TypeOK
<1>2. ASSUME NEW k, Starts(c, k), NEW op, op /= "update_team", IsFor(k, op) PROVE FALSE
  BY <1>1, <1>2 DEF IsFor
<1>3. ~CreateTeam(c)
  <2> SUFFICES ASSUME CreateTeam(c) PROVE FALSE
    OBVIOUS
  <2>1. PICK k : Starts(c, k) /\ IsFor(k, "create_team")
    BY RequestsFor DEF CreateTeam
  <2>2. QED BY <1>2, <2>1
<1>4. ~DeleteTeam(c)
  <2> SUFFICES ASSUME DeleteTeam(c) PROVE FALSE
    OBVIOUS
  <2>1. PICK k : Starts(c, k) /\ IsFor(k, "delete_team")
    BY RequestsFor DEF DeleteTeam
  <2>2. QED BY <1>2, <2>1
<1>5. ~TransferOwnership(c)
  <2> SUFFICES ASSUME TransferOwnership(c) PROVE FALSE
    OBVIOUS
  <2>1. PICK u \in Users, new \in Users, t \in Created :
          Starts(c, [InTeam("transfer", u, t, TransferCommands)
                       EXCEPT !.target = new, !.owner = new])
    BY DEF TransferOwnership
  <2>2. PICK k : Starts(c, k) /\ IsFor(k, "transfer")
    BY <2>1, RequestsFor
  <2>3. QED BY <1>2, <2>2
<1>6. ~GetTeam(c)
  <2> SUFFICES ASSUME GetTeam(c) PROVE FALSE
    OBVIOUS
  <2>1. PICK k : Starts(c, k) /\ IsFor(k, "get_team")
    BY RequestsFor DEF GetTeam
  <2>2. QED BY <1>2, <2>1
<1>7. ~ListTeams(c)
  <2> SUFFICES ASSUME ListTeams(c) PROVE FALSE
    OBVIOUS
  <2>1. PICK k : Starts(c, k) /\ IsFor(k, "list_teams")
    BY RequestsFor DEF ListTeams
  <2>2. QED BY <1>2, <2>1
<1>8. ~ListMembers(c)
  <2> SUFFICES ASSUME ListMembers(c) PROVE FALSE
    OBVIOUS
  <2>1. PICK k : Starts(c, k) /\ IsFor(k, "list_members")
    BY RequestsFor DEF ListMembers
  <2>2. QED BY <1>2, <2>1
<1>9. ~RemoveMember(c)
  <2> SUFFICES ASSUME RemoveMember(c) PROVE FALSE
    OBVIOUS
  <2>1. PICK k : Starts(c, k) /\ IsFor(k, "remove_member")
    BY RequestsFor DEF RemoveMember
  <2>2. QED BY <1>2, <2>1
<1>10. ~UpdateRole(c)
  <2> SUFFICES ASSUME UpdateRole(c) PROVE FALSE
    OBVIOUS
  <2>1. PICK k : Starts(c, k) /\ IsFor(k, "update_role")
    BY RequestsFor DEF UpdateRole
  <2>2. QED BY <1>2, <2>1
<1>11. ~LeaveTeam(c)
  <2> SUFFICES ASSUME LeaveTeam(c) PROVE FALSE
    OBVIOUS
  <2>1. PICK k : Starts(c, k) /\ IsFor(k, "leave")
    BY RequestsFor DEF LeaveTeam
  <2>2. QED BY <1>2, <2>1
<1>12. ~CreateInvitation(c)
  <2> SUFFICES ASSUME CreateInvitation(c) PROVE FALSE
    OBVIOUS
  <2>1. PICK k : Starts(c, k) /\ IsFor(k, "invite")
    BY RequestsFor DEF CreateInvitation
  <2>2. QED BY <1>2, <2>1
<1>13. ~ListTeamInvitations(c)
  <2> SUFFICES ASSUME ListTeamInvitations(c) PROVE FALSE
    OBVIOUS
  <2>1. PICK k : Starts(c, k) /\ IsFor(k, "list_invitations")
    BY RequestsFor DEF ListTeamInvitations
  <2>2. QED BY <1>2, <2>1
<1>14. ~CancelInvitation(c)
  <2> SUFFICES ASSUME CancelInvitation(c) PROVE FALSE
    OBVIOUS
  <2>1. PICK k : Starts(c, k) /\ IsFor(k, "cancel")
    BY RequestsFor DEF CancelInvitation
  <2>2. QED BY <1>2, <2>1
<1>15. ~ListMyInvitations(c)
  <2> SUFFICES ASSUME ListMyInvitations(c) PROVE FALSE
    OBVIOUS
  <2>1. PICK k : Starts(c, k) /\ IsFor(k, "my_invitations")
    BY RequestsFor DEF ListMyInvitations
  <2>2. QED BY <1>2, <2>1
<1>16. ~AcceptInvitation(c)
  <2> SUFFICES ASSUME AcceptInvitation(c) PROVE FALSE
    OBVIOUS
  <2>1. PICK k : Starts(c, k) /\ IsFor(k, "accept")
    BY RequestsFor DEF AcceptInvitation
  <2>2. QED BY <1>2, <2>1
<1>17. ~DeclineInvitation(c)
  <2> SUFFICES ASSUME DeclineInvitation(c) PROVE FALSE
    OBVIOUS
  <2>1. PICK k : Starts(c, k) /\ IsFor(k, "decline")
    BY RequestsFor DEF DeclineInvitation
  <2>2. QED BY <1>2, <2>1
<1>18. ~CreateVoiceMemo(c)
  <2> SUFFICES ASSUME CreateVoiceMemo(c) PROVE FALSE
    OBVIOUS
  <2>1. PICK k : Starts(c, k) /\ IsFor(k, "create_own_memo")
    BY RequestsFor DEF CreateVoiceMemo
  <2>2. QED BY <1>2, <2>1
<1>19. ~CreateTeamVoiceMemo(c)
  <2> SUFFICES ASSUME CreateTeamVoiceMemo(c) PROVE FALSE
    OBVIOUS
  <2>1. PICK k : Starts(c, k) /\ IsFor(k, "create_memo")
    BY RequestsFor DEF CreateTeamVoiceMemo
  <2>2. QED BY <1>2, <2>1
<1>20. ~ListByUserID(c)
  <2> SUFFICES ASSUME ListByUserID(c) PROVE FALSE
    OBVIOUS
  <2>1. PICK k : Starts(c, k) /\ IsFor(k, "list_own_memos")
    BY RequestsFor DEF ListByUserID
  <2>2. QED BY <1>2, <2>1
<1>21. ~ListByTeamID(c)
  <2> SUFFICES ASSUME ListByTeamID(c) PROVE FALSE
    OBVIOUS
  <2>1. PICK k : Starts(c, k) /\ IsFor(k, "list_memos")
    BY RequestsFor DEF ListByTeamID
  <2>2. QED BY <1>2, <2>1
<1>22. ~GetVoiceMemo(c)
  <2> SUFFICES ASSUME GetVoiceMemo(c) PROVE FALSE
    OBVIOUS
  <2>1. PICK k : Starts(c, k) /\ IsFor(k, "get_memo")
    BY RequestsFor DEF GetVoiceMemo
  <2>2. QED BY <1>2, <2>1
<1>23. ~DeleteTeamVoiceMemo(c)
  <2> SUFFICES ASSUME DeleteTeamVoiceMemo(c) PROVE FALSE
    OBVIOUS
  <2>1. PICK k : Starts(c, k) /\ IsFor(k, "delete_memo")
    BY RequestsFor DEF DeleteTeamVoiceMemo
  <2>2. QED BY <1>2, <2>1
<1>24. ~DeleteVoiceMemo(c)
  <2> SUFFICES ASSUME DeleteVoiceMemo(c) PROVE FALSE
    OBVIOUS
  <2>1. PICK k : Starts(c, k) /\ IsFor(k, "delete_own_memo")
    BY RequestsFor DEF DeleteVoiceMemo
  <2>2. QED BY <1>2, <2>1
<1>25. UpdateTeam(c)
  BY <1>3, <1>4, <1>5, <1>6, <1>7, <1>8, <1>9, <1>10, <1>11, <1>12,
     <1>13, <1>14, <1>15, <1>16, <1>17, <1>18, <1>19, <1>20, <1>21, <1>22, <1>23, <1>24 DEF RequestArrives
<1>26. PICK u \in Users, t \in Created, slug \in scenario.slugs \cup {NoSlug} :
          Starts(c, [InTeam("update_team", u, t, UpdateTeamCommands(slug)) EXCEPT !.slug = slug])
  BY <1>25 DEF UpdateTeam
<1>27. n = [InTeam("update_team", u, t, UpdateTeamCommands(slug)) EXCEPT !.slug = slug]
  BY <1>1, <1>26
<1>28. n.slug = slug /\ n.todo = <<"authorize">> \o UpdateTeamCommands(slug)
  BY <1>27 DEF InTeam, Request, NoCall
<1>29. PICK a, b, e, f \in Commands :
          a = "authorize" /\ b = "find_team" /\ e = "find_slug" /\ f = "update_team"
  BY DEF Commands
<1>30. UpdateTeamCommands(slug) = (<<b>> \o <<e>>) \o <<f>>
  BY <1>28, <1>29 DEF UpdateTeamCommands
<1>31. PICK s : s = UpdateTeamCommands(slug)
  OBVIOUS
<1>32. s = <<b, e, f>>
  <2>1. <<b>> \o <<e>> = <<b, e>>
    BY SpelledOut
  <2>2. <<b, e>> \o <<f>> = <<b, e, f>>
    BY SpelledOut
  <2>3. QED BY <1>30, <1>31, <2>1, <2>2
<1>33. <<a>> \o s = <<a, b, e, f>>
  BY <1>32, SpelledAfter
<1>34. QED BY <1>28, <1>29, <1>31, <1>33

LEMMA ReadsExplain ==
    ASSUME Basics, NEW c \in Call, ReadStep(c), Alive(call[c]), Told(call[c]),
           Explained(call[c]), NEW n \in InFlight, Reads(c, n)
    PROVE  Explained(n)
<1> DEFINE k == call[c]
<1>1. /\ k \in InFlight /\ Sound(k) /\ k.todo /= <<>> /\ k.op \in Operations
      /\ n.op = k.op /\ n.user = k.user /\ n.refused = k.refused
  <2> HIDE DEF Due
  <2>1. QED BY ReadAhead
<1>2. Told(k) /\ Explained(k)
  OBVIOUS
<1> SUFFICES ASSUME ~n.refused PROVE Explained(n)
  BY DEF Explained
<1>3. Seeks(n) /\ Due(n) \notin Undoing
  <2>1. Seeks(k)
    BY <1>1, <1>2 DEF Explained
  <2>2. QED BY <2>1, ReadsSeek
<1>4. k.code = "ok"
  <2>1. Due(k) \in Commands /\ "end" \notin Commands
    BY <1>1, DueInOrder DEF Commands
  <2>2. Due(k) \notin Undoing
    <3> HIDE DEF Due, k
    <3>1. QED BY <1>1, <1>2 DEF Explained
  <2> HIDE DEF Due, k, Commands
  <2>3. QED BY <1>2, <2>1, <2>2 DEF Told
<1>5. Says(n, k)
  BY <1>1, ReadsSay DEF Basics
<1>6. "ok" \in DOMAIN Handlers[k.op]
  BY <1>1, HandlerCodes
<1>7. Fine(n)
  <2> HIDE DEF k
  <2>1. QED BY <1>1, <1>4, <1>5, <1>6 DEF Says, Fine, Unregistered
<1> HIDE DEF Due
<1>8. QED BY <1>3, <1>7 DEF Explained

\* In a request that was not refused a command, no command of its later stages
\* finds the team, the member or the slug gone.
LEMMA NothingWentAmiss ==
    ASSUME Basics, NEW k \in InFlight, Sound(k), k.todo /= <<>>, Alive(k), Told(k), Seeks(k)
    PROVE  /\ Due(k) = "hand_over" => WriteVerdict(k) = "ok"
           /\ Due(k) = "demote" => IsMember(k.team, k.user)
           /\ Due(k) = "delete_team" => LiveTeam(k.team)
           /\ Due(k) = "update_team" => LiveTeam(k.team)
<1>1. /\ Due(k) \in {"demote", "hand_over"} => k.op = "transfer"
      /\ Due(k) = "delete_team" => k.op = "delete_team"
      /\ Due(k) = "update_team" => k.op = "update_team"
  BY SenderOf
<1> HIDE DEF Due
<1>2. Due(k) = "demote" => IsMember(k.team, k.user)
  BY <1>1 DEF Told
<1>3. Due(k) \in {"hand_over", "delete_team", "update_team"} =>
        LiveTeam(k.team) /\ k.team \in Created
  BY <1>1 DEF Alive, Routes, Sound, Knows
<1>4. ASSUME Due(k) = "hand_over" PROVE WriteVerdict(k) = "ok"
  <2>1. k.slug = teams[k.team].slug
    BY <1>4 DEF Seeks
  <2>2. k.team \in Team /\ LiveTeam(k.team)
    BY <1>3, <1>4, CreatedTeams
  <2>3. ~SlugIndexed(k.team, teams[k.team].slug)
    BY <2>2, SlugIsOwn DEF Basics
  <2>4. ~SlugIndexed(k.team, k.slug)
    BY <2>1, <2>3
  <2>5. QED BY <2>2, <2>4 DEF WriteVerdict
<1>5. QED BY <1>2, <1>3, <1>4

\* The slug a write finds taken, though nobody has it, is that of a deleted team.
LEMMA SlugOfDeleted ==
    ASSUME TypeOK, NEW t, NEW slug \in Slug, SlugIndexed(t, slug), FindBySlug(slug) \ {t} = {}
    PROVE  \E s \in Team : teams[s].state = "deleted" /\ teams[s].slug = slug
<1>1. PICK s \in Team \ {t} : teams[s].slug = slug
  BY DEF SlugIndexed
<1>2. ~LiveTeam(s)
  BY <1>1 DEF FindBySlug
<1>3. teams[s].state \in {"live", "deleted"}
  <2>1. slug /= NoSlug
    BY StoreAssumption
  <2>2. QED BY <1>1, <2>1, DocumentsTyped
<1>4. QED BY <1>1, <1>2, <1>3 DEF LiveTeam

\* An answer that a command which writes has nothing to write needs no further
\* explanation.
LEMMA FaultsExplain ==
    ASSUME Basics, NEW c \in Call, WriteStep(c), ~InsertTeam(c), call[c] \in InFlight,
           Sound(call[c]), call[c].todo /= <<>>, Alive(call[c]), Told(call[c]), Seeks(call[c]),
           NEW n \in InFlight, Same(n, call[c]), Fault(call[c], n.code)
    PROVE  Fine(n)'
<1> DEFINE k == call[c]
<1>1. /\ Due(k) \in {"promote", "demote", "hand_over"} => k.op = "transfer"
      /\ Due(k) = "update_team" => k.op = "update_team"
      /\ Due(k) = "delete_member" => k.op \in {"remove_member", "leave"}
      /\ Due(k) = "set_role" => k.op = "update_role"
      /\ Due(k) = "delete_invitation" => k.op \in {"cancel", "decline"}
      /\ Due(k) = "insert_member" => k.op = "accept"
  BY SenderOf
<1>2. /\ Due(k) = "hand_over" => WriteVerdict(k) = "ok"
      /\ Due(k) = "demote" => IsMember(k.team, k.user)
      /\ Due(k) = "delete_team" => LiveTeam(k.team)
      /\ Due(k) = "update_team" => LiveTeam(k.team)
  BY NothingWentAmiss
<1>3. /\ Due(k) = "update_team" => WriteTeam(c)
      /\ Due(k) = "insert_member" => InsertTheMember(c)
  BY WriteDue DEF Basics
<1>4. n.op = k.op /\ n.slug = k.slug /\ n.team = k.team /\ n.user = k.user
  BY DEF Same
<1>5. CASE Due(k) = "update_team" /\ n.code = WriteVerdict(k) /\ n.code /= "ok"
  <2>1. SlugIndexed(k.team, k.slug) /\ WriteVerdict(k) = "duplicate"
    BY <1>2, <1>5 DEF WriteVerdict
  <2>2. WritesTeam(k)
    BY <1>3, <1>5 DEF WriteTeam
  <2>3. teams' = teams
    BY <2>1, <2>2 DEF WritesTeam
  <2>4. FindBySlug(k.slug) \ {k.team} = {}
    <3>1. Seeks(k)
      OBVIOUS
    <3> HIDE DEF k, Due
    <3>2. QED BY <1>5, <3>1 DEF Seeks
  <2>5. k.slug \in Slug
    <3>1. Sound(k)
      OBVIOUS
    <3> HIDE DEF k, Due
    <3>2. QED BY <1>1, <1>5, <3>1 DEF Sound, Knows
  <2>6. \E s \in Team : teams[s].state = "deleted" /\ teams[s].slug = k.slug
    <3> HIDE DEF k, Due
    <3>1. QED BY <2>1, <2>4, <2>5, SlugOfDeleted DEF Basics
  <2> HIDE DEF k, Due
  <2>7. QED BY <1>1, <1>4, <1>5, <2>3, <2>6 DEF Fine
<1>6. CASE Due(k) \in {"promote", "delete_member", "set_role"} /\ n.code = "not_member"
  <2> HIDE DEF k, Due
  <2>1. "not_member" \in DOMAIN Handlers[n.op]
    BY <1>1, <1>4, <1>6, HandlerCodes
  <2>2. QED BY <1>6, <2>1 DEF Fine
<1>7. CASE Due(k) = "delete_invitation" /\ n.code = "invitation_not_found"
  <2> HIDE DEF k, Due
  <2>1. "invitation_not_found" \in DOMAIN Handlers[n.op]
    BY <1>1, <1>4, <1>7, HandlerCodes
  <2>2. QED BY <1>7, <2>1 DEF Fine
<1>8. CASE Due(k) = "insert_member" /\ IsMember(k.team, k.user)
  <2>1. roles' = roles
    BY <1>3, <1>8 DEF InsertTheMember
  <2>2. IsMember(n.team, n.user)'
    BY <1>4, <1>8, <2>1 DEF IsMember
  <2> HIDE DEF k, Due
  <2>3. QED BY <1>1, <1>4, <1>8, <2>2 DEF Fine
<1> HIDE DEF Due
<1>9. QED BY <1>2, <1>5, <1>6, <1>7, <1>8 DEF Fault

LEMMA WritesExplain ==
    ASSUME Basics, NEW c \in Call, WriteStep(c), ~InsertTeam(c),
           Alive(call[c]), Told(call[c]), Explained(call[c]),
           NEW n \in InFlight, Becomes(c, n)
    PROVE  Explained(n)'
<1> DEFINE k == call[c]
<1>1. TypeOK /\ Sound(k) /\ k \in InFlight /\ k.todo /= <<>>
  BY Writing DEF Basics, WriteOutcome
<1>2. Same(n, k) /\ n.refused = k.refused /\ n.todo = Remaining(k)
  <2>1. PICK m \in InFlight : /\ Becomes(c, m) /\ Same(m, k)
                              /\ m.refused = k.refused /\ m.todo = Remaining(k)
    BY <1>1, Writing DEF WriteOutcome
  <2>2. m = n
    BY <1>1, <2>1, Stepped
  <2>3. QED BY <2>1, <2>2
<1>3. WriteSays(n, k) /\ Told(k) /\ Alive(k) /\ Explained(k)
  BY <1>1, WritesSay
<1>4. Due(n)' = Due(n)
  BY DEF Due
<1>5. Due(k) \in WriteCommands
  BY <1>1, WriterDue
<1> SUFFICES ASSUME ~n.refused PROVE Explained(n)'
  BY DEF Explained
<1>6. Seeks(k) /\ Due(k) \notin Undoing
  <2> HIDE DEF Due, k
  <2>1. QED BY <1>2, <1>3 DEF Explained
<1>7. k.code = "ok"
  <2> HIDE DEF Due, k
  <2>1. QED BY <1>3, <1>5, <1>6 DEF Told, WriteCommands
<1>8. /\ Due(k) = "hand_over" => WriteVerdict(k) = "ok"
      /\ Due(k) = "demote" => IsMember(k.team, k.user)
      /\ Due(k) = "delete_team" => LiveTeam(k.team)
  BY <1>1, <1>3, <1>6, NothingWentAmiss
<1>9. Due(n) \in (Later \ Undoing) \cup {"find_deleted_memo"}
  <2> HIDE DEF Due, k
  <2>1. CASE Fault(k, n.code) /\ (Due(n) = "end" \/ Due(k) \in {"demote", "hand_over"})
    BY <1>8, <2>1 DEF Fault, Later, Undoing
  <2>2. "end" \in Later \ Undoing
    BY DEF Later, Undoing
  <2>3. QED BY <1>3, <1>6, <2>1, <2>2 DEF WriteSays
<1>10. Seeks(n)'
  <2>1. CASE Due(n) \in {"demote", "hand_over"}
    <3>1. n.op = k.op
      BY <1>2 DEF Same
    <3>2. /\ Due(n) \in Staged => Due(k) \in {"promote", "demote", "hand_over", "undo_demote"}
          /\ Due(k) = "hand_over" /\ WriteVerdict(k) = "ok" => Due(n) = "end"
      BY <1>1, <1>2, <1>5, <3>1, Followed
    <3>3. Due(k) \in {"promote", "demote"}
      <4> HIDE DEF Due, k
      <4>1. QED BY <1>6, <1>8, <2>1, <3>2 DEF Staged, Undoing
    <3>4. teams' = teams
      <4>1. Promote(c) \/ Demote(c)
        BY <1>1, <3>3, WriteDue
      <4>2. QED BY <4>1 DEF Promote, Demote
    <3>5. k.op = "transfer" /\ k.slug = teams[k.team].slug
      <4>1. Due(k) \in {"promote", "demote"} => k.op = "transfer"
        BY <1>1, SenderOf
      <4> HIDE DEF Due, k
      <4>2. QED BY <1>6, <3>3, <4>1 DEF Seeks
    <3>6. n.team = k.team /\ n.slug = k.slug
      BY <1>2 DEF Same
    <3> HIDE DEF Due, k
    <3>7. QED BY <1>4, <2>1, <3>1, <3>4, <3>5, <3>6 DEF Seeks
  <2>2. CASE Due(n) \notin {"demote", "hand_over"}
    <3> HIDE DEF Due, k
    <3>1. Due(n) \notin {"insert_team", "authorize", "find_target", "find_team",
                         "update_team", "promote", "demote", "hand_over"}
      BY <1>9, <2>2 DEF Later
    <3>2. QED BY <3>1, NothingSought
  <2>3. QED BY <2>1, <2>2
<1>11. ASSUME Due(n) = "end" PROVE Fine(n)'
  <2>1. CASE Fault(k, n.code)
    BY <1>1, <1>2, <1>3, <1>6, <2>1, FaultsExplain
  <2>2. CASE n.code = k.code
    <3>1. n.op \in Operations
      BY DEF InFlight
    <3>2. "ok" \in DOMAIN Handlers[n.op]
      BY <3>1, HandlerCodes
    <3> HIDE DEF Due, k
    <3>3. QED BY <1>7, <2>2, <3>2 DEF Fine
  <2> HIDE DEF Due, k
  <2>3. QED BY <1>3, <2>1, <2>2 DEF WriteSays
<1>12. Due(n) \notin Undoing
  <2> HIDE DEF Due, k
  <2>1. QED BY <1>9 DEF Undoing, Later
<1> HIDE DEF Due
<1>13. QED BY <1>4, <1>10, <1>11, <1>12 DEF Explained, Undoing

LEMMA InsertsExplain ==
    ASSUME Basics, NEW c \in Call, InsertTeam(c), Explained(call[c])
    PROVE  \E n : Becomes(c, n) /\ Explained(n)'
<1> DEFINE k == call[c]
<1>1. /\ k \in InFlight /\ k.todo /= <<>> /\ Due(k) = "insert_team" /\ Sound(k) /\ Explained(k)
  BY Sending DEF InsertTeam, Basics
<1>2. CASE SlugIndexed(NoTeam, k.slug)
  <2>1. PICK n : n = Fails(k, <<>>, "duplicate")
    OBVIOUS
  <2>2. Becomes(c, n) /\ teams' = teams
    BY <1>2, <2>1 DEF InsertTeam
  <2>3. n.todo = <<>> /\ Same(n, k) /\ n.refused = k.refused
    <3>1. <<>> \in Seq(Commands) /\ "duplicate" \in Codes
      BY DEF Codes
    <3>2. QED BY <1>1, <2>1, <3>1, Outcomes
  <2>4. Due(n) = "end" /\ Due(n)' = Due(n)
    BY <2>3 DEF Due
  <2>5. k.op = "create_team" /\ k.slug \in Slug
    <3>1. k.op = "create_team"
      BY <1>1, SenderOf
    <3> HIDE DEF k, Due
    <3>2. QED BY <1>1, <3>1 DEF Sound, Knows
  <2>6. n.op = "create_team" /\ n.slug = k.slug
    BY <2>3, <2>5 DEF Same
  <2>7. ~k.refused => FindBySlug(k.slug) = {}
    <3> HIDE DEF k, Due
    <3>1. QED BY <1>1 DEF Explained, Seeks
  <2>8. ~k.refused => \E s \in Team : teams[s].state = "deleted" /\ teams[s].slug = k.slug
    <3> HIDE DEF k, Due
    <3>1. QED BY <1>2, <2>5, <2>7, SlugOfDeleted DEF Basics
  <2> HIDE DEF k, Due
  <2>9. ~n.refused => Fine(n)'
    BY <2>2, <2>3, <2>6, <2>8 DEF Fine
  <2>10. Seeks(n)'
    BY <2>4, NothingSought
  <2>11. QED BY <2>2, <2>4, <2>9, <2>10 DEF Explained, Undoing
<1>3. CASE ~SlugIndexed(NoTeam, k.slug)
  <2>1. PICK n \in InFlight : Becomes(c, n) /\ Due(n) = "insert_owner"
    BY <1>3, TeamInserted
  <2>2. Due(n)' = Due(n)
    BY DEF Due
  <2> HIDE DEF k, Due
  <2>3. Seeks(n)'
    BY <2>1, NothingSought
  <2>4. QED BY <2>1, <2>2, <2>3 DEF Explained, Undoing
<1>4. QED BY <1>2, <1>3

LEMMA ExplainingKept ==
    ASSUME TypeOK, OneAtATime, ~scenario.overlap, NEW c \in Call,
           ~Idle(c) \/ \A d \in Call : Idle(d),
           NEW n, call' = [call EXCEPT ![c] = n], scenario' = scenario,
           n = NoCall \/ Explained(n)'
    PROVE  AllExplained'
<1>1. \A d \in Call : call'[d] = IF d = c THEN n ELSE call[d]
  BY DEF TypeOK
<1>2. \A d \in Call \ {c} : Idle(d)
  BY DEF OneAtATime
<1>3. \A d \in Call : ~Idle(d)' => d = c /\ n /= NoCall
  BY <1>1, <1>2 DEF Idle, NoCall
<1>4. ASSUME NEW d \in Call, ~Idle(d)' PROVE Explained(call[d])'
  <2>1. call'[d] = n /\ Explained(n)'
    BY <1>1, <1>3, <1>4
  <2>2. QED BY <2>1 DEF Explained, Seeks, Fine, Unregistered, Due
<1>5. QED BY <1>4 DEF AllExplained

LEMMA ExplainingStep ==
    /\ Basics /\ Ends /\ OneAtATime /\ TellsTruth /\ AllExplained
    /\ [Next]_vars
    => AllExplained'
<1> SUFFICES ASSUME Basics, Ends, OneAtATime, TellsTruth, AllExplained, [Next]_vars
             PROVE  AllExplained'
  OBVIOUS
<1>1. TypeOK
  BY DEF Basics
<1>2. scenario' = scenario
  BY <1>1, ScenarioStays
<1>3. CASE scenario.overlap
  BY <1>2, <1>3 DEF AllExplained
<1>4. CASE ~scenario.overlap
  <2>1. \A c \in Call : ~Idle(c) => Told(call[c]) /\ Alive(call[c]) /\ Explained(call[c])
    BY <1>4 DEF AllExplained, TellsTruth, Ends
  <2>2. ASSUME NEW c \in Call, RequestArrives(c) PROVE AllExplained'
    <3>1. Arrives(c)
      BY <1>1, <2>2, Arrivals
    <3>2. PICK k \in InFlight :
            /\ call' = [call EXCEPT ![c] = k] /\ Fresh(k)
            /\ k.op = "transfer" => k.slug = NoSlug
      BY <3>1 DEF Arrives
    <3>3. \A d \in Call : Idle(d)
      BY <1>4, <3>1 DEF Arrives
    <3>4. call'[c] = k
      BY <1>1, <3>2 DEF TypeOK
    <3>5. Due(k) \in {"authorize", "count_owned", "count", "find_user", "insert_memo",
                      "delete_memo"}
      BY <3>2 DEF Fresh
    <3>6. k.op = "update_team" /\ k.slug /= NoSlug =>
            k.todo = <<"authorize", "find_team", "find_slug", "update_team">>
      BY <1>1, <2>2, <3>4, UpdateArrives
    <3>7. Due(k)' = Due(k)
      BY DEF Due
    <3>8. Explained(k)'
      <4> HIDE DEF Due
      <4>1. Seeks(k)'
        BY <3>2, <3>5, <3>6, <3>7 DEF Seeks
      <4>2. QED BY <3>5, <3>7, <4>1 DEF Explained, Undoing
    <3>9. QED BY <1>1, <1>2, <1>4, <3>2, <3>3, <3>8, ExplainingKept
  <2>3. ASSUME NEW c \in Call, ReadStep(c) PROVE AllExplained'
    <3>1. ~Idle(c)
      BY <2>3, ReaderBusy
    <3>2. Sound(call[c])
      BY <3>1 DEF Basics
    <3>3. PICK n \in InFlight : Reads(c, n)
      BY <1>1, <2>3, <3>2, ReadsSoundly DEF Basics
    <3>4. Explained(n)
      BY <2>1, <2>3, <3>1, <3>3, ReadsExplain
    <3>5. UNCHANGED <<teams, roles, emails>> /\ Becomes(c, n)
      BY <3>3 DEF Reads, Becomes, storeVars, userVars
    <3>6. Explained(n)'
      BY <3>4, <3>5, ExplainedLasts
    <3>7. QED BY <1>1, <1>2, <1>4, <3>1, <3>5, <3>6, ExplainingKept DEF Becomes
  <2>4. ASSUME NEW c \in Call, WriteStep(c), ~InsertTeam(c) PROVE AllExplained'
    <3>1. ~Idle(c)
      BY <1>1, <2>4, Writing DEF WriteOutcome
    <3>2. PICK n \in InFlight : Becomes(c, n)
      BY <1>1, <2>4, Writing DEF WriteOutcome
    <3>3. Explained(n)'
      BY <2>1, <2>4, <3>1, <3>2, WritesExplain
    <3>4. QED BY <1>1, <1>2, <1>4, <3>1, <3>2, <3>3, ExplainingKept DEF Becomes
  <2>5. ASSUME NEW c \in Call, InsertTeam(c) PROVE AllExplained'
    <3>1. ~Idle(c)
      BY <2>5 DEF InsertTeam, Sends
    <3>2. PICK n : Becomes(c, n) /\ Explained(n)'
      BY <2>1, <2>5, <3>1, InsertsExplain
    <3>3. QED BY <1>1, <1>2, <1>4, <3>1, <3>2, ExplainingKept DEF Becomes
  <2>6. ASSUME NEW c \in Call, Refuse(c) PROVE AllExplained'
    <3>1. PICK n \in InFlight : Becomes(c, n) /\ n.refused /\ ~Idle(c)
      <4>1. ~Idle(c)
        BY <2>6 DEF Refuse
      <4>2. QED BY <1>1, <2>6, <4>1, RefusedLeaves DEF Basics
    <3>2. Explained(n)'
      BY <3>1 DEF Explained
    <3>3. QED BY <1>1, <1>2, <1>4, <3>1, <3>2, ExplainingKept DEF Becomes
  <2>7. ASSUME NEW c \in Call, Respond(c) PROVE AllExplained'
    <3>1. ~Idle(c) /\ Becomes(c, NoCall)
      BY <2>7 DEF Respond
    <3>2. QED BY <1>1, <1>2, <1>4, <3>1, ExplainingKept DEF Becomes
  <2>8. CASE Expire \/ UNCHANGED vars
    <3>1. UNCHANGED <<teams, roles, emails, call>>
      BY <2>8 DEF Expire, vars, storeVars, userVars
    <3>2. ASSUME NEW c \in Call, ~Idle(c)' PROVE Explained(call[c])'
      <4>1. PICK k : k = call[c]
        OBVIOUS
      <4>2. Explained(k) /\ call'[c] = k
        BY <2>1, <3>1, <3>2, <4>1 DEF Idle
      <4>3. Explained(k)'
        BY <3>1, <4>2, ExplainedLasts
      <4>4. QED BY <4>2, <4>3 DEF Explained, Seeks, Fine, Unregistered, Due
    <3>3. QED BY <3>2 DEF AllExplained
  <2>9. CASE EmailChanges \/ UserDeleted
    <3>1. call' = call
      BY <2>9 DEF EmailChanges, UserDeleted
    <3>2. ASSUME NEW c \in Call, ~Idle(c)' PROVE Explained(call[c])'
      <4>1. PICK k : k = call[c]
        OBVIOUS
      <4>2. Sound(k) /\ Explained(k) /\ call'[c] = k
        BY <2>1, <3>1, <3>2, <4>1 DEF Idle, Basics
      <4>3. Explained(k)'
        BY <1>1, <2>9, <4>2, ExplainedThrough
      <4>4. QED BY <4>2, <4>3 DEF Explained, Seeks, Fine, Unregistered, Due
    <3>3. QED BY <3>2 DEF AllExplained
  <2>10. QED BY <2>2, <2>3, <2>4, <2>5, <2>6, <2>7, <2>8, <2>9 DEF Next
<1>5. QED BY <1>3, <1>4

\* No handler answers 500 to an error it knows.
LEMMA HandlersNever500 == \A op \in Operations : \A code \in DOMAIN Handlers[op] : Handlers[op][code] /= 500
BY DEF Handlers, Operations, Routes, CreateTeamHandler, ListTeamsHandler, GetTeamHandler,
       UpdateTeamHandler, DeleteTeamHandler, TransferOwnershipHandler, ListMembersHandler,
       RemoveMemberHandler, UpdateRoleHandler, LeaveTeamHandler, CreateInvitationHandler,
       ListTeamInvitationsHandler, CancelInvitationHandler, ListMyInvitationsHandler,
       AcceptInvitationHandler, DeclineInvitationHandler, ListVoiceMemosHandler,
       ListTeamVoiceMemosHandler, CreateVoiceMemoHandler, CreateTeamVoiceMemoHandler,
       GetTeamVoiceMemoHandler, DeleteVoiceMemoHandler, DeleteTeamVoiceMemoHandler

\* If no command failed, a 500 has one of three causes, whatever the teams, the
\* users and the slugs: what a service looked up before it wrote still holds
\* when it writes, but for the slugs of deleted teams, which only the unique
\* index knows, and a membership, which accepting an invitation does not look up;
\* and the users that access tokens name are there, but for those deleted since.
THEOREM ErrorsHold == Spec => []InternalErrorsExplained
<1>1. Init => Basics /\ Ends /\ OneAtATime /\ TellsTruth /\ AllExplained
  BY BasicsInitially, EndsInitially DEF Init, TellsTruth, AllExplained, Idle, NoCall
<1>2. /\ Basics /\ Ends /\ OneAtATime /\ TellsTruth /\ AllExplained
      /\ [Next]_vars
      => (Basics /\ Ends /\ OneAtATime /\ TellsTruth /\ AllExplained)'
  BY BasicsStep, EndsStep, TellingStep, ExplainingStep
<1>3. Basics /\ AllExplained => InternalErrorsExplained
  <2> SUFFICES ASSUME Basics, AllExplained, NEW c \in Call, AnsweredAlone(c),
                      Status(call[c]) = 500, ~call[c].refused
               PROVE  \/ /\ call[c].op \in {"create_team", "update_team"}
                         /\ \E t \in Team : /\ teams[t].state = "deleted"
                                            /\ teams[t].slug = call[c].slug
                      \/ Unregistered(call[c])
                      \/ call[c].op = "accept" /\ IsMember(call[c].team, call[c].user)
    BY DEF InternalErrorsExplained, Unregistered
  <2> DEFINE k == call[c]
  <2>1. k.op \in Operations
    BY Sender DEF AnsweredAlone, Answered, Basics, InFlight
  <2>2. Fine(k)
    BY DEF AnsweredAlone, Answered, AllExplained, Explained, Due
  <2>3. k.code /= "forbidden"
    <3> SUFFICES ASSUME k.code = "forbidden" PROVE FALSE
      OBVIOUS
    <3>1. k.code \notin DOMAIN Handlers[k.op]
      BY <2>1, HandlerCodes
    <3>2. Status(k) = 403
      BY <3>1 DEF Status
    <3>3. QED BY <3>2
  <2>4. ASSUME k.code \in DOMAIN Handlers[k.op] PROVE FALSE
    <3>1. Status(k) = Handlers[k.op][k.code]
      BY <2>3, <2>4 DEF Status
    <3>2. Handlers[k.op][k.code] /= 500
      BY <2>1, <2>4, HandlersNever500
    <3>3. QED BY <3>1, <3>2
  <2>5. QED BY <2>2, <2>3, <2>4 DEF Fine
<1>4. QED BY <1>1, <1>2, <1>3, PTL DEF Spec

-------------------------------------------------------------------------------
(* Requests one at a time: what becomes of an invitation.                  *)

\* The lookup of an invitee finds this user by this address.
Meant(u, address) == Findable(u) /\ emails[u] = <<address, LowerCase>>

Absent(t, address) == \A u \in User : Meant(u, address) => ~IsMember(t, u)

OnePending ==
    \A i, j \in Invitation :
        /\ invitations[i].pending /\ invitations[j].pending
        /\ invitations[i].team = invitations[j].team
        /\ invitations[i].address = invitations[j].address
        => i = j

\* A pending invitation is the only one, and of somebody who is not in the team,
\* except that an acceptance has yet to drop it once she is.
Outside(k) ==
    /\ OnePending
    /\ \A i \in Invitation : invitations[i].pending =>
         \/ Absent(invitations[i].team, invitations[i].address)
         \/ Due(k) = "drop_invitation" /\ k.invitation = i

Outsiders ==
    /\ OnePending
    /\ \A i \in Invitation :
         invitations[i].pending => Absent(invitations[i].team, invitations[i].address)

\* What an invitation waits for once its user was found to be no member.
Vetted == {"find_pending", "count_members", "count_pending", "insert_invitation"}

\* What a request knows of an invitation by the time a command is due.
Foresees(k) ==
    /\ Outside(k)
    /\ k.op = "invite" =>
         /\ Due(k) = "find_member" =>
              \A u \in User : Meant(u, k.address) => u = k.target \/ ~IsMember(k.team, u)
         /\ Due(k) \in Vetted => Absent(k.team, k.address)
         /\ Due(k) \in Vetted \ {"find_pending"} => PendingFor(k.team, k.address) = {}
    /\ k.op = "accept" /\ Due(k) \in {"find_team", "count_members", "insert_member"} =>
         PendingFor(k.team, k.address) \subseteq {k.invitation}

\* If no command is refused.
Inviting ==
    ~scenario.overlap /\ ~scenario.refusals =>
        /\ (\A c \in Call : Idle(c)) => Outsiders
        /\ \A c \in Call : ~Idle(c) => Foresees(call[c])

LEMMA OutsidersAll ==
    ASSUME NEW n PROVE (Outsiders => Outside(n)) /\ (Outsiders' => Outside(n)')
<1>1. Due(n)' = Due(n)
  BY DEF Due
<1> HIDE DEF Due
<1>2. QED BY <1>1 DEF Outsiders, Outside

LEMMA OutsideAll ==
    ASSUME NEW k, Outside(k), Due(k) /= "drop_invitation" PROVE Outsiders
<1> HIDE DEF Due
<1>1. QED BY DEF Outsiders, Outside

\* Whom a lookup finds by the one email she ever had.
LEMMA MeantByHerEmail ==
    ASSUME NEW u \in User, Findable(u), NEW address, HasHeld(u, address) PROVE Meant(u, address)
<1>1. PICK a \in Address :
        /\ emails[u] = <<a, LowerCase>>
        /\ \A email \in Email : <<u, email>> \in held => email = <<a, LowerCase>>
  BY DEF Findable
<1>2. PICK email \in Email : <<u, email>> \in held /\ ToLower(email) = address
  BY DEF HasHeld
<1>3. a = address
  BY <1>1, <1>2 DEF ToLower
<1>4. QED BY <1>1, <1>3 DEF Meant

LEMMA MeantIsFindable ==
    ASSUME NEW u, NEW a, NEW b, Meant(u, a), Meant(u, b) PROVE Findable(u) /\ a = b
BY DEF Meant

LEMMA NobodyElse ==
    ASSUME NEW t, NEW address, UNCHANGED <<emails, held>>,
           \A u \in User : IsMember(t, u)' => IsMember(t, u), Absent(t, address)
    PROVE  Absent(t, address)'
BY DEF Absent, Meant, Findable

LEMMA MeantStays ==
    ASSUME UNCHANGED <<emails, held>>, NEW u, NEW a PROVE Meant(u, a)' = Meant(u, a)
BY DEF Meant, Findable

\* What a request foresees stays true while nothing it is about changes.
LEMMA ForeseesLasts ==
    ASSUME NEW k, Foresees(k), UNCHANGED <<emails, held, roles, invitations>>
    PROVE  Foresees(k)'
<1>1. Due(k)' = Due(k)
  BY DEF Due
<1> HIDE DEF Due
<1>2. \A t, a : Absent(t, a)' = Absent(t, a) /\ PendingFor(t, a)' = PendingFor(t, a)
  BY MeantStays DEF Absent, IsMember, PendingFor
<1>3. OnePending' = OnePending
  BY DEF OnePending
<1>4. Outside(k)'
  BY <1>1, <1>2, <1>3 DEF Foresees, Outside
<1>5. \A u, a : Meant(u, a)' = Meant(u, a)
  BY MeantStays
<1>6. QED BY <1>1, <1>2, <1>4, <1>5 DEF Foresees, IsMember

\* Whom the lookup of an invitee found is the one it can find.
LEMMA InviteeLooked ==
    ASSUME TypeOK, Bookkeeping, NEW c \in Call, Sound(call[c]), FindInvitee(c),
           NEW n \in InFlight, Reads(c, n)
    PROVE  /\ n.address = call[c].address /\ n.op = "invite"
           /\ Due(n) = "find_member" => \A u \in User : Meant(u, n.address) => u = n.target
           /\ Due(n) \in Vetted => Absent(n.team, n.address)
<1>1. PICK k : k = call[c]
  OBVIOUS
<1>2. /\ k \in InFlight /\ Sound(k) /\ k.todo /= <<>> /\ k.op = "invite"
      /\ Tail(k.todo) /= <<>> /\ Head(Tail(k.todo)) = "find_member"
  BY <1>1, InviteeFound
<1>3. PICK m \in InFlight :
        /\ Reads(c, m) /\ Finds(m, k) /\ m.address = k.address
        /\ \/ /\ m.todo = Tail(k.todo)
              /\ m.target \in FindByEmail(<<m.address, LowerCase>>)
           \/ /\ m.todo = Tail(Tail(k.todo)) /\ m.target = k.target
              /\ FindByEmail(<<m.address, LowerCase>>) = {}
  BY <1>1, InviteeFound
<1>4. m = n
  BY <1>3, Stepped DEF Reads
<1>5. n.address = k.address /\ n.op = "invite"
  BY <1>2, <1>3, <1>4 DEF Finds
<1>6. CASE n.todo = Tail(k.todo) /\ n.target \in FindByEmail(<<n.address, LowerCase>>)
  <2>1. Due(n) = "find_member"
    BY <1>2, <1>6 DEF Due
  <2>2. emails[n.target] = <<n.address, LowerCase>> /\ n.target \in User
    BY <1>6 DEF FindByEmail
  <2>3. emails[n.target] /= NoEmail
    <3>1. <<n.address, LowerCase>> \in Email
      <4>1. n.address \in Address
        BY <1>2, <1>5 DEF Sound, Knows
      <4>2. QED BY <4>1, StoreAssumption DEF Email
    <3>2. QED BY <2>2, <3>1, StoreAssumption
  <2> HIDE DEF Due
  <2>4. ASSUME NEW u \in User, Meant(u, n.address) PROVE u = n.target
    <3>1. emails[u] = emails[n.target]
      BY <2>2, <2>4 DEF Meant
    <3>2. QED BY <2>2, <2>3, <3>1 DEF Bookkeeping
  <2>5. QED BY <1>1, <1>5, <2>1, <2>4 DEF Vetted
<1>7. CASE n.todo = Tail(Tail(k.todo)) /\ FindByEmail(<<n.address, LowerCase>>) = {}
  <2>1. \A u \in User : ~Meant(u, n.address)
    BY <1>7 DEF FindByEmail, Meant
  <2>2. QED BY <1>1, <1>5, <2>1 DEF Absent
<1>8. QED BY <1>3, <1>4, <1>6, <1>7

\* An invitation is sent to one who is not a member.
LEMMA MemberLooked ==
    ASSUME TypeOK, NEW c \in Call, FindMember(c), NEW n \in InFlight, Reads(c, n), n.todo /= <<>>
    PROVE  ~IsMember(call[c].team, call[c].target)
<1> DEFINE k == call[c]
           code == IF IsMember(k.team, k.target) THEN "already_member" ELSE "ok"
<1>1. k \in InFlight /\ k.todo /= <<>> /\ Reads(c, Checked(k, code))
  BY Sending DEF FindMember
<1>2. n = Checked(k, code)
  BY <1>1, Stepped DEF Reads
<1>3. code \in Codes
  BY DEF Codes
<1>4. code = "ok"
  <2> HIDE DEF code, k
  <2>1. QED BY <1>1, <1>2, <1>3, Verdicts
<1>5. QED BY <1>4

\* And only if there is no pending one.
LEMMA PendingLooked ==
    ASSUME TypeOK, NEW c \in Call, FindPending(c), NEW n \in InFlight, Reads(c, n), n.todo /= <<>>
    PROVE  PendingFor(call[c].team, call[c].address) = {}
<1> DEFINE k == call[c]
           code == IF PendingFor(k.team, k.address) = {} THEN "ok" ELSE "pending"
<1>1. k \in InFlight /\ k.todo /= <<>> /\ Reads(c, Checked(k, code))
  BY Sending DEF FindPending
<1>2. n = Checked(k, code)
  BY <1>1, Stepped DEF Reads
<1>3. code \in Codes
  BY DEF Codes
<1>4. code = "ok"
  <2> HIDE DEF code, k
  <2>1. QED BY <1>1, <1>2, <1>3, Verdicts
<1>5. QED BY <1>4

\* An acceptance that goes on has read the one pending invitation of its address.
LEMMA InvitationIsOne ==
    ASSUME TypeOK, OnePending, NEW c \in Call, Sound(call[c]), FindInvitation(c),
           call[c].op = "accept", NEW n \in InFlight, Reads(c, n), n.todo /= <<>>
    PROVE  PendingFor(n.team, n.address) \subseteq {n.invitation}
<1> DEFINE k == call[c]
<1>1. PICK m \in InFlight :
        /\ Reads(c, m) /\ Accepts(m, k)
        /\ \/ m.todo = <<>>
           \/ k.op = "accept" => /\ invitations[k.invitation].address = k.address
                                 /\ invitations[k.invitation].pending
  BY InvitationFound
<1>2. k.invitation \in Invitation
  BY InvitationFound
<1>3. m = n
  BY <1>1, Stepped DEF Reads
<1> HIDE DEF k
<1>4. /\ n.team = invitations[k.invitation].team /\ n.address = k.address
      /\ n.invitation = k.invitation
      /\ invitations[k.invitation].address = k.address /\ invitations[k.invitation].pending
  BY <1>1, <1>3 DEF Accepts, k
<1>5. QED BY <1>2, <1>4 DEF PendingFor, OnePending

\* What precedes the commands that rely on what was read of an invitation.
LEMMA VettedOrder ==
    ASSUME NEW op \in Operations, NEW b, NEW a, <<a, b>> \in Order[op]
    PROVE  /\ op = "invite" /\ b = "find_member" => a = "find_invitee"
           /\ op = "invite" /\ b = "find_pending" => a = "find_member"
           /\ op = "invite" /\ b \in Vetted \ {"find_pending"} => a \in Vetted
           /\ op = "accept" /\ b \in {"find_team", "count_members", "insert_member"} =>
                a \in {"find_invitation", "find_team", "count_members"}
           /\ op = "my_invitations" => <<a, b>> \in {<<"find_user", "find">>, <<"find", "end">>}
BY DEF Order, Operations, Routes, Vetted

LEMMA ReadsForesee ==
    ASSUME Basics, NEW c \in Call, ReadStep(c), Foresees(call[c]),
           NEW n \in InFlight, Reads(c, n)
    PROVE  Foresees(n)
<1> PICK k : k = call[c]
  OBVIOUS
<1>1. TypeOK /\ Bookkeeping /\ Foresees(k)
  BY DEF Basics
<1>2. /\ ~Idle(c) /\ k \in InFlight /\ Sound(k) /\ k.todo /= <<>> /\ k.op \in Operations
      /\ n.op = k.op /\ n.invitation = k.invitation
      /\ Due(k) /= "find_invitation" => n.team = k.team
      /\ Due(k) /= "find_user" => n.address = k.address
      /\ Due(k) /= "find_invitee" => n.target = k.target
      /\ \/ Due(n) \in {"end", "find_requester", "delete_member", "set_role"}
         \/ <<Due(k), Due(n)>> \in Order[k.op]
         \/ Due(k) = "find_invitee" /\ Due(n) = "find_pending"
  <2> HIDE DEF Due
  <2>1. QED BY ReadAhead
<1>3. Due(k) \in PlainReads \cup {"find_team", "find_target", "find_invitation", "find_user", "find_invitee"}
  <2>1. \E command \in PlainReads \cup {"find_team", "find_target", "find_invitation",
                                        "find_user", "find_invitee"} :
          Sends(c, command)
    BY DEF ReadStep, PlainReads, Authorize, CountOwned, FindSlug, FindTeam, FindTarget,
           FindRequester, FindInvitee, FindMember, FindPending, CountMembers, CountPending,
           FindUser, FindInvitation, FindMemo, FindDeletedMemo, Count, Find
  <2>2. \A command : Sends(c, command) => Due(k) = command
    BY <1>1, Sending
  <2> HIDE DEF Due
  <2>3. QED BY <2>1, <2>2
<1>4. Outsiders
  <2> HIDE DEF Due
  <2>2. Due(k) /= "drop_invitation"
    BY <1>3 DEF PlainReads
  <2>3. QED BY <1>1, <2>2, OutsideAll DEF Foresees
<1>5. Outside(n)
  BY <1>4, OutsidersAll
<1>6. /\ Due(k) = "find_member" => FindMember(c)
      /\ Due(k) = "find_pending" => FindPending(c)
      /\ Due(k) = "find_invitation" => FindInvitation(c)
  BY <1>1, CountMembersDue
<1>7. Due(k) = "find_invitee" => FindInvitee(c)
  <2>1. \A command : Sends(c, command) => Due(k) = command
    BY <1>1, Sending
  <2> HIDE DEF Due
  <2>2. QED
    BY <2>1
       DEF ReadStep, Authorize, CountOwned, FindSlug, FindTeam, FindTarget, FindRequester,
           FindMember, FindPending, CountMembers, CountPending, FindUser, FindInvitation,
           FindMemo, FindDeletedMemo, Count, Find
<1>8. n.todo = <<>> => Due(n) = "end"
  BY DEF Due
<1> HIDE DEF Due
<1>9. ASSUME n.op = "invite"
      PROVE  /\ Due(n) = "find_member" =>
                  \A u \in User : Meant(u, n.address) => u = n.target \/ ~IsMember(n.team, u)
             /\ Due(n) \in Vetted => Absent(n.team, n.address)
             /\ Due(n) \in Vetted \ {"find_pending"} => PendingFor(n.team, n.address) = {}
  <2>1. CASE Due(k) = "find_invitee"
    <3>1. /\ Due(n) = "find_member" => \A u \in User : Meant(u, n.address) => u = n.target
          /\ Due(n) \in Vetted => Absent(n.team, n.address)
      BY <1>1, <1>2, <1>7, <2>1, InviteeLooked
    <3>2. Due(n) \notin Vetted \ {"find_pending"}
      <4>1. PICK a, b : a = Due(k) /\ b = Due(n)
        OBVIOUS
      <4>2. <<a, b>> \in Order["invite"] => b \notin Vetted \ {"find_pending"}
        <5>1. "invite" \in Operations
          BY DEF Operations, Routes
        <5>2. QED BY <2>1, <4>1, <5>1, VettedOrder DEF Vetted
      <4>3. QED BY <1>2, <1>9, <4>1, <4>2 DEF Vetted
    <3>3. QED BY <3>1, <3>2
  <2>2. CASE Due(k) /= "find_invitee" /\ Due(n) \in Vetted \cup {"find_member"}
    <3>1. PICK a, b : a = Due(k) /\ b = Due(n) /\ <<a, b>> \in Order["invite"]
      BY <1>2, <1>9, <2>2 DEF Vetted
    <3>2. "invite" \in Operations
      BY DEF Operations, Routes
    <3>3. /\ b /= "find_member"
          /\ b = "find_pending" => a = "find_member"
          /\ b \in Vetted \ {"find_pending"} => a \in Vetted
      BY <2>2, <3>1, <3>2, VettedOrder
    <3>4. n.team = k.team /\ n.address = k.address /\ n.todo /= <<>>
      BY <1>2, <1>8, <2>2, <3>1, <3>3 DEF Vetted
    <3>5. CASE b = "find_pending"
      <4>1. ~IsMember(k.team, k.target)
        BY <1>1, <1>6, <3>1, <3>3, <3>4, <3>5, MemberLooked
      <4>2. \A u \in User : Meant(u, k.address) => u = k.target \/ ~IsMember(k.team, u)
        BY <1>1, <1>2, <1>9, <3>1, <3>3, <3>5 DEF Foresees
      <4>3. QED BY <3>1, <3>4, <3>5, <4>1, <4>2 DEF Absent
    <3>6. CASE b \in Vetted \ {"find_pending"}
      <4>1. Absent(k.team, k.address)
        BY <1>1, <1>2, <1>9, <3>1, <3>3, <3>6 DEF Foresees
      <4>2. PendingFor(k.team, k.address) = {}
        <5>1. CASE a = "find_pending"
          BY <1>1, <1>6, <3>1, <3>4, <5>1, PendingLooked
        <5>2. CASE a /= "find_pending"
          BY <1>1, <1>2, <1>9, <3>1, <3>3, <3>6, <5>2 DEF Foresees
        <5>3. QED BY <5>1, <5>2
      <4>3. QED BY <3>1, <3>3, <3>4, <3>6, <4>1, <4>2
    <3>7. QED BY <2>2, <3>1, <3>3, <3>5, <3>6
  <2>3. CASE Due(n) \notin Vetted \cup {"find_member"}
    BY <2>3
  <2>4. QED BY <2>1, <2>2, <2>3
<1>10. n.op = "accept" /\ Due(n) \in {"find_team", "count_members", "insert_member"} =>
         PendingFor(n.team, n.address) \subseteq {n.invitation}
  <2> SUFFICES ASSUME n.op = "accept", Due(n) \in {"find_team", "count_members", "insert_member"}
               PROVE  PendingFor(n.team, n.address) \subseteq {n.invitation}
    OBVIOUS
  <2>1. n.todo /= <<>>
    BY <1>8
  <2>2. ASSUME Due(k) = "find_invitation"
        PROVE  PendingFor(n.team, n.address) \subseteq {n.invitation}
    BY <1>1, <1>2, <1>4, <1>6, <2>1, <2>2, InvitationIsOne DEF Outsiders
  <2>3. PICK a, b : a = Due(k) /\ b = Due(n) /\ <<a, b>> \in Order["accept"]
    BY <1>2
  <2>4. a = "find_invitation" \/ a \in {"find_team", "count_members"}
    <3>1. "accept" \in Operations
      BY DEF Operations, Routes
    <3>2. QED BY <2>3, <3>1, VettedOrder
  <2>5. CASE a \in {"find_team", "count_members"}
    <3>1. PendingFor(k.team, k.address) \subseteq {k.invitation}
      BY <1>1, <1>2, <2>3, <2>5 DEF Foresees
    <3>2. n.team = k.team /\ n.address = k.address
      BY <1>2, <2>3, <2>5
    <3>3. QED BY <1>2, <3>1, <3>2
  <2>6. QED BY <2>2, <2>3, <2>4, <2>5
<1>11. QED BY <1>5, <1>9, <1>10 DEF Foresees

LEMMA DropsInvitation ==
    ASSUME TypeOK, NEW c \in Call, WriteStep(c), ~InsertTeam(c),
           Due(call[c]) = "drop_invitation", call[c].invitation \in Invitation
    PROVE  invitations'[call[c].invitation].pending = FALSE
<1> DEFINE k == call[c]
<1>1. \A command : Sends(c, command) => Due(k) = command
  BY Sending
<1>2. DropInvitation(c)
  <2> HIDE DEF Due
  <2>1. QED
    BY <1>1
       DEF WriteStep, InsertOwner, UndoTeam, WriteTeam, DeleteMemos, DeleteMembers,
           DeleteInvitations, DeleteTheTeam, Promote, Demote, HandOver, UndoDemote,
           UndoPromote, DeleteTheMember, SetRole, InsertTheInvitation, DeleteTheInvitation,
           InsertTheMember, InsertTheMemo, DeleteTheMemo
<1>3. invitations' = [invitations EXCEPT ![k.invitation] = NotInvited]
  BY <1>2 DEF DropInvitation, DeleteInvitation
<1>4. invitations \in [Invitation -> InvitationDocument \cup {NotInvited}]
  BY DEF TypeOK, StoreTypeOK
<1> HIDE DEF k
<1>5. invitations'[k.invitation] = NotInvited
  BY <1>3, <1>4 DEF k
<1>6. QED BY <1>5 DEF NotInvited, k

\* An acceptance that has let its user in drops the invitation next.
LEMMA DropsNext ==
    ASSUME NEW k \in InFlight, Sound(k), k.todo /= <<>>, Due(k) = "insert_member",
           ~IsMember(k.team, k.user), NEW n \in InFlight, n.op = k.op, n.todo = Remaining(k)
    PROVE  Due(n) = "drop_invitation"
<1>1. k.op = "accept"
  BY SenderOf
<1>2. n.todo = Tail(k.todo)
  <2> HIDE DEF Due
  <2>1. QED BY DEF Remaining
<1>3. <<Due(k), Due(n)>> \in Order[k.op]
  BY <1>2, NextDue
<1>4. PICK a, b : a = Due(k) /\ b = Due(n)
  OBVIOUS
<1>5. <<a, b>> \in Order["accept"] /\ a = "insert_member"
  BY <1>1, <1>3, <1>4
<1>6. b = "drop_invitation"
  BY <1>5 DEF Order
<1>7. QED BY <1>4, <1>6

\* Two commands bring a member and an invitation together: one invites, and
\* found before that its user is no member; the other lets the user of an
\* invitation in, and is followed by the one that drops it.
LEMMA WritesOutside ==
    ASSUME Basics, NEW c \in Call, WriteStep(c), ~InsertTeam(c), call[c] \in InFlight,
           Sound(call[c]), call[c].todo /= <<>>, Alive(call[c]), Foresees(call[c]),
           NEW n \in InFlight, Same(n, call[c]), n.todo = Remaining(call[c])
    PROVE  Outside(n)'
<1> PICK k : k = call[c]
  OBVIOUS
<1>1. TypeOK /\ Foresees(k) /\ Outside(k) /\ k \in InFlight /\ k.todo /= <<>> /\ Sound(k)
  BY DEF Basics, Foresees
<1>2. Due(n)' = Due(n)
  BY DEF Due
<1>3. n.op = k.op /\ n.invitation = k.invitation
  BY DEF Same
<1>4. UNCHANGED <<emails, held>>
  <2>1. \E m : Becomes(c, m)
    BY <1>1, Writing DEF WriteOutcome
  <2>2. QED BY <2>1 DEF Becomes, userVars
<1>5. CASE InvitationsShrink /\ Due(k) /= "insert_invitation"
  <2>1. OnePending'
    BY <1>1, <1>5 DEF InvitationsShrink, OnePending, Outside
  <2> SUFFICES ASSUME NEW i \in Invitation, invitations'[i].pending,
                      NEW u \in User, Meant(u, invitations[i].address)',
                      IsMember(invitations[i].team, u)'
               PROVE  Due(n) = "drop_invitation" /\ n.invitation = i
    BY <1>2, <2>1 DEF Outside, Absent
  <2>2. PICK t, a : t = invitations[i].team /\ a = invitations[i].address
    OBVIOUS
  <2>3. /\ invitations[i].pending
        /\ invitations'[i].team = t /\ invitations'[i].address = a
    BY <1>5, <2>2 DEF InvitationsShrink
  <2>4. t \in Team
    BY <1>1, <2>2, <2>3, PendingDocument
  <2>5. Meant(u, a)
    <3>1. Meant(u, a)'
      BY <2>3
    <3>2. QED BY <1>4, <3>1, MeantStays
  <2>6. ~(Due(k) = "drop_invitation" /\ k.invitation = i)
    BY <1>1, <2>3, DropsInvitation
  <2>7. ~IsMember(t, u)
    <3> HIDE DEF Due
    <3>1. QED BY <1>1, <2>2, <2>3, <2>5, <2>6 DEF Outside, Absent
  <2>8. u \notin Members(t) /\ u \in Members(t)'
    BY <2>3, <2>7 DEF Members
  <2>9. Due(k) \in Joining /\ k.team = t /\ u = k.user
    <3> HIDE DEF Due
    <3>1. QED BY <2>4, <2>8, MembersGrow
  <2>10. Due(k) /= "insert_owner"
    <3> SUFFICES ASSUME Due(k) = "insert_owner" PROVE FALSE
      OBVIOUS
    <3>1. Emptied(t)
      BY <2>9 DEF Alive
    <3>2. QED BY <2>2, <3>1 DEF Emptied, InvitationsGone
  <2>11. Due(k) = "insert_member"
    <3> HIDE DEF Due
    <3>1. QED BY <2>9, <2>10 DEF Joining
  <2>12. Due(n) = "drop_invitation"
    BY <1>1, <1>3, <2>7, <2>9, <2>11, DropsNext
  <2>13. k.op = "accept"
    BY <1>1, <2>11, SenderOf
  <2>14. a = k.address
    <3>1. HasHeld(u, k.address)
      BY <1>1, <2>9, <2>11, <2>13 DEF Sound, Knows, HasHeld
    <3>2. Meant(u, k.address)
      BY <2>5, <3>1, MeantByHerEmail DEF Meant
    <3>3. QED BY <2>5, <3>2, MeantIsFindable
  <2> HIDE DEF Due
  <2>15. PendingFor(t, a) \subseteq {k.invitation}
    BY <1>1, <2>9, <2>11, <2>13, <2>14 DEF Foresees
  <2>16. i \in PendingFor(t, a)
    BY <2>2, <2>3 DEF PendingFor
  <2>17. QED BY <1>3, <2>12, <2>15, <2>16
<1>6. CASE /\ Due(k) = "insert_invitation" /\ UNCHANGED roles
           /\ \E i \in Invitation : InsertInvitation(i, k.team, k.address, k.role)
  <2>1. PICK j \in Invitation : InsertInvitation(j, k.team, k.address, k.role)
    BY <1>6
  <2>2. k.op = "invite"
    BY <1>1, <1>6, SenderOf
  <2>3. invitations \in [Invitation -> InvitationDocument \cup {NotInvited}]
    BY <1>1 DEF TypeOK, StoreTypeOK
  <2> HIDE DEF Due
  <2>4. Absent(k.team, k.address) /\ PendingFor(k.team, k.address) = {}
    BY <1>1, <1>6, <2>2 DEF Foresees, Vetted
  <2>5. /\ invitations'[j].team = k.team /\ invitations'[j].address = k.address
        /\ \A i \in Invitation \ {j} : invitations'[i] = invitations[i]
    BY <2>1, <2>3 DEF InsertInvitation
  <2>6. \A t, a : Absent(t, a)' = Absent(t, a)
    BY <1>4, <1>6, MeantStays DEF Absent, IsMember
  <2>7. \A i \in Invitation \ {j} :
          invitations[i].pending => invitations[i].team /= k.team \/ invitations[i].address /= k.address
    BY <2>4 DEF PendingFor
  <2>8. OnePending'
    BY <1>1, <2>5, <2>7 DEF OnePending, Outside
  <2>9. ASSUME NEW i \in Invitation, invitations'[i].pending
        PROVE  Absent(invitations[i].team, invitations[i].address)'
    <3>1. PICK t, a : t = invitations'[i].team /\ a = invitations'[i].address
      OBVIOUS
    <3>2. Absent(t, a)
      <4>1. CASE i = j
        BY <2>4, <2>5, <3>1, <4>1
      <4>2. CASE i /= j
        BY <1>1, <1>6, <2>5, <2>9, <3>1, <4>2 DEF Outside
      <4>3. QED BY <4>1, <4>2
    <3>3. Absent(t, a)'
      BY <2>6, <3>2
    <3>4. QED BY <3>1, <3>3 DEF Absent, IsMember
  <2>10. Outsiders'
    BY <2>8, <2>9 DEF Outsiders
  <2>11. QED BY <2>10, OutsidersAll
<1> HIDE DEF Due
<1>7. QED BY <1>5, <1>6, InvitationsGrow

LEMMA WritesForesee ==
    ASSUME Basics, NEW c \in Call, WriteStep(c), ~InsertTeam(c), call[c] \in InFlight,
           Sound(call[c]), call[c].todo /= <<>>, Alive(call[c]), Foresees(call[c]),
           NEW n \in InFlight, Same(n, call[c]), n.todo = Remaining(call[c])
    PROVE  Foresees(n)'
<1> PICK k : k = call[c]
  OBVIOUS
<1>1. Outside(n)'
  BY WritesOutside
<1>2. Due(n)' = Due(n)
  BY DEF Due
<1>3. Due(k) \in WriteCommands
  BY WriterDue DEF Basics
<1>4. Due(n) \notin SeatCommands /\ n.op = k.op /\ k.op \in Operations
  BY <1>3, AfterWriteNoSeat, DueInOrder DEF Same
<1>5. ~(n.op = "invite" /\ Due(n) = "find_member")
  <2>1. SUFFICES ASSUME n.op = "invite", Due(n) = "find_member" PROVE FALSE
    OBVIOUS
  <2>2. n.todo = Tail(k.todo) => <<Due(k), Due(n)>> \in Order[k.op]
    BY <1>4, NextDue
  <2>3. PICK a, b : a = Due(k) /\ b = Due(n)
    OBVIOUS
  <2>4. a = "insert_invitation"
    <3>1. k.op = "invite" /\ \E d : <<Due(k), d>> \in Order[k.op]
      BY <1>4, <2>1, DueInOrder
    <3> HIDE DEF Due
    <3>2. QED BY <1>3, <2>3, <3>1 DEF Order, WriteCommands
  <2>5. n.todo = Tail(k.todo)
    BY <2>3, <2>4 DEF Remaining
  <2> HIDE DEF Due
  <2>6. <<a, b>> \in Order["invite"] /\ b = "find_member"
    BY <1>4, <2>1, <2>2, <2>3, <2>5
  <2>7. QED BY <2>4, <2>6 DEF Order
<1> HIDE DEF Due
<1>6. QED BY <1>1, <1>2, <1>4, <1>5 DEF Foresees, SeatCommands, Vetted

\* A slot serves what its behaviour offers.
Asked == \A c \in Call : ~Idle(c) => call[c].op \in scenario.operations

PagedOperations == {"list_teams", "list_memos", "list_own_memos"}
Lists(c) == ListTeams(c) \/ ListByUserID(c) \/ ListByTeamID(c)

\* The operation that arrives is one on offer, and a paged listing is one of those.
Offers(c) ==
    /\ call'[c].op \in scenario.operations
    /\ call'[c].op \in PagedOperations => Lists(c)

LEMMA ArrivesAsked ==
    ASSUME TypeOK, NEW c \in Call, RequestArrives(c)
    PROVE  Offers(c)
<1>1. ASSUME NEW k, NEW op, IsFor(k, op), Starts(c, k), Accepting(c, op),
             op \notin PagedOperations \/ Lists(c)
      PROVE  Offers(c)
  <2>1. call'[c] = k
    BY <1>1 DEF Starts, TypeOK
  <2>2. QED BY <1>1, <2>1 DEF IsFor, Accepting, Offers
<1>2. ASSUME CreateTeam(c) PROVE Offers(c)
  <2>1. Accepting(c, "create_team") /\ \E k : IsFor(k, "create_team") /\ Starts(c, k)
    BY <1>2, RequestsFor DEF CreateTeam
  <2>2. QED BY <1>1, <2>1 DEF PagedOperations
<1>3. ASSUME UpdateTeam(c) PROVE Offers(c)
  <2>1. Accepting(c, "update_team") /\ \E k : IsFor(k, "update_team") /\ Starts(c, k)
    BY <1>3, RequestsFor DEF UpdateTeam
  <2>2. QED BY <1>1, <2>1 DEF PagedOperations
<1>4. ASSUME DeleteTeam(c) PROVE Offers(c)
  <2>1. Accepting(c, "delete_team") /\ \E k : IsFor(k, "delete_team") /\ Starts(c, k)
    BY <1>4, RequestsFor DEF DeleteTeam
  <2>2. QED BY <1>1, <2>1 DEF PagedOperations
<1>5. ASSUME TransferOwnership(c) PROVE Offers(c)
  <2>1. Accepting(c, "transfer") /\ \E k : IsFor(k, "transfer") /\ Starts(c, k)
    BY <1>5, RequestsFor DEF TransferOwnership
  <2>2. QED BY <1>1, <2>1 DEF PagedOperations
<1>6. ASSUME GetTeam(c) PROVE Offers(c)
  <2>1. Accepting(c, "get_team") /\ \E k : IsFor(k, "get_team") /\ Starts(c, k)
    BY <1>6, RequestsFor DEF GetTeam
  <2>2. QED BY <1>1, <2>1 DEF PagedOperations
<1>7. ASSUME ListTeams(c) PROVE Offers(c)
  <2>1. Accepting(c, "list_teams") /\ \E k : IsFor(k, "list_teams") /\ Starts(c, k)
    BY <1>7, RequestsFor DEF ListTeams
  <2>2. QED BY <1>1, <2>1, <1>7 DEF Lists
<1>8. ASSUME ListMembers(c) PROVE Offers(c)
  <2>1. Accepting(c, "list_members") /\ \E k : IsFor(k, "list_members") /\ Starts(c, k)
    BY <1>8, RequestsFor DEF ListMembers
  <2>2. QED BY <1>1, <2>1 DEF PagedOperations
<1>9. ASSUME RemoveMember(c) PROVE Offers(c)
  <2>1. Accepting(c, "remove_member") /\ \E k : IsFor(k, "remove_member") /\ Starts(c, k)
    BY <1>9, RequestsFor DEF RemoveMember
  <2>2. QED BY <1>1, <2>1 DEF PagedOperations
<1>10. ASSUME UpdateRole(c) PROVE Offers(c)
  <2>1. Accepting(c, "update_role") /\ \E k : IsFor(k, "update_role") /\ Starts(c, k)
    BY <1>10, RequestsFor DEF UpdateRole
  <2>2. QED BY <1>1, <2>1 DEF PagedOperations
<1>11. ASSUME LeaveTeam(c) PROVE Offers(c)
  <2>1. Accepting(c, "leave") /\ \E k : IsFor(k, "leave") /\ Starts(c, k)
    BY <1>11, RequestsFor DEF LeaveTeam
  <2>2. QED BY <1>1, <2>1 DEF PagedOperations
<1>12. ASSUME CreateInvitation(c) PROVE Offers(c)
  <2>1. Accepting(c, "invite") /\ \E k : IsFor(k, "invite") /\ Starts(c, k)
    BY <1>12, RequestsFor DEF CreateInvitation
  <2>2. QED BY <1>1, <2>1 DEF PagedOperations
<1>13. ASSUME ListTeamInvitations(c) PROVE Offers(c)
  <2>1. Accepting(c, "list_invitations") /\ \E k : IsFor(k, "list_invitations") /\ Starts(c, k)
    BY <1>13, RequestsFor DEF ListTeamInvitations
  <2>2. QED BY <1>1, <2>1 DEF PagedOperations
<1>14. ASSUME CancelInvitation(c) PROVE Offers(c)
  <2>1. Accepting(c, "cancel") /\ \E k : IsFor(k, "cancel") /\ Starts(c, k)
    BY <1>14, RequestsFor DEF CancelInvitation
  <2>2. QED BY <1>1, <2>1 DEF PagedOperations
<1>15. ASSUME ListMyInvitations(c) PROVE Offers(c)
  <2>1. Accepting(c, "my_invitations") /\ \E k : IsFor(k, "my_invitations") /\ Starts(c, k)
    BY <1>15, RequestsFor DEF ListMyInvitations
  <2>2. QED BY <1>1, <2>1 DEF PagedOperations
<1>16. ASSUME AcceptInvitation(c) PROVE Offers(c)
  <2>1. Accepting(c, "accept") /\ \E k : IsFor(k, "accept") /\ Starts(c, k)
    BY <1>16, RequestsFor DEF AcceptInvitation
  <2>2. QED BY <1>1, <2>1 DEF PagedOperations
<1>17. ASSUME DeclineInvitation(c) PROVE Offers(c)
  <2>1. Accepting(c, "decline") /\ \E k : IsFor(k, "decline") /\ Starts(c, k)
    BY <1>17, RequestsFor DEF DeclineInvitation
  <2>2. QED BY <1>1, <2>1 DEF PagedOperations
<1>18. ASSUME CreateVoiceMemo(c) PROVE Offers(c)
  <2>1. Accepting(c, "create_own_memo") /\ \E k : IsFor(k, "create_own_memo") /\ Starts(c, k)
    BY <1>18, RequestsFor DEF CreateVoiceMemo
  <2>2. QED BY <1>1, <2>1 DEF PagedOperations
<1>19. ASSUME CreateTeamVoiceMemo(c) PROVE Offers(c)
  <2>1. Accepting(c, "create_memo") /\ \E k : IsFor(k, "create_memo") /\ Starts(c, k)
    BY <1>19, RequestsFor DEF CreateTeamVoiceMemo
  <2>2. QED BY <1>1, <2>1 DEF PagedOperations
<1>20. ASSUME ListByUserID(c) PROVE Offers(c)
  <2>1. Accepting(c, "list_own_memos") /\ \E k : IsFor(k, "list_own_memos") /\ Starts(c, k)
    BY <1>20, RequestsFor DEF ListByUserID
  <2>2. QED BY <1>1, <2>1, <1>20 DEF Lists
<1>21. ASSUME ListByTeamID(c) PROVE Offers(c)
  <2>1. Accepting(c, "list_memos") /\ \E k : IsFor(k, "list_memos") /\ Starts(c, k)
    BY <1>21, RequestsFor DEF ListByTeamID
  <2>2. QED BY <1>1, <2>1, <1>21 DEF Lists
<1>22. ASSUME GetVoiceMemo(c) PROVE Offers(c)
  <2>1. Accepting(c, "get_memo") /\ \E k : IsFor(k, "get_memo") /\ Starts(c, k)
    BY <1>22, RequestsFor DEF GetVoiceMemo
  <2>2. QED BY <1>1, <2>1 DEF PagedOperations
<1>23. ASSUME DeleteTeamVoiceMemo(c) PROVE Offers(c)
  <2>1. Accepting(c, "delete_memo") /\ \E k : IsFor(k, "delete_memo") /\ Starts(c, k)
    BY <1>23, RequestsFor DEF DeleteTeamVoiceMemo
  <2>2. QED BY <1>1, <2>1 DEF PagedOperations
<1>24. ASSUME DeleteVoiceMemo(c) PROVE Offers(c)
  <2>1. Accepting(c, "delete_own_memo") /\ \E k : IsFor(k, "delete_own_memo") /\ Starts(c, k)
    BY <1>24, RequestsFor DEF DeleteVoiceMemo
  <2>2. QED BY <1>1, <2>1 DEF PagedOperations
<1>25. QED
  BY <1>2, <1>3, <1>4, <1>5, <1>6, <1>7, <1>8, <1>9, <1>10, <1>11, <1>12, <1>13, <1>14,
     <1>15, <1>16, <1>17, <1>18, <1>19, <1>20, <1>21, <1>22, <1>23, <1>24 DEF RequestArrives

LEMMA AskedStep == Basics /\ Asked /\ [Next]_vars => Asked'
<1> SUFFICES ASSUME Basics, Asked, [Next]_vars PROVE Asked'
  OBVIOUS
<1>1. TypeOK
  BY DEF Basics
<1>2. scenario' = scenario
  BY <1>1, ScenarioStays
<1>3. ASSUME NEW c \in Call, NEW n, call' = [call EXCEPT ![c] = n],
             n = NoCall \/ n.op \in scenario.operations
      PROVE  Asked'
  <2>1. \A d \in Call : call'[d] = IF d = c THEN n ELSE call[d]
    BY <1>1, <1>3 DEF TypeOK
  <2>2. ASSUME NEW d \in Call, ~Idle(d)' PROVE (call[d].op \in scenario.operations)'
    <3>1. CASE d = c
      BY <1>2, <1>3, <2>1, <2>2, <3>1 DEF Idle, NoCall
    <3>2. CASE d /= c
      BY <1>2, <2>1, <2>2, <3>2 DEF Idle, Asked
    <3>3. QED BY <3>1, <3>2
  <2>3. QED BY <2>2 DEF Asked
<1>4. ASSUME NEW c \in Call, RequestArrives(c) PROVE Asked'
  <2>1. PICK k \in InFlight : call' = [call EXCEPT ![c] = k]
    BY <1>1, <1>4, Arrivals DEF Arrives
  <2>2. call'[c] = k
    BY <1>1, <2>1 DEF TypeOK
  <2>3. QED BY <1>1, <1>3, <1>4, <2>1, <2>2, ArrivesAsked DEF Offers
<1>5. ASSUME NEW c \in Call, NEW n, Becomes(c, n), ~Idle(c), n.op = call[c].op PROVE Asked'
  BY <1>3, <1>5 DEF Becomes, Asked
<1>6. ASSUME NEW c \in Call, ReadStep(c) PROVE Asked'
  <2>1. Sound(call[c]) /\ ~Idle(c)
    BY <1>6, ReaderBusy DEF Basics
  <2>2. PICK n \in InFlight : Reads(c, n)
    BY <1>1, <1>6, <2>1, ReadsSoundly DEF Basics
  <2>3. n.op = call[c].op
    BY <1>6, <2>2, ReadAhead
  <2>4. QED BY <1>5, <2>1, <2>2, <2>3 DEF Reads
<1>7. ASSUME NEW c \in Call, WriteStep(c), ~InsertTeam(c) PROVE Asked'
  <2>1. ~Idle(c) /\ \E n : Becomes(c, n) /\ n.op = call[c].op
    BY <1>1, <1>7, Writing DEF WriteOutcome, Same
  <2>2. QED BY <1>5, <2>1
<1>8. ASSUME NEW c \in Call, InsertTeam(c) PROVE Asked'
  <2>1. call[c] \in InFlight /\ ~Idle(c) /\ call[c].todo /= <<>> /\ Due(call[c]) = "insert_team"
    BY <1>1, <1>8, Sending DEF InsertTeam
  <2>2. CASE SlugIndexed(NoTeam, call[c].slug)
    <3>1. PICK n : n = Fails(call[c], <<>>, "duplicate")
      OBVIOUS
    <3>2. Becomes(c, n)
      BY <1>8, <2>2, <3>1 DEF InsertTeam
    <3>3. n.op = call[c].op
      <4>1. <<>> \in Seq(Commands) /\ "duplicate" \in Codes
        BY DEF Codes
      <4>2. QED BY <2>1, <3>1, <4>1, Outcomes DEF Same
    <3>4. QED BY <1>5, <2>1, <3>2, <3>3
  <2>3. CASE ~SlugIndexed(NoTeam, call[c].slug)
    <3>1. PICK n \in InFlight : Becomes(c, n) /\ n.op = "create_team"
      BY <1>8, <2>3, TeamInserted
    <3>2. call[c].op = "create_team"
      BY <2>1, SenderOf DEF Basics
    <3>3. QED BY <1>5, <2>1, <3>1, <3>2
  <2>4. QED BY <2>2, <2>3
<1>9. ASSUME NEW c \in Call, Refuse(c) PROVE Asked'
  <2>1. ~Idle(c)
    BY <1>9 DEF Refuse
  <2>2. \E n : Becomes(c, n) /\ n.op = call[c].op
    BY <1>1, <1>9, <2>1, RefusedLeaves DEF Same, Basics
  <2>3. QED BY <1>5, <2>1, <2>2
<1>10. ASSUME NEW c \in Call, Respond(c) PROVE Asked'
  BY <1>3, <1>10 DEF Respond, Becomes
<1>11. CASE Expire \/ EmailChanges \/ UserDeleted \/ UNCHANGED vars
  <2>1. UNCHANGED <<call, scenario>>
    BY <1>11 DEF Expire, EmailChanges, UserDeleted, vars
  <2>2. QED BY <2>1 DEF Asked, Idle
<1>12. QED BY <1>4, <1>6, <1>7, <1>8, <1>9, <1>10, <1>11 DEF Next

LEMMA InvitingKept ==
    ASSUME TypeOK, OneAtATime, ~scenario.overlap, NEW c \in Call,
           ~Idle(c) \/ \A d \in Call : Idle(d),
           NEW n, call' = [call EXCEPT ![c] = n], scenario' = scenario,
           \/ n = NoCall /\ Outsiders'
           \/ n \in InFlight /\ Foresees(n)'
    PROVE  Inviting'
<1>1. \A d \in Call : call'[d] = IF d = c THEN n ELSE call[d]
  BY DEF TypeOK
<1>2. \A d \in Call \ {c} : Idle(d)
  BY DEF OneAtATime
<1>3. \A d \in Call : ~Idle(d)' => d = c /\ n /= NoCall
  BY <1>1, <1>2 DEF Idle, NoCall
<1>4. ASSUME NEW d \in Call, ~Idle(d)' PROVE Foresees(call[d])'
  <2>1. call'[d] = n /\ Foresees(n)'
    BY <1>1, <1>3, <1>4
  <2>2. QED BY <2>1 DEF Foresees, Outside, PendingFor, Due
<1>5. n \in InFlight => ~Idle(c)'
  <2>1. n \in InFlight => n.op /= "none"
    BY DEF InFlight, Operations, Routes
  <2>2. QED BY <1>1, <2>1 DEF Idle
<1>6. QED BY <1>4, <1>5 DEF Inviting

\* An invitation expires: whoever could take it stays as she was.
LEMMA ExpiryForeseen ==
    ASSUME TypeOK, Expire, NEW k
    PROVE  /\ Outsiders => Outsiders'
           /\ Foresees(k) => Foresees(k)'
<1>1. PICK i \in Invitation : ExpireInvitation(i)
  BY DEF Expire
<1>2. UNCHANGED <<roles, emails, held>>
  BY DEF Expire, userVars
<1>3. invitations \in [Invitation -> InvitationDocument \cup {NotInvited}]
  BY DEF TypeOK, StoreTypeOK
<1>4. \A j \in Invitation :
        /\ invitations'[j].pending => invitations[j].pending
        /\ invitations'[j].team = invitations[j].team
        /\ invitations'[j].address = invitations[j].address
  <2> DEFINE d == [invitations[i] EXCEPT !.pending = FALSE]
  <2>1. invitations' = [invitations EXCEPT ![i] = d]
    BY <1>1, <1>3 DEF ExpireInvitation
  <2>2. d.pending = FALSE /\ d.team = invitations[i].team /\ d.address = invitations[i].address
    BY <1>3 DEF InvitationDocument, NotInvited
  <2> HIDE DEF d
  <2>3. QED BY <1>3, <2>1, <2>2
<1>5. Due(k)' = Due(k)
  BY DEF Due
<1> HIDE DEF Due
<1>6. /\ \A u, a : Meant(u, a)' = Meant(u, a)
      /\ \A t, a : Absent(t, a)' = Absent(t, a)
  BY <1>2, MeantStays DEF Absent, IsMember
<1>7. OnePending => OnePending'
  BY <1>4 DEF OnePending
<1>8. ASSUME NEW j \in Invitation, invitations[j].pending'
      PROVE  /\ invitations[j].pending
             /\ Absent(invitations[j].team, invitations[j].address) =>
                  Absent(invitations[j].team, invitations[j].address)'
  <2>1. PICK t, a : t = invitations[j].team /\ a = invitations[j].address
    OBVIOUS
  <2>2. invitations[j].pending /\ t = invitations'[j].team /\ a = invitations'[j].address
    BY <1>4, <1>8, <2>1
  <2>3. Absent(t, a)' = Absent(t, a)
    BY <1>6
  <2>4. QED BY <2>1, <2>2, <2>3 DEF Absent
<1>9. Outsiders => Outsiders'
  BY <1>7, <1>8 DEF Outsiders
<1>10. Outside(k) => Outside(k)'
  BY <1>5, <1>7, <1>8 DEF Outside
<1>11. \A t, a : PendingFor(t, a)' \subseteq PendingFor(t, a)
  BY <1>4 DEF PendingFor
<1>12. /\ Absent(k.team, k.address)' = Absent(k.team, k.address)
       /\ PendingFor(k.team, k.address)' \subseteq PendingFor(k.team, k.address)
       /\ \A u \in User : Meant(u, k.address)' = Meant(u, k.address)
  BY <1>6, <1>11
<1>13. \A u : IsMember(k.team, u)' = IsMember(k.team, u)
  BY <1>2 DEF IsMember
<1>14. QED BY <1>5, <1>9, <1>10, <1>12, <1>13 DEF Foresees

\* Who is found by her email from now on was so before, or is new.
LEMMA MeantLasts ==
    ASSUME TypeOK, Bookkeeping, EmailChanges \/ UserDeleted, NEW u \in User
    PROVE  /\ u \in Users /\ Findable(u)' => Findable(u)
           /\ \A a : u \in Users /\ Meant(u, a)' => Meant(u, a)
<1>1. emails \in [User -> Email \cup {NoEmail}] /\ NoEmail \notin Email
  BY StoreAssumption DEF TypeOK, StoreTypeOK
<1>2. held \subseteq held'
  BY DEF EmailChanges, UserDeleted
<1>3. ASSUME u \in Users, NEW a \in Address, emails'[u] = <<a, LowerCase>>,
             \A email \in Email : <<u, email>> \in held' => email = <<a, LowerCase>>
      PROVE  emails[u] = <<a, LowerCase>>
  <2>1. <<a, LowerCase>> \in Email
    BY StoreAssumption DEF Email
  <2>2. CASE UserDeleted
    <3>1. PICK v \in User : SetEmail(v, NoEmail)
      BY <2>2 DEF UserDeleted
    <3>2. emails' = [emails EXCEPT ![v] = NoEmail]
      BY <3>1 DEF SetEmail
    <3>3. QED BY <1>1, <1>3, <2>1, <3>2
  <2>3. CASE EmailChanges
    <3>1. PICK v \in User, email \in scenario.addresses \X Spelling :
            /\ v \in Users => emails[v] /= NoEmail
            /\ SetEmail(v, email)
      BY <2>3 DEF EmailChanges
    <3>2. emails' = [emails EXCEPT ![v] = email]
      BY <3>1 DEF SetEmail
    <3>3. CASE u = v
      <4>1. emails[u] \in Email /\ <<u, emails[u]>> \in held
        BY <1>1, <1>3, <3>1, <3>3 DEF Bookkeeping
      <4>2. QED BY <1>2, <1>3, <4>1
    <3>4. CASE u /= v
      BY <1>1, <1>3, <3>2, <3>4
    <3>5. QED BY <3>3, <3>4
  <2>4. QED BY <2>2, <2>3
<1>4. u \in Users /\ Findable(u)' => Findable(u)
  BY <1>2, <1>3 DEF Findable
<1>5. ASSUME NEW a, u \in Users, Meant(u, a)' PROVE Meant(u, a)
  <2>1. Findable(u)' /\ emails'[u] = <<a, LowerCase>>
    BY <1>5 DEF Meant
  <2>2. PICK b \in Address :
          /\ emails'[u] = <<b, LowerCase>>
          /\ \A email \in Email : <<u, email>> \in held' => email = <<b, LowerCase>>
    BY <2>1 DEF Findable
  <2>3. emails[u] = <<a, LowerCase>>
    BY <1>3, <1>5, <2>1, <2>2
  <2>4. QED BY <1>4, <1>5, <2>1, <2>3 DEF Meant
<1>6. QED BY <1>4, <1>5

\* A user who is new is in no team.
LEMMA AbsentLasts ==
    ASSUME TypeOK, Bookkeeping, EmailChanges \/ UserDeleted, NEW t \in Team,
           NEW a, NEW u \in User, Meant(u, a)'
    PROVE  /\ Absent(t, a) => ~IsMember(t, u)
           /\ ~IsMember(t, u) \/ Meant(u, a)
<1>1. IsMember(t, u) => u \in Users
  BY DEF Bookkeeping, Members
<1>2. QED BY <1>1, MeantLasts DEF Absent

LEMMA EmailsForeseen ==
    ASSUME TypeOK, Bookkeeping, EmailChanges \/ UserDeleted, NEW k,
           k.op = "invite" => k.team \in Team
    PROVE  /\ Outsiders => Outsiders'
           /\ Foresees(k) => Foresees(k)'
<1>1. UNCHANGED <<roles, invitations>>
  BY DEF EmailChanges, UserDeleted, storeVars
<1>2. \A t \in Team : \A a : Absent(t, a) => Absent(t, a)'
  <2>1. ASSUME NEW t \in Team, NEW a, Absent(t, a), NEW u \in User, Meant(u, a)'
        PROVE  ~IsMember(t, u)'
    <3>1. ~IsMember(t, u)
      BY <2>1, AbsentLasts
    <3>2. QED BY <1>1, <3>1 DEF IsMember
  <2>2. QED BY <2>1 DEF Absent
<1>3. OnePending => OnePending'
  BY <1>1 DEF OnePending
<1>4. Due(k)' = Due(k)
  BY DEF Due
<1> HIDE DEF Due
<1>5. ASSUME NEW i \in Invitation, invitations[i].pending'
      PROVE  /\ invitations[i].pending
             /\ Absent(invitations[i].team, invitations[i].address) =>
                  Absent(invitations[i].team, invitations[i].address)'
  <2>1. PICK t, a : t = invitations[i].team /\ a = invitations[i].address
    OBVIOUS
  <2>2. invitations[i].pending /\ t = invitations'[i].team /\ a = invitations'[i].address
    BY <1>1, <1>5, <2>1
  <2>3. t \in Team
    BY <2>1, <2>2, PendingDocument
  <2>4. Absent(t, a) => Absent(t, a)'
    BY <1>2, <2>3
  <2>5. QED BY <2>1, <2>2, <2>4 DEF Absent
<1>6. Outsiders => Outsiders'
  BY <1>3, <1>5 DEF Outsiders
<1>7. Outside(k) => Outside(k)'
  BY <1>3, <1>4, <1>5 DEF Outside
<1>8. PendingFor(k.team, k.address)' = PendingFor(k.team, k.address)
  BY <1>1 DEF PendingFor
<1>9. k.op = "invite" /\ Absent(k.team, k.address) => Absent(k.team, k.address)'
  BY <1>2
<1>10. ASSUME k.op = "invite",
              \A u \in User : Meant(u, k.address) => u = k.target \/ ~IsMember(k.team, u),
              NEW u \in User, Meant(u, k.address)'
       PROVE  u = k.target \/ ~IsMember(k.team, u)'
  <2>1. ~IsMember(k.team, u) \/ Meant(u, k.address)
    BY <1>10, AbsentLasts
  <2>2. QED BY <1>1, <1>10, <2>1 DEF IsMember
<1>11. QED BY <1>4, <1>6, <1>7, <1>8, <1>9, <1>10 DEF Foresees

LEMMA OutsidersLast ==
    ASSUME UNCHANGED <<emails, held, roles, invitations>>, Outsiders PROVE Outsiders'
<1>1. \A t, a : Absent(t, a)' = Absent(t, a)
  BY MeantStays DEF Absent, IsMember
<1>2. OnePending' = OnePending
  BY DEF OnePending
<1>3. QED BY <1>1, <1>2 DEF Outsiders

LEMMA InvitingStep ==
    /\ Basics /\ Ends /\ OneAtATime /\ Inviting
    /\ [Next]_vars
    => Inviting'
<1> SUFFICES ASSUME Basics, Ends, OneAtATime, Inviting, [Next]_vars
             PROVE  Inviting'
  OBVIOUS
<1>1. TypeOK
  BY DEF Basics
<1>2. scenario' = scenario
  BY <1>1, ScenarioStays
<1>3. CASE scenario.overlap \/ scenario.refusals
  BY <1>2, <1>3 DEF Inviting
<1>4. CASE ~scenario.overlap /\ ~scenario.refusals
  <2>1. \A c \in Call : ~Idle(c) => Alive(call[c]) /\ Foresees(call[c])
    BY <1>4 DEF Inviting, Ends
  <2>3. (\A c \in Call : Idle(c)) => Outsiders
    BY <1>4 DEF Inviting
  <2>4. ASSUME NEW c \in Call, RequestArrives(c) PROVE Inviting'
    <3>1. Arrives(c)
      BY <1>1, <2>4, Arrivals
    <3>2. PICK k \in InFlight : call' = [call EXCEPT ![c] = k] /\ Fresh(k)
      BY <3>1 DEF Arrives
    <3>3. UNCHANGED <<emails, held, roles, invitations>> /\ \A d \in Call : Idle(d)
      BY <1>4, <3>1 DEF Arrives, storeVars, userVars
    <3>4. Due(k) \in {"authorize", "count_owned", "count", "find_user", "insert_memo",
                      "delete_memo"}
      BY <3>2 DEF Fresh
    <3>5. Outside(k)
      BY <2>3, <3>3, OutsidersAll
    <3>6. Foresees(k)
      <4> HIDE DEF Due
      <4>1. QED BY <3>4, <3>5 DEF Foresees, Vetted
    <3>7. Foresees(k)'
      BY <3>3, <3>6, ForeseesLasts
    <3>8. QED BY <1>1, <1>2, <1>4, <3>2, <3>3, <3>7, InvitingKept
  <2>5. ASSUME NEW c \in Call, ReadStep(c) PROVE Inviting'
    <3>1. ~Idle(c)
      BY <2>5, ReaderBusy
    <3>2. Sound(call[c])
      BY <3>1 DEF Basics
    <3>3. PICK n \in InFlight : Reads(c, n)
      BY <1>1, <2>5, <3>2, ReadsSoundly DEF Basics
    <3>4. Foresees(n)
      BY <2>1, <2>5, <3>1, <3>3, ReadsForesee
    <3>5. UNCHANGED <<emails, held, roles, invitations>> /\ Becomes(c, n)
      BY <3>3 DEF Reads, Becomes, storeVars, userVars
    <3>6. Foresees(n)'
      BY <3>4, <3>5, ForeseesLasts
    <3>7. QED BY <1>1, <1>2, <1>4, <3>1, <3>5, <3>6, InvitingKept DEF Becomes
  <2>6. ASSUME NEW c \in Call, WriteStep(c), ~InsertTeam(c) PROVE Inviting'
    <3>1. call[c] \in InFlight /\ ~Idle(c) /\ call[c].todo /= <<>>
      BY <1>1, <2>6, Writing DEF WriteOutcome
    <3>2. PICK n \in InFlight :
            Becomes(c, n) /\ Same(n, call[c]) /\ n.todo = Remaining(call[c])
      BY <1>1, <2>6, Writing DEF WriteOutcome
    <3>3. Sound(call[c]) /\ Alive(call[c]) /\ Foresees(call[c])
      BY <2>1, <3>1 DEF Basics
    <3>4. Foresees(n)'
      BY <2>6, <3>1, <3>2, <3>3, WritesForesee
    <3>5. QED BY <1>1, <1>2, <1>4, <3>1, <3>2, <3>4, InvitingKept DEF Becomes
  <2>7. ASSUME NEW c \in Call, InsertTeam(c) PROVE Inviting'
    <3>1. /\ call[c] \in InFlight /\ ~Idle(c) /\ call[c].todo /= <<>>
          /\ Due(call[c]) = "insert_team" /\ UNCHANGED <<roles, invitations>>
      BY <1>1, <2>7, Sending DEF InsertTeam
    <3>2. PICK n \in InFlight :
            Becomes(c, n) /\ n.op = "create_team" /\ Due(n) \in {"end", "insert_owner"}
      <4>1. CASE SlugIndexed(NoTeam, call[c].slug)
        <5>1. PICK n : n = Fails(call[c], <<>>, "duplicate")
          OBVIOUS
        <5>2. Becomes(c, n)
          BY <2>7, <4>1, <5>1 DEF InsertTeam
        <5>3. Same(n, call[c]) /\ n.todo = <<>>
          <6>1. <<>> \in Seq(Commands) /\ "duplicate" \in Codes
            BY DEF Codes
          <6>2. QED BY <3>1, <5>1, <6>1, Outcomes
        <5>4. call[c].op = "create_team"
          BY <3>1, SenderOf DEF Basics
        <5>5. Due(n) = "end" /\ n.op = "create_team" /\ n \in InFlight
          BY <5>3, <5>4 DEF Due, Same
        <5> HIDE DEF Due
        <5>6. QED BY <5>2, <5>5
      <4>2. CASE ~SlugIndexed(NoTeam, call[c].slug)
        BY <2>7, <4>2, TeamInserted
      <4>3. QED BY <4>1, <4>2
    <3>3. Outsiders
      <4>1. PICK k : k = call[c]
        OBVIOUS
      <4>2. Outside(k) /\ Due(k) /= "drop_invitation"
        BY <2>1, <3>1, <4>1 DEF Foresees
      <4>3. QED BY <4>2, OutsideAll
    <3>4. Outsiders'
      BY <3>1, <3>2, <3>3, OutsidersLast DEF Becomes, userVars
    <3>5. Outside(n)'
      BY <3>4, OutsidersAll
    <3>6. Due(n)' = Due(n)
      BY DEF Due
    <3>7. Foresees(n)'
      <4> HIDE DEF Due
      <4>1. QED BY <3>2, <3>5, <3>6 DEF Foresees
    <3>8. QED BY <1>1, <1>2, <1>4, <3>1, <3>2, <3>7, InvitingKept DEF Becomes
  <2>8. ASSUME NEW c \in Call, Refuse(c) PROVE Inviting'
    BY <1>4, <2>8 DEF Refuse
  <2>9. ASSUME NEW c \in Call, Respond(c) PROVE Inviting'
    <3>1. /\ ~Idle(c) /\ call[c].todo = <<>> /\ Becomes(c, NoCall)
          /\ UNCHANGED <<roles, invitations>>
      BY <2>9 DEF Respond, storeVars
    <3>2. Outsiders
      <4>1. PICK k : k = call[c]
        OBVIOUS
      <4>2. Outside(k) /\ Due(k) /= "drop_invitation"
        BY <2>1, <3>1, <4>1 DEF Foresees, Due
      <4>3. QED BY <4>2, OutsideAll
    <3>3. Outsiders'
      BY <3>1, <3>2, OutsidersLast DEF Becomes, userVars
    <3>4. QED BY <1>1, <1>2, <1>4, <3>1, <3>3, InvitingKept DEF Becomes
  <2>10. CASE Expire \/ EmailChanges \/ UserDeleted \/ UNCHANGED vars
    <3>1. UNCHANGED call
      BY <2>10 DEF Expire, EmailChanges, UserDeleted, vars
    <3>2. ASSUME NEW k, k.op = "invite" => k.team \in Team
          PROVE  (Outsiders => Outsiders') /\ (Foresees(k) => Foresees(k)')
      <4>1. CASE Expire
        BY <1>1, <4>1, ExpiryForeseen
      <4>2. CASE EmailChanges \/ UserDeleted
        BY <1>1, <3>2, <4>2, EmailsForeseen DEF Basics
      <4>3. CASE UNCHANGED vars
        <5>1. UNCHANGED <<emails, held, roles, invitations>>
          BY <4>3 DEF vars, storeVars, userVars
        <5>2. QED BY <5>1, ForeseesLasts, OutsidersLast
      <4>4. QED BY <2>10, <4>1, <4>2, <4>3
    <3>3. (\A c \in Call : Idle(c))' => Outsiders'
      <4>1. NoCall.op /= "invite"
        BY DEF NoCall
      <4>2. Outsiders => Outsiders'
        BY <3>2, <4>1
      <4>3. QED BY <2>3, <3>1, <4>2 DEF Idle
    <3>4. ASSUME NEW c \in Call, ~Idle(c)' PROVE Foresees(call[c])'
      <4>1. PICK k : k = call[c]
        OBVIOUS
      <4>2. Foresees(k) /\ call'[c] = k /\ Sound(k)
        BY <2>1, <3>1, <3>4, <4>1 DEF Idle, Basics
      <4>3. k.op = "invite" => k.team \in Team
        BY <4>2 DEF Sound, Knows, Routes, Created
      <4>4. Foresees(k)'
        BY <3>2, <4>2, <4>3
      <4>5. QED BY <4>2, <4>4 DEF Foresees, Outside, PendingFor, Due
    <3>5. QED BY <3>3, <3>4 DEF Inviting
  <2>11. QED BY <2>4, <2>5, <2>6, <2>7, <2>8, <2>9, <2>10 DEF Next
<1>5. QED BY <1>3, <1>4

-------------------------------------------------------------------------------
(* What a user is shown.                                                   *)

Takeable(k) ==
    \A i \in k.shown : LET t == invitations[i].team IN
        /\ LiveTeam(t)
        /\ t \notin undropped => Cardinality(Members(t)) < Seats
        /\ ~scenario.refusals /\ Findable(k.user) => ~IsMember(t, k.user)

Offered(k) ==
    k.op = "my_invitations" /\ Due(k) = "end" /\ k.code = "ok" =>
        k.shown \subseteq Invitation /\ Takeable(k)

Offering == ~scenario.overlap => \A c \in Call : ~Idle(c) => Offered(call[c])

LEMMA OfferedLasts ==
    ASSUME NEW k, Offered(k), UNCHANGED <<storeVars, userVars, scenario, undropped>>
    PROVE  Offered(k)'
<1>1. UNCHANGED <<teams, roles, invitations, emails, held>>
  BY DEF storeVars, userVars
<1>2. Due(k)' = Due(k)
  BY DEF Due
<1> HIDE DEF Due
<1>3. \A t : Members(t)' = Members(t) /\ LiveTeam(t)' = LiveTeam(t)
  BY <1>1 DEF Members, IsMember, LiveTeam
<1>4. Findable(k.user)' = Findable(k.user) /\ \A t, u : IsMember(t, u)' = IsMember(t, u)
  BY <1>1 DEF Findable, IsMember
<1>5. Takeable(k) => Takeable(k)'
  BY <1>1, <1>3, <1>4 DEF Takeable
<1>6. QED BY <1>2, <1>5 DEF Offered

\* An invitation expires, or an email changes.
LEMMA OfferedStays ==
    ASSUME TypeOK, Bookkeeping, Expire \/ EmailChanges \/ UserDeleted,
           NEW k, k.user \in Users, Users \subseteq User, Offered(k)
    PROVE  Offered(k)'
<1>1. UNCHANGED <<teams, roles, scenario, undropped>>
  BY DEF Expire, EmailChanges, UserDeleted, storeVars
<1>2. Due(k)' = Due(k)
  BY DEF Due
<1> HIDE DEF Due
<1>3. \A t : Members(t)' = Members(t) /\ LiveTeam(t)' = LiveTeam(t)
  BY <1>1 DEF Members, IsMember, LiveTeam
<1>4. \A t, u : IsMember(t, u)' = IsMember(t, u)
  BY <1>1 DEF IsMember
<1>5. Findable(k.user)' => Findable(k.user)
  <2>1. CASE Expire
    <3>1. UNCHANGED <<emails, held>>
      BY <2>1 DEF Expire, userVars
    <3>2. QED BY <3>1 DEF Findable
  <2>2. CASE EmailChanges \/ UserDeleted
    BY <2>2, MeantLasts
  <2>3. QED BY <2>1, <2>2
<1>6. \A i \in Invitation : invitations'[i].team = invitations[i].team
  <2>1. CASE Expire
    <3>1. PICK i \in Invitation : ExpireInvitation(i)
      BY <2>1 DEF Expire
    <3>2. invitations \in [Invitation -> InvitationDocument \cup {NotInvited}]
      BY DEF TypeOK, StoreTypeOK
    <3> DEFINE d == [invitations[i] EXCEPT !.pending = FALSE]
    <3>3. invitations' = [invitations EXCEPT ![i] = d]
      BY <3>1, <3>2 DEF ExpireInvitation
    <3>4. d.team = invitations[i].team
      BY <3>2 DEF InvitationDocument, NotInvited
    <3> HIDE DEF d
    <3>5. QED BY <3>2, <3>3, <3>4
  <2>2. CASE EmailChanges \/ UserDeleted
    BY <2>2 DEF EmailChanges, UserDeleted, storeVars
  <2>3. QED BY <2>1, <2>2
<1>7. k.shown \subseteq Invitation /\ Takeable(k) => Takeable(k)'
  BY <1>1, <1>3, <1>4, <1>5, <1>6 DEF Takeable
<1>8. QED BY <1>2, <1>7 DEF Offered

\* What is shown to a user are the invitations that are pending for her address.
LEMMA InvitationsListed ==
    ASSUME TypeOK, NEW c \in Call, ReadStep(c), call[c].op = "my_invitations",
           Due(call[c]) = "find", NEW n \in InFlight, Reads(c, n)
    PROVE  n.shown = PendingTo(call[c].address)
<1> DEFINE k == call[c]
           P == PendingTo(k.address)
           r == [k EXCEPT !.shown = P]
<1>1. \A command : Sends(c, command) => Due(k) = command
  BY Sending
<1>2. Find(c)
  <2> HIDE DEF Due
  <2>1. QED
    BY <1>1
       DEF ReadStep, Authorize, CountOwned, FindSlug, FindTeam, FindTarget, FindRequester,
           FindInvitee, FindMember, FindPending, CountMembers, CountPending, FindUser,
           FindInvitation, FindMemo, FindDeletedMemo, Count
<1>3. k \in InFlight
  BY <1>2, Sending DEF Find
<1>4. Reads(c, Proceeds(r))
  BY <1>2 DEF Find
<1>5. n = Proceeds(r)
  BY <1>4, Stepped DEF Reads
<1>6. P \in SUBSET (User \cup Invitation)
  BY DEF PendingTo
<1> HIDE DEF P
<1>7. PICK Numbers, Ids, Sets : InFlight = Shape(Numbers, Ids, Sets)
  BY Shaped
<1> HIDE DEF k
<1>8. Proceeds(r).shown = P
  BY <1>3, <1>7 DEF Shape, Proceeds
<1>9. QED BY <1>5, <1>8 DEF P, k

\* A user who is found is shown her invitations next; the other is told of it.
LEMMA UserLooked ==
    ASSUME TypeOK, NEW c \in Call, Sound(call[c]), ReadStep(c), call[c].op = "my_invitations",
           Due(call[c]) = "find_user", NEW n \in InFlight, Reads(c, n), n.op = call[c].op
    PROVE  Due(n) = "find" \/ n.code = "user_not_found"
<1> PICK k : k = call[c]
  OBVIOUS
<1>1. \A command : Sends(c, command) => Due(k) = command
  BY Sending
<1>2. FindUser(c)
  <2> HIDE DEF Due
  <2>1. QED
    BY <1>1
       DEF ReadStep, Authorize, CountOwned, FindSlug, FindTeam, FindTarget, FindRequester,
           FindInvitee, FindMember, FindPending, CountMembers, CountPending,
           FindInvitation, FindMemo, FindDeletedMemo, Count, Find
<1>3. k \in InFlight /\ k.todo /= <<>>
  BY <1>2, Sending DEF FindUser
<1>4. CASE Reads(c, Fails(k, <<>>, "user_not_found"))
  <2>1. n = Fails(k, <<>>, "user_not_found")
    BY <1>4, Stepped DEF Reads
  <2>2. \A x, y : Fails(k, x, y).code = y /\ Fails(k, x, y).wrote = k.wrote
    BY <1>3, Words
  <2> HIDE DEF Due
  <2>3. QED BY <2>1, <2>2
<1>5. ASSUME NEW email \in Email, Reads(c, [Proceeds(k) EXCEPT !.address = ToLower(email)])
      PROVE  Due(n) = "find"
  <2>1. n = [Proceeds(k) EXCEPT !.address = ToLower(email)]
    BY <1>5, Stepped DEF Reads
  <2>2. n.todo = Tail(k.todo)
    <3>1. PICK Numbers, Ids, Sets : InFlight = Shape(Numbers, Ids, Sets)
      BY Shaped
    <3>2. QED BY <1>3, <2>1, <3>1 DEF Shape, Proceeds
  <2>3. <<Due(k), Due(n)>> \in Order[k.op]
    BY <1>3, <2>2, NextDue
  <2>4. PICK a, b : a = Due(k) /\ b = Due(n)
    OBVIOUS
  <2>5. <<a, b>> \in Order["my_invitations"] /\ a = "find_user"
    BY <2>3, <2>4
  <2>6. b = "find"
    BY <2>5 DEF Order
  <2>7. QED BY <2>4, <2>6
<1>6. QED BY <1>2, <1>4, <1>5 DEF FindUser

\* The team of a pending invitation is there, and keeps a seat for it.
LEMMA SeatWaits ==
    ASSUME Basics, Left, NEW k, Reserves(k), Due(k) /= "drop_invitation",
           NEW i \in Invitation, invitations[i].pending
    PROVE  /\ LiveTeam(invitations[i].team)
           /\ invitations[i].team \notin undropped =>
                Cardinality(Members(invitations[i].team)) < Seats
<1> PICK t : t = invitations[i].team
  OBVIOUS
<1>1. TypeOK /\ Bookkeeping /\ t \in Team
  BY PendingDocument DEF Basics
<1>2. Invited(i)
  BY DEF Invited, NotInvited
<1>3. t \in Created /\ i \in PendingOf(t)
  BY <1>1, <1>2 DEF Bookkeeping, PendingOf
<1>4. LiveTeam(t)
  BY <1>1, <1>3, TeamOpen
<1>5. ASSUME t \notin undropped PROVE Cardinality(Members(t)) < Seats
  <2>1. Taken(t, {}) <= Seats
    <3> HIDE DEF Due
    <3>1. QED BY <1>1, <1>5, ReservesFits
  <2>2. Taken(t, {i}) < Seats
    BY <1>3, <2>1, OneLess
  <2>3. Taken(t, {i}) = Cardinality(Members(t)) + Cardinality(PendingOf(t) \ {i})
    BY DEF Taken
  <2>4. Cardinality(Members(t)) \in Nat /\ Cardinality(PendingOf(t) \ {i}) \in Nat
    BY TakenCounts
  <2>5. QED BY <2>2, <2>3, <2>4, SeatsAssumption
<1>6. QED BY <1>4, <1>5

LEMMA ReadsOffer ==
    ASSUME Basics, Left, NEW c \in Call, ReadStep(c), Reserves(call[c]),
           ~scenario.refusals => Foresees(call[c]), NEW n \in InFlight, Reads(c, n)
    PROVE  Offered(n)
<1> SUFFICES ASSUME n.op = "my_invitations", Due(n) = "end", n.code = "ok"
             PROVE  n.shown \subseteq Invitation /\ Takeable(n)
  BY DEF Offered
<1> PICK k : k = call[c]
  OBVIOUS
<1>1. TypeOK /\ Reserves(k) /\ (~scenario.refusals => Foresees(k))
  BY DEF Basics
<1>2. /\ k \in InFlight /\ Sound(k) /\ k.todo /= <<>>
      /\ n.op = k.op /\ n.user = k.user
      /\ Due(k) /= "find_user" => n.address = k.address
  <2> HIDE DEF Due
  <2>1. QED BY ReadAhead
<1>3. Due(k) \in {"find_user", "find"}
  <2>1. PICK b : <<Due(k), b>> \in Order["my_invitations"]
    BY <1>2, DueInOrder
  <2> HIDE DEF Due
  <2>2. QED BY <2>1 DEF Order
<1>4. Due(k) = "find"
  <2>1. Due(k) = "find_user" => Due(n) = "find" \/ n.code = "user_not_found"
    BY <1>1, <1>2, UserLooked
  <2> HIDE DEF Due
  <2>2. QED BY <1>3, <2>1
<1>5. n.shown = PendingTo(k.address)
  BY <1>1, <1>2, <1>4, InvitationsListed
<1>6. k.user \in User /\ HasHeld(k.user, k.address)
  BY <1>2, <1>4 DEF Sound, Knows, HasHeld, Users
<1> HIDE DEF Due
<1>7. ASSUME NEW i \in n.shown
      PROVE  /\ i \in Invitation /\ LiveTeam(invitations[i].team)
             /\ invitations[i].team \notin undropped =>
                  Cardinality(Members(invitations[i].team)) < Seats
             /\ ~scenario.refusals /\ Findable(n.user) => ~IsMember(invitations[i].team, n.user)
  <2>1. i \in Invitation /\ invitations[i].address = k.address /\ invitations[i].pending
    BY <1>5, <1>7 DEF PendingTo
  <2>2. /\ LiveTeam(invitations[i].team)
        /\ invitations[i].team \notin undropped =>
             Cardinality(Members(invitations[i].team)) < Seats
    BY <1>1, <1>4, <2>1, SeatWaits
  <2>3. ASSUME ~scenario.refusals, Findable(k.user) PROVE ~IsMember(invitations[i].team, k.user)
    <3>1. Absent(invitations[i].team, k.address)
      BY <1>1, <1>4, <2>1, <2>3 DEF Foresees, Outside
    <3>2. Meant(k.user, k.address)
      BY <1>6, <2>3, MeantByHerEmail
    <3>3. QED BY <1>6, <3>1, <3>2 DEF Absent
  <2>4. QED BY <1>2, <2>1, <2>2, <2>3
<1>8. QED BY <1>7 DEF Takeable

\* A request for one's invitations that is refused a command says so.
LEMMA RefusesOffer ==
    ASSUME Basics, NEW c \in Call, Refuse(c), NEW n \in InFlight, Becomes(c, n)
    PROVE  n.op = "my_invitations" => n.code = "error"
<1> PICK k : k = call[c]
  OBVIOUS
<1> SUFFICES ASSUME n.op = "my_invitations" PROVE n.code = "error"
  OBVIOUS
<1>1. k \in InFlight /\ k.todo /= <<>> /\ Sound(k) /\ TypeOK /\ Same(n, k)
  BY RefusedNoSeat DEF Basics
<1>2. n = [AfterRefusal(k) EXCEPT !.refused = TRUE]
  <2>1. Becomes(c, [AfterRefusal(k) EXCEPT !.refused = TRUE])
    BY DEF Refuse
  <2>2. QED BY <1>1, <2>1, Stepped
<1>3. Due(k) \in {"find_user", "find"}
  <2>1. PICK b : <<Due(k), b>> \in Order["my_invitations"]
    BY <1>1, DueInOrder DEF Same
  <2> HIDE DEF Due
  <2>2. QED BY <2>1 DEF Order
<1>4. Due(k) = Head(k.todo)
  BY <1>1 DEF Due
<1> HIDE DEF Due
<1>5. AfterRefusal(k) = Fails(k, <<>>, "error")
  BY <1>3, <1>4 DEF AfterRefusal, ErrorIgnored, ErrorSkips, ErrorMistaken, Undo
<1>6. <<>> \in Seq(Commands) /\ "error" \in Codes
  BY DEF Codes
<1>7. \A x, y : Fails(k, x, y).code = y /\ Fails(k, x, y).wrote = k.wrote
  BY <1>1, Words
<1>8. \A x \in Seq(Commands), code \in Codes : Fails(k, x, code) \in InFlight
  BY <1>1, Outcomes DEF Same
<1>9. Fails(k, <<>>, "error") \in InFlight /\ Fails(k, <<>>, "error").code = "error"
  BY <1>6, <1>7, <1>8
<1>10. QED BY <1>2, <1>5, <1>9, Words

LEMMA OfferingKept ==
    ASSUME TypeOK, OneAtATime, ~scenario.overlap, NEW c \in Call,
           ~Idle(c) \/ \A d \in Call : Idle(d),
           NEW n, call' = [call EXCEPT ![c] = n], Offered(n)'
    PROVE  Offering'
<1>1. \A d \in Call : call'[d] = IF d = c THEN n ELSE call[d]
  BY DEF TypeOK
<1>2. \A d \in Call \ {c} : Idle(d)
  BY DEF OneAtATime
<1>3. \A d \in Call : ~Idle(d)' => d = c
  BY <1>1, <1>2 DEF Idle
<1>4. ASSUME NEW d \in Call, ~Idle(d)' PROVE Offered(call[d])'
  <2>1. call'[d] = n /\ Offered(n)'
    BY <1>1, <1>3, <1>4
  <2>2. QED BY <2>1 DEF Offered, Takeable, Due
<1>5. QED BY <1>4 DEF Offering

LEMMA OfferingStep ==
    /\ Basics /\ Ends /\ OneAtATime /\ Seating /\ Inviting /\ Offering
    /\ [Next]_vars
    => Offering'
<1> SUFFICES ASSUME Basics, Ends, OneAtATime, Seating, Inviting, Offering, [Next]_vars
             PROVE  Offering'
  OBVIOUS
<1>1. TypeOK
  BY DEF Basics
<1>2. scenario' = scenario
  BY <1>1, ScenarioStays
<1>3. CASE scenario.overlap
  BY <1>2, <1>3 DEF Offering
<1>4. CASE ~scenario.overlap
  <2>1. /\ Left
        /\ \A c \in Call : ~Idle(c) =>
             /\ Reserves(call[c]) /\ Offered(call[c])
             /\ ~scenario.refusals => Foresees(call[c])
    BY <1>4 DEF Inviting, Offering, Seating, Ends, Left
  <2>2. ASSUME NEW n, n.op /= "my_invitations" \/ n.code /= "ok" \/ Due(n) /= "end"
        PROVE  Offered(n)'
    <3>1. Due(n)' = Due(n)
      BY DEF Due
    <3> HIDE DEF Due
    <3>2. QED BY <2>2, <3>1 DEF Offered
  <2>3. ASSUME NEW c \in Call, RequestArrives(c) PROVE Offering'
    <3>1. Arrives(c)
      BY <1>1, <2>3, Arrivals
    <3>2. PICK k \in InFlight : call' = [call EXCEPT ![c] = k] /\ Fresh(k)
      BY <3>1 DEF Arrives
    <3>3. \A d \in Call : Idle(d)
      BY <1>4, <3>1 DEF Arrives
    <3>4. Due(k) /= "end"
      <4> HIDE DEF Due
      <4>1. QED BY <3>2 DEF Fresh
    <3>5. Offered(k)'
      BY <2>2, <3>4
    <3>6. QED BY <1>1, <1>4, <3>2, <3>3, <3>5, OfferingKept
  <2>4. ASSUME NEW c \in Call, ReadStep(c) PROVE Offering'
    <3>1. ~Idle(c)
      BY <2>4, ReaderBusy
    <3>2. Sound(call[c])
      BY <3>1 DEF Basics
    <3>3. PICK n \in InFlight : Reads(c, n)
      BY <1>1, <2>4, <3>2, ReadsSoundly DEF Basics
    <3>4. Offered(n)
      BY <2>1, <2>4, <3>1, <3>3, ReadsOffer
    <3>5. UNCHANGED <<storeVars, userVars, scenario, undropped>> /\ Becomes(c, n)
      BY <3>3 DEF Reads, Becomes
    <3>6. Offered(n)'
      BY <3>4, <3>5, OfferedLasts
    <3>7. QED BY <1>1, <1>4, <3>1, <3>5, <3>6, OfferingKept DEF Becomes
  <2>5. ASSUME NEW c \in Call, WriteStep(c), ~InsertTeam(c) PROVE Offering'
    <3>1. PICK k : k = call[c]
      OBVIOUS
    <3>2. /\ ~Idle(c) /\ k \in InFlight /\ k.todo /= <<>> /\ Sound(k)
          /\ Due(k) \in WriteCommands
      BY <1>1, <2>5, <3>1, Writing, WriterDue DEF WriteOutcome, Basics
    <3>3. PICK n \in InFlight : Becomes(c, n) /\ Same(n, k)
      BY <1>1, <2>5, <3>1, Writing DEF WriteOutcome
    <3>4. n.op /= "my_invitations"
      <4>1. PICK b : <<Due(k), b>> \in Order[k.op]
        BY <3>2, DueInOrder
      <4> HIDE DEF Due
      <4>2. k.op /= "my_invitations"
        BY <3>2, <4>1 DEF Order, WriteCommands
      <4>3. QED BY <3>3, <4>2 DEF Same
    <3>5. Offered(n)'
      BY <2>2, <3>4
    <3>6. QED BY <1>1, <1>4, <3>2, <3>3, <3>5, OfferingKept DEF Becomes
  <2>6. ASSUME NEW c \in Call, InsertTeam(c) PROVE Offering'
    <3>1. /\ call[c] \in InFlight /\ ~Idle(c) /\ call[c].todo /= <<>>
          /\ Due(call[c]) = "insert_team"
      BY <1>1, <2>6, Sending DEF InsertTeam
    <3>2. PICK n \in InFlight : Becomes(c, n) /\ n.op = "create_team"
      <4>1. CASE SlugIndexed(NoTeam, call[c].slug)
        <5>1. PICK n : n = Fails(call[c], <<>>, "duplicate")
          OBVIOUS
        <5>2. Becomes(c, n)
          BY <2>6, <4>1, <5>1 DEF InsertTeam
        <5>3. Same(n, call[c])
          <6>1. <<>> \in Seq(Commands) /\ "duplicate" \in Codes
            BY DEF Codes
          <6>2. QED BY <3>1, <5>1, <6>1, Outcomes
        <5>4. call[c].op = "create_team"
          BY <3>1, SenderOf DEF Basics
        <5>5. QED BY <5>2, <5>3, <5>4 DEF Same
      <4>2. CASE ~SlugIndexed(NoTeam, call[c].slug)
        BY <2>6, <4>2, TeamInserted
      <4>3. QED BY <4>1, <4>2
    <3>3. Offered(n)'
      BY <2>2, <3>2
    <3>4. QED BY <1>1, <1>4, <3>1, <3>2, <3>3, OfferingKept DEF Becomes
  <2>7. ASSUME NEW c \in Call, Refuse(c) PROVE Offering'
    <3>1. ~Idle(c) /\ Sound(call[c])
      BY <2>7 DEF Refuse, Basics
    <3>2. PICK n \in InFlight : Becomes(c, n)
      BY <1>1, <2>7, <3>1, RefusedLeaves
    <3>3. n.op = "my_invitations" => n.code /= "ok"
      BY <2>7, <3>2, RefusesOffer
    <3>4. Offered(n)'
      BY <2>2, <3>3
    <3>5. QED BY <1>1, <1>4, <3>1, <3>2, <3>4, OfferingKept DEF Becomes
  <2>8. ASSUME NEW c \in Call, Respond(c) PROVE Offering'
    <3>1. ~Idle(c) /\ Becomes(c, NoCall) /\ NoCall.op /= "my_invitations"
      BY <2>8 DEF Respond, NoCall
    <3>2. Offered(NoCall)'
      BY <2>2, <3>1
    <3>3. QED BY <1>1, <1>4, <3>1, <3>2, OfferingKept DEF Becomes
  <2>9. CASE Expire \/ EmailChanges \/ UserDeleted \/ UNCHANGED vars
    <3>1. UNCHANGED call
      BY <2>9 DEF Expire, EmailChanges, UserDeleted, vars
    <3>2. ASSUME NEW c \in Call, ~Idle(c)' PROVE Offered(call[c])'
      <4>1. PICK k : k = call[c]
        OBVIOUS
      <4>2. Offered(k) /\ call'[c] = k /\ Sound(k)
        BY <2>1, <3>1, <3>2, <4>1 DEF Idle, Basics
      <4>3. k.user \in Users /\ Users \subseteq User /\ Bookkeeping
        BY <4>2 DEF Sound, Knows, Users, Basics
      <4>4. Offered(k)'
        <5>1. CASE Expire \/ EmailChanges \/ UserDeleted
          BY <1>1, <4>2, <4>3, <5>1, OfferedStays
        <5>2. CASE UNCHANGED vars
          BY <4>2, <5>2, OfferedLasts DEF vars
        <5>3. QED BY <2>9, <5>1, <5>2
      <4>5. QED BY <4>2, <4>4 DEF Offered, Takeable, Due
    <3>3. QED BY <3>2 DEF Offering
  <2>10. QED BY <2>3, <2>4, <2>5, <2>6, <2>7, <2>8, <2>9 DEF Next
<1>5. QED BY <1>3, <1>4

\* An invitation that a user is shown can be taken, for any teams, users, emails
\* and seats: its team is there and keeps a seat for her, unless a refused
\* command left the invitation of an acceptance that was half done, which the
\* services only log.  She is not in the team yet, if no command is refused and
\* the one email she ever had is stored as the lookup of an invitee spells it.
THEOREM ShownTakeable == Spec => []InvitationsShownCanBeTaken
<1>1. Init => Basics /\ Ends /\ OneAtATime /\ Seating /\ Inviting /\ Offering
  <2>1. Init => Basics /\ Ends /\ OneAtATime /\ Seating
    BY BasicsInitially, EndsInitially, SeatsInitially
  <2>2. Init => Inviting /\ Offering
    BY DEF Init, StoreInit, NotInvited, Inviting, Outsiders, OnePending, Offering, Idle, NoCall
  <2>3. QED BY <2>1, <2>2
<1>2. /\ Basics /\ Ends /\ OneAtATime /\ Seating /\ Inviting /\ Offering
      /\ [Next]_vars
      => (Basics /\ Ends /\ OneAtATime /\ Seating /\ Inviting /\ Offering)'
  BY BasicsStep, EndsStep, SeatingStep, InvitingStep, OfferingStep
<1>3. Offering => InvitationsShownCanBeTaken
  <2> SUFFICES ASSUME Offering, NEW c \in Call, AnsweredAlone(c),
                      call[c].op = "my_invitations", call[c].code = "ok"
               PROVE  Takeable(call[c])
    BY DEF InvitationsShownCanBeTaken, Takeable
  <2>1. ~Idle(c) /\ ~scenario.overlap /\ Due(call[c]) = "end"
    BY DEF AnsweredAlone, Answered, Due
  <2> HIDE DEF Due
  <2>2. QED BY <2>1 DEF Offering, Offered
<1>4. QED BY <1>1, <1>2, <1>3, PTL DEF Spec

-------------------------------------------------------------------------------
(* Listings.  A finite set of ids, newest first, is a list of the ids by   *)
(* rank, that is by the number of newer ones; a page of it is the list of  *)
(* the ids whose rank belongs on that page.                                *)

Rank(S, x) == Cardinality({y \in S : y > x})

LEMMA RankBounds ==
    ASSUME NEW S \in SUBSET Int, IsFiniteSet(S), NEW x \in S
    PROVE  Rank(S, x) \in 0 .. Cardinality(S) - 1
<1> DEFINE N == {y \in S : y > x}
<1>1. N \in SUBSET (S \ {x})
  OBVIOUS
<1>2. IsFiniteSet(S \ {x}) /\ Cardinality(S \ {x}) = Cardinality(S) - 1
  BY FS_RemoveElement
<1>3. IsFiniteSet(N) /\ Cardinality(N) <= Cardinality(S \ {x})
  BY <1>1, <1>2, FS_Subset
<1>4. Cardinality(N) \in Nat /\ Cardinality(S) \in Nat
  BY <1>3, FS_CardinalityType
<1> HIDE DEF N
<1>5. Cardinality(N) \in 0 .. Cardinality(S) - 1
  BY <1>2, <1>3, <1>4
<1>6. QED BY <1>5 DEF N, Rank

LEMMA RankFalls ==
    ASSUME NEW S \in SUBSET Int, IsFiniteSet(S), NEW x \in S, NEW y \in S, x < y
    PROVE  Rank(S, y) < Rank(S, x)
<1> DEFINE N(z) == {w \in S : w > z}
<1>1. N(x) \in SUBSET S /\ y \in N(x) /\ N(y) \in SUBSET (N(x) \ {y})
  <2>1. N(x) \subseteq S /\ y \in N(x)
    OBVIOUS
  <2>2. \A w \in S : w > y => w > x /\ w /= y
    OBVIOUS
  <2>3. N(y) \subseteq N(x) \ {y}
    BY <2>2
  <2> HIDE DEF N
  <2>4. QED BY <2>1, <2>3
<1> HIDE DEF N
<1>2. IsFiniteSet(N(x))
  BY <1>1, FS_Subset
<1>3. IsFiniteSet(N(x) \ {y}) /\ Cardinality(N(x) \ {y}) = Cardinality(N(x)) - 1
  BY <1>1, <1>2, FS_RemoveElement
<1>4. IsFiniteSet(N(y)) /\ Cardinality(N(y)) <= Cardinality(N(x) \ {y})
  BY <1>1, <1>3, FS_Subset
<1>5. Cardinality(N(x)) \in Nat /\ Cardinality(N(y)) \in Nat
  BY <1>2, <1>4, FS_CardinalityType
<1>6. Cardinality(N(y)) < Cardinality(N(x))
  BY <1>3, <1>4, <1>5
<1>7. QED BY <1>6 DEF N, Rank

\* Ranks tell ids apart.
LEMMA RankOrder ==
    ASSUME NEW S \in SUBSET Int, IsFiniteSet(S), NEW x \in S, NEW y \in S
    PROVE  /\ x < y <=> Rank(S, y) < Rank(S, x)
           /\ x = y <=> Rank(S, y) = Rank(S, x)
<1>1. Rank(S, x) \in Int /\ Rank(S, y) \in Int
  BY RankBounds
<1>2. x < y => Rank(S, y) < Rank(S, x)
  BY RankFalls
<1>3. y < x => Rank(S, x) < Rank(S, y)
  BY RankFalls
<1>4. x < y \/ y < x \/ x = y
  OBVIOUS
<1>5. QED BY <1>1, <1>2, <1>3, <1>4

\* There are n ids of the ranks below n.
LEMMA RanksBelow ==
    ASSUME NEW S \in SUBSET Int, IsFiniteSet(S), NEW n \in 0 .. Cardinality(S)
    PROVE  /\ Cardinality({x \in S : Rank(S, x) < n}) = n
           /\ \A r \in 0 .. n - 1 : \E x \in S : Rank(S, x) = r
<1> DEFINE N == Cardinality(S)
           f == [x \in S |-> Rank(S, x)]
           T == {x \in S : Rank(S, x) < n}
           g == [x \in T |-> Rank(S, x)]
<1>1. N \in Nat /\ n \in Nat
  BY FS_CardinalityType
<1>2. \A x \in S : Rank(S, x) \in 0 .. N - 1
  BY RankBounds
<1>3. \A x, y \in S : Rank(S, x) = Rank(S, y) => x = y
  BY RankOrder
<1>4. f \in Injection(S, 0 .. N - 1)
  <2>1. f \in [S -> 0 .. N - 1]
    BY <1>2
  <2>2. \A x, y \in S : f[x] = f[y] => x = y
    BY <1>3
  <2> HIDE DEF f
  <2>3. QED BY <2>1, <2>2 DEF Injection, IsInjective
<1>5. /\ IsFiniteSet(0 .. N - 1) /\ Cardinality(0 .. N - 1) = N
      /\ IsFiniteSet(0 .. n - 1) /\ Cardinality(0 .. n - 1) = n
  <2> HIDE DEF N
  <2>1. ASSUME NEW m \in Nat
        PROVE  IsFiniteSet(0 .. m - 1) /\ Cardinality(0 .. m - 1) = m
    <3>1. m - 1 \in Int
      OBVIOUS
    <3>2. /\ IsFiniteSet(0 .. m - 1)
          /\ Cardinality(0 .. m - 1) = IF 0 > m - 1 THEN 0 ELSE m - 1 - 0 + 1
      BY <3>1, FS_Interval
    <3>3. QED BY <3>2
  <2>2. QED BY <1>1, <2>1
<1>6. f \in Surjection(S, 0 .. N - 1)
  <2>1. PICK h : h = f
    OBVIOUS
  <2>2. h \in Injection(S, 0 .. N - 1)
    BY <1>4, <2>1
  <2>3. h \in Surjection(S, 0 .. N - 1)
    BY <1>5, <2>2, FS_Injection
  <2>4. QED BY <2>1, <2>3
<1>7. \A r \in 0 .. N - 1 : \E x \in S : Rank(S, x) = r
  <2>1. \A r \in 0 .. N - 1 : \E x \in S : f[x] = r
    BY <1>6 DEF Surjection
  <2>2. QED BY <2>1
<1>8. \A r \in 0 .. n - 1 : r \in 0 .. N - 1
  BY <1>1
<1>9. g \in Injection(T, 0 .. n - 1) /\ g \in Surjection(T, 0 .. n - 1)
  <2>1. g \in [T -> 0 .. n - 1]
    <3>1. \A x \in T : Rank(S, x) \in 0 .. n - 1
      BY <1>1, <1>2
    <3> HIDE DEF T
    <3>2. QED BY <3>1
  <2>2. \A x, y \in T : g[x] = g[y] => x = y
    BY <1>3
  <2>3. \A r \in 0 .. n - 1 : \E x \in T : g[x] = r
    <3>1. ASSUME NEW r \in 0 .. n - 1 PROVE \E x \in T : g[x] = r
      <4>1. PICK x \in S : Rank(S, x) = r
        BY <1>7, <1>8
      <4>2. x \in T
        BY <1>1, <4>1
      <4>3. QED BY <4>1, <4>2
    <3>2. QED BY <3>1
  <2> HIDE DEF g, T
  <2>4. QED BY <2>1, <2>2, <2>3 DEF Injection, Surjection, IsInjective
<1>10. Cardinality(T) = n
  <2>1. PICK h : h = g
    OBVIOUS
  <2>2. h \in Injection(T, 0 .. n - 1) /\ h \in Surjection(T, 0 .. n - 1)
    BY <1>9, <2>1
  <2> HIDE DEF T
  <2>3. QED BY <1>5, <2>2, FS_Injection
<1>11. QED BY <1>7, <1>8, <1>10

LEMMA ListedByRank ==
    ASSUME NEW S \in SUBSET Int, IsFiniteSet(S)
    PROVE  /\ NewestFirst(S) \in Seq(S)
           /\ Len(NewestFirst(S)) = Cardinality(S)
           /\ \A n \in 1 .. Cardinality(S) :
                /\ NewestFirst(S)[n] \in S
                /\ Rank(S, NewestFirst(S)[n]) = n - 1
<1> DEFINE N == Cardinality(S)
           e(n) == CHOOSE x \in S : Rank(S, x) = n - 1
<1>1. N \in Nat
  BY FS_CardinalityType
<1>2. NewestFirst(S) = [n \in 1 .. N |-> e(n)]
  BY DEF NewestFirst, Rank
<1>3. \A n \in 1 .. N : e(n) \in S /\ Rank(S, e(n)) = n - 1
  <2>1. ASSUME NEW n \in 1 .. N PROVE e(n) \in S /\ Rank(S, e(n)) = n - 1
    <3>1. N \in 0 .. Cardinality(S) /\ n - 1 \in 0 .. N - 1
      BY <1>1
    <3>2. \E x \in S : Rank(S, x) = n - 1
      BY <3>1, RanksBelow
    <3>3. QED BY <3>2
  <2>2. QED BY <2>1
<1> HIDE DEF e, N
<1>4. [n \in 1 .. N |-> e(n)] \in Seq(S)
  BY <1>1, <1>3, IsASeq
<1>5. QED BY <1>1, <1>2, <1>3, <1>4 DEF N

\* The ids of the ranks from a to below b.
Slice(S, a, b) == {x \in S : a <= Rank(S, x) /\ Rank(S, x) < b}

LEMMA SliceCounts ==
    ASSUME NEW S \in SUBSET Int, IsFiniteSet(S), NEW a \in Nat, NEW b \in Nat,
           a <= b, b <= Cardinality(S)
    PROVE  IsFiniteSet(Slice(S, a, b)) /\ Cardinality(Slice(S, a, b)) = b - a
<1> DEFINE B(n) == {x \in S : Rank(S, x) < n}
<1>1. Cardinality(S) \in Nat
  BY FS_CardinalityType
<1>2. a \in 0 .. Cardinality(S) /\ b \in 0 .. Cardinality(S)
  BY <1>1
<1>3. Cardinality(B(a)) = a /\ Cardinality(B(b)) = b
  BY <1>2, RanksBelow
<1>4. \A x \in S : Rank(S, x) \in Int
  BY RankBounds
<1>5. B(b) \in SUBSET S /\ Slice(S, a, b) = B(b) \ B(a)
  <2>1. \A x \in S : a <= Rank(S, x) <=> ~(Rank(S, x) < a)
    BY <1>4
  <2>2. \A x \in S : x \in Slice(S, a, b) <=> x \in B(b) /\ x \notin B(a)
    BY <2>1 DEF Slice
  <2>3. B(b) \subseteq S /\ Slice(S, a, b) \subseteq S
    BY DEF Slice
  <2> HIDE DEF B
  <2>4. QED BY <2>2, <2>3
<1>6. B(b) \cap B(a) = B(a)
  <2>1. \A x \in S : Rank(S, x) < a => Rank(S, x) < b
    BY <1>4
  <2>2. B(a) \subseteq B(b)
    BY <2>1
  <2> HIDE DEF B
  <2>3. QED BY <2>2
<1> HIDE DEF B
<1>7. IsFiniteSet(B(b))
  BY <1>5, FS_Subset
<1>8. /\ IsFiniteSet(B(b) \ B(a))
      /\ Cardinality(B(b) \ B(a)) = Cardinality(B(b)) - Cardinality(B(b) \cap B(a))
  BY <1>7, FS_Difference
<1>9. QED BY <1>3, <1>5, <1>6, <1>8

\* A part of the list is the list of the ids in it.
LEMMA SliceListed ==
    ASSUME NEW S \in SUBSET Int, IsFiniteSet(S), NEW a \in Nat, NEW b \in Nat,
           a <= b, b <= Cardinality(S)
    PROVE  SubSeq(NewestFirst(S), a + 1, b) = NewestFirst(Slice(S, a, b))
<1> DEFINE L == NewestFirst(S)
           Q == Slice(S, a, b)
           M == NewestFirst(Q)
           s == SubSeq(L, a + 1, b)
<1>1. Q \in SUBSET S /\ Q \in SUBSET Int
  BY DEF Slice
<1>2. IsFiniteSet(Q) /\ Cardinality(Q) = b - a
  BY SliceCounts
<1>3. \A x \in S : Rank(S, x) \in 0 .. Cardinality(S) - 1
  BY RankBounds
<1>4. ASSUME NEW x \in Q PROVE Rank(Q, x) = Rank(S, x) - a
  <2>1. x \in S /\ a <= Rank(S, x) /\ Rank(S, x) < b
    BY <1>4 DEF Slice
  <2>2. Rank(S, x) \in Nat /\ Rank(S, x) <= Cardinality(S)
    BY <1>3, <2>1, FS_CardinalityType
  <2>3. \A y \in S : y > x <=> Rank(S, y) < Rank(S, x)
    BY <2>1, RankOrder
  <2>4. {y \in Q : y > x} = Slice(S, a, Rank(S, x))
    <3>1. \A y \in S : Rank(S, y) \in Int
      BY <1>3, FS_CardinalityType
    <3>2. ASSUME NEW y \in S, Rank(S, y) < Rank(S, x) PROVE Rank(S, y) < b
      BY <2>1, <2>2, <3>1, <3>2
    <3>3. \A y \in S : y \in Q /\ y > x <=> y \in Slice(S, a, Rank(S, x))
      BY <2>3, <3>2 DEF Slice
    <3>4. Q \subseteq S /\ Slice(S, a, Rank(S, x)) \subseteq S
      BY DEF Slice
    <3> HIDE DEF Q
    <3>5. QED BY <3>3, <3>4
  <2>5. Cardinality(Slice(S, a, Rank(S, x))) = Rank(S, x) - a
    BY <2>1, <2>2, SliceCounts
  <2>6. QED BY <2>4, <2>5 DEF Rank
<1>5. /\ Len(L) = Cardinality(S)
      /\ \A n \in 1 .. Cardinality(S) : L[n] \in S /\ Rank(S, L[n]) = n - 1
  BY ListedByRank
<1>6. /\ M \in Seq(Q) /\ Len(M) = b - a
      /\ \A n \in 1 .. b - a : M[n] \in Q /\ Rank(Q, M[n]) = n - 1
  <2>1. PICK P : P = Q
    OBVIOUS
  <2>2. P \in SUBSET Int /\ IsFiniteSet(P)
    BY <1>1, <1>2, <2>1
  <2>3. /\ NewestFirst(P) \in Seq(P) /\ Len(NewestFirst(P)) = Cardinality(P)
        /\ \A n \in 1 .. Cardinality(P) :
             NewestFirst(P)[n] \in P /\ Rank(P, NewestFirst(P)[n]) = n - 1
    BY <2>2, ListedByRank
  <2>4. QED BY <1>2, <2>1, <2>3
<1> HIDE DEF L, Q, M
<1>7. /\ s \in Seq(S)
      /\ Len(s) = IF a + 1 <= b THEN b - (a + 1) + 1 ELSE 0
      /\ \A i \in 1 .. b - (a + 1) + 1 : s[i] = L[(a + 1) + i - 1]
  <2>1. \A i \in a + 1 .. b : L[i] \in S
    BY <1>5, FS_CardinalityType
  <2>2. QED BY <2>1, SubSeqProperties
<1> HIDE DEF s
<1>8. Len(s) = b - a /\ \A i \in 1 .. b - a : s[i] = L[a + i]
  <2>1. Len(s) = b - a
    BY <1>7
  <2>2. \A i \in 1 .. b - a : i \in 1 .. b - (a + 1) + 1 /\ (a + 1) + i - 1 = a + i
    OBVIOUS
  <2>3. QED BY <1>7, <2>1, <2>2
<1>9. ASSUME NEW i \in 1 .. b - a PROVE s[i] = M[i]
  <2>1. a + i \in 1 .. Cardinality(S)
    BY <1>9, FS_CardinalityType
  <2>2. s[i] \in S /\ Rank(S, s[i]) = a + i - 1
    BY <1>5, <1>8, <2>1
  <2>3. M[i] \in S /\ Rank(S, M[i]) - a = i - 1
    BY <1>1, <1>4, <1>6, <1>9
  <2>4. \A x \in S : Rank(S, x) \in Int
    BY RankBounds
  <2>5. Rank(S, M[i]) = Rank(S, s[i])
    <3>1. PICK r \in Int : r = Rank(S, M[i])
      BY <2>3, <2>4
    <3>2. r - a = i - 1 /\ i \in Int
      BY <1>9, <2>3, <3>1
    <3>3. r = a + i - 1
      BY <3>2
    <3>4. QED BY <2>2, <3>1, <3>3
  <2>6. QED BY <2>2, <2>3, <2>5, RankOrder
<1>10. M \in Seq(S)
  BY <1>1, <1>6, SeqMonotonic
<1>11. s = M
  BY <1>6, <1>7, <1>8, <1>9, <1>10, SeqEqual
<1>12. QED BY <1>11 DEF s, M, Q, L

\* What division says about pages, for the limits there are.
LEMMA PageArithmetic ==
    ASSUME NEW limit \in 1 .. MaxLimit, NEW page \in Int, NEW r \in Nat
    PROVE  /\ (r + limit) \div limit \in Nat
           /\ (page - 1) * limit \in Int
           /\ (r + limit) \div limit = page <=>
                (page - 1) * limit <= r /\ r < (page - 1) * limit + limit
<1>1. limit \in {1, 2, 3, 4, 5, 6, 7, 8, 9, 10}
  BY DEF MaxLimit
<1>2. QED BY <1>1, SMTT(30)

LEMMA TotalArithmetic ==
    ASSUME NEW limit \in 1 .. MaxLimit, NEW n \in Nat, NEW r \in 0 .. n - 1
    PROVE  /\ (r + limit) \div limit <= TotalPages(n, limit)
           /\ (n - 1 + limit) \div limit = TotalPages(n, limit)
<1>1. limit \in {1, 2, 3, 4, 5, 6, 7, 8, 9, 10}
  BY DEF MaxLimit
<1>2. QED BY <1>1, SMTT(30) DEF TotalPages

\* A page of the list is the list of the ids that belong on that page.
LEMMA PageListed ==
    ASSUME NEW S \in SUBSET Int, IsFiniteSet(S), NEW limit \in 1 .. MaxLimit,
           NEW page \in Int, page >= 1
    PROVE  PageOf(NewestFirst(S), page, limit) =
             NewestFirst({x \in S : PageNumber(S, x, limit) = page})
<1> DEFINE N == Cardinality(S)
           skip == (page - 1) * limit
           top == IF skip + limit < N THEN skip + limit ELSE N
           P == {x \in S : PageNumber(S, x, limit) = page}
<1>1. N \in Nat /\ limit \in Nat /\ limit >= 1
  BY FS_CardinalityType
<1>2. skip \in Nat
  <2>1. skip \in Int
    BY PageArithmetic
  <2>2. 0 + limit >= limit
    BY <1>1
  <2>3. skip >= 0
    <3>1. limit \in {1, 2, 3, 4, 5, 6, 7, 8, 9, 10}
      BY DEF MaxLimit
    <3>2. QED BY <3>1, SMTT(30)
  <2> HIDE DEF skip
  <2>4. QED BY <2>1, <2>3
<1>3. \A x \in S : x \in P <=> skip <= Rank(S, x) /\ Rank(S, x) < skip + limit
  <2>1. ASSUME NEW x \in S
        PROVE  x \in P <=> skip <= Rank(S, x) /\ Rank(S, x) < skip + limit
    <3>1. Rank(S, x) \in Nat
      BY RankBounds, FS_CardinalityType
    <3>2. PageNumber(S, x, limit) = (Rank(S, x) + limit) \div limit
      BY DEF PageNumber, Rank
    <3>3. PageNumber(S, x, limit) = page
            <=> skip <= Rank(S, x) /\ Rank(S, x) < skip + limit
      BY <3>1, <3>2, PageArithmetic
    <3>4. QED BY <3>3
  <2>2. QED BY <2>1
<1>4. \A x \in S : Rank(S, x) \in Int /\ 0 <= Rank(S, x) /\ Rank(S, x) < N
  <2>1. \A x \in S : Rank(S, x) \in 0 .. N - 1
    BY RankBounds
  <2> HIDE DEF N
  <2>2. QED BY <1>1, <2>1
<1>5. P \subseteq S
  OBVIOUS
<1>6. Len(NewestFirst(S)) = N
  BY ListedByRank
<1>7. PageOf(NewestFirst(S), page, limit) = SubSeq(NewestFirst(S), skip + 1, top)
  BY <1>6 DEF PageOf
<1> HIDE DEF skip, P
<1>8. CASE skip <= N
  <2>1. top \in Nat /\ skip <= top /\ top <= N
    BY <1>1, <1>2, <1>8
  <2>2. \A x \in S : Rank(S, x) < top <=> Rank(S, x) < skip + limit
    BY <1>1, <1>2, <1>4
  <2> HIDE DEF top
  <2>3. P = Slice(S, skip, top)
    <3>1. \A x \in S : x \in P <=> x \in Slice(S, skip, top)
      BY <1>3, <2>2 DEF Slice
    <3>2. Slice(S, skip, top) \subseteq S
      BY DEF Slice
    <3>3. QED BY <1>5, <3>1, <3>2
  <2>4. SubSeq(NewestFirst(S), skip + 1, top) = NewestFirst(Slice(S, skip, top))
    BY <1>2, <2>1, SliceListed
  <2>5. QED BY <1>7, <2>3, <2>4 DEF P
<1>9. CASE skip > N
  <2>1. top = N /\ N < skip + 1 /\ skip + 1 \in Int
    BY <1>1, <1>2, <1>9
  <2>2. SubSeq(NewestFirst(S), skip + 1, N) = <<>>
    BY <1>1, <2>1, SubSeqEmpty
  <2>3. \A x \in S : ~(skip <= Rank(S, x))
    BY <1>1, <1>2, <1>4, <1>9
  <2>4. P = {}
    BY <1>3, <1>5, <2>3
  <2>5. NewestFirst({}) = <<>>
    <3>1. 1 .. Cardinality({}) = {}
      BY FS_EmptySet
    <3>2. QED BY <3>1, EmptySeq DEF NewestFirst
  <2>6. QED BY <1>7, <2>1, <2>2, <2>4, <2>5 DEF P
<1>10. QED BY <1>1, <1>2, <1>8, <1>9

\* The pages announced are those that have ids.
LEMMA PagesHaveIds ==
    ASSUME NEW S \in SUBSET Int, IsFiniteSet(S), NEW limit \in 1 .. MaxLimit
    PROVE  LET total == TotalPages(Cardinality(S), limit) IN
           /\ \A x \in S : PageNumber(S, x, limit) <= total
           /\ total = 0 \/ \E x \in S : PageNumber(S, x, limit) = total
<1> DEFINE N == Cardinality(S)
           total == TotalPages(N, limit)
<1>1. N \in Nat
  BY FS_CardinalityType
<1>2. \A x \in S : Rank(S, x) \in 0 .. N - 1
  BY RankBounds
<1>3. \A x : PageNumber(S, x, limit) = (Rank(S, x) + limit) \div limit
  BY DEF PageNumber, Rank
<1> HIDE DEF N
<1>4. ASSUME NEW x \in S PROVE PageNumber(S, x, limit) <= total
  BY <1>1, <1>2, <1>3, TotalArithmetic
<1>5. CASE N = 0
  <2>1. limit \in {1, 2, 3, 4, 5, 6, 7, 8, 9, 10}
    BY DEF MaxLimit
  <2>2. total = 0
    BY <1>5, <2>1 DEF TotalPages
  <2>3. QED BY <1>4, <2>2 DEF N
<1>6. CASE N > 0
  <2>1. N \in 0 .. Cardinality(S) /\ N - 1 \in 0 .. N - 1
    BY <1>1, <1>6 DEF N
  <2>2. PICK x \in S : Rank(S, x) = N - 1
    BY <2>1, RanksBelow
  <2>3. PageNumber(S, x, limit) = total
    BY <1>1, <1>3, <2>1, <2>2, TotalArithmetic
  <2>4. QED BY <1>4, <2>3 DEF N
<1>7. QED BY <1>1, <1>5, <1>6

-------------------------------------------------------------------------------
(* Requests one at a time: what a listing has counted, and what it shows.  *)

\* What a paged request is to show.
Listable(k) ==
    CASE k.op = "list_teams" -> {t \in Team : IsMember(t, k.user)}
      [] k.op = "list_memos" -> {m \in Memo : LiveMemo(m) /\ memos[m].team = k.team}
      [] OTHER -> {m \in Memo : /\ LiveMemo(m) /\ memos[m].team = NoTeam
                                /\ memos[m].user = k.user}

Shows(k) ==
    LET all == Listable(k) IN
    /\ k.items = NewestFirst({x \in all : PageNumber(all, x, k.limit) = k.page})
    /\ \A x \in all : PageNumber(all, x, k.limit) <= k.total
    /\ k.total = 0 \/ \E x \in all : PageNumber(all, x, k.limit) = k.total

\* How far a listing has come.
Turned(k) ==
    k.op \in PagedOperations =>
        /\ k.page >= 1 /\ k.limit \in 1 .. MaxLimit
        /\ Due(k) = "find" => k.total = Cardinality(Listable(k))
        /\ Due(k) = "end" /\ k.code = "ok" => Shows(k)

Turning == ~scenario.overlap => \A c \in Call : ~Idle(c) => Turned(call[c])

LEMMA TurnedLasts ==
    ASSUME NEW k, UNCHANGED <<roles, memos>>
    PROVE  Turned(k)' <=> Turned(k)
<1>1. Due(k)' = Due(k)
  BY DEF Due
<1>2. Listable(k)' = Listable(k)
  BY DEF Listable, IsMember, LiveMemo
<1> HIDE DEF Due, Listable
<1>3. Shows(k)' <=> Shows(k)
  BY <1>2 DEF Shows
<1>4. QED BY <1>1, <1>2, <1>3 DEF Turned

\* The teams of a user are live, so that what is read is what is to be shown.
LEMMA ListingOf ==
    ASSUME Basics, Left, NEW k \in InFlight, k.op \in PagedOperations
    PROVE  /\ Listing(k) = NewestFirst(Listable(k))
           /\ Listable(k) \in SUBSET Int /\ IsFiniteSet(Listable(k))
<1>1. ASSUME NEW t \in Team, NEW u \in User, IsMember(t, u) PROVE LiveTeam(t)
  <2>1. u \in Members(t)
    BY <1>1 DEF Members
  <2>2. t \in Created /\ teams[t].state /= "deleted"
    BY <2>1 DEF Basics, Bookkeeping, Left, Emptied
  <2>3. teams[t] \in TeamDocument \cup {NotCreated}
    BY DEF Basics, TypeOK, StoreTypeOK
  <2>4. QED BY <2>2, <2>3 DEF LiveTeam, Created, TeamDocument
<1>2. k.user \in User
  BY DEF InFlight
<1>3. MaxTeams \in Nat /\ MaxMemos \in Nat
  BY StoreAssumption
<1>4. IsFiniteSet(Team) /\ IsFiniteSet(Memo)
  BY <1>3, FS_Interval DEF Team, Memo
<1>5. Listable(k) \in SUBSET Team \/ Listable(k) \in SUBSET Memo
  BY DEF Listable, PagedOperations
<1>6. Team \subseteq Int /\ Memo \subseteq Int
  BY <1>3 DEF Team, Memo
<1>7. IsFiniteSet(Listable(k))
  BY <1>4, <1>5, FS_Subset
<1>8. CASE k.op = "list_teams"
  <2>1. {t \in Team : LiveTeam(t) /\ roles[t][k.user] /= "none"}
          = {t \in Team : IsMember(t, k.user)}
    BY <1>1, <1>2 DEF IsMember
  <2>2. Listing(k) = TeamsOf(k.user) /\ Listable(k) = {t \in Team : IsMember(t, k.user)}
    BY <1>8 DEF Listing, Listable
  <2>3. QED BY <1>5, <1>6, <1>7, <2>1, <2>2 DEF TeamsOf
<1>9. CASE k.op = "list_memos"
  <2>1. /\ Listing(k) = MemosOfTeam(k.team)
        /\ Listable(k) = {m \in Memo : LiveMemo(m) /\ memos[m].team = k.team}
    BY <1>9 DEF Listing, Listable
  <2>2. QED BY <1>5, <1>6, <1>7, <2>1 DEF MemosOfTeam
<1>10. CASE k.op = "list_own_memos"
  <2>1. /\ Listing(k) = PrivateMemosOf(k.user)
        /\ Listable(k) = {m \in Memo : /\ LiveMemo(m) /\ memos[m].team = NoTeam
                                       /\ memos[m].user = k.user}
    BY <1>10 DEF Listing, Listable
  <2>2. {m \in Memo : LiveMemo(m) /\ memos[m].user = k.user /\ memos[m].team = NoTeam}
          = Listable(k)
    BY <2>1
  <2>3. QED BY <1>5, <1>6, <1>7, <2>1, <2>2 DEF PrivateMemosOf
<1>11. QED BY <1>8, <1>9, <1>10 DEF PagedOperations

\* A listing arrives with a page and a limit in range.
LEMMA PageAsked ==
    ASSUME TypeOK, NEW c \in Call, RequestArrives(c), call'[c].op \in PagedOperations
    PROVE  /\ call'[c].page >= 1 /\ call'[c].limit \in 1 .. MaxLimit
           /\ Due(call'[c]) \in {"authorize", "count"}
<1>1. ASSUME NEW k, NEW p \in PageRequest, Starts(c, Page(k, p)),
             k.todo = <<"count", "find">> \/ k.todo = <<"authorize">> \o <<"count", "find">>,
             \E u, op, s : k = Request(op, u, s) \/ \E t : k = InTeam(op, u, t, s)
      PROVE  /\ call'[c].page >= 1 /\ call'[c].limit \in 1 .. MaxLimit
             /\ Due(call'[c]) \in {"authorize", "count"}
  <2>1. call'[c] = Page(k, p)
    BY <1>1 DEF Starts, TypeOK
  <2>2. /\ Page(k, p).page = ClampPage(p[1]) /\ Page(k, p).limit = ClampLimit(p[2])
        /\ Page(k, p).todo = k.todo
    BY <1>1 DEF Page, Request, InTeam, NoCall
  <2>3. p[1] \in Int /\ p[2] \in Int
    BY PageRequestAssumption
  <2>4. ClampPage(p[1]) >= 1 /\ ClampLimit(p[2]) \in 1 .. MaxLimit
    BY <2>3 DEF ClampPage, ClampLimit, MaxLimit
  <2>5. Due(Page(k, p)) \in {"authorize", "count"}
    BY <1>1, <2>2 DEF Due
  <2> HIDE DEF Due
  <2>6. QED BY <2>1, <2>2, <2>4, <2>5
<1>2. Lists(c)
  BY ArrivesAsked DEF Offers
<1>3. CASE ListTeams(c)
  <2>1. PICK u \in Users, p \in PageRequest :
          Starts(c, Page(Request("list_teams", u, <<"count", "find">>), p))
    BY <1>3 DEF ListTeams
  <2>2. Request("list_teams", u, <<"count", "find">>).todo = <<"count", "find">>
    BY DEF Request, NoCall
  <2>3. QED BY <1>1, <2>1, <2>2
<1>4. CASE ListByUserID(c)
  <2>1. PICK u \in Users, p \in PageRequest :
          Starts(c, Page(Request("list_own_memos", u, <<"count", "find">>), p))
    BY <1>4 DEF ListByUserID
  <2>2. Request("list_own_memos", u, <<"count", "find">>).todo = <<"count", "find">>
    BY DEF Request, NoCall
  <2>3. QED BY <1>1, <2>1, <2>2
<1>5. CASE ListByTeamID(c)
  <2>1. PICK u \in Users, t \in Created, p \in PageRequest :
          Starts(c, Page(InTeam("list_memos", u, t, <<"count", "find">>), p))
    BY <1>5 DEF ListByTeamID
  <2>2. InTeam("list_memos", u, t, <<"count", "find">>).todo
          = <<"authorize">> \o <<"count", "find">>
    BY DEF InTeam, Request, NoCall
  <2>3. QED BY <1>1, <2>1, <2>2
<1>6. QED BY <1>2, <1>3, <1>4, <1>5 DEF Lists

LEMMA ListingDue ==
    ASSUME NEW k \in InFlight, Sound(k), k.todo /= <<>>, k.op \in PagedOperations
    PROVE  Due(k) \in {"authorize", "count", "find"}
<1>1. PICK b : <<Due(k), b>> \in Order[k.op]
  BY DueInOrder
<1> HIDE DEF Due
<1>2. QED BY <1>1 DEF Order, PagedOperations

\* What is of interest of a listing is the same in two requests.
Alike(n, k) ==
    n.op = k.op /\ n.user = k.user /\ n.team = k.team /\ n.page = k.page /\ n.limit = k.limit

LEMMA AlikeList ==
    ASSUME NEW n, NEW k, Alike(n, k)
    PROVE  Listable(n) = Listable(k)
BY DEF Alike, Listable

LEMMA ReadsTurn ==
    ASSUME Basics, Left, NEW c \in Call, ReadStep(c), Turned(call[c]),
           NEW n \in InFlight, Reads(c, n)
    PROVE  Turned(n)
<1> DEFINE k == call[c]
<1>1. TypeOK /\ Becomes(c, n) /\ Turned(k)
  BY DEF Basics, Reads
<1>2. k \in InFlight /\ Sound(k) /\ k.todo /= <<>> /\ n.op = k.op
  <2> HIDE DEF Due
  <2>1. QED BY ReadAhead
<1>3. CASE k.op \notin PagedOperations
  BY <1>2, <1>3 DEF Turned
<1>4. CASE k.op \in PagedOperations
  <2>1. Due(k) \in {"authorize", "count", "find"}
    BY <1>2, <1>4, ListingDue
  <2>2. \A command : Sends(c, command) => Due(k) = command
    BY <1>1, Sending
  <2>3. Authorize(c) \/ Count(c) \/ Find(c)
    <3> HIDE DEF Due
    <3>1. QED
      BY <2>1, <2>2
         DEF ReadStep, Authorize, CountOwned, FindSlug, FindTeam, FindTarget, FindRequester,
             FindInvitee, FindMember, FindPending, CountMembers, CountPending, FindUser,
             FindInvitation, FindMemo, FindDeletedMemo, Count, Find
  <2>4. Due(n) = "find" => Due(k) = "count"
    <3> HIDE DEF Due
    <3>1. \/ Due(n) \in {"end", "find_requester", "delete_member", "set_role"}
          \/ <<Due(k), Due(n)>> \in Order[k.op]
          \/ Due(k) = "find_invitee" /\ Due(n) = "find_pending"
      BY ReadAhead
    <3>2. QED BY <1>4, <2>1, <3>1 DEF Order, PagedOperations
  <2>5. PICK Numbers, Ids, Sets : InFlight = Shape(Numbers, Ids, Sets)
    BY Shaped
  <2>6. k.page >= 1 /\ k.limit \in 1 .. MaxLimit /\ k.page \in Int
    BY <1>1, <1>2, <1>4 DEF Turned, InFlight
  <2>7. /\ Listing(k) = NewestFirst(Listable(k))
        /\ Listable(k) \in SUBSET Int /\ IsFiniteSet(Listable(k))
    BY <1>2, <1>4, ListingOf
  <2>8. CASE Authorize(c)
    <3>1. PICK code : Reads(c, Checked(k, code)) /\ code \in {"ok", "forbidden"}
      BY <2>8 DEF Authorize
    <3>2. n = Checked(k, code)
      BY <1>1, <3>1, Stepped DEF Reads
    <3>3. Due(k) = "authorize"
      BY <2>2, <2>8 DEF Authorize
    <3>4. /\ Alike(n, k)
          /\ code = "ok" => n.todo = Tail(k.todo)
          /\ code /= "ok" => n.code /= "ok"
      <4> HIDE DEF k
      <4>1. QED BY <1>2, <2>5, <3>1, <3>2 DEF Shape, Checked, Proceeds, Fails, Alike
    <3>5. code = "ok" => <<Due(k), Due(n)>> \in Order[k.op]
      BY <1>2, <3>4, NextDue
    <3>6. Due(n) /= "find"
      <4> HIDE DEF Due
      <4>1. QED BY <2>4, <3>3
    <3>7. Due(n) = "end" => n.code /= "ok"
      <4> HIDE DEF Due
      <4>1. QED BY <1>4, <3>3, <3>4, <3>5 DEF Order, PagedOperations
    <3> HIDE DEF Due
    <3>8. QED BY <2>6, <3>4, <3>6, <3>7 DEF Turned, Alike
  <2>9. CASE Count(c)
    <3> DEFINE N == Len(Listing(k))
               r == [k EXCEPT !.total = N]
    <3>1. Reads(c, Proceeds(r)) /\ Due(k) = "count"
      BY <2>2, <2>9 DEF Count
    <3>2. n = Proceeds(r)
      BY <1>1, <3>1, Stepped DEF Reads
    <3>3. N = Cardinality(Listable(k))
      BY <2>7, ListedByRank
    <3>4. Alike(n, k) /\ n.total = N /\ n.todo = Tail(k.todo)
      <4> HIDE DEF k, N
      <4>1. QED BY <1>2, <2>5, <3>2 DEF Shape, Proceeds, Alike
    <3>5. <<Due(k), Due(n)>> \in Order[k.op]
      BY <1>2, <3>4, NextDue
    <3>6. Due(n) /= "end"
      <4> HIDE DEF Due
      <4>1. QED BY <1>4, <3>1, <3>5 DEF Order, PagedOperations
    <3>7. Listable(n) = Listable(k)
      BY <3>4, AlikeList
    <3> HIDE DEF Due
    <3>8. QED BY <2>6, <3>3, <3>4, <3>6, <3>7 DEF Turned, Alike
  <2>10. CASE Find(c)
    <3> DEFINE I == PageOf(Listing(k), k.page, k.limit)
               T == TotalPages(k.total, k.limit)
               r == [k EXCEPT !.items = I, !.total = T]
    <3>1. Reads(c, Proceeds(r)) /\ Due(k) = "find"
      BY <1>4, <2>2, <2>10 DEF Find, PagedOperations
    <3>2. n = Proceeds(r)
      BY <1>1, <3>1, Stepped DEF Reads
    <3>3. Alike(n, k) /\ n.total = T /\ n.items = I
      <4> HIDE DEF k, I, T
      <4>1. QED BY <1>2, <2>5, <3>2 DEF Shape, Proceeds, Alike
    <3>4. k.total = Cardinality(Listable(k))
      BY <1>1, <1>4, <3>1 DEF Turned
    <3>5. PICK all : all = Listable(k)
      OBVIOUS
    <3>6. all \in SUBSET Int /\ IsFiniteSet(all)
      BY <2>7, <3>5
    <3>7. n.items = NewestFirst({x \in all : PageNumber(all, x, n.limit) = n.page})
      BY <2>6, <2>7, <3>3, <3>5, <3>6, PageListed DEF Alike
    <3>8. /\ \A x \in all : PageNumber(all, x, n.limit) <= n.total
          /\ n.total = 0 \/ \E x \in all : PageNumber(all, x, n.limit) = n.total
      BY <2>6, <3>3, <3>4, <3>5, <3>6, PagesHaveIds DEF Alike
    <3>9. Listable(n) = all
      BY <3>3, <3>5, AlikeList
    <3>10. Shows(n)
      BY <3>7, <3>8, <3>9 DEF Shows
    <3>11. Due(n) /= "find"
      <4> HIDE DEF Due
      <4>1. QED BY <2>4, <3>1
    <3> HIDE DEF Due
    <3>12. QED BY <2>6, <3>3, <3>10, <3>11 DEF Turned, Alike
  <2>11. QED BY <2>3, <2>8, <2>9, <2>10
<1>5. QED BY <1>3, <1>4

\* A listing of which a command is refused is answered with the error.
LEMMA RefusesTurn ==
    ASSUME Basics, NEW c \in Call, Refuse(c), Turned(call[c]), NEW n \in InFlight, Becomes(c, n)
    PROVE  Turned(n)
<1> DEFINE k == call[c]
<1>1. /\ TypeOK /\ k \in InFlight /\ k.todo /= <<>> /\ Sound(k) /\ Turned(k) /\ n.op = k.op
  BY RefusedNoSeat DEF Basics, Same
<1>2. CASE k.op \notin PagedOperations
  BY <1>1, <1>2 DEF Turned
<1>3. CASE k.op \in PagedOperations
  <2>1. Due(k) \in {"authorize", "count", "find"} /\ Due(k) = Head(k.todo)
    BY <1>1, <1>3, ListingDue DEF Due
  <2>2. Becomes(c, [AfterRefusal(k) EXCEPT !.refused = TRUE])
    BY DEF Refuse
  <2>3. n = [AfterRefusal(k) EXCEPT !.refused = TRUE]
    BY <1>1, <2>2, Stepped
  <2>4. AfterRefusal(k) = Fails(k, <<>>, "error")
    <3> HIDE DEF Due
    <3>1. QED BY <2>1 DEF AfterRefusal, ErrorIgnored, ErrorSkips, Undo, ErrorMistaken
  <2>5. PICK Numbers, Ids, Sets : InFlight = Shape(Numbers, Ids, Sets)
    BY Shaped
  <2>6. n.todo = <<>> /\ n.code = "error" /\ Alike(n, k)
    <3> HIDE DEF k, Due
    <3>1. QED BY <1>1, <2>3, <2>4, <2>5 DEF Shape, Fails, Alike
  <2>7. Due(n) = "end"
    BY <2>6 DEF Due
  <2> HIDE DEF Due
  <2>8. QED BY <1>1, <1>3, <2>6, <2>7 DEF Turned, Alike
<1>4. QED BY <1>2, <1>3

LEMMA TurningKept ==
    ASSUME TypeOK, OneAtATime, ~scenario.overlap, NEW c \in Call,
           ~Idle(c) \/ \A d \in Call : Idle(d),
           NEW n, call' = [call EXCEPT ![c] = n], scenario' = scenario,
           n = NoCall \/ Turned(n)'
    PROVE  Turning'
<1>1. \A d \in Call : call'[d] = IF d = c THEN n ELSE call[d]
  BY DEF TypeOK
<1>2. \A d \in Call \ {c} : Idle(d)
  BY DEF OneAtATime
<1>3. \A d \in Call : ~Idle(d)' => d = c /\ n /= NoCall
  BY <1>1, <1>2 DEF Idle, NoCall
<1>4. ASSUME NEW d \in Call, ~Idle(d)' PROVE Turned(call[d])'
  <2>1. call'[d] = n /\ Turned(n)'
    BY <1>1, <1>3, <1>4
  <2>2. QED BY <2>1 DEF Turned, Shows, Listable, Due
<1>5. QED BY <1>4 DEF Turning

LEMMA TurningStep ==
    Basics /\ Ends /\ OneAtATime /\ Turning /\ [Next]_vars => Turning'
<1> SUFFICES ASSUME Basics, Ends, OneAtATime, Turning, [Next]_vars PROVE Turning'
  OBVIOUS
<1>1. TypeOK
  BY DEF Basics
<1>2. scenario' = scenario
  BY <1>1, ScenarioStays
<1>3. CASE scenario.overlap
  BY <1>2, <1>3 DEF Turning
<1>4. CASE ~scenario.overlap
  <2>1. \A c \in Call : ~Idle(c) => Turned(call[c])
    BY <1>4 DEF Turning
  <2>2. Left
    BY <1>4 DEF Ends, Left
  <2>3. ASSUME NEW n, n.op \notin PagedOperations PROVE Turned(n)'
    BY <2>3 DEF Turned
  <2>4. ASSUME NEW c \in Call, RequestArrives(c) PROVE Turning'
    <3>1. Arrives(c)
      BY <1>1, <2>4, Arrivals
    <3>2. PICK k \in InFlight : call' = [call EXCEPT ![c] = k]
      BY <3>1 DEF Arrives
    <3>3. UNCHANGED <<roles, memos>> /\ \A d \in Call : Idle(d)
      BY <1>4, <3>1 DEF Arrives, storeVars
    <3>4. call'[c] = k
      BY <1>1, <3>2 DEF TypeOK
    <3>5. Turned(k)
      <4>1. CASE k.op \in PagedOperations
        <5>1. k.page >= 1 /\ k.limit \in 1 .. MaxLimit /\ Due(k) \in {"authorize", "count"}
          <6>1. call'[c].op \in PagedOperations
            BY <3>4, <4>1
          <6>2. /\ call'[c].page >= 1 /\ call'[c].limit \in 1 .. MaxLimit
                /\ Due(call'[c]) \in {"authorize", "count"}
            BY <1>1, <2>4, <6>1, PageAsked
          <6>3. QED BY <3>4, <6>2
        <5> HIDE DEF Due
        <5>2. QED BY <5>1 DEF Turned
      <4>2. CASE k.op \notin PagedOperations
        BY <4>2 DEF Turned
      <4>3. QED BY <4>1, <4>2
    <3>6. Turned(k)'
      BY <3>3, <3>5, TurnedLasts
    <3>7. QED BY <1>1, <1>2, <1>4, <3>2, <3>3, <3>6, TurningKept
  <2>5. ASSUME NEW c \in Call, ReadStep(c) PROVE Turning'
    <3>1. ~Idle(c)
      BY <2>5, ReaderBusy
    <3>2. Sound(call[c])
      BY <3>1 DEF Basics
    <3>3. PICK n \in InFlight : Reads(c, n)
      BY <1>1, <2>5, <3>2, ReadsSoundly DEF Basics
    <3>4. Turned(n)
      BY <2>1, <2>2, <2>5, <3>1, <3>3, ReadsTurn
    <3>5. UNCHANGED <<roles, memos>> /\ Becomes(c, n)
      BY <3>3 DEF Reads, storeVars
    <3>6. Turned(n)'
      BY <3>4, <3>5, TurnedLasts
    <3>7. QED BY <1>1, <1>2, <1>4, <3>1, <3>5, <3>6, TurningKept DEF Becomes
  <2>6. ASSUME NEW c \in Call, WriteStep(c), ~InsertTeam(c) PROVE Turning'
    <3>1. call[c] \in InFlight /\ ~Idle(c) /\ call[c].todo /= <<>>
      BY <1>1, <2>6, Writing DEF WriteOutcome
    <3>2. PICK n \in InFlight : Becomes(c, n) /\ Same(n, call[c])
      BY <1>1, <2>6, Writing DEF WriteOutcome
    <3>3. Sound(call[c])
      BY <3>1 DEF Basics
    <3>4. Due(call[c]) \in WriteCommands
      BY <1>1, <2>6, WriterDue
    <3>5. call[c].op \notin PagedOperations
      <4> HIDE DEF Due
      <4>1. QED BY <3>1, <3>3, <3>4, ListingDue DEF WriteCommands
    <3>6. n.op \notin PagedOperations
      BY <3>2, <3>5 DEF Same
    <3>7. Turned(n)'
      BY <2>3, <3>6
    <3>8. QED BY <1>1, <1>2, <1>4, <3>1, <3>2, <3>7, TurningKept DEF Becomes
  <2>7. ASSUME NEW c \in Call, InsertTeam(c) PROVE Turning'
    <3>1. call[c] \in InFlight /\ ~Idle(c) /\ call[c].todo /= <<>>
          /\ Due(call[c]) = "insert_team"
      BY <1>1, <2>7, Sending DEF InsertTeam
    <3>2. PICK n : Becomes(c, n) /\ n.op = "create_team"
      <4>1. CASE SlugIndexed(NoTeam, call[c].slug)
        <5>1. PICK n : n = Fails(call[c], <<>>, "duplicate")
          OBVIOUS
        <5>2. Becomes(c, n)
          BY <2>7, <4>1, <5>1 DEF InsertTeam
        <5>3. Same(n, call[c])
          <6>1. <<>> \in Seq(Commands) /\ "duplicate" \in Codes
            BY DEF Codes
          <6>2. QED BY <3>1, <5>1, <6>1, Outcomes
        <5>4. call[c].op = "create_team"
          BY <3>1, SenderOf DEF Basics
        <5>5. QED BY <5>2, <5>3, <5>4 DEF Same
      <4>2. CASE ~SlugIndexed(NoTeam, call[c].slug)
        BY <2>7, <4>2, TeamInserted
      <4>3. QED BY <4>1, <4>2
    <3>3. Turned(n)'
      BY <2>3, <3>2 DEF PagedOperations
    <3>4. QED BY <1>1, <1>2, <1>4, <3>1, <3>2, <3>3, TurningKept DEF Becomes
  <2>8. ASSUME NEW c \in Call, Refuse(c) PROVE Turning'
    <3>1. ~Idle(c) /\ UNCHANGED <<roles, memos>>
      BY <2>8 DEF Refuse, storeVars
    <3>2. PICK n \in InFlight : Becomes(c, n)
      <4>1. Sound(call[c])
        BY <3>1 DEF Basics
      <4>2. QED BY <1>1, <2>8, <4>1, RefusedLeaves
    <3>3. Turned(n)
      BY <2>1, <2>8, <3>1, <3>2, RefusesTurn
    <3>4. Turned(n)'
      BY <3>1, <3>3, TurnedLasts
    <3>5. QED BY <1>1, <1>2, <1>4, <3>1, <3>2, <3>4, TurningKept DEF Becomes
  <2>9. ASSUME NEW c \in Call, Respond(c) PROVE Turning'
    <3>1. ~Idle(c) /\ Becomes(c, NoCall)
      BY <2>9 DEF Respond
    <3>2. QED BY <1>1, <1>2, <1>4, <3>1, TurningKept DEF Becomes
  <2>10. CASE Expire \/ EmailChanges \/ UserDeleted \/ UNCHANGED vars
    <3>1. UNCHANGED <<call, roles, memos>>
      BY <2>10 DEF Expire, EmailChanges, UserDeleted, vars, storeVars
    <3>2. ASSUME NEW c \in Call, ~Idle(c)' PROVE Turned(call[c])'
      <4>1. PICK k : k = call[c]
        OBVIOUS
      <4>2. Turned(k) /\ call'[c] = k
        BY <2>1, <3>1, <3>2, <4>1 DEF Idle
      <4>3. Turned(k)'
        BY <3>1, <4>2, TurnedLasts
      <4>4. QED BY <4>2, <4>3 DEF Turned, Shows, Listable, Due
    <3>3. QED BY <3>2 DEF Turning
  <2>11. QED BY <2>4, <2>5, <2>6, <2>7, <2>8, <2>9, <2>10 DEF Next
<1>5. QED BY <1>3, <1>4

\* A listing shows what the user may open, each item on one page, and announces
\* the pages that have items, for any teams, memos, pages and limits asked for:
\* a page of the list newest first is the list of those whose rank belongs on
\* it, and the count before it is of the same set, as no request came between.
THEOREM ListingsHold == Spec => []ListedOnItsPage
<1>1. Init => Basics /\ Ends /\ OneAtATime /\ Turning
  <2>1. Init => Basics /\ Ends /\ OneAtATime
    BY BasicsInitially, EndsInitially
  <2>2. Init => Turning
    BY DEF Init, Turning, Idle, NoCall
  <2>3. QED BY <2>1, <2>2
<1>2. /\ Basics /\ Ends /\ OneAtATime /\ Turning
      /\ [Next]_vars
      => (Basics /\ Ends /\ OneAtATime /\ Turning)'
  BY BasicsStep, EndsStep, TurningStep
<1>3. Turning => ListedOnItsPage
  <2> SUFFICES ASSUME Turning, NEW c \in Call, AnsweredAlone(c), call[c].code = "ok",
                      call[c].op \in PagedOperations
               PROVE  Shows(call[c])
    BY DEF ListedOnItsPage, Shows, Listable, PagedOperations
  <2>1. ~Idle(c) /\ ~scenario.overlap /\ Due(call[c]) = "end"
    BY DEF AnsweredAlone, Answered, Due
  <2>2. Turned(call[c])
    BY <2>1 DEF Turning
  <2> HIDE DEF Due
  <2>3. QED BY <2>1, <2>2 DEF Turned
<1>4. QED BY <1>1, <1>2, <1>3, PTL DEF Spec
===============================================================================
