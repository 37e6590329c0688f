----------------------------------- MODULE Teams -----------------------------------
(***************************************************************************)
(* The team API: authorization, the team, member and invitation services   *)
(* and the listings of memos.  A request is a sequence of MongoDB commands; *)
(* what an operation of a service does is the sequence of commands it      *)
(* starts with, and a command either lets the request go on with the rest  *)
(* of its sequence or ends it with an error.                               *)
(***************************************************************************)
EXTENDS TeamStore, Pages

CONSTANTS
    Call,           \* slots for requests in flight
    PageRequest,    \* the pages clients ask for: pairs of a page and a limit
    Seats,          \* the seats of a team
    MayNameSelf,    \* owners may name themselves in a transfer
    Scenario        \* what is possible in a behaviour, see scenario

ASSUME PageRequestAssumption == PageRequest \subseteq Int \X Int
ASSUME SeatsAssumption == Seats \in Nat \ {0}
ASSUME FiniteAssumption ==
    IsFiniteSet(User) /\ IsFiniteSet(Call) /\ IsFiniteSet(Invitation)

VARIABLES
    scenario,       \* the one of this behaviour: whether requests overlap,
                    \* whether commands may be refused (one in a request),
                    \* which operations there are, the emails users start with,
                    \* and bounds: the addresses anybody uses, the emails users
                    \* ever have, the numbers of teams and memos ever, of
                    \* invitations at once
    call,           \* the request each slot is serving
    held,           \* history: which user ever had which email
    invited,        \* history: who founded which team, and which address was
                    \* invited to it
    half,           \* history: the teams whose deletion stopped half-way
    undropped       \* history: the teams of which an acceptance did not get to
                    \* drop its invitation

userVars == <<emails, held>>
vars == <<storeVars, userVars, scenario, call, invited, half, undropped>>

Commands ==
    {"authorize", "count_owned", "find_slug", "insert_team", "insert_owner", "undo_team",
     "find_team", "update_team", "delete_memos", "delete_members", "delete_invitations",
     "delete_team", "find_target", "promote", "demote", "hand_over", "undo_demote",
     "undo_promote", "find_requester", "delete_member", "set_role", "find_invitee",
     "find_member", "find_pending", "count_members", "count_pending", "insert_invitation",
     "find_user", "find_invitation", "delete_invitation", "insert_member", "drop_invitation",
     "insert_memo", "find_memo", "delete_memo", "find_deleted_memo", "count", "find"}

\* Nil, the apperrors, a violated unique index, or any other error.
Codes == {"ok", "forbidden", "limit", "slug_taken", "team_not_found", "not_member",
          "cannot_remove_owner", "cannot_remove_self", "cannot_change_owner",
          "owner_cannot_leave", "insufficient", "already_member", "pending", "seats",
          "user_not_found", "invitation_not_found", "mismatch", "expired",
          "memo_not_found", "memo_unauthorized", "duplicate", "error"}

\* What a request may do in a team is decided by the role of the user.
AnyRole == Role
Managers == {"owner", "admin"}
rolePermissions ==
    [team_view |-> AnyRole, team_update |-> Managers, team_delete |-> {"owner"},
     team_transfer |-> {"owner"}, member_invite |-> Managers, member_remove |-> Managers,
     member_update_role |-> Managers, memo_view |-> AnyRole, memo_create |-> AnyRole,
     memo_delete |-> AnyRole]

\* The routes below /teams/:teamId, and the permission each asks for.
Routes ==
    [get_team |-> "team_view", update_team |-> "team_update", delete_team |-> "team_delete",
     transfer |-> "team_transfer", list_members |-> "team_view",
     remove_member |-> "member_remove", update_role |-> "member_update_role",
     leave |-> "team_view", invite |-> "member_invite", list_invitations |-> "member_invite",
     cancel |-> "member_invite", list_memos |-> "memo_view", create_memo |-> "memo_create",
     get_memo |-> "memo_view", delete_memo |-> "memo_delete"]

Operations ==
    DOMAIN Routes \cup {"create_team", "list_teams", "my_invitations", "accept", "decline",
                        "list_own_memos", "create_own_memo", "delete_own_memo"}

ASSUME ScenarioAssumption ==
    Scenario \subseteq [overlap : BOOLEAN, refusals : BOOLEAN, expiry : BOOLEAN,
                        operations : SUBSET Operations,
                        teams : 0 .. MaxTeams, memos : 0 .. MaxMemos,
                        invitations : 0 .. Cardinality(Invitation),
                        slugs : SUBSET Slug, gives : SUBSET Given,
                        emails : [User -> Email \cup {NoEmail}],
                        addresses : SUBSET Address, held : Nat, deletions : BOOLEAN]
ASSUME EmailAssumption ==
    \A s \in Scenario : \A u, v \in User :
        s.emails[u] = s.emails[v] => u = v \/ s.emails[u] = NoEmail

\* todo: the commands still to be sent; the request is answered when none is
\* left.  target: the user a request names, or finds; address: the one invited,
\* or that of the requester; owner and slug: those of the team document read,
\* or to be written; role: the role read, or asked for.
NoCall ==
    [op |-> "none", todo |-> <<>>, user |-> NoUser, team |-> NoTeam, target |-> NoUser,
     address |-> NoAddress, owner |-> NoUser, slug |-> NoSlug, role |-> "none",
     invitation |-> NoInvitation, memo |-> NoMemo, page |-> 0, limit |-> 0, total |-> 0, items |-> <<>>,
     shown |-> {}, code |-> "ok", wrote |-> FALSE, refused |-> FALSE]
InFlight ==
    [op : Operations, todo : Seq(Commands), user : User, team : Team \cup {NoTeam},
     target : User \cup {NoUser}, address : Address \cup {NoAddress},
     owner : User \cup {NoUser}, slug : Slug \cup {NoSlug},
     role : Role \cup {"none"}, invitation : Invitation \cup {NoInvitation},
     memo : Memo \cup {NoMemo}, page : Int, limit : Int, total : Nat, items : Seq(Nat),
     shown : SUBSET (User \cup Invitation), code : Codes, wrote : BOOLEAN, refused : BOOLEAN]

TypeOK ==
    /\ StoreTypeOK
    /\ scenario \in Scenario
    /\ call \in [Call -> InFlight \cup {NoCall}]
    /\ held \in SUBSET (User \X Email)
    /\ invited \in SUBSET (Team \X (User \cup Address))
    /\ half \in SUBSET Team /\ undropped \in SUBSET Team

Init ==
    /\ StoreInit
    /\ scenario \in Scenario
    /\ emails = scenario.emails
    /\ call = [c \in Call |-> NoCall]
    /\ held = {<<u, emails[u]>> : u \in {u \in User : emails[u] /= NoEmail}}
    /\ invited = {}
    /\ half = {} /\ undropped = {}

Idle(c) == call[c].op = "none"

\* A request may arrive at the slot c.
Accepting(c, op) ==
    /\ Idle(c) /\ op \in scenario.operations
    /\ scenario.overlap \/ \A d \in Call : Idle(d)

\* The slot takes the request k.
Starts(c, k) ==
    /\ call' = [call EXCEPT ![c] = k]
    /\ UNCHANGED <<storeVars, userVars, scenario, invited, half, undropped>>

\* Who is registered, or was: an access token outlives the user.
Users == {u \in User : \E email \in Email : <<u, email>> \in held}

Created == {t \in Team : teams[t] /= NotCreated}
Recorded == {m \in Memo : memos[m] /= NotRecorded}
InProgress(ops) == {c \in Call : call[c].op \in ops}

Request(op, u, commands) == [NoCall EXCEPT !.op = op, !.user = u, !.todo = commands]

\* A request to a route below /teams/:teamId.
InTeam(op, u, t, commands) == [Request(op, u, <<"authorize">> \o commands) EXCEPT !.team = t]

-------------------------------------------------------------------------------
(* The operations of the team service.                                     *)

CreateTeamCommands == <<"count_owned", "find_slug", "insert_team", "insert_owner">>

CreateTeam(c) ==
    /\ Accepting(c, "create_team")
    /\ Cardinality(Created) + Cardinality(InProgress({"create_team"})) < scenario.teams
    /\ \E u \in Users, slug \in scenario.slugs :
         Starts(c, [Request("create_team", u, CreateTeamCommands) EXCEPT !.slug = slug])

UpdateTeamCommands(slug) ==
    <<"find_team">> \o (IF slug = NoSlug THEN <<>> ELSE <<"find_slug">>) \o <<"update_team">>

\* NoSlug: a request that leaves the slug alone.
UpdateTeam(c) ==
    /\ Accepting(c, "update_team")
    /\ \E u \in Users, t \in Created, slug \in scenario.slugs \cup {NoSlug} :
         Starts(c, [InTeam("update_team", u, t, UpdateTeamCommands(slug)) EXCEPT !.slug = slug])

\* Mutant: the team goes first.
DeleteTeamFirst == <<"delete_team", "delete_memos", "delete_members", "delete_invitations">>

\* Mutant: invitations are left to expire.
DeleteTeamKeepingInvitations == <<"delete_memos", "delete_members", "delete_team">>

DeleteTeamCommands == <<"delete_memos", "delete_members", "delete_invitations", "delete_team">>

DeleteTeam(c) ==
    /\ Accepting(c, "delete_team")
    /\ \E u \in Users, t \in Created : Starts(c, InTeam("delete_team", u, t, DeleteTeamCommands))

TransferCommands == <<"find_target", "find_team", "promote", "demote", "hand_over">>

TransferOwnership(c) ==
    /\ Accepting(c, "transfer")
    /\ \E u, new \in Users, t \in Created :
         /\ MayNameSelf \/ new /= u
         /\ Starts(c, [InTeam("transfer", u, t, TransferCommands)
                         EXCEPT !.target = new, !.owner = new])

GetTeam(c) ==
    /\ Accepting(c, "get_team")
    /\ \E u \in Users, t \in Created : Starts(c, InTeam("get_team", u, t, <<"find_team">>))

\* A page of a listing; first its length is counted, then it is read.
Page(k, p) == [k EXCEPT !.page = ClampPage(p[1]), !.limit = ClampLimit(p[2])]

ListTeams(c) ==
    /\ Accepting(c, "list_teams")
    /\ \E u \in Users, p \in PageRequest :
         Starts(c, Page(Request("list_teams", u, <<"count", "find">>), p))

-------------------------------------------------------------------------------
(* Those of the team member service.                                       *)

ListMembers(c) ==
    /\ Accepting(c, "list_members")
    /\ \E u \in Users, t \in Created : Starts(c, InTeam("list_members", u, t, <<"find">>))

RemoveMember(c) ==
    /\ Accepting(c, "remove_member")
    /\ \E u, target \in Users, t \in Created :
         Starts(c, [InTeam("remove_member", u, t,
                           <<"find_target", "find_requester", "delete_member">>)
                      EXCEPT !.target = target])

UpdateRole(c) ==
    /\ Accepting(c, "update_role")
    /\ \E u, target \in Users, t \in Created, role \in Given :
         Starts(c, [InTeam("update_role", u, t,
                           <<"find_target", "find_requester", "set_role">>)
                      EXCEPT !.target = target, !.role = role])

LeaveTeam(c) ==
    /\ Accepting(c, "leave")
    /\ \E u \in Users, t \in Created :
         Starts(c, [InTeam("leave", u, t, <<"find_target", "delete_member">>)
                      EXCEPT !.target = u])

-------------------------------------------------------------------------------
(* Those of the team invitation service.                                   *)

InviteCommands == <<"find_team", "find_invitee", "find_member", "find_pending",
                    "count_members", "count_pending", "insert_invitation">>

CreateInvitation(c) ==
    /\ Accepting(c, "invite")
    /\ Cardinality({i \in Invitation : Invited(i)}) + Cardinality(InProgress({"invite"}))
         < scenario.invitations
    /\ \E u \in Users, address \in scenario.addresses, t \in Created, role \in scenario.gives :
         Starts(c, [InTeam("invite", u, t, InviteCommands)
                      EXCEPT !.address = address, !.role = role])

ListTeamInvitations(c) ==
    /\ Accepting(c, "list_invitations")
    /\ \E u \in Users, t \in Created : Starts(c, InTeam("list_invitations", u, t, <<"find">>))

\* Ids come from listings: the invitation may be one of another team, too.
CancelInvitation(c) ==
    /\ Accepting(c, "cancel")
    /\ \E u \in Users, t \in Created, i \in {i \in Invitation : Invited(i)} :
         Starts(c, [InTeam("cancel", u, t, <<"find_invitation", "delete_invitation">>)
                      EXCEPT !.invitation = i])

ListMyInvitations(c) ==
    /\ Accepting(c, "my_invitations")
    /\ \E u \in Users : Starts(c, Request("my_invitations", u, <<"find_user", "find">>))

\* Mutant: the seats are counted after the membership is there.
AcceptThenCount == <<"find_user", "find_invitation", "find_team", "insert_member",
                     "count_members", "drop_invitation">>

AcceptCommands == <<"find_user", "find_invitation", "find_team", "count_members",
                    "insert_member", "drop_invitation">>

AcceptInvitation(c) ==
    /\ Accepting(c, "accept")
    /\ \E u \in Users, i \in {i \in Invitation : Invited(i)} :
         Starts(c, [Request("accept", u, AcceptCommands) EXCEPT !.invitation = i])

DeclineInvitation(c) ==
    /\ Accepting(c, "decline")
    /\ \E u \in Users, i \in {i \in Invitation : Invited(i)} :
         Starts(c, [Request("decline", u,
                            <<"find_user", "find_invitation", "delete_invitation">>)
                      EXCEPT !.invitation = i])

-------------------------------------------------------------------------------
(* Those of the voice memo service that place, read or delete memos.       *)

MayCreateMemo ==
    Cardinality(Recorded) + Cardinality(InProgress({"create_memo", "create_own_memo"}))
      < scenario.memos

CreateVoiceMemo(c) ==
    /\ Accepting(c, "create_own_memo") /\ MayCreateMemo
    /\ \E u \in Users : Starts(c, Request("create_own_memo", u, <<"insert_memo">>))

CreateTeamVoiceMemo(c) ==
    /\ Accepting(c, "create_memo") /\ MayCreateMemo
    /\ \E u \in Users, t \in Created : Starts(c, InTeam("create_memo", u, t, <<"insert_memo">>))

ListByUserID(c) ==
    /\ Accepting(c, "list_own_memos")
    /\ \E u \in Users, p \in PageRequest :
         Starts(c, Page(Request("list_own_memos", u, <<"count", "find">>), p))

ListByTeamID(c) ==
    /\ Accepting(c, "list_memos")
    /\ \E u \in Users, t \in Created, p \in PageRequest :
         Starts(c, Page(InTeam("list_memos", u, t, <<"count", "find">>), p))

GetVoiceMemo(c) ==
    /\ Accepting(c, "get_memo")
    /\ \E u \in Users, t \in Created, m \in Recorded :
         Starts(c, [InTeam("get_memo", u, t, <<"find_memo">>) EXCEPT !.memo = m])

\* The private route: whatever memo the user names.
DeleteVoiceMemo(c) ==
    /\ Accepting(c, "delete_own_memo")
    /\ \E u \in Users, m \in Recorded :
         Starts(c, [Request("delete_own_memo", u, <<"delete_memo">>) EXCEPT !.memo = m])

DeleteTeamVoiceMemo(c) ==
    /\ Accepting(c, "delete_memo")
    /\ \E u \in Users, t \in Created, m \in Recorded :
         Starts(c, [InTeam("delete_memo", u, t, <<"delete_memo">>) EXCEPT !.memo = m])

-------------------------------------------------------------------------------
(* Commands.  k is the request that sends one.                             *)

Sends(c, command) == ~Idle(c) /\ call[c].todo /= <<>> /\ Head(call[c].todo) = command

Proceeds(k) == [k EXCEPT !.todo = Tail(@)]
Wrote(k) == [k EXCEPT !.todo = Tail(@), !.wrote = TRUE]
Fails(k, commands, code) == [k EXCEPT !.todo = commands, !.code = code]
Checked(k, code) == IF code = "ok" THEN Proceeds(k) ELSE Fails(k, <<>>, code)

Becomes(c, k) == call' = [call EXCEPT ![c] = k] /\ UNCHANGED <<scenario, userVars>>

Reads(c, k) == Becomes(c, k) /\ UNCHANGED <<storeVars, invited, half, undropped>>

\* CanPerform; the role it reads once more for the context is used by nobody.
Authorize(c) ==
    LET k == call[c]
        mayPerform == roles[k.team][k.user] \in rolePermissions[Routes[k.op]]
    IN  Sends(c, "authorize") /\ Reads(c, Checked(k, IF mayPerform THEN "ok" ELSE "forbidden"))

\* A free user founds one team.
CountOwned(c) ==
    LET k == call[c]
    IN  Sends(c, "count_owned") /\ Reads(c, Checked(k, IF TeamsOwnedBy(k.user) = {} THEN "ok" ELSE "limit"))

FindSlug(c) ==
    LET k == call[c]
    IN  /\ Sends(c, "find_slug")
        /\ Reads(c, Checked(k, IF FindBySlug(k.slug) \ {k.team} = {} THEN "ok" ELSE "slug_taken"))

\* Mutant: an update that leaves the slug alone writes none.
FindTeamNotSlug(c) ==
    LET k == call[c]
        read == [k EXCEPT
                   !.owner = IF k.op = "update_team" THEN teams[k.team].owner ELSE @,
                   !.slug = IF k.op = "transfer" THEN teams[k.team].slug ELSE @]
    IN  /\ Sends(c, "find_team")
        /\ Reads(c, IF LiveTeam(k.team) THEN Proceeds(read) ELSE Fails(k, <<>>, "team_not_found"))

\* An update writes back the whole document it read here.
FindTeam(c) ==
    LET k == call[c]
        read == [k EXCEPT
                   !.owner = IF k.op = "update_team" THEN teams[k.team].owner ELSE @,
                   !.slug = IF k.op \in {"update_team", "transfer"} /\ @ = NoSlug
                              THEN teams[k.team].slug ELSE @]
    IN  /\ Sends(c, "find_team")
        /\ Reads(c, IF LiveTeam(k.team) THEN Proceeds(read) ELSE Fails(k, <<>>, "team_not_found"))

\* The services' early returns once the user named by the request is found.
TargetVerdict(k, role) ==
    CASE role = "none" -> "not_member"
      [] role = "owner" /\ k.op = "remove_member" -> "cannot_remove_owner"
      [] role = "owner" /\ k.op = "update_role" -> "cannot_change_owner"
      [] role = "owner" /\ k.op = "leave" -> "owner_cannot_leave"
      [] role = "member" /\ k.op = "remove_member" /\ k.target = k.user -> "cannot_remove_self"
      [] OTHER -> "ok"

\* Only if the target is an admin does the role of the requester matter.
FindTarget(c) ==
    LET k == call[c]
        role == roles[k.team][k.target]
        read == IF k.op = "transfer" THEN [k EXCEPT !.role = role]
                ELSE IF k.op /= "leave" /\ role = "member" THEN Proceeds(k) ELSE k
    IN  Sends(c, "find_target") /\ Reads(c, Checked(read, TargetVerdict(k, role)))

FindRequester(c) ==
    LET k == call[c]
    IN  /\ Sends(c, "find_requester")
        /\ Reads(c, Checked(k, CASE roles[k.team][k.user] /= "owner" -> "insufficient"
                           [] roles[k.team][k.user] = "owner" /\ k.op = "remove_member"
                              /\ k.target = k.user -> "cannot_remove_self"
                           [] OTHER -> "ok"))

\* Whoever has the email that the request names in lower case; if nobody has,
\* there is no membership to look for.
FindInvitee(c) ==
    LET k == call[c]
        found == FindByEmail(<<k.address, LowerCase>>)
    IN  /\ Sends(c, "find_invitee")
        /\ \/ \E u \in found : Reads(c, [Proceeds(k) EXCEPT !.target = u])
           \/ found = {} /\ Reads(c, Proceeds(Proceeds(k)))

FindMember(c) ==
    LET k == call[c]
    IN  /\ Sends(c, "find_member")
        /\ Reads(c, Checked(k, IF IsMember(k.team, k.target) THEN "already_member" ELSE "ok"))

FindPending(c) ==
    LET k == call[c]
    IN  /\ Sends(c, "find_pending")
        /\ Reads(c, Checked(k, IF PendingFor(k.team, k.address) = {} THEN "ok" ELSE "pending"))

CountMembers(c) ==
    LET k == call[c]
        count == Cardinality(Members(k.team))
    IN  /\ Sends(c, "count_members")
        /\ Reads(c, IF k.op = "accept" THEN Checked(k, IF count >= Seats THEN "seats" ELSE "ok")
              ELSE Proceeds([k EXCEPT !.total = count]))

\* Mutant: a full team takes one more.
CountPendingLoosely(c) ==
    LET k == call[c]
        taken == k.total + Cardinality(PendingOf(k.team))
    IN  /\ Sends(c, "count_pending")
        /\ Reads(c, Checked([k EXCEPT !.total = 0], IF taken > Seats THEN "seats" ELSE "ok"))

CountPending(c) ==
    LET k == call[c]
        taken == k.total + Cardinality(PendingOf(k.team))
    IN  /\ Sends(c, "count_pending")
        /\ Reads(c, Checked([k EXCEPT !.total = 0], IF taken >= Seats THEN "seats" ELSE "ok"))

\* GetUser: the cache may still have what the user was before, or who is gone.
FindUser(c) ==
    LET k == call[c]
    IN  /\ Sends(c, "find_user")
        /\ \/ \E email \in {email \in Email : <<k.user, email>> \in held} :
                Reads(c, [Proceeds(k) EXCEPT !.address = ToLower(email)])
           \/ emails[k.user] = NoEmail /\ Reads(c, Fails(k, <<>>, "user_not_found"))

\* Mutant: an invitation serves whoever names it.
InvitationVerdictForAnyone(k, read) ==
    CASE read = NotInvited -> "invitation_not_found"
      [] read /= NotInvited /\ k.op = "cancel" /\ read.team /= k.team -> "invitation_not_found"
      [] k.op = "accept" /\ read.address = k.address /\ ~read.pending -> "expired"
      [] OTHER -> "ok"

InvitationVerdict(k, read) ==
    CASE read = NotInvited -> "invitation_not_found"
      [] read /= NotInvited /\ k.op = "cancel" /\ read.team /= k.team -> "invitation_not_found"
      [] read /= NotInvited /\ k.op /= "cancel" /\ read.address /= k.address -> "mismatch"
      [] k.op = "accept" /\ read.address = k.address /\ ~read.pending -> "expired"
      [] OTHER -> "ok"

FindInvitation(c) ==
    LET k == call[c]
        read == invitations[k.invitation]
    IN  /\ Sends(c, "find_invitation")
        /\ Reads(c, Checked(IF k.op = "accept"
                        THEN [k EXCEPT !.team = read.team, !.role = read.role] ELSE k,
                      InvitationVerdict(k, read)))

\* FindByID, and the handler's check of the team.
FindMemo(c) ==
    LET k == call[c]
    IN  /\ Sends(c, "find_memo")
        /\ Reads(c, Checked(k, IF MatchesTeam(k.memo, k.team) THEN "ok" ELSE "memo_not_found"))

\* Why nothing matched: the memo was deleted before, or is out of reach.
DeletedVerdict(k) ==
    CASE k.op = "delete_own_memo" /\ memos[k.memo].user /= k.user -> "memo_unauthorized"
      [] k.op = "delete_memo" /\ memos[k.memo].team /= k.team -> "memo_not_found"
      [] OTHER -> "ok"

FindDeletedMemo(c) ==
    LET k == call[c]
    IN  Sends(c, "find_deleted_memo") /\ Reads(c, Checked(k, DeletedVerdict(k)))

\* What a paged request lists.
Listing(k) ==
    CASE k.op = "list_teams" -> TeamsOf(k.user)
      [] k.op = "list_memos" -> MemosOfTeam(k.team)
      [] k.op = "list_own_memos" -> PrivateMemosOf(k.user)

Count(c) ==
    LET k == call[c]
    IN  Sends(c, "count") /\ Reads(c, Proceeds([k EXCEPT !.total = Len(Listing(k))]))

Find(c) ==
    LET k == call[c]
        paged == k.op \in {"list_teams", "list_memos", "list_own_memos"}
    IN  /\ Sends(c, "find")
        /\ Reads(c, Proceeds(IF paged
                         THEN [k EXCEPT !.items = PageOf(Listing(k), k.page, k.limit),
                                        !.total = TotalPages(@, k.limit)]
                         ELSE [k EXCEPT !.shown =
                                 CASE k.op = "list_members" -> Members(k.team)
                                   [] k.op = "list_invitations" -> PendingOf(k.team)
                                   [] k.op = "my_invitations" -> PendingTo(k.address)]))

-------------------------------------------------------------------------------
(* Commands that write.                                                    *)

InsertTeam(c) ==
    LET k == call[c]
        t == Cardinality(Created) + 1
    IN  /\ Sends(c, "insert_team")
        /\ IF SlugIndexed(NoTeam, k.slug)
             THEN Becomes(c, Fails(k, <<>>, "duplicate")) /\ UNCHANGED teams
             ELSE /\ Becomes(c, [Wrote(k) EXCEPT !.team = t])
                  /\ InsertTeamDocument(t, k.user, k.slug)
        /\ UNCHANGED <<roles, invitations, memos, invited, half, undropped>>

InsertOwner(c) ==
    LET k == call[c]
    IN  /\ Sends(c, "insert_owner")
        /\ InsertMember(k.team, k.user, "owner")
        /\ invited' = invited \cup {<<k.team, k.user>>}
        /\ Becomes(c, Wrote(k))
        /\ UNCHANGED <<teams, invitations, memos, half, undropped>>

UndoTeam(c) ==
    /\ Sends(c, "undo_team")
    /\ SoftDeleteTeamDocument(call[c].team)
    /\ Becomes(c, Proceeds(call[c]))
    /\ UNCHANGED <<roles, invitations, memos, invited, half, undropped>>

\* How the update of a team document ends.
WriteVerdict(k) ==
    CASE ~LiveTeam(k.team) -> "team_not_found"
      [] LiveTeam(k.team) /\ SlugIndexed(k.team, k.slug) -> "duplicate"
      [] OTHER -> "ok"

WritesTeam(k) ==
    IF WriteVerdict(k) = "duplicate"
      THEN UNCHANGED teams ELSE UpdateTeamDocument(k.team, k.owner, k.slug)

WriteTeam(c) ==
    LET k == call[c]
    IN  /\ Sends(c, "update_team")
        /\ WritesTeam(k)
        /\ Becomes(c, IF WriteVerdict(k) = "ok"
                        THEN Wrote(k) ELSE Fails(k, <<>>, WriteVerdict(k)))
        /\ UNCHANGED <<roles, invitations, memos, invited, half, undropped>>

DeleteMemos(c) ==
    /\ Sends(c, "delete_memos")
    /\ SoftDeleteMemosOfTeam(call[c].team)
    /\ Becomes(c, Wrote(call[c]))
    /\ UNCHANGED <<teams, roles, invitations, invited, half, undropped>>

DeleteMembers(c) ==
    /\ Sends(c, "delete_members")
    /\ DeleteAllMembers(call[c].team)
    /\ Becomes(c, Wrote(call[c]))
    /\ UNCHANGED <<teams, invitations, memos, invited, half, undropped>>

DeleteInvitations(c) ==
    /\ Sends(c, "delete_invitations")
    /\ DeleteAllInvitations(call[c].team)
    /\ Becomes(c, Wrote(call[c]))
    /\ UNCHANGED <<teams, roles, memos, invited, half, undropped>>

DeleteTheTeam(c) ==
    LET k == call[c]
    IN  /\ Sends(c, "delete_team")
        /\ SoftDeleteTeamDocument(k.team)
        /\ Becomes(c, IF LiveTeam(k.team) THEN Wrote(k) ELSE Fails(k, <<>>, "team_not_found"))
        /\ UNCHANGED <<roles, invitations, memos, invited, half, undropped>>

Promote(c) ==
    LET k == call[c]
    IN  /\ Sends(c, "promote")
        /\ SetMemberRole(k.team, k.target, "owner")
        /\ Becomes(c, IF IsMember(k.team, k.target)
                        THEN Wrote(k) ELSE Fails(k, <<>>, "not_member"))
        /\ UNCHANGED <<teams, invitations, memos, invited, half, undropped>>

Demote(c) ==
    LET k == call[c]
    IN  /\ Sends(c, "demote")
        /\ SetMemberRole(k.team, k.user, "admin")
        /\ Becomes(c, IF IsMember(k.team, k.user)
                        THEN Wrote(k) ELSE Fails(k, <<"undo_promote">>, "not_member"))
        /\ UNCHANGED <<teams, invitations, memos, invited, half, undropped>>

HandOver(c) ==
    LET k == call[c]
    IN  /\ Sends(c, "hand_over")
        /\ WritesTeam(k)
        /\ Becomes(c, IF WriteVerdict(k) = "ok" THEN Wrote(k)
                      ELSE Fails(k, <<"undo_demote", "undo_promote">>, WriteVerdict(k)))
        /\ UNCHANGED <<roles, invitations, memos, invited, half, undropped>>

UndoDemote(c) ==
    LET k == call[c]
    IN  /\ Sends(c, "undo_demote")
        /\ SetMemberRole(k.team, k.user, "owner")
        /\ Becomes(c, Proceeds(k))
        /\ UNCHANGED <<teams, invitations, memos, invited, half, undropped>>

UndoPromote(c) ==
    LET k == call[c]
    IN  /\ Sends(c, "undo_promote")
        /\ SetMemberRole(k.team, k.target, k.role)
        /\ Becomes(c, Proceeds(k))
        /\ UNCHANGED <<teams, invitations, memos, invited, half, undropped>>

\* A member leaves, or is removed.
DeleteTheMember(c) ==
    LET k == call[c]
    IN  /\ Sends(c, "delete_member")
        /\ DeleteMember(k.team, k.target)
        /\ Becomes(c, IF IsMember(k.team, k.target)
                        THEN Wrote(k) ELSE Fails(k, <<>>, "not_member"))
        /\ UNCHANGED <<teams, invitations, memos, invited, half, undropped>>

SetRole(c) ==
    LET k == call[c]
    IN  /\ Sends(c, "set_role")
        /\ SetMemberRole(k.team, k.target, k.role)
        /\ Becomes(c, IF IsMember(k.team, k.target)
                        THEN Wrote(k) ELSE Fails(k, <<>>, "not_member"))
        /\ UNCHANGED <<teams, invitations, memos, invited, half, undropped>>

\* A new id: of no invitation, and of none that a request has read.
InsertTheInvitation(c) ==
    LET k == call[c]
    IN  /\ Sends(c, "insert_invitation")
        /\ \E i \in Invitation :
             /\ ~Invited(i) /\ \A d \in Call : call[d].invitation /= i
             /\ InsertInvitation(i, k.team, k.address, k.role)
        /\ invited' = invited \cup {<<k.team, k.address>>}
        /\ Becomes(c, Wrote(k))
        /\ UNCHANGED <<teams, roles, memos, half, undropped>>

\* On cancel and decline.
DeleteTheInvitation(c) ==
    LET k == call[c]
    IN  /\ Sends(c, "delete_invitation")
        /\ DeleteInvitation(k.invitation)
        /\ Becomes(c, IF Invited(k.invitation)
                        THEN Wrote(k) ELSE Fails(k, <<>>, "invitation_not_found"))
        /\ UNCHANGED <<teams, roles, memos, invited, half, undropped>>

InsertTheMember(c) ==
    LET k == call[c]
    IN  /\ Sends(c, "insert_member")
        /\ IF IsMember(k.team, k.user)
             THEN UNCHANGED roles /\ Becomes(c, Fails(k, <<>>, "duplicate"))
             ELSE InsertMember(k.team, k.user, k.role) /\ Becomes(c, Wrote(k))
        /\ UNCHANGED <<teams, invitations, memos, invited, half, undropped>>

\* Its error is only logged.
DropInvitation(c) ==
    /\ Sends(c, "drop_invitation")
    /\ DeleteInvitation(call[c].invitation)
    /\ Becomes(c, Proceeds(call[c]))
    /\ UNCHANGED <<teams, roles, memos, invited, half, undropped>>

InsertTheMemo(c) ==
    LET k == call[c]
    IN  /\ Sends(c, "insert_memo")
        /\ InsertMemo(Cardinality(Recorded) + 1, k.user, k.team)
        /\ Becomes(c, Wrote(k))
        /\ UNCHANGED <<teams, roles, invitations, invited, half, undropped>>

\* What the filter of a deletion matches.
Matches(k) ==
    IF k.op = "delete_own_memo" THEN MatchesOwner(k.memo, k.user) ELSE MatchesTeam(k.memo, k.team)

DeleteTheMemo(c) ==
    LET k == call[c]
    IN  /\ Sends(c, "delete_memo")
        /\ IF Matches(k)
             THEN SoftDeleteMemo(k.memo) /\ Becomes(c, Wrote(k))
             ELSE UNCHANGED memos /\ Becomes(c, [k EXCEPT !.todo = <<"find_deleted_memo">>])
        /\ UNCHANGED <<teams, roles, invitations, invited, half, undropped>>

-------------------------------------------------------------------------------
(* A command is refused: it does nothing, and its caller gets an error.    *)

\* Mutant: a transfer that fails undoes the one of its two role changes.
UndoHalf == [insert_owner |-> <<"undo_team">>, demote |-> <<"undo_promote">>,
             hand_over |-> <<"undo_promote">>]

Undo == [insert_owner |-> <<"undo_team">>, demote |-> <<"undo_promote">>,
         hand_over |-> <<"undo_demote", "undo_promote">>]

\* Commands whose error the services drop, the one whose error spares them the
\* next, and those whose error they take for the absence of what they looked for.
ErrorIgnored == {"find_member", "drop_invitation", "undo_team", "undo_demote", "undo_promote"}
ErrorSkips == {"find_invitee"}
ErrorMistaken == [find_target |-> "not_member", find_requester |-> "insufficient"]

AfterRefusal(k) ==
    LET command == Head(k.todo)
    IN  IF command \in ErrorIgnored THEN Proceeds(k)
        ELSE IF command \in ErrorSkips THEN Proceeds(Proceeds(k))
        ELSE Fails(k, IF command \in DOMAIN Undo THEN Undo[command] ELSE <<>>,
                   IF command \in DOMAIN ErrorMistaken THEN ErrorMistaken[command] ELSE "error")

Refuse(c) ==
    LET k == call[c]
    IN  /\ scenario.refusals
        /\ ~Idle(c) /\ k.todo /= <<>> /\ ~k.refused
        /\ Becomes(c, [AfterRefusal(k) EXCEPT !.refused = TRUE])
        /\ half' = IF \E command \in {"delete_invitations", "delete_team"} : Sends(c, command)
                     THEN half \cup {k.team} ELSE half
        /\ undropped' = IF Sends(c, "drop_invitation")
                          THEN undropped \cup {k.team} ELSE undropped
        /\ UNCHANGED <<storeVars, invited>>

-------------------------------------------------------------------------------
(* What the handlers make of a service's answer; any other is a 500.       *)

CreateTeamHandler == [ok |-> 201, limit |-> 403, slug_taken |-> 409]
ListTeamsHandler == [ok |-> 200]
GetTeamHandler == [ok |-> 200, team_not_found |-> 404]
UpdateTeamHandler == [ok |-> 200, team_not_found |-> 404, slug_taken |-> 409]
DeleteTeamHandler == [ok |-> 200, team_not_found |-> 404]

\* Mutant: the handler knows the two errors for their old owner only.
TransferHandlerMissingOne == [ok |-> 200, team_not_found |-> 404]

TransferOwnershipHandler == [ok |-> 200, not_member |-> 404, team_not_found |-> 404]
ListMembersHandler == [ok |-> 200]
RemoveMemberHandler == [ok |-> 200, not_member |-> 404, cannot_remove_owner |-> 400,
                        cannot_remove_self |-> 400, insufficient |-> 403]
UpdateRoleHandler == [ok |-> 200, not_member |-> 404, cannot_change_owner |-> 400,
                      insufficient |-> 403]
LeaveTeamHandler == [ok |-> 200, not_member |-> 404, owner_cannot_leave |-> 400]
CreateInvitationHandler == [ok |-> 201, already_member |-> 409, pending |-> 409, seats |-> 403]
ListTeamInvitationsHandler == [ok |-> 200]
CancelInvitationHandler == [ok |-> 200, invitation_not_found |-> 404]
ListMyInvitationsHandler == [ok |-> 200]
AcceptInvitationHandler == [ok |-> 200, invitation_not_found |-> 404, mismatch |-> 403,
                            expired |-> 400, seats |-> 403]
DeclineInvitationHandler == [ok |-> 200, invitation_not_found |-> 404, mismatch |-> 403]
ListVoiceMemosHandler == [ok |-> 200]
ListTeamVoiceMemosHandler == [ok |-> 200]
CreateVoiceMemoHandler == [ok |-> 201]
CreateTeamVoiceMemoHandler == [ok |-> 201]
GetTeamVoiceMemoHandler == [ok |-> 200, memo_not_found |-> 404]
DeleteVoiceMemoHandler == [ok |-> 204, memo_not_found |-> 404, memo_unauthorized |-> 403]
DeleteTeamVoiceMemoHandler == [ok |-> 204, memo_not_found |-> 404]

Handlers ==
    [create_team |-> CreateTeamHandler, list_teams |-> ListTeamsHandler,
     get_team |-> GetTeamHandler, update_team |-> UpdateTeamHandler,
     delete_team |-> DeleteTeamHandler, transfer |-> TransferOwnershipHandler,
     list_members |-> ListMembersHandler, remove_member |-> RemoveMemberHandler,
     update_role |-> UpdateRoleHandler, leave |-> LeaveTeamHandler,
     invite |-> CreateInvitationHandler, list_invitations |-> ListTeamInvitationsHandler,
     cancel |-> CancelInvitationHandler, my_invitations |-> ListMyInvitationsHandler,
     accept |-> AcceptInvitationHandler, decline |-> DeclineInvitationHandler,
     list_own_memos |-> ListVoiceMemosHandler, list_memos |-> ListTeamVoiceMemosHandler,
     create_own_memo |-> CreateVoiceMemoHandler, create_memo |-> CreateTeamVoiceMemoHandler,
     delete_own_memo |-> DeleteVoiceMemoHandler,
     get_memo |-> GetTeamVoiceMemoHandler, delete_memo |-> DeleteTeamVoiceMemoHandler]

\* The middleware answers 403 before any handler runs.
Status(k) ==
    CASE k.code = "forbidden" -> 403
      [] k.code \in DOMAIN Handlers[k.op] -> Handlers[k.op][k.code]
      [] OTHER -> 500

Respond(c) ==
    /\ ~Idle(c) /\ call[c].todo = <<>>
    /\ Becomes(c, NoCall)
    /\ UNCHANGED <<storeVars, invited, half, undropped>>

Expire ==
    /\ scenario.expiry
    /\ \E i \in Invitation : ExpireInvitation(i)
    /\ UNCHANGED <<teams, roles, memos, userVars, scenario, call, invited, half, undropped>>

\* A user registers, or changes her email: Accounts has what that takes.
EmailChanges ==
    \E u \in User, email \in scenario.addresses \X Spelling :
        /\ u \in Users => emails[u] /= NoEmail
        /\ FindByEmail(email) = {}
        /\ <<u, email>> \in held \/ Cardinality(held) < scenario.held
        /\ SetEmail(u, email)
        /\ held' = held \cup {<<u, email>>}
        /\ UNCHANGED <<storeVars, scenario, call, invited, half, undropped>>

\* A user is deleted; her memberships and her access tokens are not.
UserDeleted ==
    /\ scenario.deletions
    /\ \E u \in User : emails[u] /= NoEmail /\ SetEmail(u, NoEmail)
    /\ UNCHANGED <<storeVars, held, scenario, call, invited, half, undropped>>

-------------------------------------------------------------------------------
RequestArrives(c) ==
    \/ CreateTeam(c) \/ UpdateTeam(c) \/ DeleteTeam(c) \/ TransferOwnership(c)
    \/ GetTeam(c) \/ ListTeams(c)
    \/ ListMembers(c) \/ RemoveMember(c) \/ UpdateRole(c) \/ LeaveTeam(c)
    \/ CreateInvitation(c) \/ ListTeamInvitations(c) \/ CancelInvitation(c)
    \/ ListMyInvitations(c) \/ AcceptInvitation(c) \/ DeclineInvitation(c)
    \/ CreateVoiceMemo(c) \/ CreateTeamVoiceMemo(c) \/ ListByUserID(c) \/ ListByTeamID(c)
    \/ GetVoiceMemo(c) \/ DeleteVoiceMemo(c) \/ DeleteTeamVoiceMemo(c)

ReadStep(c) ==
    \/ Authorize(c) \/ CountOwned(c) \/ FindSlug(c) \/ FindTeam(c) \/ FindTarget(c)
    \/ FindRequester(c) \/ FindInvitee(c) \/ FindMember(c) \/ FindPending(c)
    \/ CountMembers(c) \/ CountPending(c) \/ FindUser(c) \/ FindInvitation(c)
    \/ FindMemo(c) \/ FindDeletedMemo(c) \/ Count(c) \/ Find(c)

WriteStep(c) ==
    \/ InsertTeam(c) \/ InsertOwner(c) \/ UndoTeam(c) \/ WriteTeam(c)
    \/ DeleteMemos(c) \/ DeleteMembers(c) \/ DeleteInvitations(c) \/ DeleteTheTeam(c)
    \/ Promote(c) \/ Demote(c) \/ HandOver(c) \/ UndoDemote(c) \/ UndoPromote(c)
    \/ DeleteTheMember(c) \/ SetRole(c)
    \/ InsertTheInvitation(c) \/ DeleteTheInvitation(c)
    \/ InsertTheMember(c) \/ DropInvitation(c)
    \/ InsertTheMemo(c) \/ DeleteTheMemo(c)

Next ==
    \/ \E c \in Call :
         RequestArrives(c) \/ ReadStep(c) \/ WriteStep(c) \/ Refuse(c) \/ Respond(c)
    \/ Expire \/ EmailChanges \/ UserDeleted

Spec == Init /\ [][Next]_vars

-------------------------------------------------------------------------------
(* Properties.                                                             *)

AtRest == ~scenario.overlap /\ \A c \in Call : Idle(c)
Answered(c) == ~Idle(c) /\ call[c].todo = <<>>
AnsweredAlone(c) == Answered(c) /\ ~scenario.overlap

\* Between requests that do not overlap, the ownerId of a team and the roles of
\* its members agree on its one owner, whichever command of a transfer, or of
\* the creation, was refused: the rollbacks are complete.  A deletion that
\* stopped after the members were gone leaves a team nobody owns.
OwnerAgreement ==
    AtRest => \A t \in Team \ half :
        LiveTeam(t) => {u \in User : roles[t][u] = "owner"} = {teams[t].owner}

\* The seats hold.  One request at a time, the members fit them always, and
\* between requests so do members and invitations together, unless an accepted
\* invitation could not be dropped; of requests that overlap, each may fill the
\* last seat.
SeatsRespected ==
    \A t \in Team :
        /\ Cardinality(Members(t)) <= Seats + (IF scenario.overlap THEN Cardinality(Call) - 1 ELSE 0)
        /\ AtRest /\ t \notin undropped =>
             Cardinality(Members(t)) + Cardinality(PendingOf(t)) <= Seats

\* Nothing is left behind of a team that was deleted, whatever was refused: no
\* member that the authorizer, which asks nothing of the team, would let in, no
\* invitation to join it, no memo.
DeletedTeamsAreEmpty ==
    AtRest => \A t \in Team : teams[t].state = "deleted" =>
        /\ Members(t) = {}
        /\ \A i \in Invitation : invitations[i].team /= t
        /\ MemosOfTeam(t) = <<>>

\* Membership is by invitation: whatever overlaps, and whoever changes emails,
\* a member founded this team, or an email she has, or had, was invited to it.
MembersWereInvited ==
    \A t \in Team : \A u \in Members(t) :
        \/ <<t, u>> \in invited
        \/ \E email \in Email : <<u, email>> \in held /\ <<t, ToLower(email)>> \in invited

\* A request that is told that it may not, or that there is no such thing (4xx),
\* has changed nothing.
RefusalsChangeNothing ==
    \A c \in Call : AnsweredAlone(c) /\ Status(call[c]) \in 400 .. 499 => ~call[c].wrote

\* If no command failed, a 500 has one of three causes: the slug is that of a
\* deleted team, which only the index remembers, the user asks for her
\* invitations though she was deleted, or accepts one to a team she is in already.
InternalErrorsExplained ==
    \A c \in Call : LET k == call[c] IN
        AnsweredAlone(c) /\ Status(k) = 500 /\ ~k.refused =>
            \/ /\ k.op \in {"create_team", "update_team"}
               /\ \E t \in Team : teams[t].state = "deleted" /\ teams[t].slug = k.slug
            \/ k.op \in {"my_invitations", "accept", "decline"} /\ emails[k.user] = NoEmail
            \/ k.op = "accept" /\ IsMember(k.team, k.user)

\* The page of a listing an item belongs on, by the number of newer ones.
PageNumber(S, x, limit) == (Cardinality({y \in S : y > x}) + limit) \div limit

\* A listing shows what the user may open, each item on one page, and the pages
\* announced are those that have items: what the authorizer lets in, and what
\* the join over the live teams finds, are the same teams.
ListedOnItsPage ==
    \A c \in Call :
        LET k == call[c]
            all == CASE k.op = "list_teams" -> {t \in Team : IsMember(t, k.user)}
                     [] k.op = "list_memos" -> {m \in Memo : LiveMemo(m) /\ memos[m].team = k.team}
                     [] OTHER -> {m \in Memo : /\ LiveMemo(m) /\ memos[m].team = NoTeam
                                               /\ memos[m].user = k.user}
        IN  AnsweredAlone(c) /\ k.code = "ok"
            /\ k.op \in {"list_teams", "list_memos", "list_own_memos"} =>
              /\ k.items = NewestFirst({x \in all : PageNumber(all, x, k.limit) = k.page})
              /\ \A x \in all : PageNumber(all, x, k.limit) <= k.total
              /\ k.total = 0 \/ \E x \in all : PageNumber(all, x, k.limit) = k.total

\* A user whose one email is stored in lower case: who else she may be, or was,
\* the lookup of an invitee does not find.
Findable(u) ==
    \E address \in Address :
        /\ emails[u] = <<address, LowerCase>>
        /\ \A email \in Email : <<u, email>> \in held => email = <<address, LowerCase>>

\* An invitation that a user is shown can be taken: its team is there and keeps
\* a seat for her; nor is she in it yet, if no command fails and her email is
\* one that the lookup of an invitee finds.
InvitationsShownCanBeTaken ==
    \A c \in Call : LET k == call[c] IN
        AnsweredAlone(c) /\ k.op = "my_invitations" /\ k.code = "ok" =>
            \A i \in k.shown : LET t == invitations[i].team IN
                /\ LiveTeam(t)
                /\ t \notin undropped => Cardinality(Members(t)) < Seats
                /\ ~scenario.refusals /\ Findable(k.user) => ~IsMember(t, k.user)

\* A team that was deleted stays as it was: an update or a transfer that read
\* it before does not write it, and does not bring it back.
DeletedTeamsStay ==
    [][\A t \in Team : teams[t].state = "deleted" => teams'[t] = teams[t]]_vars

\* A memo is deleted by who may do so: by its creator, whom the private route
\* lets delete it wherever it is, or by a request in its team, which one of the
\* team made, or its owner together with the team.  (Who it was that the
\* authorizer let in may have left since, if requests overlap.)
MemosDeletedByRight ==
    [][\A m \in Memo : LiveMemo(m) /\ ~LiveMemo(m)' =>
         \E c \in Call : LET k == call[c] IN
            \/ k.op = "delete_own_memo" /\ k.memo = m /\ memos[m].user = k.user
            \/ /\ (k.op = "delete_memo" /\ k.memo = m) \/ k.op = "delete_team"
               /\ k.team = memos[m].team /\ k.team \in Team
               /\ scenario.overlap \/ roles[k.team][k.user] \in rolePermissions[Routes[k.op]]]_vars

\* spec/team-and-shared-voice-memos.md, business rule 7: an owner must transfer
\* the ownership before leaving; a team's owner is one of its members.
OwnerDeparture ==
    AtRest => \A t \in Team \ half : LiveTeam(t) => IsMember(t, teams[t].owner)

\* spec/team-and-shared-voice-memos.md, business rule 3: members and pending
\* invitations together are no more than the seats, of requests that overlap, too.
SeatsConstraint ==
    (\A c \in Call : Idle(c)) =>
        \A t \in Team : Cardinality(Members(t)) + Cardinality(PendingOf(t)) <= Seats
===============================================================================
