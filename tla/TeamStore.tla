-------------------------------- MODULE TeamStore --------------------------------
(***************************************************************************)
(* The collections behind teams: teams, team_members, team_invitations, the *)
(* emails in users, and the part of voice_memos that tells where a memo is *)
(* and whether it was deleted.  Every operator that changes a collection   *)
(* is one MongoDB command, and says nothing of the other collections.      *)
(***************************************************************************)
EXTENDS Integers, FiniteSets, Sequences

CONSTANTS
    User,
    Address,        \* the emails in lower case
    Spelling,       \* the ways to capitalise one, of which one is
    LowerCase,      \* none at all
    MaxTeams,       \* bound: teams created in a behaviour
    Slug,
    Invitation,     \* bound: ids of invitations that exist at one time
    MaxMemos,       \* bound: memos created in a behaviour
    NoUser, NoAddress, NoEmail, NoSlug, NoInvitation

\* An email as a user typed it.
Email == Address \X Spelling

\* strings.ToLower.
ToLower(email) == email[1]

\* Ids are ObjectIDs, in the order of createdAt.
Team == 1 .. MaxTeams
Memo == 1 .. MaxMemos
NoTeam == 0
NoMemo == 0

ASSUME StoreAssumption ==
    /\ MaxTeams \in Nat /\ MaxMemos \in Nat
    /\ NoUser \notin User /\ NoSlug \notin Slug /\ NoInvitation \notin Invitation
    /\ NoAddress \notin Address /\ NoEmail \notin Email
    /\ LowerCase \in Spelling

Role == {"owner", "admin", "member"}

\* The roles an invitation, or a change of role, may give.
Given == {"admin", "member"}

VARIABLES
    emails,         \* the emails in users, stored as they were typed
    teams,          \* the documents of teams
    roles,          \* roles[t][u]: the role of u's membership of t, or "none"
    invitations,    \* the documents of team_invitations
    memos           \* the documents of voice_memos

storeVars == <<teams, roles, invitations, memos>>

NotCreated == [state |-> "none", owner |-> NoUser, slug |-> NoSlug]
TeamDocument == [state : {"live", "deleted"}, owner : User, slug : Slug]

\* An invitation is for an email in lower case; role is the one it gives.
NotInvited == [team |-> NoTeam, address |-> NoAddress, role |-> "none", pending |-> FALSE]
InvitationDocument ==
    [team : Team, address : Address, role : Given, pending : BOOLEAN]

\* A private memo has no team.
NotRecorded == [state |-> "none", user |-> NoUser, team |-> NoTeam]
MemoDocument == [state : {"live", "deleted"}, user : User, team : Team \cup {NoTeam}]

StoreTypeOK ==
    /\ emails \in [User -> Email \cup {NoEmail}]
    /\ teams \in [Team -> TeamDocument \cup {NotCreated}]
    /\ roles \in [Team -> [User -> Role \cup {"none"}]]
    /\ invitations \in [Invitation -> InvitationDocument \cup {NotInvited}]
    /\ memos \in [Memo -> MemoDocument \cup {NotRecorded}]

StoreInit ==
    /\ teams = [t \in Team |-> NotCreated]
    /\ roles = [t \in Team |-> [u \in User |-> "none"]]
    /\ invitations = [i \in Invitation |-> NotInvited]
    /\ memos = [m \in Memo |-> NotRecorded]

\* The members of S, the highest id first.
NewestFirst(S) ==
    [n \in 1 .. Cardinality(S) |-> CHOOSE x \in S : Cardinality({y \in S : y > x}) = n - 1]

-------------------------------------------------------------------------------
(* users: the unique index on email tells spellings apart.                 *)

FindByEmail(email) == {u \in User : emails[u] = email}

SetEmail(u, email) == emails' = [emails EXCEPT ![u] = email]

-------------------------------------------------------------------------------
(* teams.                                                                  *)

LiveTeam(t) == teams[t].state = "live"

FindBySlug(slug) == {t \in Team : LiveTeam(t) /\ teams[t].slug = slug}

TeamsOwnedBy(u) == {t \in Team : LiveTeam(t) /\ teams[t].owner = u}

\* The unique index on slug holds the documents that were soft-deleted, too.
SlugIndexed(t, slug) == \E s \in Team \ {t} : teams[s].slug = slug

TeamsOf(u) == NewestFirst({t \in Team : LiveTeam(t) /\ roles[t][u] /= "none"})

InsertTeamDocument(t, u, slug) ==
    teams' = [teams EXCEPT ![t] = [state |-> "live", owner |-> u, slug |-> slug]]

\* Mutant: the filter forgets deletedAt.
UpdateAnyTeamDocument(t, owner, slug) ==
    teams' = [teams EXCEPT ![t].owner = owner, ![t].slug = slug]

UpdateTeamDocument(t, owner, slug) ==
    teams' = IF LiveTeam(t)
               THEN [teams EXCEPT ![t].owner = owner, ![t].slug = slug]
               ELSE teams

SoftDeleteTeamDocument(t) ==
    teams' = IF LiveTeam(t) THEN [teams EXCEPT ![t].state = "deleted"] ELSE teams

-------------------------------------------------------------------------------
(* team_members: one document at most for a team and a user.               *)

IsMember(t, u) == roles[t][u] /= "none"

Members(t) == {u \in User : IsMember(t, u)}

InsertMember(t, u, role) == roles' = [roles EXCEPT ![t][u] = role]

SetMemberRole(t, u, role) ==
    roles' = IF IsMember(t, u) THEN [roles EXCEPT ![t][u] = role] ELSE roles

DeleteMember(t, u) == roles' = [roles EXCEPT ![t][u] = "none"]

DeleteAllMembers(t) == roles' = [roles EXCEPT ![t] = [u \in User |-> "none"]]

-------------------------------------------------------------------------------
(* team_invitations: no unique index.                                      *)

Invited(i) == invitations[i] /= NotInvited

PendingFor(t, address) ==
    {i \in Invitation : /\ invitations[i].team = t /\ invitations[i].address = address
                        /\ invitations[i].pending}

PendingOf(t) == {i \in Invitation : invitations[i].team = t /\ invitations[i].pending}

PendingTo(address) ==
    {i \in Invitation : invitations[i].address = address /\ invitations[i].pending}

InsertInvitation(i, t, address, role) ==
    invitations' = [invitations EXCEPT ![i] =
                      [team |-> t, address |-> address, role |-> role, pending |-> TRUE]]

DeleteInvitation(i) == invitations' = [invitations EXCEPT ![i] = NotInvited]

DeleteAllInvitations(t) ==
    invitations' = [i \in Invitation |->
                      IF invitations[i].team = t THEN NotInvited ELSE invitations[i]]

\* expiresAt passes; nothing in the program calls DeleteExpired.
ExpireInvitation(i) ==
    /\ invitations[i].pending
    /\ invitations' = [invitations EXCEPT ![i].pending = FALSE]

-------------------------------------------------------------------------------
(* voice_memos.                                                            *)

LiveMemo(m) == memos[m].state = "live"

PrivateMemosOf(u) ==
    NewestFirst({m \in Memo : LiveMemo(m) /\ memos[m].user = u /\ memos[m].team = NoTeam})

MemosOfTeam(t) == NewestFirst({m \in Memo : LiveMemo(m) /\ memos[m].team = t})

InsertMemo(m, u, t) ==
    memos' = [memos EXCEPT ![m] = [state |-> "live", user |-> u, team |-> t]]

\* Mutant: the filter forgets teamId.
MatchesAnyTeam(m, t) == LiveMemo(m)

\* The filter of SoftDeleteWithTeam.
MatchesTeam(m, t) == LiveMemo(m) /\ memos[m].team = t

\* The filter of SoftDeleteWithOwnership asks for the creator, of whichever team.
MatchesOwner(m, u) == LiveMemo(m) /\ memos[m].user = u

\* Of a memo that matched its filter.
SoftDeleteMemo(m) == memos' = [memos EXCEPT ![m].state = "deleted"]

SoftDeleteMemosOfTeam(t) ==
    memos' = [m \in Memo |->
                IF LiveMemo(m) /\ memos[m].team = t
                  THEN [memos[m] EXCEPT !.state = "deleted"] ELSE memos[m]]
===============================================================================
