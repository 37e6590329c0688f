---------------------------- MODULE VoiceMemoStore ----------------------------
(***************************************************************************)
(* The voice_memos collection and the repository methods that change it    *)
(* (internal/repository/voice_memo_repository.go).  Every method is one    *)
(* MongoDB command on one document, hence one atomic action; what follows  *)
(* a command in the same method (the query that explains why nothing       *)
(* matched) is a later read, and its verdict an operator of its own.       *)
(*                                                                         *)
(* A command has an outcome: "ok"; "refused", it was never applied and the *)
(* caller gets an error; "unacked", it was applied but the caller gets an  *)
(* error all the same (a timeout, a cancelled context, a lost connection). *)
(***************************************************************************)
EXTENDS MemoModels

CONSTANTS
    User, Team,      \* the principals that may name a memo in a request
    NoTeam,          \* the team of a private memo
    Owner, TeamOf    \* the userId and the teamId a memo is created with

Scope == User \cup Team

ASSUME ScopeAssumption ==
    /\ User \cap Team = {}
    /\ NoTeam \notin Scope
    /\ Owner \in [Memo -> User]
    /\ TeamOf \in [Memo -> Team \cup {NoTeam}]

VARIABLES
    status,     \* status[m]: the status field of the document, or "absent"
    deleted     \* deleted[m]: the document has a deletedAt field

storeVars == <<status, deleted>>

StoreTypeOK ==
    /\ status \in [Memo -> Status]
    /\ deleted \in [Memo -> BOOLEAN]

StoreInit ==
    /\ status = [m \in Memo |-> "absent"]
    /\ deleted = [m \in Memo |-> FALSE]

Exists(m) == status[m] /= "absent"

\* The filter {_id: m, deletedAt: {$exists: false}}.
Live(m) == Exists(m) /\ ~deleted[m]

\* The filter on userId or teamId.  A private route names the calling user,
\* and also matches a team memo that this user created.
InScope(m, s) == s = Owner[m] \/ s = TeamOf[m]

\* Mutant: the filter forgets the status.
SelectedAnyStatus(m, s, from) == Live(m) /\ InScope(m, s)

Selected(m, s, from) == Live(m) /\ InScope(m, s) /\ status[m] = from

-------------------------------------------------------------------------------
Create(m) ==
    /\ ~Exists(m)
    /\ status' = [status EXCEPT ![m] = "pending_upload"]
    /\ UNCHANGED deleted

\* Sets the status field of m if the filter selects m and the command is
\* applied at all.
SetStatus(m, selected, to, outcome) ==
    /\ status' = IF selected /\ outcome /= "refused"
                   THEN [status EXCEPT ![m] = to] ELSE status
    /\ UNCHANGED deleted

\* Mutant: the filter forgets deletedAt.
UpdateStatusEvenDeleted(m, to, outcome) == SetStatus(m, Exists(m), to, outcome)

UpdateStatus(m, to, outcome) == SetStatus(m, Live(m), to, outcome)

\* The text written along with the status is abstracted away.
UpdateTranscriptionAndStatus(m, to, outcome) == SetStatus(m, Live(m), to, outcome)

UpdateStatusConditional(m, from, to, outcome) ==
    SetStatus(m, Live(m) /\ status[m] = from, to, outcome)

\* UpdateStatusWithOwnership for a user, UpdateStatusWithTeam for a team.
UpdateStatusInScope(m, s, from, to, outcome) ==
    SetStatus(m, Selected(m, s, from), to, outcome)

\* SoftDeleteWithOwnership for a user, SoftDeleteWithTeam for a team.
SoftDeleteInScope(m, s, outcome) ==
    /\ deleted' = IF Live(m) /\ InScope(m, s) /\ outcome /= "refused"
                    THEN [deleted EXCEPT ![m] = TRUE] ELSE deleted
    /\ UNCHANGED status

-------------------------------------------------------------------------------
\* What a private route answers for somebody else's memo, and a team route
\* for a memo of another team.
WrongScope(s) == IF s \in User THEN "unauthorized" ELSE "not_found"

\* The verdict of the query that follows an UpdateStatusInScope that selected
\* nothing; the last case is a memo that matches by the time it is read.
WhyNotUpdated(m, s, from) ==
    CASE ~Live(m)                                          -> "not_found"
      [] Live(m) /\ ~InScope(m, s)                         -> WrongScope(s)
      [] Live(m) /\ InScope(m, s) /\ status[m] /= from     -> "invalid_status"
      [] Selected(m, s, from)                              -> "not_found"

\* Mutant: whoever asks, an existing memo must have been deleted already.
WhyNotDeletedAnyOwner(m, s) == IF Exists(m) THEN "ok" ELSE "not_found"

\* The verdict of the query that follows a SoftDeleteInScope that selected
\* nothing.  That query also reads deleted documents.
WhyNotDeleted(m, s) ==
    CASE ~Exists(m)                       -> "not_found"
      [] Exists(m) /\ ~InScope(m, s)      -> WrongScope(s)
      [] Exists(m) /\ InScope(m, s)       -> "ok"

===============================================================================
