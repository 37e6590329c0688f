# A TLA+ verification of gin-memo

gin-memo is a Go web service for voice memos: users and teams upload audio,
background workers transcribe it, and refresh tokens keep users signed in. This
directory holds TLA+ models of its stateful parts, TLC configurations that
check them on small instances, and TLAPS proofs of what holds for every size.
`PROJECT.json` lists components, runs, mutants, source lines of every
definition, hazards, findings and theorems.

    tlc -workers 2 -config pipeline_core.cfg MCTranscriptionPipeline.tla
    tlc -workers 2 -config rotation.cfg MCRefreshTokenRotation.tla
    tlc -workers 2 -config teams.cfg MCTeams.tla
    tlc -workers 2 -config accounts.cfg MCAccounts.tla
    tlapm TranscriptionPipelineProofs.tla

## 1. The system

| Component | State | Operations | Interacts with |
|---|---|---|---|
| `service/voice_memo_service.go` | none of its own | create, confirm upload, retry, delete, list; each private and per team | memo repository, queue (`Enqueue`), S3 (presigned URLs) |
| `repository/voice_memo_repository.go` | collection `voice_memos` | insert, five status updates, soft deletes, finds | MongoDB |
| `queue/memory_queue.go` | channel, `closed`, `RWMutex` | `Enqueue`, `Dequeue`, `Close` | called by services, workers, retry goroutines, `main` |
| `queue/processor.go` | workers, retry goroutines, `shutdownCh`, `WaitGroup` | `Start`, `Stop`, `processJob`, `handleFailure` | queue, transcription service, memo repository |
| `transcription/service.go` | a mock: delay, failure rate | `Transcribe` | called by workers |
| `cmd/server/main.go` | the life of the process | wiring, SIGTERM, drain, cancel, stop | all of the above |
| `service/auth_service.go`, `cache/refresh_token_store.go` | token families and a per-user index in Redis | login, refresh with rotation and reuse detection, logout, logout-all | Redis, JWT, `pkg/auth` |
| the same, rotation disabled: `repository/refresh_token_repository.go`, `cache/redis.go` | tokens in MongoDB, cached in Redis | refresh, logout, logout-all | MongoDB, Redis |
| `service/user_service.go` | `users`, cached in Redis | get, update, delete | MongoDB, Redis |
| `service/team_*_service.go` | `teams`, `team_members`, `team_invitations` | create, update, transfer, delete; remove, change role, leave; invite, accept, decline, cancel | the four repositories; memos on team deletion |
| `authz`, `middleware` | none | who may do what in a team | team members |
| handlers, router, validator, response, storage, config, database, `cmd/index`, `cmd/seed`, swagger | none, or fixed at start | parsing, formatting, one-shot tools | |

What is hard here: requests, workers and retry goroutines meet in one document
and one channel with nothing but single-document atomicity and one lock between
them; every MongoDB command may fail, or succeed without the caller learning of
it; jobs live in memory while statuses do not; a shutdown has to end all of
these in the right order; and the account and team services are sequences of
separate commands, hence check-then-act throughout.

What makes each part correct:

- *pipeline*: no memo is transcribed twice at a time; a memo that says
  transcribing is being transcribed; statuses follow the documented flow;
  deletion is final; a refusal can be retried; every job ends; shutdown ends.
- *queue*: a bounded FIFO that loses nothing and never panics.
- *refresh tokens*: one live token per family, reuse ends the family, a session
  that is over stays so, nothing survives a logout-all.
- *caches*: no entry outlives the truth it caches by more than the code intends.
- *teams*: exactly one owner, `ownerId` agrees with it, seats are respected, a
  deleted team leaves nothing behind.

## 2. Modules

| Module | Models | Relation |
|---|---|---|
| `MemoModels` | statuses and jobs | extended by the modules about memos |
| `VoiceMemoStore` | the collection; one operator per repository update, one per explaining query | extended by the pipeline |
| `MemoryQueue` | the queue as one atomic FIFO | extended by the pipeline; abstract specification of the next |
| `MemoryQueueLocks` | `Enqueue`, `Dequeue` and `Close` lock by lock | implements `MemoryQueue` (`ImplementsQueue`) |
| `TranscriptionPipeline` | requests, workers, retry goroutines, `main()` over store and queue | implements `MemoLifecycle` (`FollowsLifecycle`) |
| `MemoLifecycle` | what the owner of a memo is promised | abstract specification |
| `MCTranscriptionPipeline` | the constants of the TLC runs | |
| `RefreshTokenStore` | what Redis holds for sessions; one operator per command | extended by the next |
| `RefreshTokenRotation` | logins, refreshes, logouts as sequences of commands | implements `SessionLife` (`ImplementsSessions`) |
| `SessionLife` | what rotation promises about a session | abstract specification |
| `MCRefreshTokenRotation` | scenarios and symmetry of the TLC runs | |
| `Pages` | page and limit of a request, number of pages, the page itself | extended by `Teams` |
| `TeamStore` | `teams`, `team_members`, `team_invitations`, the emails in `users`, and of `voice_memos` team, creator and deletion; one operator per command | extended by `Teams` |
| `Teams` | the authorizer, the three team services, and where memos are placed, listed and deleted, by the routes of a team and the private ones | |
| `MCTeams` | scenarios, pages and symmetry of the TLC runs | |
| `AccountStore` | `users`, `refresh_tokens` and the Redis keys that cache them | extended by `Accounts` |
| `Accounts` | authentication without rotation, the user service, and what both cache | |
| `MCAccounts` | scenarios of the TLC run | |
| `MemoryQueueLocksProofs`, `TranscriptionPipelineProofs`, `LifecycleProofs` | theorems | the first is about the queue, the others about the pipeline; the last builds on the second |
| `RotationProofs` | theorems | about `RefreshTokenRotation` |
| `AccountsProofs`, `UserProofs` | theorems | about `Accounts`: tokens and logouts, then users; the second builds on the first |
| `TeamsProofs`, `TeamRulesProofs` | theorems | about `Teams`: under any overlap, then about requests one at a time; the second builds on the first |

### The store

A memo is its id. Its document is `status[m]` (with `"absent"` for no document)
and `deleted[m]`. Every repository method that writes is one MongoDB command on
one document, so one atomic operator: `UpdateStatus`,
`UpdateTranscriptionAndStatus`, `UpdateStatusConditional`,
`UpdateStatusInScope` (the ownership and team variants: a *scope* is a user or a
team), `SoftDeleteInScope`. The filter on `deletedAt`, `status` and
`userId`/`teamId` is kept exactly; a private route matches on `userId` only, so
it also reaches a team memo its caller created. A command has an outcome: `ok`,
`refused` (not applied, error) or `unacked` (applied, error). An `unacked`
command is taken to be applied by the time its caller sees the error; one
applied later still, after its context has ended, is not modelled. When an
update matches nothing the repository asks a second query why;
`WhyNotUpdated` and `WhyNotDeleted` are its verdicts, evaluated in a later step.

### The queue

`MemoryQueueLocks` has the channel, the flag and the write-preferring
`sync.RWMutex`: a producer holds the read lock from `CheckOpen` to `RUnlock`, a
closer that has called `Lock` keeps new readers out (`CallLock`) and gets the
lock when the readers inside have left (`GetLock`). A send on a closed channel,
or a second close, sets `panicked`. Two closers cannot wait at the same time in
the model; in the code `RWMutex` serialises them in the same way. `Reset` is
for tests; nothing else calls it.

### The pipeline

| State | In the code |
|---|---|
| `request[r]` | a service call in flight: `update` (before the first command), `diagnose`, `enqueue`, `revert`, `reply` |
| `worker[w]` | a worker in `Dequeue` (`idle`), `Transcribe` (`transcribing`), `UpdateTranscriptionAndStatus` (`saving`), the last `UpdateStatus` of `handleFailure` (`failing`), or returned (`exited`) |
| `timer[t]` | a goroutine spawned by `handleFailure`: in its `select` (`sleeping`), or about to mark the memo failed (`marking`) |
| `phase` | `main()`: `running`, `draining` (`srv.Shutdown`), `cancelled`, `signalled` (`shutdownCh` closed), `closed` (queue closed, `wg.Wait`), `down` |
| `jobs`, `closed`, `status`, `deleted` | queue and collection |

A step is the code between two points at which another goroutine may act: a
database command, a channel operation, a lock. What one goroutine does between
two such points is one action: `HandleFailure`, for example, is part of
`TranscribeFails` and of the failing branch of `SaveTranscript`, and choosing
between the retry goroutine and the last update happens there.

`Environment` is a constant saying what may go wrong in an instance:
`refused`, `unacked`, `sigterm`, `drain_timeout` (30 s pass with requests in
flight), `crash`. Once the application context is cancelled, a worker's command
may be refused or unacknowledged whatever `Environment` says. That is slightly
more than the code can do: a command issued after the cancellation is always
refused, one under way may end in any manner, and the model does not tell the
two apart.

Not in the model: backoff lengths and other durations (a timeout is a failure
that may come at any time), the text, `version` and time stamps, reads that
nothing depends on, log lines. Transcription is a mock in this repository, so
success and failure are both always possible.

### Refresh tokens

| State | In the code |
|---|---|
| `stored[f]` | `RefreshTokenData` under `refresh_token:<family>`, or `Missing`: user, current and previous hash, what is left until `expires_at` (`expiresIn`) and until the key expires (`ttl`) |
| `members[u]`, `indexTTL[u]` | the set `user_refresh_tokens:<user>` and what is left of that key |
| `call[c]` | a service call; `pc` is the command it is about to send, or `reply` |
| `generated[f]`, `given[f]` | the tokens made so far, and those that reached a client |
| `replaced[f]` | history: the tokens the store has replaced; no action reads it |

A family id is a model value, a token its number within its family: distinct
tokens have distinct hashes. Each Redis command is one action, because the
service holds no lock between two of them: a refresh is `ReadFamily` and then
`Rotate`; `refreshTokenStore.Delete` is `LookUpUser`, `UnindexFamily`,
`EndFamily`; `Create` is `StoreFamily`, `IndexFamily`, `RenewIndex`;
`DeleteAllByUserID` is `ListFamilies`, `SweepFamily` for each family, `DropIndex`.
The comparison of a presented token is done on what `ReadFamily` saw. Whatever
the code ignores the error of, goes on to the next command in the model too.

There are two lifetimes and they differ. `rotateScript` starts the expiry of the
key again but leaves `expires_at` as the login set it, while the index is renewed
by logins only. (`spec/refresh-token-rotation.md:211` stores a new `expires_at` too;
the code does not, and it is this that makes `IndexOutlivesSessions` true: a
rotation that renewed `expires_at` would let sessions outlive the index through
which a logout of all devices finds them.) Time is what is left of it, and `Tick`
counts everything down at once; a key whose time has come is gone.

`scenario` is what a behaviour allows, chosen at the start and never changed:
`events`, what may go wrong (`refused` and `unacked`, as for the store, and
`lost_reply`), the `families` that are opened, and how many `calls` may be in flight. The
properties that need Redis to answer, or clients to get their answers, say so themselves
(`NoFailures`, `NothingLost`). A
family in `Careful` has a client that presents the last token it received, one
refresh at a time; any other client presents whatever it was ever given. Both are
assumptions about clients, not about this code.

Not in the model: passwords, JWTs and their failures; tokens that were never issued (`invalid`, with
no effect on state); restarts of and evictions by Redis; `rotateFallback`, which
runs only without a Redis client. `MaxTokens` bounds the tokens of a family:
`Rotate` is disabled at the bound, and the refresh waits. The same service with
rotation switched off is `Accounts`; that a deployment is switched from one mode to
the other, with tokens of both kinds about, is not modelled.

### Teams

| State | In the code |
|---|---|
| `teams[t]` | a document of `teams`: `state` (`deletedAt`), `owner` (`ownerId`), `slug` |
| `roles[t][u]` | the document of `team_members` for `t` and `u`, or `none` |
| `invitations[i]` | a document of `team_invitations`: `team`, `address`, `role`, and `pending` until `expiresAt` passes (`Expire`) |
| `emails[u]` | `email` in the document of `users`, as it was typed, or `NoEmail` if there is none |
| `memos[m]` | of a memo, its team, its creator and whether it is deleted |
| `call[c]` | a request in flight: `todo` is the sequence of commands it still has to send |
| `scenario` | what the behaviour allows, chosen at the start and never changed |
| `held` | history: which user ever had which email |
| `invited` | history: who founded which team, and which address was invited to it |
| `half`, `undropped` | history: teams whose deletion stopped half-way; teams of which an acceptance did not get to drop its invitation |

The services hold no lock and use no transaction, so a method is a sequence of
MongoDB commands: `AcceptCommands`, say, is `find_user`, `find_invitation`, `find_team`,
`count_members`, `insert_member`, `drop_invitation`. Each command is an action
(several methods share one: `FindTarget` serves transfer, removal, change of role and
leaving), and it either lets the request go on with the rest of its sequence, or ends
it with an error, or replaces the rest by the rollback the code has for it (`Undo`).
Routes below `/teams/:teamId` begin with `authorize`, the membership lookup of
`TeamAuthz` against `rolePermissions`. An update writes back the document it read at
`find_team`, owner and slug included. What the index command creates is in the store:
one membership for a team and a user, and a slug that is unique among *all* teams,
deleted ones included (`SlugIndexed`), though `FindBySlug` looks at live ones only.
`Status` is the table from errors to HTTP statuses of each handler.

An email is an address in lower case and a way to capitalise it, `ToLower` forgets the
second. Users keep the email they typed and the unique index tells spellings apart, while an
invitation is for an address: `FindInvitee` looks up exactly that, in lower case, and so
misses a member who has capitals in her email, as the code does
(`team_invitation_service.go:42`, `:51`). The handlers of the invitations of a user begin
with `GetUser` (`FindUser`), and answer 500 when it fails. What `GetUser` returns may come
from its cache: `FindUser` takes any email the user ever had, or, of a deleted user, none.
That is more than the cache can do, whose entries age; how it does is in `Accounts`.
`EmailChanges` registers a user or changes her email, in one step, and `UserDeleted` removes
her: her memberships, and the access token she has, stay.

Memos are deleted by `DELETE /teams/:teamId/voice-memos/:id`, which matches on the team, and
by the private `DELETE /voice-memos/:id` (`DeleteVoiceMemo`), which matches on the creator,
whatever the memo's team, also after she has left it (`MatchesTeam`, `MatchesOwner`).

An id is a number in the order of creation, which is what listings are sorted by, except of
invitations, whose ids are used again when they are free; `Seats` is a constant (10 in the code, and one
owned team for a free user, as in `CountOwned`). `Refuse` is a command that is not
applied and returns an error, one in a request at most; a command that is applied
although it returns an error is not modelled here. `MayNameSelf` says whether a client
may name the owner herself as the new owner.

### Accounts

| State | In the code |
|---|---|
| `users[u]` | a document of `users`; `deleted` when it was removed |
| `tokens[k]` | a document of `refresh_tokens`; `left`, the ticks until `expiresAt` |
| `cachedUsers[u]`, `cachedTokens[k]` | the keys `user:<id>` and `refresh:<token>` with their times to live |
| `call[c]` | a request in flight, as in `Teams`; `met` says whom it overlapped, `refused` which store failed it |
| `ended`, `suspect` | history: tokens logged out by an undisturbed request; users and tokens whose last write was disturbed |

This is the default mode, `REFRESH_TOKEN_ROTATION=false`: a refresh looks in Redis,
then in MongoDB, and puts back what it found with the time left of it; a logout
deletes the document, then the key; one of all devices lists the valid documents, drops
their keys, then deletes the documents. `GetUser`, `UpdateUser` and `DeleteUser` are the
cache-aside pattern over `users`. Commands whose errors the code drops
(`ErrorIgnored`), or takes for an absence (`ErrorMistaken`), are just that. `Evict` is a
key that Redis loses. A tick is long: between the moment a time to live is computed
and the command that uses it none passes, as that is milliseconds against minutes.
Passwords and JWTs are left out; `FindLogin` may fail for a wrong password.

## 3. Runs

| Run | Instance | Question |
|---|---|---|
| `pipeline_core` | 2 memos, 2 requests, 2 workers, 2 retry slots, capacity 1, 2 attempts, fair, no faults | `NoStrandedMemo`, `StatusMachine`, `RejectedIsRetryable`, `FollowsLifecycle` |
| `pipeline_faults` | 2 private memos, 2 users, 2 requests, 1 worker, 2 retry slots, with refused and unacknowledged commands, SIGTERM, crash, restart; not fair | `TypeOK`, `OneJobPerMemo`, `JobStatus`, `NoRequestMeetsClosedQueue`, `RepliesAreTrue`, `DeletedFrozen` |
| `pipeline_endings` | a private memo and one of a team, 1 request, 1 worker, fair, failing commands, SIGTERM, a drain that times out | `EveryJobEnds`, `ShutdownCompletes` |
| `queue_locks` | 3 producers, 2 closers, capacity 2, fair | `TypeOK`, `NeverPanics`, `ImplementsQueue`, `CloseReturns` |
| `rotation` | 1 user, 2 families (one careful client), 3 tokens, lifetime 2; without faults 2 calls on both, with failing commands and lost replies 3 calls on one | `TypeOK`, `EndingAnswersHold`, `ListedSessionsEnd`, `IndexOutlivesSessions`, `CarefulClientsStay`, `ImplementsSessions` |
| `teams` | 4 users, 4 addresses in 2 spellings, 2 calls, 2 teams of 2 seats, 2 slugs, 3 invitations, 2 memos; nine scenarios, below | `TypeOK`, `OwnerAgreement`, `SeatsRespected`, `DeletedTeamsAreEmpty`, `MembersWereInvited`, `RefusalsChangeNothing`, `InternalErrorsExplained`, `ListedOnItsPage`, `InvitationsShownCanBeTaken`, `DeletedTeamsStay`, `MemosDeletedByRight` |
| `accounts` | 2 users, 2 emails, 2 tokens, 2 calls, times to live of 1 and 2; three scenarios, fair | `TypeOK`, `LogoutHolds`, `ValidTokensWork`, `NothingOutlivesExpiry`, `UsersFresh`, `ConflictsReported`, `StaleUsersForgotten` |

Five runs are expected to fail. Each states what a comment or a document of the
repository says and shows that the code does otherwise:

- `exit_before_retries` -- `queue/processor.go:135` says in-flight retries
  complete during a graceful shutdown. Retry goroutines are not in the
  `WaitGroup`; `main()` may return while one still sleeps, and its memo stays
  transcribing.
- `token_exchanged_twice` -- `spec/refresh-token-rotation.md:23` wants used tokens
  invalidated immediately. The token is compared in one command and replaced in
  another that compares nothing, so two refreshes that present one token at once
  both get a new one. Only the later of the two then works
  (`ImplementsSessions`), and the other client is taken for a thief.
- `logout_all_misses_session` -- `refresh_token_store.go:190` says that all the
  user's families are listed. A logout of all devices deletes the whole index after
  the families it listed; a login that indexed its family in between drops out of
  it, and later logouts of all devices do not list that session. The property
  leaves out sessions whose login has not been answered, that have expired, and
  that somebody is ending.
- `transfer_to_self` -- `spec/team-and-shared-voice-memos.md:644` has an owner
  transfer the ownership before leaving. An owner who names herself is promoted, then
  demoted to admin, and stays `ownerId` (`team_service.go:198`): nothing fails, she may
  leave, and the team has no owner.
- `seats_overbooked` -- `spec/team-and-shared-voice-memos.md:640` has members and pending
  invitations together within the seats, without exception. Members and invitations are
  counted by two commands and the invitation inserted by a third
  (`team_invitation_service.go:70-92`): two invitations at once both find the last seat
  free. `SeatsRespected` says what the code does keep: one request at a time the rule
  holds, and the members exceed the seats by no more than the overlap.

Two more disagreements came up and have no run of their own; adding the property to a
configuration shows each. `NotFoundMeansAbsent` (in `pipeline_faults`, also without any
`Environment`): a request that loses a race, and whose explaining query then sees the
memo reverted by the winner of the race (full queue), answers `ErrVoiceMemoNotFound`
for a memo that exists (`voice_memo_repository.go:114` says otherwise).
`StatusMachine` (in `pipeline_faults`): at shutdown a save may be applied though its
cancelled context returns an error, and the failure path then marks the memo failed
unconditionally, over `ready`, an edge that `spec/create-voice-memo.md:323` does not
have. A third is arithmetic: `MaxRetries` is called the maximum
number of automatic retries, but `HandleFailure` raises the counter before it
compares it, so the code's 3 gives three attempts and two retries. A fourth is why
`InvitationsShownCanBeTaken` is, for membership, about users whom the lookup of an invitee
finds (`Findable`): `spec/team-and-shared-voice-memos.md:479` turns down the invitation of a
member, but one with capitals in her email is invited again, is shown the invitation to her
own team, and gets a 500 when she accepts it. Without `Findable`, the scenario `Renaming` of
`teams` shows it, one request after the other and with no failure.

**Bounds.** Capacity 1 makes the queue full with one job and empty with none, so
every outcome of `Enqueue` occurs. Two memos are needed for one to fill the
queue while another is submitted, re-enqueued or reverted; the agents only meet
over a memo or over the queue, so two agents of a kind cover the races between
equals and the kinds are all present at once. `MaxRetries = 2` has one retry
and one exhaustion. There are as many retry slots as memos: by `OneJobPerMemo`,
which is proved, a slot is then always free and the bound blocks nothing.
Requests are restarted for ever, so lengths of histories are not bounded.
`pipeline_endings` has one request, as its properties are about what happens to
jobs once submitted.

For sessions, two families of one user are the least for which an index keeps one
member while it loses another. Two calls are any pair of operations interleaved
command by command, and calls are restarted while tokens last; with faults
three of them work on one family, so that a logout and two refreshes meet. Three
tokens are a login and two rotations: a token can be replaced, presented again,
and be neither current nor previous. `Lifetime = 2` separates a family that has
been renewed from its `expires_at` and from its index. Users share nothing but
the program, hence one user.

A scenario of `teams` or `accounts` is an instance of its own: which operations are
requested, whether they overlap, whether commands fail, how many documents there are.
Together they are one run because the properties are the same. What depends on how
commands of one request follow each other (rollbacks, statuses, paging) is checked one
request at a time, with every operation: `Founding` and `OneTeam` with a refused
command at any place, `TwoTeams` with ids of another team, `Library` for memos and
listings, `Renaming` while users register, change their emails (capitals included) and are
deleted. In `Filling` four users compete for two seats with two invitations at a time, so
that a pending invitation takes the last seat of a team, and a command is refused.
What must hold under any overlap (`MembersWereInvited`, `DeletedTeamsStay`,
the bound on seats) is checked with two requests at once, about joining and ending a
team (`Joining`), about who runs it (`Rising`), and about crowding into one of two seats
with four users, one more than the three members that the overlap accounts for, and three
invitations, so that an acceptance which does not count the members would let the fourth
in (`Crowding`, also the scenario of `seats_overbooked`). Elsewhere three users are an owner, an admin or
member, and one outside; two seats are full with one invitation; two slugs are a taken
and a free one; two memos with a limit of one are two pages. In `accounts` two tokens
make a logout of all devices find one and miss another, two emails and users a conflict,
and a refresh token lives longer than one tick so that it can be cached a second time
with less left.

`pipeline_*`, `rotation` and `teams` use the symmetry of agents of one kind (of calls
only for sessions; in `teams` of users, calls and ids of invitations) where they check no fairness; runs with fairness use none.

**Fairness.** `Fairness` is weak fairness of each request in flight, each worker,
each retry goroutine and of `main()` after the signal: goroutines are scheduled,
MongoDB calls and transcriptions have timeouts (`StatusUpdateTimeout`,
`TranscriptionTimeout`) or end with the request, and a backoff ends. Nothing
makes a client send a request (`Accept`, `CreateVoiceMemo`), a signal arrive, a
crash happen or a process restart. (Nothing is claimed of the liveness of
sessions: what a refresh waits for is Redis, and no property here needs it to
answer.) Weak fairness on a worker as a whole does
not favour success over failure, and does not choose between a job and a
cancelled context. In `accounts` it is weak fairness of each request in flight, for the
same reason, and strong fairness of `Tick`: time does pass, and it is the model, not the
program, that lets none pass between computing a time to live and using it.

**Mutants.** Each checked property has a mutated operator beside the one it
replaces (a comment says which bug it plants): a dropped filter, a swallowed
error, a missing drain, an off-by-one. With it in place, the run must fail.

## 4. Proofs

Assumptions are those of the modules: agents of different kinds are distinct,
`MaxRetries`, `Capacity`, `MaxTokens` and `Lifetime` are positive, `NoMemo`, `NoUser`
and `NoFamily` are not a memo, user or family, users and teams are disjoint,
`Environment` names known events, and scenarios of `RefreshTokenRotation` do. In `Accounts` the set of calls is finite, users are
not token numbers, times to live are positive, and the users registered before have an
email each. In `Teams` users, calls and ids of invitations are finite sets (members,
founders and invitations are counted), and the emails that users start with differ. Nothing else: other sets may be infinite, and capacity, workers, seats and
retries arbitrary.

- `TranscriptionPipelineProofs` -- `IInv` is `TypeOK`, that the counter of every
  job still in play is below `MaxRetries` (`AttemptsLeft`), `OneJobPerMemo` and
  `JobStatus`. `OneJobPerMemo` is not inductive by itself: a confirm may start a
  job only because the memo's status is not that of a memo in the pipeline, which
  is `JobStatus`; and `JobStatus` survives the revert and the final update of one
  job only because no other job has that memo. `AttemptsLeft` is what keeps the
  counter in its type when a job is retried. `Invariance` has one step per action
  and one under it per conjunct; `TypeCorrect`, `MutualExclusion`,
  `JobStatusCorrect` and `DeletedMemosFrozen` follow.
  In its second part, `TruthfulReplies` and `DrainShieldsRequests`: a reply comes
  from a second command, so `RepliesAreTrue` needs to know what is left of the
  first by then: a delete that asks why it found nothing still has nothing to
  delete (`NothingToDelete`), since documents never vanish, deletion is final, and
  no document is created under an id a request has named. The drain, unless it
  times out, gives `Drained`: after it no request is in flight, and the queue is
  closed only after it. `Submits` (only confirm and retry reach the queue) serves
  here and below.
- `LifecycleProofs` -- with `Environment = {}`. `NobodyStranded`: every live
  transcribing memo is in the pipeline. On top of `IInv` the invariant says that
  `main()` is still running and the queue open; `OneAgentActs` then reduces every
  step to what the one agent that acts does with the memo it carries. `Unfinished`
  adds that nobody works on a ready memo, so that with `JobStatus` everything in the
  pipeline is transcribing; every update that ends a job then starts from
  `transcribing`. From this follow `StatusFollowsEdges`, `RefusedCallsRetryable` and
  `ImplementsLifecycle`, the safety half of `FollowsLifecycle`: an initial state is
  one of `MemoLifecycle`, and each step is one of its steps or changes nothing
  there.
- `MemoryQueueLocksProofs` -- `NoPanic`, `TypeCorrect` and `Refinement`. The
  inductive invariant is the exclusion of the lock (a writer inside excludes
  readers and other writers) and that the flag agrees with the channel except
  between `SetFlag` and `CloseChannel`.
- `RotationProofs` -- `Inv` is `TypeOK`, what a call knows at each command
  (`CallShape`) and that a family has one login (`OneLogin`); `TypeCorrect` follows.
  For `SessionsImplemented` it is strengthened by `SessionsBegin` (whoever holds,
  lists or presents a family holds one whose login has stored it, or failed to)
  and `TokensInOrder` (nothing current or replaced is newer than the last token
  generated, and the current token is not a replaced one). Together they say why a
  rotation whose read is out of date is harmless: a family that is gone can only
  be stored by its one login, which is past (`HeldOnce`), and what a rotation
  stores is newer than anything replaced. Every step then maps to one of
  `SessionLife` or to none. This holds whatever fails.
  `EndingsHold` and `ListedEnd` are about scenarios in which no command is refused or
  unacknowledged (`NoFailures`; a scenario never changes, `ScenarioStays`): then what a call has found to be gone stays gone until it
  answers (`Truthful`, `GoneForGood`).
  So does `IndexesOutlive`: a login whose EXPIRE is refused leaves the index with the
  time to live of an older one. By itself the property is not inductive, as a family may be
  listed under another user than its owner's as far as it says; with `IndexedByOwner`
  it is: only the login of a family lists it, under its user, and at a moment when
  nothing but logins renews the index and no key lives longer than a login gives it
  (`HeldAges`, `IndexGrows`, `IndexLasts`).
  `CarefulClientsServed` is, besides, about no answer being lost (`NothingLost`): a client that
  does not learn its new token can only present the old one. For a careful client,
  `CarefulInv` says that nobody has a token before the login is answered (`LoginFirst`),
  that the family is refreshed by one call at a time (`OneRefresh`), that no refresh of it
  finds its token replaced (`NeverReused`), and that what the client holds, or the answer
  under way to it brings, is what is current as long as the session is there (`InStep`).
- `AccountsProofs` -- `Typed` is `TypeOK`, that what is left of each request is a
  suffix of the commands of its operation (`InSequence`) and that it knows by then what
  they take (`Knows`), and that no more tokens are being issued than there are
  (`TokensLeft`). The other theorems read the commands of a request off its place.
  For `ExpiryHolds`, `Lasting` adds that a time to live on its way to Redis is not
  longer than the document's; no tick may pass between computing and using it. For
  `ValidTokensHold`, `Knowing` adds that a refresh was told "invalid" of a token that is
  not valid and cannot become so: tokens are issued in order, a token a client knows was
  issued, and documents only age. `LogoutsHold` is the longest. `Gone` says what the
  property does (an ended token is deleted, and neither cached nor about to be); it holds
  at the answer of a logout because of what each of its commands has done by then
  (`Stages`), and because a deleted token is still cached, or about to be, only if a
  logout of it is under way or was disturbed (`Excuses`). A refresh that could put the
  token back has met that logout (`Aware`), which is then no longer undisturbed; that the
  two are about one user needs `Held`, the owner of the token being the user of the call.
- `UserProofs` -- `FreshnessHolds`: a cached user that differs from its document is
  explained by a write under way or by a disturbed one. `Explained` is the property with a
  reader that is about to cache (`AboutToCache`) counted as stale already, without which it
  is not inductive. `WriteStages` says how far an undisturbed write has come: the key is
  gone by its last command. `Accounted` says that nobody knows a user who has not
  registered, except the request that registers her. `UserEffects` reduces
  the actions to the few things a step can do to users and their keys. `ConflictsTold`:
  emails are unique (`OneEach`), requests in flight together have met (`Alone`), so an
  email that a request alone found free is still free when it writes (`Forewarned`).
- `TeamsProofs` -- `Basics` is `TypeOK`, `Sound` (what a request has left to send is a
  path of its operation in `Order`, and it knows by then what the commands take), that
  creations under way find an id (`TeamsLeft`), `Bookkeeping` (teams are numbered in
  order, slugs are unique among them, whatever names a team names one that was created)
  and `MembersWereInvited`. It holds under any overlap, and every step keeps it because
  it does one of few things: a request arrives (`Arrives`), reads (`PlainOutcome`,
  `TeamFound`, `TargetFound`, `InvitationFound`), writes (`WriteOutcome`), or is refused
  (`Refusing`). For one request at a time, `Ends` says what is empty by each command of
  a deletion and of a creation that is undone (`Alive`); hence `DeletedEmpty`. `Alive` also
  says that who is about to delete a memo, or the memos of a team, still has the role that
  let her in; hence `MemosHold`, whose other half is what the two filters ask for.
  `MembersHold` rests on a request that accepts carrying an address its user had
  (`HasHeld`), whatever she is called by then.
- `TeamRulesProofs` -- `OwnersAgree`: `Agreement` says who owns a team by each command of
  a transfer, of its rollback and of a creation (`Stage`); every other team is `Settled`. A rollback command is due only after the one refusal that a
  request may meet, so it is not refused itself. `OwnersAgree` assumes `~MayNameSelf`;
  with it the property is false, which is what `transfer_to_self` shows.
  `SeatsHold`: with overlap each request that has counted may join, but the
  first still finds a seat, hence `CrowdBounded` over members and those about to be
  (`Boarding`). Without it members and invitations are to fit *together*, and
  the sum of two counts does not survive an acceptance half-way, which is in both. `Taken`
  leaves out the invitation whose user has joined (`Used`), and `Reserves` is what a request
  has counted by each command: while an acceptance is under way, the others fit with one seat
  to spare. Once a `drop_invitation` was refused that invitation stays for good, so the team
  is in `undropped` and only its members fit.
  `RefusalsHold`: by `Told`, a request that goes on has been told nothing yet, one that has
  written is answered `ok`, `error` or `duplicate`, none of which is a 4xx, and a transfer is
  a member's until it demotes her, so that what its commands touch is there.
  `ErrorsHold`: by `Explained`, of which no command was refused, what a request has looked
  up about a slug still holds when it writes (`Seeks`), nothing is undone, and its answer
  is one the handler knows or has one of the three causes (`Fine`): a user who was found
  missing stays so (`Unregistered`).
  `ShownTakeable`: that the team is there comes from `Ends`, and its seat from `Seating`.
  That she is not in it yet holds only if no command is refused (a refused `drop_invitation`
  is only logged, a failing lookup of the invitee taken for an absence) and of a user whom
  that lookup finds (`Findable`): then a pending invitation is the only one for its address
  and team, and of somebody outside (`Outsiders`), except while an acceptance has yet to drop
  it (`Outside`); `Foresees` says what an invitation and an acceptance know of that by each
  command.
  `ListingsHold`: the lemmas about lists come first. A finite set of ids is listed by rank,
  the number of newer ones (`ListedByRank`): ranks tell ids apart (`RankOrder`) and leave no
  gap (`RanksBelow`), as an injection between sets of one size is onto. So a part of the list
  is the list of the ids in it (`SliceListed`) and a page the list of those that belong on it
  (`PageListed`), for the limits that `ClampLimit` lets through. `Turning` then says that
  what a listing has counted is still the size of what it reads, as no request comes
  between; and the teams of a user are live because `Ends` empties the deleted ones, which
  is why the join over live teams and the authorizer agree.

**Only model-checked.** Liveness everywhere: `EveryJobEnds`, `ShutdownCompletes`,
`CloseReturns`, `StaleUsersForgotten` and the fairness half of `FollowsLifecycle`.
The refutations are TLC's counterexamples. Every invariant and every other action property
that a passing run checks is a theorem.

## 5. Not modelled, and the plan

- *Object storage*: presigned URLs are made without a request to S3, and no state
  depends on them. That a memo is stored before its URL is made, so that a failure in
  between leaves a memo the client has no URL for, is a `CreateVoiceMemo` whose answer
  is lost.
- *Configuration, connections, router wiring, validators, response bodies, swagger,
  mocks, `cmd/seed`*: fixed at start, or formatting, or a one-shot tool for development.
  Of the indexes in `cmd/index`, the unique ones are part of the stores.
- *All parsing of input* but the case of emails: strings are members of a small set. Login
  looks an email up as it is typed, as registration stores it, so `Accounts` has no use for
  spellings.
- *What a deletion of a user leaves behind*: `DeleteUser` removes the document and its key
  and nothing else, so tokens, memberships and memos of the user stay. `Accounts` has the
  tokens, `Teams` the memberships, the access token and the 500 it meets; no property
  promises that they go.
- *`GetAllUsers`*: reads without paging and changes nothing. Methods that nothing calls:
  `SoftDeleteByID`, `FindByIDIncludingDeleted`, `DeleteExpired`, `IsMember`.
- *`rotateFallback`*, which runs only without a Redis client, and switching rotation on
  or off while tokens live.
- *Requests about ownership that overlap* (two transfers, a transfer and a removal), and
  a creation that overlaps the deletion of its team, are in the model but no property
  of `teams` promises anything about them: the code does not (hazards in
  `PROJECT.json`). `OwnerAgreement` and `DeletedTeamsAreEmpty` are about requests one at
  a time.

**The plan**, in order. (1) A command on `teams` that is applied though it returns an
error, which multiplies the scenarios. (2) A deployment that turns rotation on or off while
tokens of both kinds live.
