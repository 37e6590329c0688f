-------------------------- MODULE TranscriptionPipeline --------------------------
(***************************************************************************)
(* The life of a voice memo across the goroutines that work on it: HTTP    *)
(* requests running VoiceMemoService methods, the workers and the retry    *)
(* timers of queue.Processor, and main(), which shuts them down.  They     *)
(* share the voice_memos collection and the memory queue; a step of one    *)
(* goroutine is the code between two points at which another may act.      *)
(***************************************************************************)
EXTENDS VoiceMemoStore, MemoryQueue, FiniteSets

CONSTANTS
    Request,      \* slots for requests in flight
    Worker,       \* the goroutines Processor.Start spawns
    Timer,        \* slots for the goroutines handleFailure spawns
    Environment   \* what may happen around the program in this instance

Agent == Request \cup Worker \cup Timer

\* "refused" and "unacked" are the failed outcomes of a MongoDB command;
\* "drain_timeout" is srv.Shutdown giving up on requests still in flight.
EnvironmentEvents == {"refused", "unacked", "sigterm", "drain_timeout", "crash"}

ASSUME AgentAssumption ==
    /\ Request \cap Worker = {} /\ Request \cap Timer = {} /\ Worker \cap Timer = {}
ASSUME EnvironmentAssumption == Environment \subseteq EnvironmentEvents

VARIABLES
    request,   \* the service call each request slot is running
    worker,    \* where each worker stands in processJob, and its job
    timer,     \* the retry goroutines: waiting out the backoff, or giving up
    phase      \* how far main() is

agentVars == <<request, worker, timer>>
vars == <<status, deleted, jobs, closed, request, worker, timer, phase>>

Ops == {"confirm", "retry", "delete"}

\* What a service call returned: nil, one of the apperrors, or a raw error.
Codes == {"none", "ok", "not_found", "unauthorized", "invalid_status",
          "queue_full", "queue_closed", "error"}

NoRequest ==
    [pc |-> "idle", op |-> "none", memo |-> NoMemo, scope |-> NoTeam, code |-> "none"]
RequestState ==
    [pc : {"update", "diagnose", "enqueue", "revert", "reply"}, op : Ops,
     memo : Memo, scope : Scope, code : Codes] \cup {NoRequest}

IdleWorker == [pc |-> "idle", job |-> NoJob]
ExitedWorker == [pc |-> "exited", job |-> NoJob]
WorkerState ==
    [pc : {"transcribing", "saving", "failing"}, job : Job] \cup {IdleWorker, ExitedWorker}

IdleTimer == [pc |-> "idle", job |-> NoJob]
TimerState == [pc : {"sleeping", "marking"}, job : Job] \cup {IdleTimer}

\* "running", then on SIGTERM "draining" (srv.Shutdown), "cancelled" (cancel()),
\* "signalled" (shutdownCh closed), "closed" (queue closed, wg.Wait) and "down".
Phases == {"running", "draining", "cancelled", "signalled", "closed", "down"}

TypeOK ==
    /\ StoreTypeOK
    /\ QueueTypeOK
    /\ request \in [Request -> RequestState]
    /\ worker \in [Worker -> WorkerState]
    /\ timer \in [Timer -> TimerState]
    /\ phase \in Phases

Init ==
    /\ StoreInit
    /\ NewMemoryQueue
    /\ request = [r \in Request |-> NoRequest]
    /\ worker = [w \in Worker |-> IdleWorker]
    /\ timer = [t \in Timer |-> IdleTimer]
    /\ phase = "running"

\* The application context is cancelled.
Cancelled == phase \in {"cancelled", "signalled", "closed"}

\* shutdownCh is closed.
ShuttingDown == phase \in {"signalled", "closed"}

\* How a command issued under a request or a background context may end...
Outcomes == {"ok"} \cup (Environment \cap {"refused", "unacked"})

\* ...and one issued by a worker, under the application context.
WorkerOutcomes == IF Cancelled THEN {"ok", "refused", "unacked"} ELSE Outcomes

-------------------------------------------------------------------------------
(* Requests.  A slot runs ConfirmUpload, RetryTranscription, DeleteVoiceMemo *)
(* or the team variant of one of them: the scope tells which.              *)

Goto(r, pc) == request' = [request EXCEPT ![r].pc = pc]
Reply(r, code) == request' = [request EXCEPT ![r].pc = "reply", ![r].code = code]

\* The status a confirm or a retry expects, and reverts to.
FromStatus(op) == IF op = "confirm" THEN "pending_upload" ELSE "failed"

\* The handler that creates memos: it allocates an id nobody can have named
\* yet, and changes nothing more once the document is inserted.
CreateVoiceMemo(m) ==
    /\ phase \in {"running", "draining"}
    /\ \A r \in Request : request[r].memo /= m
    /\ Create(m)
    /\ UNCHANGED <<queueVars, agentVars, phase>>

\* A request reaches the service.  Once srv.Shutdown runs no new one does.
Accept(r) ==
    /\ phase = "running"
    /\ request[r].pc = "idle"
    /\ \E op \in Ops, m \in Memo, s \in Scope :
         request' = [request EXCEPT ![r] =
             [pc |-> "update", op |-> op, memo |-> m, scope |-> s, code |-> "none"]]
    /\ UNCHANGED <<storeVars, queueVars, worker, timer, phase>>

\* ConfirmUpload and RetryTranscription move the memo to transcribing.
SubmitForTranscription(r) ==
    LET m == request[r].memo
        s == request[r].scope
        from == FromStatus(request[r].op)
    IN  /\ request[r].pc = "update" /\ request[r].op \in {"confirm", "retry"}
        /\ \E outcome \in Outcomes :
             /\ UpdateStatusInScope(m, s, from, "transcribing", outcome)
             /\ \/ outcome /= "ok" /\ Reply(r, "error")
                \/ outcome = "ok" /\ Selected(m, s, from) /\ Goto(r, "enqueue")
                \/ outcome = "ok" /\ ~Selected(m, s, from) /\ Goto(r, "diagnose")
        /\ UNCHANGED <<queueVars, worker, timer, phase>>

DeleteVoiceMemo(r) ==
    LET m == request[r].memo
        s == request[r].scope
        found == Live(m) /\ InScope(m, s)
    IN  /\ request[r].pc = "update" /\ request[r].op = "delete"
        /\ \E outcome \in Outcomes :
             /\ SoftDeleteInScope(m, s, outcome)
             /\ \/ outcome /= "ok" /\ Reply(r, "error")
                \/ outcome = "ok" /\ found /\ Reply(r, "ok")
                \/ outcome = "ok" /\ ~found /\ Goto(r, "diagnose")
        /\ UNCHANGED <<queueVars, worker, timer, phase>>

\* The query that explains why the command above selected nothing.
Diagnose(r) ==
    LET m == request[r].memo
        s == request[r].scope
        verdict == IF request[r].op = "delete" THEN WhyNotDeleted(m, s)
                   ELSE WhyNotUpdated(m, s, FromStatus(request[r].op))
    IN  /\ request[r].pc = "diagnose"
        /\ \/ Reply(r, verdict)
           \/ Outcomes /= {"ok"} /\ Reply(r, "error")
        /\ UNCHANGED <<storeVars, queueVars, worker, timer, phase>>

\* Mutant: the revert runs whether or not the queue took the job.
EnqueueJobThenRevert(r) ==
    /\ request[r].pc = "enqueue"
    /\ Enqueue([memo |-> request[r].memo, retry |-> 0])
    /\ Goto(r, "revert")
    /\ UNCHANGED <<storeVars, worker, timer, phase>>

\* Only a full queue is undone: a closed one is reported as it is.
EnqueueJob(r) ==
    /\ request[r].pc = "enqueue"
    /\ Enqueue([memo |-> request[r].memo, retry |-> 0])
    /\ IF EnqueueResult = "queue_full" THEN Goto(r, "revert") ELSE Reply(r, EnqueueResult)
    /\ UNCHANGED <<storeVars, worker, timer, phase>>

\* Mutant: a retry is reverted the way a confirm is.
RevertStatusToPending(r) ==
    /\ request[r].pc = "revert"
    /\ \E outcome \in Outcomes :
         UpdateStatusConditional(request[r].memo, "transcribing", "pending_upload", outcome)
    /\ Reply(r, "queue_full")
    /\ UNCHANGED <<queueVars, worker, timer, phase>>

\* The caller hears of the full queue whether or not the revert succeeds.
RevertStatus(r) ==
    /\ request[r].pc = "revert"
    /\ \E outcome \in Outcomes :
         UpdateStatusConditional(request[r].memo, "transcribing",
                                 FromStatus(request[r].op), outcome)
    /\ Reply(r, "queue_full")
    /\ UNCHANGED <<queueVars, worker, timer, phase>>

Respond(r) ==
    /\ request[r].pc = "reply"
    /\ request' = [request EXCEPT ![r] = NoRequest]
    /\ UNCHANGED <<storeVars, queueVars, worker, timer, phase>>

RequestStep(r) ==
    \/ SubmitForTranscription(r) \/ DeleteVoiceMemo(r) \/ Diagnose(r)
    \/ EnqueueJob(r) \/ RevertStatus(r) \/ Respond(r)

-------------------------------------------------------------------------------
(* Workers and retry timers.                                               *)

\* With both a job and a cancelled context, select picks either.
Dequeue(w) ==
    /\ worker[w].pc = "idle"
    /\ TakeJob
    /\ worker' = [worker EXCEPT ![w] = [pc |-> "transcribing", job |-> Head(jobs)]]
    /\ UNCHANGED <<storeVars, request, timer, phase>>

\* Mutant: an empty queue ends the worker.
WorkerExitWhenEmpty(w) ==
    /\ worker[w].pc = "idle"
    /\ jobs = <<>>
    /\ worker' = [worker EXCEPT ![w] = ExitedWorker]
    /\ UNCHANGED <<storeVars, queueVars, request, timer, phase>>

\* Mutant: the worker goes round its loop on every error of Dequeue.
WorkerNeverExits(w) ==
    /\ worker[w].pc = "idle"
    /\ Cancelled \/ ClosedAndDrained
    /\ UNCHANGED vars

WorkerExit(w) ==
    /\ worker[w].pc = "idle"
    /\ Cancelled \/ ClosedAndDrained
    /\ worker' = [worker EXCEPT ![w] = ExitedWorker]
    /\ UNCHANGED <<storeVars, queueVars, request, timer, phase>>

\* Mutant: one attempt too many.
HandleFailureLate(w) ==
    LET job == [worker[w].job EXCEPT !.retry = @ + 1]
    IN  \/ /\ job.retry > MaxRetries
           /\ worker' = [worker EXCEPT ![w] = [pc |-> "failing", job |-> job]]
           /\ UNCHANGED timer
        \/ /\ job.retry <= MaxRetries
           /\ \E t \in Timer :
                /\ timer[t] = IdleTimer
                /\ timer' = [timer EXCEPT ![t] = [pc |-> "sleeping", job |-> job]]
           /\ worker' = [worker EXCEPT ![w] = IdleWorker]

\* Mutant: attempts are not counted.
HandleFailureUncounted(w) ==
    /\ \E t \in Timer :
         /\ timer[t] = IdleTimer
         /\ timer' = [timer EXCEPT ![t] = [pc |-> "sleeping", job |-> worker[w].job]]
    /\ worker' = [worker EXCEPT ![w] = IdleWorker]

\* handleFailure: the job moves to a new goroutine that waits out the backoff,
\* unless this was the last attempt; marking the memo is then a step to come.
HandleFailure(w) ==
    LET job == [worker[w].job EXCEPT !.retry = @ + 1]
    IN  \/ /\ job.retry >= MaxRetries
           /\ worker' = [worker EXCEPT ![w] = [pc |-> "failing", job |-> job]]
           /\ UNCHANGED timer
        \/ /\ job.retry < MaxRetries
           /\ \E t \in Timer :
                /\ timer[t] = IdleTimer
                /\ timer' = [timer EXCEPT ![t] = [pc |-> "sleeping", job |-> job]]
           /\ worker' = [worker EXCEPT ![w] = IdleWorker]

Transcribed(w) ==
    /\ worker[w].pc = "transcribing"
    /\ worker' = [worker EXCEPT ![w].pc = "saving"]
    /\ UNCHANGED <<storeVars, queueVars, request, timer, phase>>

\* An error of the transcription service, its timeout, or cancellation.
TranscribeFails(w) ==
    /\ worker[w].pc = "transcribing"
    /\ HandleFailure(w)
    /\ UNCHANGED <<storeVars, queueVars, request, phase>>

\* Mutant: the successful update runs on into the error branch.
SaveTranscriptThenFail(w) ==
    /\ worker[w].pc = "saving"
    /\ \E outcome \in WorkerOutcomes :
         UpdateTranscriptionAndStatus(worker[w].job.memo, "ready", outcome)
    /\ HandleFailure(w)
    /\ UNCHANGED <<queueVars, request, phase>>

\* A memo deleted meanwhile is not found, which counts as a failure.
SaveTranscript(w) ==
    LET m == worker[w].job.memo
    IN  /\ worker[w].pc = "saving"
        /\ \E outcome \in WorkerOutcomes :
             /\ UpdateTranscriptionAndStatus(m, "ready", outcome)
             /\ IF outcome = "ok" /\ Live(m)
                  THEN worker' = [worker EXCEPT ![w] = IdleWorker] /\ UNCHANGED timer
                  ELSE HandleFailure(w)
        /\ UNCHANGED <<queueVars, request, phase>>

\* An error of this update is only logged: the job is dropped either way.
MarkExhausted(w) ==
    /\ worker[w].pc = "failing"
    /\ \E outcome \in WorkerOutcomes : UpdateStatus(worker[w].job.memo, "failed", outcome)
    /\ worker' = [worker EXCEPT ![w] = IdleWorker]
    /\ UNCHANGED <<queueVars, request, timer, phase>>

WorkerStep(w) ==
    \/ Dequeue(w) \/ WorkerExit(w) \/ Transcribed(w) \/ TranscribeFails(w)
    \/ SaveTranscript(w) \/ MarkExhausted(w)

\* Mutant: the error of Enqueue is ignored.
TimerFiresUnchecked(t) ==
    /\ timer[t].pc = "sleeping"
    /\ Enqueue(timer[t].job)
    /\ timer' = [timer EXCEPT ![t] = IdleTimer]
    /\ UNCHANGED <<storeVars, request, worker, phase>>

\* The backoff is over.  A job the queue does not take is given up.
TimerFires(t) ==
    /\ timer[t].pc = "sleeping"
    /\ Enqueue(timer[t].job)
    /\ timer' = [timer EXCEPT ![t] = IF EnqueueResult = "ok" THEN IdleTimer
                                     ELSE [@ EXCEPT !.pc = "marking"]]
    /\ UNCHANGED <<storeVars, request, worker, phase>>

ShutdownSeen(t) ==
    /\ timer[t].pc = "sleeping"
    /\ ShuttingDown
    /\ timer' = [timer EXCEPT ![t].pc = "marking"]
    /\ UNCHANGED <<storeVars, queueVars, request, worker, phase>>

MarkFailed(t) ==
    /\ timer[t].pc = "marking"
    /\ \E outcome \in Outcomes : UpdateStatus(timer[t].job.memo, "failed", outcome)
    /\ timer' = [timer EXCEPT ![t] = IdleTimer]
    /\ UNCHANGED <<queueVars, request, worker, phase>>

TimerStep(t) == TimerFires(t) \/ ShutdownSeen(t) \/ MarkFailed(t)

-------------------------------------------------------------------------------
(* main(): orderly shutdown, and the end of the process.                   *)

Advance(from, to) == phase = from /\ phase' = to

Sigterm ==
    /\ "sigterm" \in Environment
    /\ Advance("running", "draining")
    /\ UNCHANGED <<storeVars, queueVars, agentVars>>

\* Mutant: the processor is stopped without draining requests first.
CancelContextUndrained ==
    /\ Advance("draining", "cancelled")
    /\ UNCHANGED <<storeVars, queueVars, agentVars>>

\* srv.Shutdown returns, and cancel() is called.
CancelContext ==
    /\ Advance("draining", "cancelled")
    /\ \/ \A r \in Request : request[r] = NoRequest
       \/ "drain_timeout" \in Environment
    /\ UNCHANGED <<storeVars, queueVars, agentVars>>

\* Processor.Stop: close(shutdownCh), then queue.Close(), then wg.Wait().
SignalShutdown ==
    /\ Advance("cancelled", "signalled")
    /\ UNCHANGED <<storeVars, queueVars, agentVars>>

CloseQueue ==
    /\ Advance("signalled", "closed")
    /\ Close
    /\ UNCHANGED <<storeVars, agentVars>>

\* The process ends: what its goroutines held and what was queued is gone.
LoseMemory ==
    /\ request' = [r \in Request |-> NoRequest]
    /\ worker' = [w \in Worker |-> ExitedWorker]
    /\ timer' = [t \in Timer |-> IdleTimer]
    /\ jobs' = <<>>
    /\ UNCHANGED <<storeVars, closed>>

\* main() waits for the workers, and for nothing else.
Exit ==
    /\ Advance("closed", "down")
    /\ \A w \in Worker : worker[w] = ExitedWorker
    /\ LoseMemory

Crash ==
    /\ "crash" \in Environment
    /\ phase \in Phases \ {"down"} /\ phase' = "down"
    /\ LoseMemory

\* The next process starts from the collection alone.
Start ==
    /\ Advance("down", "running")
    /\ ReplaceQueue
    /\ worker' = [w \in Worker |-> IdleWorker]
    /\ UNCHANGED <<storeVars, request, timer>>

MainStep == CancelContext \/ SignalShutdown \/ CloseQueue \/ Exit

Next ==
    \/ \E m \in Memo : CreateVoiceMemo(m)
    \/ \E r \in Request : Accept(r) \/ RequestStep(r)
    \/ \E w \in Worker : WorkerStep(w)
    \/ \E t \in Timer : TimerStep(t)
    \/ Sigterm \/ MainStep \/ Crash \/ Start

Spec == Init /\ [][Next]_vars

\* Goroutines run, backoffs end, database calls return and main() proceeds;
\* no client has to send a request, and no memo has to be created.
Fairness ==
    /\ \A r \in Request : WF_vars(RequestStep(r))
    /\ \A w \in Worker : WF_vars(WorkerStep(w))
    /\ \A t \in Timer : WF_vars(TimerStep(t))
    /\ WF_vars(MainStep)

FairSpec == Spec /\ Fairness

-------------------------------------------------------------------------------
(* Properties.                                                             *)

\* Agent p is the one that has to see to memo m.
Carries(p, m) ==
    \/ p \in Request /\ request[p].pc \in {"enqueue", "revert"} /\ request[p].memo = m
    \/ p \in Worker /\ worker[p].job.memo = m
    \/ p \in Timer /\ timer[p].job.memo = m

Queued(m) == \E i \in DOMAIN jobs : jobs[i].memo = m

InPipeline(m) == Queued(m) \/ \E p \in Agent : Carries(p, m)

\* A memo is never in the hands of two goroutines, nor queued twice, nor
\* queued and in somebody's hands: the status update of a confirm or a retry
\* is the only lock, and it must outlast requests, workers, retry timers,
\* restarts and failed commands.
OneJobPerMemo ==
    /\ \A p, q \in Agent, m \in Memo : Carries(p, m) /\ Carries(q, m) => p = q
    /\ \A p \in Agent, i \in DOMAIN jobs : ~Carries(p, jobs[i].memo)
    /\ \A i, j \in DOMAIN jobs : jobs[i].memo = jobs[j].memo => i = j

\* Whatever is queued or carried is still transcribing in the collection, or
\* ready when the acknowledgement of the transcript was lost; it is never a
\* memo that somebody may confirm or retry.
JobStatus ==
    /\ \A i \in DOMAIN jobs : status[jobs[i].memo] \in {"transcribing", "ready"}
    /\ \A p \in Agent, m \in Memo :
         Carries(p, m) => status[m] \in {"transcribing", "ready"}

\* A memo that says transcribing is in the pipeline: with no fault and no
\* shutdown, neither a full queue nor a used up retry strands it.
NoStrandedMemo ==
    \A m \in Memo : status[m] = "transcribing" /\ ~deleted[m] => InPipeline(m)

\* A deleted memo stays deleted and keeps its status, though workers and
\* timers may go on with a job for it.
DeletedFrozen ==
    [][\A m \in Memo : deleted[m] => deleted'[m] /\ status'[m] = status[m]]_vars

\* spec/create-voice-memo.md: the status flow, with failed memos retried by
\* hand, and with the way back when the queue is full.
StatusEdges ==
    { <<"absent", "pending_upload">>, <<"pending_upload", "transcribing">>,
      <<"transcribing", "ready">>, <<"transcribing", "failed">>,
      <<"failed", "transcribing">>, <<"transcribing", "pending_upload">> }

\* The status of a memo moves along the documented edges only; in particular
\* a ready memo stays ready.
StatusMachine ==
    [][\A m \in Memo : status'[m] /= status[m] => <<status[m], status'[m]>> \in StatusEdges]_vars

\* A caller told that the queue is full can make the same call again: the
\* memo is back to where the call found it, unless it was deleted.
RejectedIsRetryable ==
    [][\A r \in Request : RevertStatus(r) =>
         \/ deleted[request[r].memo]
         \/ request[r].op = "confirm" /\ status'[request[r].memo] = "pending_upload"
         \/ request[r].op = "retry" /\ status'[request[r].memo] = "failed"]_vars

\* While main() drains requests before it closes the queue, and the drain
\* does not time out, no caller is told the queue is closed: that answer
\* would leave the memo transcribing with no job.
NoRequestMeetsClosedQueue == \A r \in Request : request[r].code /= "queue_closed"

\* A reply says what is so: a successful delete left a deleted memo of the
\* caller's, "unauthorized" is about somebody else's memo, and a delete finds
\* nothing only where the caller has nothing.
RepliesAreTrue ==
    \A r \in Request :
        LET m == request[r].memo
            s == request[r].scope
            code == request[r].code
        IN  request[r].pc = "reply" =>
              /\ request[r].op = "delete" /\ code = "ok" => deleted[m] /\ InScope(m, s)
              /\ request[r].op = "delete" /\ code = "not_found" => ~Exists(m) \/ ~InScope(m, s)
              /\ code = "unauthorized" => Exists(m) /\ s \in User /\ s /= Owner[m]

\* Every job comes to an end, whatever the database answers: attempts run
\* out, and no queue or timer keeps a job for ever, nor that of a deleted memo.
EveryJobEnds == \A m \in Memo : InPipeline(m) ~> ~InPipeline(m)

\* With no fault, every memo follows the life its owner is promised; in
\* particular transcribing always gives way to another status.
Lifecycle == INSTANCE MemoLifecycle
FollowsLifecycle == Lifecycle!Spec

\* internal/repository/voice_memo_repository.go, on UpdateStatusWithOwnership:
\* it returns ErrVoiceMemoNotFound if the memo doesn't exist, and other
\* errors for a memo that does.
NotFoundMeansAbsent ==
    \A r \in Request :
        request[r].pc = "reply" /\ request[r].code = "not_found" /\ request[r].scope \in User
            => ~Live(request[r].memo)

\* internal/queue/processor.go, on the retry goroutine: in-flight retries
\* complete during graceful shutdown; main() ends when none is left.
RetriesCompleteBeforeExit == [][Exit => \A t \in Timer : timer[t] = IdleTimer]_vars

\* An orderly shutdown ends: neither requests nor workers nor jobs left in
\* the queue keep main() waiting.
ShutdownCompletes == phase = "draining" ~> phase = "down"

===============================================================================
