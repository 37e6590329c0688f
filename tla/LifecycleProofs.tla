----------------------------- MODULE LifecycleProofs -----------------------------
(***************************************************************************)
(* With no fault and no shutdown, and for any number of everything: a memo *)
(* that says transcribing has a job, as the queue being full, attempts     *)
(* being used up and memos being deleted do not strand it; the status of   *)
(* every memo moves along the documented edges, a ready memo is never      *)
(* taken up again, a call refused for a full queue leaves the memo where   *)
(* it was, and every step of the pipeline is one step of the life          *)
(* MemoLifecycle promises, or none.                                        *)
(***************************************************************************)
EXTENDS TranscriptionPipelineProofs

\* The program just runs.
Quiet == phase = "running" /\ closed = FALSE

FInv == IInv /\ Quiet /\ NoStrandedMemo

LEMMA QuietOutcomes ==
    ASSUME Environment = {}, Quiet, QueueTypeOK
    PROVE  Outcomes = {"ok"} /\ WorkerOutcomes = {"ok"} /\ EnqueueResult /= "queue_closed"
<1>1. Outcomes = {"ok"}
  BY DEF Outcomes
<1>2. WorkerOutcomes = {"ok"}
  BY <1>1 DEF Quiet, WorkerOutcomes, Cancelled
<1>3. EnqueueResult /= "queue_closed"
  <2>1. ~closed
    BY DEF Quiet
  <2>2. CASE Len(jobs) >= Capacity
    BY <2>1, <2>2 DEF EnqueueResult
  <2>3. CASE Len(jobs) < Capacity
    BY <2>1, <2>3 DEF EnqueueResult
  <2>4. QED BY <2>2, <2>3, CapacityAssumption DEF QueueTypeOK
<1>4. QED BY <1>1, <1>2, <1>3

\* main() has no step to take, so the phase and the queue stay as they are.
LEMMA StaysQuiet ==
    ASSUME Environment = {}, Quiet, [Next]_vars
    PROVE  Quiet' /\ ~(Sigterm \/ MainStep \/ Crash \/ Start)
<1>1. ~(Sigterm \/ MainStep \/ Crash \/ Start)
  BY DEF Quiet, Sigterm, MainStep, CancelContext, SignalShutdown, CloseQueue, Exit,
         Crash, Start, Advance
<1>2. ASSUME NEW m \in Memo, CreateVoiceMemo(m) PROVE Quiet'
  BY <1>2 DEF CreateVoiceMemo, Quiet, queueVars
<1>3. ASSUME NEW r \in Request, Accept(r) \/ RequestStep(r) PROVE Quiet'
  BY <1>3 DEF Quiet, queueVars, RequestStep, Accept, SubmitForTranscription,
     DeleteVoiceMemo, Diagnose, EnqueueJob, Enqueue, RevertStatus, Respond
<1>4. ASSUME NEW w \in Worker, WorkerStep(w) PROVE Quiet'
  BY <1>4 DEF Quiet, queueVars, WorkerStep, Dequeue, TakeJob, WorkerExit, Transcribed,
     TranscribeFails, SaveTranscript, MarkExhausted
<1>5. ASSUME NEW t \in Timer, TimerStep(t) PROVE Quiet'
  BY <1>5 DEF Quiet, queueVars, TimerStep, TimerFires, Enqueue, ShutdownSeen, MarkFailed
<1>6. CASE UNCHANGED vars
  BY <1>1, <1>6 DEF vars, Quiet
<1>7. QED BY <1>1, <1>2, <1>3, <1>4, <1>5, <1>6 DEF Next

\* If one agent acts, a memo that is still waiting to be transcribed is still
\* in the pipeline, provided the agent has not simply dropped it or taken it
\* up without a job.
LEMMA OneAgentActs ==
    ASSUME NoStrandedMemo, NEW p \in Agent,
           \A a \in Agent \ {p}, m \in Memo : Carries(a, m) => Carries(a, m)',
           \A m \in Memo : Queued(m) => InPipeline(m)',
           \A m \in Memo : Carries(p, m) =>
               InPipeline(m)' \/ status'[m] /= "transcribing" \/ deleted'[m],
           \A m \in Memo : status'[m] = "transcribing" /\ ~deleted'[m] =>
               (status[m] = "transcribing" /\ ~deleted[m]) \/ InPipeline(m)'
    PROVE  NoStrandedMemo'
<1> SUFFICES ASSUME NEW m \in Memo, status'[m] = "transcribing", ~deleted'[m]
             PROVE  InPipeline(m)'
  BY DEF NoStrandedMemo
<1>1. CASE InPipeline(m)
  <2>1. CASE Queued(m)
    BY <2>1
  <2>2. ASSUME NEW a \in Agent, Carries(a, m) PROVE InPipeline(m)'
    <3>1. CASE a = p
      BY <2>2, <3>1
    <3>2. CASE a /= p
      BY <2>2, <3>2 DEF InPipeline
    <3>3. QED BY <3>1, <3>2
  <2>3. QED BY <1>1, <2>1, <2>2 DEF InPipeline
<1>2. CASE ~InPipeline(m)
  BY <1>2 DEF NoStrandedMemo
<1>3. QED BY <1>1, <1>2

\* Every other request, and all workers and timers, hold what they held.
LEMMA OthersHold ==
    ASSUME NEW r \in Request,
           \A q \in Request \ {r} : request'[q] = request[q],
           worker' = worker, timer' = timer
    PROVE  \A a \in Agent \ {r}, m \in Memo : Carries(a, m) => Carries(a, m)'
BY CarriesBy, CarriesByNext DEF Agent

LEMMA QueueKeeps ==
    ASSUME jobs' = jobs
    PROVE  \A m \in Memo : Queued(m) => InPipeline(m)'
BY DEF InPipeline, Queued

\* What an accepted job means for the queue.
LEMMA QueueGains ==
    ASSUME QueueTypeOK, NEW job \in Job, Enqueue(job), EnqueueResult = "ok"
    PROVE  \A m \in Memo : (Queued(m) \/ m = job.memo) => Queued(m)'
<1>1. /\ DOMAIN jobs' = 1 .. Len(jobs) + 1
      /\ DOMAIN jobs = 1 .. Len(jobs) /\ Len(jobs) \in Nat
      /\ \A i \in DOMAIN jobs : jobs'[i] = jobs[i]
      /\ jobs'[Len(jobs) + 1] = job
  BY QueueAccepts DEF QueueTypeOK
<1>2. Len(jobs) + 1 \in DOMAIN jobs' /\ DOMAIN jobs \subseteq DOMAIN jobs'
  BY <1>1
<1>3. QED BY <1>1, <1>2 DEF Queued

-------------------------------------------------------------------------------
LEMMA CreateKeeps ==
    ASSUME FInv, NEW m \in Memo, CreateVoiceMemo(m)
    PROVE  NoStrandedMemo'
<1>1. \A n \in Memo : status'[n] = "transcribing" => status[n] = "transcribing"
  BY DEF CreateVoiceMemo, Create, FInv, IInv, Types, TypeOK, StoreTypeOK
<1>2. \A n \in Memo : InPipeline(n) => InPipeline(n)'
  BY DEF CreateVoiceMemo, InPipeline, Queued, Carries, queueVars, agentVars
<1>3. QED
  BY <1>1, <1>2 DEF CreateVoiceMemo, Create, FInv, NoStrandedMemo

LEMMA RequestKeeps ==
    ASSUME Environment = {}, FInv, NEW r \in Request, Accept(r) \/ RequestStep(r)
    PROVE  NoStrandedMemo'
<1> USE DEF FInv, IInv, Types
<1>1. r \in Agent
  BY DEF Agent
<1>2. CASE Accept(r)
  <2>1. \A q \in Request \ {r} : request'[q] = request[q]
    BY <1>2 DEF Accept, TypeOK
  <2>2. \A m \in Memo : ~Carries(r, m)
    BY <1>2, CarriesBy DEF Accept
  <2>3. QED
    BY <1>1, <1>2, <2>1, <2>2, OthersHold, QueueKeeps, OneAgentActs
       DEF Accept, storeVars, queueVars
<1>3. CASE SubmitForTranscription(r)
  <2> DEFINE s == request[r].scope
             from == FromStatus(request[r].op)
  <2>1. PICK n \in Memo : n = request[r].memo
    BY <1>3 DEF SubmitForTranscription, TypeOK, RequestState, NoRequest
  <2>2. /\ UpdateStatusInScope(n, s, from, "transcribing", "ok")
        /\ \/ Selected(n, s, from) /\ Goto(r, "enqueue")
           \/ ~Selected(n, s, from) /\ Goto(r, "diagnose")
    BY <1>3, <2>1, QuietOutcomes DEF SubmitForTranscription, TypeOK
  <2>3. /\ request'[r].memo = n
        /\ Selected(n, s, from) => request'[r].pc = "enqueue"
        /\ \A q \in Request \ {r} : request'[q] = request[q]
    BY <1>3, <2>1, <2>2, RequestMoves DEF SubmitForTranscription, Codes, TypeOK
  <2>4. Selected(n, s, from) => Carries(r, n)'
    BY <2>3, CarriesByNext
  <2>5. \A m \in Memo : status'[m] = "transcribing" /\ ~deleted'[m] =>
          (status[m] = "transcribing" /\ ~deleted[m]) \/ InPipeline(m)'
    BY <1>1, <2>2, <2>4
       DEF UpdateStatusInScope, SetStatus, TypeOK, StoreTypeOK, InPipeline
  <2>6. \A m \in Memo : ~Carries(r, m)
    BY <1>3, CarriesBy DEF SubmitForTranscription
  <2>7. QED
    BY <1>1, <1>3, <2>3, <2>5, <2>6, OthersHold, QueueKeeps, OneAgentActs
       DEF SubmitForTranscription, queueVars
<1>4. CASE DeleteVoiceMemo(r) \/ Diagnose(r) \/ Respond(r)
  <2>1. \A q \in Request \ {r} : request'[q] = request[q]
    BY <1>4 DEF DeleteVoiceMemo, Diagnose, Respond, Reply, Goto, TypeOK
  <2>2. \A m \in Memo : ~Carries(r, m)
    BY <1>4, CarriesBy DEF DeleteVoiceMemo, Diagnose, Respond
  <2>3. \A m \in Memo : status'[m] = status[m] /\ (deleted[m] => deleted'[m])
    BY <1>4 DEF DeleteVoiceMemo, SoftDeleteInScope, Diagnose, Respond, storeVars,
                TypeOK, StoreTypeOK
  <2>4. jobs' = jobs /\ worker' = worker /\ timer' = timer
    BY <1>4 DEF DeleteVoiceMemo, Diagnose, Respond, queueVars
  <2>5. QED
    BY <1>1, <2>1, <2>2, <2>3, <2>4, OthersHold, QueueKeeps, OneAgentActs
<1>5. CASE EnqueueJob(r)
  <2>1. PICK job \in Job : job = [memo |-> request[r].memo, retry |-> 0]
    BY <1>5, MaxRetriesAssumption DEF EnqueueJob, TypeOK, RequestState, NoRequest, Job
  <2>2. Enqueue(job) /\ job.memo = request[r].memo
    BY <1>5, <2>1 DEF EnqueueJob
  <2>3. /\ request'[r].memo = request[r].memo
        /\ EnqueueResult = "queue_full" => request'[r].pc = "revert"
        /\ \A q \in Request \ {r} : request'[q] = request[q]
    BY <1>5, <2>2, QueueAccepts, RequestMoves DEF EnqueueJob, Reply, Codes, TypeOK
  <2>4. \A m \in Memo : Carries(r, m) => m = job.memo
    BY <2>2, CarriesBy
  <2>5. \A m \in Memo : Queued(m) => InPipeline(m)'
    BY <2>2, QueueAccepts, QueueGains, QueueKeeps DEF TypeOK, InPipeline
  <2>6. \A m \in Memo : Carries(r, m) => InPipeline(m)'
    <3>1. CASE EnqueueResult = "ok"
      BY <2>2, <2>4, <3>1, QueueGains DEF TypeOK, InPipeline
    <3>2. CASE EnqueueResult = "queue_full"
      BY <1>1, <2>2, <2>3, <2>4, <3>2, CarriesByNext DEF InPipeline
    <3>3. QED
      BY <2>2, <3>1, <3>2, QueueAccepts, QuietOutcomes DEF TypeOK
  <2>7. QED
    BY <1>1, <1>5, <2>3, <2>5, <2>6, OthersHold, OneAgentActs DEF EnqueueJob, storeVars
<1>6. CASE RevertStatus(r)
  <2>1. PICK n \in Memo : n = request[r].memo
    BY <1>6 DEF RevertStatus, TypeOK, RequestState, NoRequest
  <2>2. UpdateStatusConditional(n, "transcribing", FromStatus(request[r].op), "ok")
    BY <1>6, <2>1, QuietOutcomes DEF RevertStatus, TypeOK
  <2>3. \A q \in Request \ {r} : request'[q] = request[q]
    BY <1>6 DEF RevertStatus, Reply, TypeOK
  <2>4. \A m \in Memo : Carries(r, m) => m = n
    BY <2>1, CarriesBy
  <2>5. status'[n] /= "transcribing" \/ deleted'[n]
    BY <2>2 DEF UpdateStatusConditional, SetStatus, Live, Exists, FromStatus,
                TypeOK, StoreTypeOK
  <2>6. \A m \in Memo : status'[m] = "transcribing" => status[m] = "transcribing"
    BY <2>2 DEF UpdateStatusConditional, SetStatus, FromStatus, TypeOK, StoreTypeOK
  <2>7. deleted' = deleted
    BY <2>2 DEF UpdateStatusConditional, SetStatus
  <2>8. QED
    BY <1>1, <1>6, <2>3, <2>4, <2>5, <2>6, <2>7, OthersHold, QueueKeeps, OneAgentActs
       DEF RevertStatus, queueVars
<1>7. QED BY <1>2, <1>3, <1>4, <1>5, <1>6 DEF RequestStep

-------------------------------------------------------------------------------
\* The queue passes the job at its head to the worker and keeps the others.
LEMMA QueueSheds ==
    ASSUME QueueTypeOK, TakeJob
    PROVE  \A m \in Memo : Queued(m) => Queued(m)' \/ m = Head(jobs).memo
<1>1. jobs \in Seq(Job) /\ jobs /= <<>> /\ jobs' = Tail(jobs)
  BY DEF QueueTypeOK, TakeJob
<1>2. /\ Tail(jobs) \in Seq(Job) /\ Len(Tail(jobs)) = Len(jobs) - 1
      /\ \A i \in 1 .. Len(Tail(jobs)) : Tail(jobs)[i] = jobs[i + 1]
  BY <1>1, HeadTailProperties
<1>3. Len(jobs) \in Nat \ {0} /\ Head(jobs) = jobs[1]
  BY <1>1, EmptySeq
<1>4. DOMAIN jobs = 1 .. Len(jobs) /\ DOMAIN jobs' = 1 .. Len(jobs) - 1
  BY <1>1, <1>2
<1>5. ASSUME NEW m \in Memo, NEW i \in DOMAIN jobs, jobs[i].memo = m, i /= 1
      PROVE  Queued(m)'
  <2>1. i - 1 \in DOMAIN jobs' /\ jobs'[i - 1] = jobs[i]
    BY <1>1, <1>2, <1>3, <1>4, <1>5
  <2>2. QED BY <1>5, <2>1 DEF Queued
<1>6. QED BY <1>3, <1>5 DEF Queued

LEMMA OtherWorkersHold ==
    ASSUME NEW w \in Worker,
           \A v \in Worker \ {w} : worker'[v] = worker[v],
           request' = request,
           \A t \in Timer : timer'[t] = timer[t] \/ timer[t] = IdleTimer
    PROVE  \A a \in Agent \ {w}, m \in Memo : Carries(a, m) => Carries(a, m)'
BY IdleCarry, CarriesBy, CarriesByNext DEF Agent

LEMMA FailureKeeps ==
    ASSUME FInv, NEW w \in Worker, worker[w].pc \in {"transcribing", "saving"},
           HandleFailure(w), jobs' = jobs, request' = request,
           status' = status, deleted' = deleted
    PROVE  NoStrandedMemo'
<1>1. /\ \A v \in Worker \ {w} : worker'[v] = worker[v]
      /\ \/ worker'[w].job.memo = worker[w].job.memo /\ timer' = timer
         \/ \E t \in Timer :
              /\ timer[t] = IdleTimer
              /\ timer'[t].job.memo = worker[w].job.memo
              /\ \A u \in Timer \ {t} : timer'[u] = timer[u]
  BY FailureMoves DEF FInv, IInv
<1>2. \A t \in Timer : timer'[t] = timer[t] \/ timer[t] = IdleTimer
  BY <1>1
<1>3. \A m \in Memo : Carries(w, m) => InPipeline(m)'
  <2>1. ASSUME NEW m \in Memo, Carries(w, m)
        PROVE  \E a \in Agent : Carries(a, m)'
    BY <1>1, <2>1, CarriesBy, CarriesByNext DEF Agent
  <2>2. QED BY <2>1 DEF InPipeline
<1>4. w \in Agent
  BY DEF Agent
<1>5. QED
  BY <1>1, <1>2, <1>3, <1>4, OtherWorkersHold, QueueKeeps, OneAgentActs DEF FInv

LEMMA WorkerKeeps ==
    ASSUME Environment = {}, FInv, NEW w \in Worker, WorkerStep(w)
    PROVE  NoStrandedMemo'
<1> USE DEF FInv, IInv, Types
<1>1. w \in Agent
  BY DEF Agent
<1>2. CASE Dequeue(w)
  <2>1. /\ worker'[w].job = Head(jobs)
        /\ \A v \in Worker \ {w} : worker'[v] = worker[v]
    BY <1>2 DEF Dequeue, TypeOK
  <2>2. \A m \in Memo : ~Carries(w, m)
    BY <1>2, WorkerJobs, IdleCarry, CarriesBy DEF Dequeue, TypeOK
  <2>3. \A m \in Memo : Queued(m) => InPipeline(m)'
    BY <1>1, <1>2, <2>1, QueueSheds, CarriesByNext DEF Dequeue, TypeOK, InPipeline
  <2>4. QED
    BY <1>1, <1>2, <2>1, <2>2, <2>3, OtherWorkersHold, OneAgentActs
       DEF Dequeue, storeVars
<1>3. CASE WorkerExit(w) \/ Transcribed(w)
  <2>1. \A v \in Worker \ {w} : worker'[v] = worker[v]
    BY <1>3 DEF WorkerExit, Transcribed, TypeOK
  <2>2. \A m \in Memo : Carries(w, m) => Carries(w, m)'
    <3>1. CASE WorkerExit(w)
      BY <3>1, WorkerJobs, IdleCarry, CarriesBy DEF WorkerExit, TypeOK
    <3>2. CASE Transcribed(w)
      <4>1. worker'[w] = [worker[w] EXCEPT !.pc = "saving"]
        BY <3>2 DEF Transcribed, TypeOK
      <4>2. worker[w] \in [pc : {"transcribing", "saving", "failing"}, job : Job]
        BY <3>2, WorkerJobs DEF Transcribed, TypeOK
      <4>3. worker'[w].job = worker[w].job
        BY <4>1, <4>2
      <4>4. QED BY <4>3, CarriesBy, CarriesByNext
    <3>3. QED BY <1>3, <3>1, <3>2
  <2>3. /\ status' = status /\ deleted' = deleted /\ jobs' = jobs
        /\ request' = request /\ timer' = timer
    BY <1>3 DEF WorkerExit, Transcribed, storeVars, queueVars
  <2>4. QED
    BY <1>1, <2>1, <2>2, <2>3, OtherWorkersHold, QueueKeeps, OneAgentActs DEF InPipeline
<1>4. CASE TranscribeFails(w)
  BY <1>4, FailureKeeps DEF TranscribeFails, storeVars, queueVars
<1>5. CASE SaveTranscript(w)
  <2>1. PICK n \in Memo : n = worker[w].job.memo
    BY <1>5, WorkerJobs DEF SaveTranscript, TypeOK, Job
  <2>2. /\ UpdateTranscriptionAndStatus(n, "ready", "ok")
        /\ IF Live(n) THEN worker' = [worker EXCEPT ![w] = IdleWorker] /\ UNCHANGED timer
                      ELSE HandleFailure(w)
    BY <1>5, <2>1, QuietOutcomes DEF SaveTranscript, TypeOK
  <2>3. CASE Live(n)
    <3>1. /\ status'[n] = "ready" /\ deleted' = deleted
          /\ \A m \in Memo \ {n} : status'[m] = status[m]
      BY <2>2, <2>3 DEF UpdateTranscriptionAndStatus, SetStatus, TypeOK, StoreTypeOK
    <3>2. \A v \in Worker \ {w} : worker'[v] = worker[v]
      BY <2>2, <2>3 DEF TypeOK
    <3>3. \A m \in Memo : Carries(w, m) => m = n
      BY <2>1, CarriesBy
    <3>4. jobs' = jobs /\ request' = request /\ timer' = timer
      BY <1>5, <2>2, <2>3 DEF SaveTranscript, queueVars
    <3>5. \A m \in Memo : status'[m] = "transcribing" => status[m] = "transcribing"
      BY <3>1
    <3>6. QED
      BY <1>1, <3>1, <3>2, <3>3, <3>4, <3>5, OtherWorkersHold, QueueKeeps, OneAgentActs
  <2>4. CASE ~Live(n)
    <3>1. status' = status /\ deleted' = deleted
      BY <2>2, <2>4 DEF UpdateTranscriptionAndStatus, SetStatus
    <3>2. QED
      BY <1>5, <2>2, <2>4, <3>1, FailureKeeps DEF SaveTranscript, queueVars
  <2>5. QED BY <2>3, <2>4
<1>6. CASE MarkExhausted(w)
  <2>1. PICK n \in Memo : n = worker[w].job.memo
    BY <1>6, WorkerJobs DEF MarkExhausted, TypeOK, Job
  <2>2. UpdateStatus(n, "failed", "ok")
    BY <1>6, <2>1, QuietOutcomes DEF MarkExhausted, TypeOK
  <2>3. status'[n] /= "transcribing" \/ deleted'[n]
    BY <2>2 DEF UpdateStatus, SetStatus, Live, Exists, TypeOK, StoreTypeOK
  <2>4. /\ \A m \in Memo : status'[m] = "transcribing" => status[m] = "transcribing"
        /\ deleted' = deleted
    BY <2>2 DEF UpdateStatus, SetStatus, TypeOK, StoreTypeOK
  <2>5. /\ \A v \in Worker \ {w} : worker'[v] = worker[v]
        /\ jobs' = jobs /\ request' = request /\ timer' = timer
    BY <1>6 DEF MarkExhausted, queueVars, TypeOK
  <2>6. \A m \in Memo : Carries(w, m) => m = n
    BY <2>1, CarriesBy
  <2>7. QED
    BY <1>1, <2>3, <2>4, <2>5, <2>6, OtherWorkersHold, QueueKeeps, OneAgentActs
<1>7. QED BY <1>2, <1>3, <1>4, <1>5, <1>6 DEF WorkerStep

LEMMA TimerKeeps ==
    ASSUME Environment = {}, FInv, NEW t \in Timer, TimerStep(t)
    PROVE  NoStrandedMemo'
<1> USE DEF FInv, IInv, Types
<1>1. /\ t \in Agent
      /\ \A u \in Timer \ {t} : timer'[u] = timer[u]
      /\ request' = request /\ worker' = worker
  BY DEF Agent, TimerStep, TimerFires, ShutdownSeen, MarkFailed, TypeOK
<1>2. \A a \in Agent \ {t}, m \in Memo : Carries(a, m) => Carries(a, m)'
  BY <1>1, CarriesBy, CarriesByNext DEF Agent
<1>3. timer[t] \in [pc : {"sleeping", "marking"}, job : Job]
  BY TimerJobs DEF TimerStep, TimerFires, ShutdownSeen, MarkFailed, TypeOK
<1>4. PICK job \in Job : job = timer[t].job
  BY <1>3
<1>5. \A m \in Memo : Carries(t, m) => m = job.memo
  BY <1>4, CarriesBy
<1>6. CASE TimerFires(t)
  <2>1. Enqueue(job) /\ status' = status /\ deleted' = deleted
    BY <1>4, <1>6 DEF TimerFires, storeVars
  <2>2. CASE EnqueueResult = "ok"
    <3>1. \A m \in Memo : Queued(m) \/ m = job.memo => InPipeline(m)'
      BY <2>1, <2>2, QueueGains DEF TypeOK, InPipeline
    <3>2. QED BY <1>1, <1>2, <1>5, <2>1, <3>1, OneAgentActs
  <2>3. CASE EnqueueResult /= "ok"
    <3>1. timer'[t] = [timer[t] EXCEPT !.pc = "marking"]
      BY <1>6, <2>3 DEF TimerFires, TypeOK
    <3>2. timer'[t].job = job
      BY <1>3, <1>4, <3>1
    <3>3. \A m \in Memo : Carries(t, m) => InPipeline(m)'
      BY <1>1, <1>5, <3>2, CarriesByNext DEF InPipeline
    <3>4. jobs' = jobs
      BY <2>1, <2>3, QueueAccepts DEF TypeOK
    <3>5. QED BY <1>1, <1>2, <2>1, <3>3, <3>4, QueueKeeps, OneAgentActs
  <2>4. QED BY <2>2, <2>3
<1>7. CASE ShutdownSeen(t)
  BY <1>7 DEF ShutdownSeen, ShuttingDown, Quiet
<1>8. CASE MarkFailed(t)
  <2>1. PICK n \in Memo : n = job.memo
    BY DEF Job
  <2>2. UpdateStatus(n, "failed", "ok")
    BY <1>4, <1>8, <2>1, QuietOutcomes DEF MarkFailed, TypeOK
  <2>3. status'[n] /= "transcribing" \/ deleted'[n]
    BY <2>2 DEF UpdateStatus, SetStatus, Live, Exists, TypeOK, StoreTypeOK
  <2>4. /\ \A m \in Memo : status'[m] = "transcribing" => status[m] = "transcribing"
        /\ deleted' = deleted
    BY <2>2 DEF UpdateStatus, SetStatus, TypeOK, StoreTypeOK
  <2>5. jobs' = jobs
    BY <1>8 DEF MarkFailed, queueVars
  <2>6. QED
    BY <1>1, <1>2, <1>5, <2>1, <2>3, <2>4, <2>5, QueueKeeps, OneAgentActs
<1>9. QED BY <1>6, <1>7, <1>8 DEF TimerStep

\* Without faults every transcribing memo has a job: no stuck memo, however
\* many requests, workers and retries compete for a queue of whatever size.
THEOREM NobodyStranded ==
    ASSUME Environment = {}
    PROVE  Spec => []NoStrandedMemo
<1>1. Init => Quiet /\ NoStrandedMemo
  BY DEF Init, StoreInit, NewMemoryQueue, Quiet, NoStrandedMemo
<1>2. FInv /\ [Next]_vars => Quiet' /\ NoStrandedMemo'
  <2> SUFFICES ASSUME FInv, [Next]_vars PROVE Quiet' /\ NoStrandedMemo'
    OBVIOUS
  <2>1. Quiet' /\ ~(Sigterm \/ MainStep \/ Crash \/ Start)
    BY StaysQuiet DEF FInv
  <2>2. CASE UNCHANGED vars
    BY <2>1, <2>2 DEF vars, FInv, NoStrandedMemo, InPipeline, Queued, Carries
  <2>3. QED
    BY <2>1, <2>2, CreateKeeps, RequestKeeps, WorkerKeeps, TimerKeeps DEF Next
<1>3. QED
  BY <1>1, <1>2, Invariance, PTL DEF Spec, FInv

-------------------------------------------------------------------------------

\* Nobody is still at work on a memo that is ready; so what is in the
\* pipeline is transcribing.
Unfinished == \A m \in Memo : InPipeline(m) => status[m] /= "ready"

LEMMA PipelineTranscribes ==
    ASSUME IInv, Unfinished, NEW m \in Memo, InPipeline(m)
    PROVE  status[m] = "transcribing"
BY DEF IInv, JobStatus, Unfinished, InPipeline, Queued

\* Enqueue adds its own job to the queue and no other.
LEMMA QueueGainsOnly ==
    ASSUME QueueTypeOK, NEW job \in Job, Enqueue(job)
    PROVE  \A m \in Memo : Queued(m)' => Queued(m) \/ m = job.memo
<1>1. CASE EnqueueResult = "ok"
  <2>1. /\ DOMAIN jobs' = 1 .. Len(jobs) + 1
        /\ DOMAIN jobs = 1 .. Len(jobs) /\ Len(jobs) \in Nat
        /\ \A i \in DOMAIN jobs : jobs'[i] = jobs[i]
        /\ jobs'[Len(jobs) + 1] = job
    BY <1>1, QueueAccepts DEF QueueTypeOK
  <2>2. \A i \in DOMAIN jobs' : i \in DOMAIN jobs \/ i = Len(jobs) + 1
    BY <2>1
  <2>3. QED BY <2>1, <2>2 DEF Queued
<1>2. CASE EnqueueResult /= "ok"
  BY <1>2, QueueAccepts DEF Queued
<1>3. QED BY <1>1, <1>2

\* Nothing of a ready memo enters the pipeline: requests find it in the wrong
\* status, and jobs only move between agents and queue.
LEMMA RequestLeavesOut ==
    ASSUME IInv, NEW r \in Request, Accept(r) \/ RequestStep(r),
           NEW m \in Memo, ~InPipeline(m), status[m] = "ready"
    PROVE  ~InPipeline(m)'
<1> USE DEF IInv, Types
<1>1. /\ \A q \in Request \ {r} : request'[q] = request[q]
      /\ worker' = worker /\ timer' = timer
  BY DEF Accept, RequestStep, SubmitForTranscription, DeleteVoiceMemo, Diagnose,
         EnqueueJob, RevertStatus, Respond, Reply, Goto, TypeOK
<1>2. \A a \in Agent \ {r} : ~Carries(a, m)'
  BY <1>1, RequestHoldings DEF InPipeline
<1>3. ~Carries(r, m) /\ ~Queued(m)
  BY DEF InPipeline, Agent
<1>4. CASE Accept(r) \/ DeleteVoiceMemo(r) \/ Diagnose(r) \/ RevertStatus(r) \/ Respond(r)
  <2>1. request'[r].pc \notin {"enqueue", "revert"} /\ jobs' = jobs
    <3>1. CASE Accept(r) \/ Respond(r)
      BY <3>1 DEF Accept, Respond, NoRequest, TypeOK, queueVars
    <3>2. CASE DeleteVoiceMemo(r) \/ Diagnose(r) \/ RevertStatus(r)
      <4>1. request[r].pc /= "idle" /\ jobs' = jobs
        BY <3>2 DEF DeleteVoiceMemo, Diagnose, RevertStatus, queueVars
      <4>2. Goto(r, "diagnose") \/ \E code : Reply(r, code)
        BY <3>2 DEF DeleteVoiceMemo, Diagnose, RevertStatus
      <4>3. request'[r].pc \in {"diagnose", "reply"}
        BY <4>1, <4>2 DEF Goto, Reply, TypeOK, RequestState, NoRequest
      <4>4. QED BY <4>1, <4>3
    <3>3. QED BY <1>4, <3>1, <3>2
  <2>2. QED
    BY <1>2, <1>3, <2>1, CarriesByNext DEF InPipeline, Queued
<1>5. CASE SubmitForTranscription(r)
  <2>1. jobs' = jobs
    BY <1>5 DEF SubmitForTranscription, queueVars
  <2>2. CASE request[r].memo = m
    <3>1. ~Selected(m, request[r].scope, FromStatus(request[r].op))
      BY DEF Selected, FromStatus
    <3>2. Goto(r, "diagnose") \/ Reply(r, "error")
      BY <1>5, <2>2, <3>1 DEF SubmitForTranscription
    <3>3. request'[r].pc \in {"diagnose", "reply"}
      BY <1>5, <3>2 DEF Goto, Reply, SubmitForTranscription, TypeOK, RequestState, NoRequest
    <3>4. QED
      BY <1>2, <1>3, <2>1, <3>3, CarriesByNext DEF InPipeline, Queued
  <2>3. CASE request[r].memo /= m
    <3>1. request'[r].memo = request[r].memo
      BY <1>5, RequestMoves DEF SubmitForTranscription, Reply, Codes, TypeOK
    <3>2. QED
      BY <1>2, <1>3, <2>1, <2>3, <3>1, CarriesByNext DEF InPipeline, Queued
  <2>4. QED BY <2>2, <2>3
<1>6. CASE EnqueueJob(r)
  <2>1. PICK job \in Job : job = [memo |-> request[r].memo, retry |-> 0]
    BY <1>6, MaxRetriesAssumption DEF EnqueueJob, TypeOK, RequestState, NoRequest, Job
  <2>2. Enqueue(job) /\ job.memo = request[r].memo
    BY <1>6, <2>1 DEF EnqueueJob
  <2>3. request[r].memo /= m
    BY <1>3, <1>6, CarriesBy DEF EnqueueJob
  <2>4. request'[r].memo = request[r].memo
    BY <1>6, <2>2, QueueAccepts, RequestMoves DEF EnqueueJob, Reply, Codes, TypeOK
  <2>5. QED
    BY <1>2, <1>3, <2>2, <2>3, <2>4, QueueGainsOnly, CarriesByNext DEF InPipeline, TypeOK
<1>7. QED BY <1>4, <1>5, <1>6 DEF RequestStep

LEMMA WorkerLeavesOut ==
    ASSUME IInv, NEW w \in Worker, WorkerStep(w), NEW m \in Memo, ~InPipeline(m)
    PROVE  ~InPipeline(m)'
<1> USE DEF IInv, Types
<1>1. /\ ~Queued(m) /\ worker[w].job.memo /= m
      /\ \A v \in Worker : worker[v].job.memo /= m
      /\ \A t \in Timer : timer[t].job.memo /= m
      /\ \A r \in Request : ~Carries(r, m)
  BY CarriesBy DEF InPipeline, Agent
<1>2. SUFFICES /\ ~Queued(m)'
               /\ \A v \in Worker : worker'[v].job.memo /= m
               /\ \A t \in Timer : timer'[t].job.memo /= m
               /\ request' = request
  BY <1>1, CarriesBy, CarriesByNext DEF InPipeline, Agent
<1>3. CASE Dequeue(w)
  <2>1. \A i \in DOMAIN jobs' : i + 1 \in DOMAIN jobs /\ jobs'[i] = jobs[i + 1]
    BY <1>3, QueueYields DEF Dequeue, TypeOK
  <2>2. Head(jobs).memo /= m
    BY <1>1, <1>3, QueueYields DEF Dequeue, TypeOK, Queued
  <2>3. worker'[w].job = Head(jobs) /\ \A v \in Worker \ {w} : worker'[v] = worker[v]
    BY <1>3 DEF Dequeue, TypeOK
  <2>4. QED BY <1>1, <1>3, <2>1, <2>2, <2>3 DEF Dequeue, Queued
<1>4. ASSUME worker[w].pc \in {"transcribing", "saving"}, HandleFailure(w),
             jobs' = jobs, request' = request
      PROVE  /\ ~Queued(m)'
             /\ \A v \in Worker : worker'[v].job.memo /= m
             /\ \A t \in Timer : timer'[t].job.memo /= m
  <2>1. ~Queued(m)'
    BY <1>1, <1>4 DEF Queued
  <2>2. QED BY <1>1, <1>4, <2>1, FailureMoves, IdleCarry
<1>5. ASSUME worker' = [worker EXCEPT ![w] = IdleWorker] \/ WorkerExit(w),
             jobs' = jobs, timer' = timer
      PROVE  /\ ~Queued(m)'
             /\ \A v \in Worker : worker'[v].job.memo /= m
             /\ \A t \in Timer : timer'[t].job.memo /= m
  BY <1>1, <1>5, IdleCarry DEF WorkerExit, TypeOK, Queued
<1>6. CASE WorkerExit(w)
  BY <1>5, <1>6 DEF WorkerExit, queueVars
<1>7. CASE Transcribed(w)
  <2>1. worker' = [worker EXCEPT ![w] = [worker[w] EXCEPT !.pc = "saving"]]
    BY <1>7 DEF Transcribed
  <2>2. worker[w] \in [pc : {"transcribing", "saving", "failing"}, job : Job]
    BY <1>7, WorkerJobs DEF Transcribed, TypeOK
  <2>3. worker'[w].job = worker[w].job /\ \A v \in Worker \ {w} : worker'[v] = worker[v]
    BY <2>1, <2>2 DEF TypeOK
  <2>4. QED BY <1>1, <1>7, <2>3 DEF Transcribed, queueVars, Queued
<1>8. CASE TranscribeFails(w)
  BY <1>4, <1>8 DEF TranscribeFails, queueVars
<1>9. CASE SaveTranscript(w)
  <2>1. HandleFailure(w) \/ (worker' = [worker EXCEPT ![w] = IdleWorker] /\ timer' = timer)
    BY <1>9 DEF SaveTranscript
  <2>2. QED BY <1>4, <1>5, <1>9, <2>1 DEF SaveTranscript, queueVars
<1>10. CASE MarkExhausted(w)
  BY <1>5, <1>10 DEF MarkExhausted, queueVars
<1>11. QED BY <1>3, <1>6, <1>7, <1>8, <1>9, <1>10 DEF WorkerStep

LEMMA TimerLeavesOut ==
    ASSUME IInv, NEW t \in Timer, TimerStep(t), NEW m \in Memo, ~InPipeline(m)
    PROVE  ~InPipeline(m)'
<1> USE DEF IInv, Types
<1>1. /\ \A u \in Timer \ {t} : timer'[u] = timer[u]
      /\ request' = request /\ worker' = worker
  BY DEF TimerStep, TimerFires, ShutdownSeen, MarkFailed, TypeOK
<1>2. /\ ~Queued(m) /\ timer[t].job.memo /= m
      /\ \A a \in Agent \ {t} : ~Carries(a, m)'
  BY <1>1, CarriesBy, CarriesByNext DEF InPipeline, Agent
<1>3. timer[t] \in [pc : {"sleeping", "marking"}, job : Job]
  BY TimerJobs DEF TimerStep, TimerFires, ShutdownSeen, MarkFailed, TypeOK
<1>4. timer'[t] = IdleTimer \/ timer'[t] = [timer[t] EXCEPT !.pc = "marking"]
  BY DEF TimerStep, TimerFires, ShutdownSeen, MarkFailed, TypeOK
<1>5. timer'[t].job.memo /= m
  BY <1>2, <1>3, <1>4, IdleCarry
<1>6. ~Queued(m)'
  <2>1. CASE TimerFires(t)
    BY <1>2, <1>3, <2>1, QueueGainsOnly DEF TimerFires, TypeOK
  <2>2. CASE ShutdownSeen(t) \/ MarkFailed(t)
    BY <1>2, <2>2 DEF ShutdownSeen, MarkFailed, queueVars, Queued
  <2>3. QED BY <2>1, <2>2 DEF TimerStep
<1>7. QED BY <1>2, <1>5, <1>6, CarriesByNext DEF InPipeline

-------------------------------------------------------------------------------
\* What a step may do to a status, and what it leaves in the pipeline when it
\* makes a memo ready.
Moves ==
    \A m \in Memo : status'[m] /= status[m] =>
        /\ <<status[m], status'[m]>> \in StatusEdges
        /\ status'[m] = "ready" => ~InPipeline(m)'

LEMMA RequestStatus ==
    ASSUME IInv, NEW r \in Request, Accept(r) \/ RequestStep(r)
    PROVE  Moves
<1> USE DEF IInv, Types
<1>1. CASE SubmitForTranscription(r)
  BY <1>1 DEF SubmitForTranscription, UpdateStatusInScope, SetStatus, Selected, FromStatus,
              Moves, StatusEdges, TypeOK, StoreTypeOK
<1>2. CASE RevertStatus(r)
  BY <1>2 DEF RevertStatus, UpdateStatusConditional, SetStatus, FromStatus,
              Moves, StatusEdges, TypeOK, StoreTypeOK
<1>3. CASE Accept(r) \/ DeleteVoiceMemo(r) \/ Diagnose(r) \/ EnqueueJob(r) \/ Respond(r)
  BY <1>3 DEF Accept, DeleteVoiceMemo, SoftDeleteInScope, Diagnose, EnqueueJob, Respond,
              storeVars, Moves
<1>4. QED BY <1>1, <1>2, <1>3 DEF RequestStep

LEMMA WorkerStatus ==
    ASSUME Environment = {}, FInv, Unfinished, NEW w \in Worker, WorkerStep(w)
    PROVE  Moves
<1> USE DEF FInv, IInv, Types
<1>1. CASE SaveTranscript(w)
  <2>1. PICK n \in Memo : n = worker[w].job.memo
    BY <1>1, WorkerJobs DEF SaveTranscript, TypeOK, Job
  <2>2. /\ UpdateTranscriptionAndStatus(n, "ready", "ok")
        /\ Live(n) => worker' = [worker EXCEPT ![w] = IdleWorker] /\ timer' = timer
    BY <1>1, <2>1, QuietOutcomes DEF SaveTranscript, TypeOK
  <2>3. Carries(w, n) /\ w \in Agent
    BY <2>1, CarriesBy DEF Agent
  <2>4. status[n] = "transcribing"
    BY <2>3, PipelineTranscribes DEF InPipeline
  <2>5. CASE Live(n)
    <3>1. \A m \in Memo \ {n} : status'[m] = status[m]
      BY <2>2, <2>5 DEF UpdateTranscriptionAndStatus, SetStatus, TypeOK, StoreTypeOK
    <3>2. status'[n] = "ready"
      BY <2>2, <2>5 DEF UpdateTranscriptionAndStatus, SetStatus, TypeOK, StoreTypeOK
    <3>3. \A a \in Agent : ~Carries(a, n)'
      <4>1. /\ worker'[w] = IdleWorker /\ \A v \in Worker \ {w} : worker'[v] = worker[v]
            /\ request' = request /\ timer' = timer
        BY <1>1, <2>2, <2>5 DEF SaveTranscript, TypeOK
      <4>2. \A a \in Agent \ {w} : ~Carries(a, n)
        BY <2>3 DEF OneJobPerMemo
      <4>3. QED BY <4>1, <4>2, IdleCarry, CarriesBy, CarriesByNext DEF Agent
    <3>4. ~Queued(n)'
      BY <1>1, <2>3 DEF SaveTranscript, OneJobPerMemo, Queued, queueVars
    <3>5. QED
      BY <2>4, <3>1, <3>2, <3>3, <3>4 DEF Moves, StatusEdges, InPipeline
  <2>6. CASE ~Live(n)
    BY <2>2, <2>6 DEF UpdateTranscriptionAndStatus, SetStatus, Moves
  <2>7. QED BY <2>5, <2>6
<1>2. CASE MarkExhausted(w)
  <2>1. PICK n \in Memo : n = worker[w].job.memo
    BY <1>2, WorkerJobs DEF MarkExhausted, TypeOK, Job
  <2>2. UpdateStatus(n, "failed", "ok")
    BY <1>2, <2>1, QuietOutcomes DEF MarkExhausted, TypeOK
  <2>3. status[n] = "transcribing"
    BY <2>1, CarriesBy, PipelineTranscribes DEF InPipeline, Agent
  <2>4. QED
    BY <2>2, <2>3 DEF UpdateStatus, SetStatus, Moves, StatusEdges, TypeOK, StoreTypeOK
<1>3. CASE Dequeue(w) \/ WorkerExit(w) \/ Transcribed(w) \/ TranscribeFails(w)
  BY <1>3 DEF Dequeue, WorkerExit, Transcribed, TranscribeFails, storeVars, Moves
<1>4. QED BY <1>1, <1>2, <1>3 DEF WorkerStep

LEMMA TimerStatus ==
    ASSUME Environment = {}, FInv, Unfinished, NEW t \in Timer, TimerStep(t)
    PROVE  Moves
<1> USE DEF FInv, IInv, Types
<1>1. CASE MarkFailed(t)
  <2>1. PICK n \in Memo : n = timer[t].job.memo
    BY <1>1, TimerJobs DEF MarkFailed, TypeOK, Job
  <2>2. UpdateStatus(n, "failed", "ok")
    BY <1>1, <2>1, QuietOutcomes DEF MarkFailed, TypeOK
  <2>3. status[n] = "transcribing"
    BY <2>1, CarriesBy, PipelineTranscribes DEF InPipeline, Agent
  <2>4. QED
    BY <2>2, <2>3 DEF UpdateStatus, SetStatus, Moves, StatusEdges, TypeOK, StoreTypeOK
<1>2. CASE TimerFires(t) \/ ShutdownSeen(t)
  BY <1>2 DEF TimerFires, ShutdownSeen, storeVars, Moves
<1>3. QED BY <1>1, <1>2 DEF TimerStep

LEMMA StepMoves ==
    ASSUME Environment = {}, FInv, Unfinished, [Next]_vars
    PROVE  Moves /\ Unfinished'
<1>1. ~(Sigterm \/ MainStep \/ Crash \/ Start)
  BY StaysQuiet DEF FInv
<1>2. ASSUME NEW n \in Memo, CreateVoiceMemo(n)
      PROVE  Moves /\ \A m \in Memo : ~InPipeline(m) => ~InPipeline(m)'
  <2>1. Moves
    BY <1>2 DEF CreateVoiceMemo, Create, Exists, Moves, StatusEdges,
                FInv, IInv, Types, TypeOK, StoreTypeOK
  <2>2. QED
    BY <1>2, <2>1 DEF CreateVoiceMemo, InPipeline, Queued, Carries, queueVars, agentVars
<1>3. CASE UNCHANGED vars
  BY <1>3 DEF vars, Moves, Unfinished, InPipeline, Queued, Carries
<1>4. CASE Next
  <2>1. Moves
    BY <1>1, <1>2, <1>4, RequestStatus, WorkerStatus, TimerStatus DEF Next, FInv
  <2>2. ASSUME NEW m \in Memo, ~InPipeline(m), status[m] = "ready"
        PROVE  ~InPipeline(m)'
    BY <1>1, <1>2, <1>4, <2>2, RequestLeavesOut, WorkerLeavesOut, TimerLeavesOut
       DEF Next, FInv
  <2>3. QED BY <2>1, <2>2 DEF Moves, Unfinished
<1>5. QED BY <1>3, <1>4

-------------------------------------------------------------------------------
\* All that holds of the system when nothing around it goes wrong.
FUInv == FInv /\ Unfinished

LEMMA FaultFree ==
    ASSUME Environment = {}
    PROVE  Spec => []FUInv
<1>1. Init => Quiet /\ Unfinished
  BY DEF Init, StoreInit, NewMemoryQueue, Quiet, Unfinished
<1>2. IInv /\ Quiet /\ NoStrandedMemo /\ Unfinished /\ [Next]_vars => Unfinished'
  BY StepMoves DEF FInv
<1>3. Quiet /\ [Next]_vars => Quiet'
  BY StaysQuiet
<1>4. QED
  BY <1>1, <1>2, <1>3, Invariance, NobodyStranded, PTL DEF Spec, FUInv, FInv

\* With no fault and no shutdown every change of a status is a documented one,
\* however many requests, workers and retries compete: in particular a ready
\* memo stays ready.
THEOREM StatusFollowsEdges ==
    ASSUME Environment = {}
    PROVE  Spec => StatusMachine
<1>1. FUInv /\ [Next]_vars => [\A m \in Memo : status'[m] /= status[m] =>
                                 <<status[m], status'[m]>> \in StatusEdges]_vars
  BY StepMoves DEF FUInv, Moves
<1>2. QED BY <1>1, FaultFree, PTL DEF Spec, StatusMachine

-------------------------------------------------------------------------------
\* After the revert the memo is where the call found it, or deleted: the memo
\* was still this request's, and nobody had given it another status.
THEOREM RefusedCallsRetryable ==
    ASSUME Environment = {}
    PROVE  Spec => RejectedIsRetryable
<1>1. Init => Submits
  BY DEF Init, Submits, NoRequest
<1>2. TypeOK /\ Submits /\ [Next]_vars => Submits'
  BY NextSubmits
<1>3. FUInv /\ Submits /\ [Next]_vars =>
        [\A r \in Request : RevertStatus(r) =>
            \/ deleted[request[r].memo]
            \/ request[r].op = "confirm" /\ status'[request[r].memo] = "pending_upload"
            \/ request[r].op = "retry" /\ status'[request[r].memo] = "failed"]_vars
  <2> SUFFICES ASSUME FUInv, Submits, NEW r \in Request, RevertStatus(r),
                      ~deleted[request[r].memo]
               PROVE  \/ request[r].op = "confirm" /\ status'[request[r].memo] = "pending_upload"
                      \/ request[r].op = "retry" /\ status'[request[r].memo] = "failed"
    OBVIOUS
  <2> USE DEF FUInv, FInv, IInv, Types
  <2>1. PICK n \in Memo : n = request[r].memo
    BY DEF RevertStatus, TypeOK, RequestState, NoRequest
  <2>2. UpdateStatusConditional(n, "transcribing", FromStatus(request[r].op), "ok")
    BY <2>1, QuietOutcomes DEF RevertStatus, TypeOK
  <2>3. status[n] = "transcribing"
    BY <2>1, CarriesBy, PipelineTranscribes DEF RevertStatus, InPipeline, Agent
  <2>4. status'[n] = FromStatus(request[r].op)
    BY <2>1, <2>2, <2>3 DEF UpdateStatusConditional, SetStatus, Live, Exists, TypeOK, StoreTypeOK
  <2>5. request[r].op \in {"confirm", "retry"}
    BY DEF RevertStatus, Submits
  <2>6. QED BY <2>1, <2>4, <2>5 DEF FromStatus
<1>4. QED
  BY <1>1, <1>2, <1>3, FaultFree, TypeCorrect, PTL DEF Spec, RejectedIsRetryable

-------------------------------------------------------------------------------
\* What an update does to the life of a memo whose status is known.
LEMMA SettlingUpdate ==
    ASSUME StoreTypeOK, NEW n \in Memo, NEW selected \in BOOLEAN,
           NEW to \in {"ready", "failed", "pending_upload"},
           selected => Live(n) /\ status[n] = "transcribing",
           SetStatus(n, selected, to, "ok")
    PROVE  Lifecycle!Settle(n) \/ UNCHANGED <<status, deleted>>
BY DEF SetStatus, Live, Lifecycle!Settle, Lifecycle!Becomes

LEMMA LifecycleStep ==
    ASSUME Environment = {}, FUInv, Submits, DeletedExist, [Next]_vars
    PROVE  [Lifecycle!Next]_<<status, deleted>>
<1> USE DEF FUInv, FInv, IInv, Types
<1>1. ASSUME NEW n \in Memo, CreateVoiceMemo(n) PROVE Lifecycle!Create(n)
  BY <1>1 DEF CreateVoiceMemo, Create, Exists, DeletedExist, Lifecycle!Create, Lifecycle!Becomes
<1>2. ASSUME NEW r \in Request, Accept(r) \/ RequestStep(r)
      PROVE  [Lifecycle!Next]_<<status, deleted>>
  <2>1. CASE SubmitForTranscription(r)
    <3>1. PICK n \in Memo : n = request[r].memo
      BY <2>1 DEF SubmitForTranscription, TypeOK, RequestState, NoRequest
    <3>2. UpdateStatusInScope(n, request[r].scope, FromStatus(request[r].op),
                              "transcribing", "ok")
      BY <2>1, <3>1, QuietOutcomes DEF SubmitForTranscription, TypeOK
    <3>3. Lifecycle!Submit(n) \/ UNCHANGED <<status, deleted>>
      BY <3>2 DEF UpdateStatusInScope, SetStatus, Selected, Live, FromStatus,
                  Lifecycle!Submit, Lifecycle!Becomes
    <3>4. QED BY <3>3 DEF Lifecycle!Next
  <2>2. CASE DeleteVoiceMemo(r)
    <3>1. PICK n \in Memo : n = request[r].memo
      BY <2>2 DEF DeleteVoiceMemo, TypeOK, RequestState, NoRequest
    <3>2. SoftDeleteInScope(n, request[r].scope, "ok")
      BY <2>2, <3>1, QuietOutcomes DEF DeleteVoiceMemo, TypeOK
    <3>3. Lifecycle!Delete(n) \/ UNCHANGED <<status, deleted>>
      BY <3>2 DEF SoftDeleteInScope, Live, Exists, Lifecycle!Delete
    <3>4. QED BY <3>3 DEF Lifecycle!Next
  <2>3. CASE RevertStatus(r)
    <3>1. PICK n \in Memo : n = request[r].memo
      BY <2>3 DEF RevertStatus, TypeOK, RequestState, NoRequest
    <3>2. UpdateStatusConditional(n, "transcribing", FromStatus(request[r].op), "ok")
      BY <2>3, <3>1, QuietOutcomes DEF RevertStatus, TypeOK
    <3>3. FromStatus(request[r].op) \in {"ready", "failed", "pending_upload"}
      BY DEF FromStatus
    <3>4. Lifecycle!Settle(n) \/ UNCHANGED <<status, deleted>>
      BY <3>2, <3>3, SettlingUpdate DEF UpdateStatusConditional, Live, Exists, TypeOK, StoreTypeOK
    <3>5. QED BY <3>4 DEF Lifecycle!Next
  <2>4. CASE Accept(r) \/ Diagnose(r) \/ EnqueueJob(r) \/ Respond(r)
    BY <2>4 DEF Accept, Diagnose, EnqueueJob, Respond, storeVars
  <2>5. QED BY <1>2, <2>1, <2>2, <2>3, <2>4 DEF RequestStep
<1>3. ASSUME NEW w \in Worker, WorkerStep(w) PROVE [Lifecycle!Next]_<<status, deleted>>
  <2>1. CASE SaveTranscript(w) \/ MarkExhausted(w)
    <3>1. PICK n \in Memo : n = worker[w].job.memo
      BY <2>1, WorkerJobs DEF SaveTranscript, MarkExhausted, TypeOK, Job
    <3>2. UpdateTranscriptionAndStatus(n, "ready", "ok") \/ UpdateStatus(n, "failed", "ok")
      BY <2>1, <3>1, QuietOutcomes DEF SaveTranscript, MarkExhausted, TypeOK
    <3>3. status[n] = "transcribing"
      BY <3>1, CarriesBy, PipelineTranscribes DEF InPipeline, Agent
    <3>4. Lifecycle!Settle(n) \/ UNCHANGED <<status, deleted>>
      BY <3>2, <3>3, SettlingUpdate
         DEF UpdateTranscriptionAndStatus, UpdateStatus, Live, Exists, TypeOK, StoreTypeOK
    <3>5. QED BY <3>4 DEF Lifecycle!Next
  <2>2. CASE Dequeue(w) \/ WorkerExit(w) \/ Transcribed(w) \/ TranscribeFails(w)
    BY <2>2 DEF Dequeue, WorkerExit, Transcribed, TranscribeFails, storeVars
  <2>3. QED BY <1>3, <2>1, <2>2 DEF WorkerStep
<1>4. ASSUME NEW t \in Timer, TimerStep(t) PROVE [Lifecycle!Next]_<<status, deleted>>
  <2>1. CASE MarkFailed(t)
    <3>1. PICK n \in Memo : n = timer[t].job.memo
      BY <2>1, TimerJobs DEF MarkFailed, TypeOK, Job
    <3>2. UpdateStatus(n, "failed", "ok")
      BY <2>1, <3>1, QuietOutcomes DEF MarkFailed, TypeOK
    <3>3. status[n] = "transcribing"
      BY <3>1, CarriesBy, PipelineTranscribes DEF InPipeline, Agent
    <3>4. Lifecycle!Settle(n) \/ UNCHANGED <<status, deleted>>
      BY <3>2, <3>3, SettlingUpdate DEF UpdateStatus, Live, Exists, TypeOK, StoreTypeOK
    <3>5. QED BY <3>4 DEF Lifecycle!Next
  <2>2. CASE TimerFires(t) \/ ShutdownSeen(t)
    BY <2>2 DEF TimerFires, ShutdownSeen, storeVars
  <2>3. QED BY <1>4, <2>1, <2>2 DEF TimerStep
<1>5. CASE UNCHANGED vars
  BY <1>5 DEF vars
<1>6. QED
  BY <1>1, <1>2, <1>3, <1>4, <1>5, StaysQuiet DEF Next, Lifecycle!Next

\* The pipeline implements the safety of MemoLifecycle: its initial states are
\* initial states there, and its steps are steps there or change nothing.
THEOREM ImplementsLifecycle ==
    ASSUME Environment = {}
    PROVE  Spec => Lifecycle!Init /\ [][Lifecycle!Next]_<<status, deleted>>
<1>1. Init => Lifecycle!Init /\ Submits /\ DeletedExist
  BY DEF Init, StoreInit, Lifecycle!Init, Submits, NoRequest, DeletedExist
<1>2. TypeOK /\ Submits /\ [Next]_vars => Submits'
  BY NextSubmits
<1>3. TypeOK /\ DeletedExist /\ [Next]_vars => DeletedExist'
  <2> SUFFICES ASSUME TypeOK, DeletedExist, [Next]_vars, NEW n \in Memo, deleted'[n]
               PROVE  status'[n] /= "absent"
    BY DEF DeletedExist, Exists
  <2>1. QED BY StepsSpareDeleted DEF TypeOK, DeletedExist, Exists
<1>4. FUInv /\ Submits /\ DeletedExist /\ [Next]_vars =>
        [Lifecycle!Next]_<<status, deleted>>
  BY LifecycleStep
<1>5. QED BY <1>1, <1>2, <1>3, <1>4, FaultFree, TypeCorrect, PTL DEF Spec

===============================================================================
