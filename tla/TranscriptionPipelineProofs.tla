----------------------- MODULE TranscriptionPipelineProofs -----------------------
(***************************************************************************)
(* For any number of memos, requests, workers and timers, any capacity and *)
(* retry limit, and whatever happens around the program: no memo is ever   *)
(* in the hands of two goroutines, and what callers hear is true.          *)
(***************************************************************************)
EXTENDS TranscriptionPipeline, SequenceTheorems, TLAPS

\* A job that may still be attempted or retried has attempts left, so that
\* handleFailure never counts beyond MaxRetries.
AttemptsLeft ==
    /\ \A i \in DOMAIN jobs : jobs[i].retry < MaxRetries
    /\ \A w \in Worker :
         worker[w].pc \in {"transcribing", "saving"} => worker[w].job.retry < MaxRetries
    /\ \A t \in Timer : timer[t].job.retry < MaxRetries

Types == TypeOK /\ AttemptsLeft

IInv == Types /\ OneJobPerMemo /\ JobStatus

-------------------------------------------------------------------------------
(* Types.                                                                  *)

LEMMA StoreWrites ==
    ASSUME StoreTypeOK, NEW m \in Memo, NEW s, NEW from \in Status, NEW to \in Status,
           NEW selected, NEW outcome,
           \/ SetStatus(m, selected, to, outcome)
           \/ SoftDeleteInScope(m, s, outcome)
           \/ Create(m)
    PROVE  StoreTypeOK'
BY DEF StoreTypeOK, SetStatus, SoftDeleteInScope, Create, Status

LEMMA QueueAccepts ==
    ASSUME QueueTypeOK, NEW job \in Job, Enqueue(job)
    PROVE  /\ QueueTypeOK'
           /\ EnqueueResult \in {"ok", "queue_full", "queue_closed"}
           /\ EnqueueResult /= "ok" => jobs' = jobs
           /\ EnqueueResult = "ok" =>
                /\ DOMAIN jobs' = 1 .. Len(jobs) + 1
                /\ DOMAIN jobs = 1 .. Len(jobs)
                /\ \A i \in DOMAIN jobs : jobs'[i] = jobs[i]
                /\ jobs'[Len(jobs) + 1] = job
<1>1. jobs \in Seq(Job) /\ Len(jobs) \in Nat /\ Len(jobs) <= Capacity /\ closed \in BOOLEAN
  BY DEF QueueTypeOK
<1>2. CASE closed
  <2>1. EnqueueResult = "queue_closed" BY <1>2 DEF EnqueueResult
  <2>2. QED BY <1>1, <2>1 DEF Enqueue, QueueTypeOK
<1>3. CASE ~closed /\ Len(jobs) >= Capacity
  <2>1. EnqueueResult = "queue_full" BY <1>1, <1>3, CapacityAssumption DEF EnqueueResult
  <2>2. QED BY <1>1, <2>1 DEF Enqueue, QueueTypeOK
<1>4. CASE ~closed /\ Len(jobs) < Capacity
  <2>1. EnqueueResult = "ok" BY <1>1, <1>4, CapacityAssumption DEF EnqueueResult
  <2>2. jobs' = Append(jobs, job) BY <2>1 DEF Enqueue
  <2>3. /\ jobs' \in Seq(Job) /\ Len(jobs') = Len(jobs) + 1
        /\ \A i \in 1 .. Len(jobs) : jobs'[i] = jobs[i]
        /\ jobs'[Len(jobs) + 1] = job
    BY <1>1, <2>2, AppendProperties
  <2>4. Len(jobs') <= Capacity
    BY <1>1, <1>4, <2>3, CapacityAssumption
  <2>5. QED BY <1>1, <2>1, <2>3, <2>4 DEF Enqueue, QueueTypeOK
<1>5. QED BY <1>1, <1>2, <1>3, <1>4, CapacityAssumption

LEMMA QueueYields ==
    ASSUME QueueTypeOK, TakeJob
    PROVE  /\ QueueTypeOK'
           /\ Head(jobs) \in Job
           /\ 1 \in DOMAIN jobs /\ Head(jobs) = jobs[1]
           /\ \A i \in DOMAIN jobs' :
                i + 1 \in DOMAIN jobs /\ i \in Nat \ {0} /\ jobs'[i] = jobs[i + 1]
<1>1. jobs \in Seq(Job) /\ jobs /= <<>> /\ Len(jobs) <= Capacity
  BY DEF QueueTypeOK, TakeJob
<1>2. /\ Head(jobs) \in Job /\ Tail(jobs) \in Seq(Job)
      /\ Len(Tail(jobs)) = Len(jobs) - 1
      /\ \A i \in 1 .. Len(Tail(jobs)) : Tail(jobs)[i] = jobs[i + 1]
  BY <1>1, HeadTailProperties
<1>3. Len(jobs) \in Nat \ {0} /\ Head(jobs) = jobs[1]
  BY <1>1, EmptySeq
<1>4. QED
  BY <1>1, <1>2, <1>3, CapacityAssumption DEF QueueTypeOK, TakeJob

LEMMA RequestMoves ==
    ASSUME request \in [Request -> RequestState],
           NEW r \in Request, request[r].pc /= "idle",
           NEW pc \in {"update", "diagnose", "enqueue", "revert", "reply"},
           NEW code \in Codes,
           request' = [request EXCEPT ![r].pc = pc, ![r].code = code] \/ Goto(r, pc)
    PROVE  /\ request' \in [Request -> RequestState]
           /\ request'[r].pc = pc /\ request'[r].memo = request[r].memo
           /\ request'[r].op = request[r].op /\ request[r].memo \in Memo
           /\ \A q \in Request \ {r} : request'[q] = request[q]
<1>1. request[r] \in [pc : {"update", "diagnose", "enqueue", "revert", "reply"}, op : Ops,
                      memo : Memo, scope : Scope, code : Codes]
  BY DEF RequestState, NoRequest
<1>2. CASE request' = [request EXCEPT ![r].pc = pc, ![r].code = code]
  <2>1. request'[r] = [request[r] EXCEPT !.pc = pc, !.code = code]
    BY <1>2
  <2>2. request'[r] \in RequestState /\ request'[r].pc = pc
        /\ request'[r].memo = request[r].memo /\ request'[r].op = request[r].op
    BY <1>1, <2>1 DEF RequestState
  <2>3. QED BY <1>1, <1>2, <2>2
<1>3. CASE Goto(r, pc)
  <2>1. request'[r] = [request[r] EXCEPT !.pc = pc]
    BY <1>3 DEF Goto
  <2>2. request'[r] \in RequestState /\ request'[r].pc = pc
        /\ request'[r].memo = request[r].memo /\ request'[r].op = request[r].op
    BY <1>1, <2>1 DEF RequestState
  <2>3. QED BY <1>1, <1>3, <2>2 DEF Goto
<1>4. QED BY <1>2, <1>3

\* A worker that is busy holds a job of some memo; an idle one holds none.
LEMMA WorkerJobs ==
    ASSUME worker \in [Worker -> WorkerState], NEW w \in Worker
    PROVE  /\ worker[w].pc \in {"transcribing", "saving", "failing"} =>
                worker[w] \in [pc : {"transcribing", "saving", "failing"}, job : Job]
           /\ worker[w].pc \in {"idle", "exited"} => worker[w].job = NoJob
BY DEF WorkerState, IdleWorker, ExitedWorker

LEMMA TimerJobs ==
    ASSUME timer \in [Timer -> TimerState], NEW t \in Timer
    PROVE  /\ timer[t].pc \in {"sleeping", "marking"} =>
                timer[t] \in [pc : {"sleeping", "marking"}, job : Job]
           /\ timer[t].pc = "idle" => timer[t].job = NoJob
BY DEF TimerState, IdleTimer

\* What handleFailure does with the job of a worker that has one.
LEMMA FailureMoves ==
    ASSUME Types, NEW w \in Worker, worker[w].pc \in {"transcribing", "saving"},
           HandleFailure(w)
    PROVE  /\ worker' \in [Worker -> WorkerState]
           /\ timer' \in [Timer -> TimerState]
           /\ \A v \in Worker \ {w} : worker'[v] = worker[v]
           /\ \/ /\ worker'[w].pc = "failing" /\ worker'[w].job.memo = worker[w].job.memo
                 /\ timer' = timer
              \/ /\ worker'[w] = IdleWorker
                 /\ \E t \in Timer :
                      /\ timer[t] = IdleTimer
                      /\ timer'[t].job.memo = worker[w].job.memo
                      /\ timer'[t].job.retry < MaxRetries
                      /\ \A u \in Timer \ {t} : timer'[u] = timer[u]
<1> DEFINE job == [worker[w].job EXCEPT !.retry = @ + 1]
<1>1. worker[w].job \in Job /\ worker[w].job.retry < MaxRetries
  BY WorkerJobs DEF Types, TypeOK, AttemptsLeft
<1>2. job \in Job /\ job.memo = worker[w].job.memo
  BY <1>1, MaxRetriesAssumption DEF Job
<1>3. CASE /\ job.retry >= MaxRetries
           /\ worker' = [worker EXCEPT ![w] = [pc |-> "failing", job |-> job]]
           /\ UNCHANGED timer
  <2>1. worker'[w] = [pc |-> "failing", job |-> job] /\ worker'[w] \in WorkerState
    BY <1>2, <1>3 DEF Types, TypeOK, WorkerState
  <2>2. QED BY <1>2, <1>3, <2>1 DEF Types, TypeOK
<1>4. CASE /\ job.retry < MaxRetries
           /\ \E t \in Timer :
                /\ timer[t] = IdleTimer
                /\ timer' = [timer EXCEPT ![t] = [pc |-> "sleeping", job |-> job]]
           /\ worker' = [worker EXCEPT ![w] = IdleWorker]
  <2>1. PICK t \in Timer :
          /\ timer[t] = IdleTimer
          /\ timer' = [timer EXCEPT ![t] = [pc |-> "sleeping", job |-> job]]
    BY <1>4
  <2>2. timer'[t] = [pc |-> "sleeping", job |-> job] /\ timer'[t] \in TimerState
    BY <1>2, <2>1 DEF Types, TypeOK, TimerState
  <2>3. timer' \in [Timer -> TimerState] /\ \A u \in Timer \ {t} : timer'[u] = timer[u]
    BY <2>1, <2>2 DEF Types, TypeOK
  <2>4. worker' \in [Worker -> WorkerState] /\ worker'[w] = IdleWorker
        /\ \A v \in Worker \ {w} : worker'[v] = worker[v]
    BY <1>4 DEF Types, TypeOK, WorkerState
  <2>5. QED BY <1>2, <1>4, <2>1, <2>2, <2>3, <2>4
<1>5. QED BY <1>3, <1>4 DEF HandleFailure

-------------------------------------------------------------------------------
(* Who holds what: the ways in which a job may change hands.                *)

LEMMA QueuedMemos ==
    ASSUME QueueTypeOK, NEW i \in DOMAIN jobs
    PROVE  jobs[i] \in Job /\ jobs[i].memo \in Memo
<1>1. jobs \in Seq(Job) /\ i \in 1 .. Len(jobs)
  BY LenProperties DEF QueueTypeOK
<1>2. jobs[i] \in Job
  BY <1>1, ElementOfSeq
<1>3. QED BY <1>2 DEF Job

\* Nobody takes up a job, and no status that matters is spoilt.
LEMMA NobodyTakes ==
    ASSUME Types, OneJobPerMemo, JobStatus,
           jobs' = jobs,
           \A p \in Agent, m \in Memo : Carries(p, m)' => Carries(p, m),
           \A m \in Memo : InPipeline(m)' =>
               status'[m] \in {status[m], "transcribing", "ready"}
    PROVE  OneJobPerMemo' /\ JobStatus'
<1>1. \A i \in DOMAIN jobs : jobs[i].memo \in Memo
  BY QueuedMemos DEF Types, TypeOK
<1>2. OneJobPerMemo'
  BY <1>1 DEF OneJobPerMemo
<1>3. ASSUME NEW i \in DOMAIN jobs'
      PROVE  status'[jobs'[i].memo] \in {"transcribing", "ready"}
  BY <1>1, <1>3 DEF JobStatus, InPipeline, Queued
<1>4. ASSUME NEW p \in Agent, NEW m \in Memo, Carries(p, m)'
      PROVE  status'[m] \in {"transcribing", "ready"}
  BY <1>4 DEF JobStatus, InPipeline
<1>5. QED BY <1>2, <1>3, <1>4 DEF JobStatus

\* A job goes from one agent to another.
LEMMA PassedOn ==
    ASSUME Types, OneJobPerMemo, JobStatus,
           jobs' = jobs,
           NEW p \in Agent, NEW q \in Agent, NEW n \in Memo,
           Carries(p, n),
           \A m \in Memo : ~Carries(p, m)',
           \A m \in Memo : Carries(q, m)' => m = n,
           \A a \in Agent \ {p, q}, m \in Memo : Carries(a, m)' => Carries(a, m),
           \A m \in Memo : InPipeline(m)' =>
               status'[m] \in {status[m], "transcribing", "ready"}
    PROVE  OneJobPerMemo' /\ JobStatus'
<1>1. \A i \in DOMAIN jobs : jobs[i].memo \in Memo
  BY QueuedMemos DEF Types, TypeOK
<1>2. OneJobPerMemo'
  <2>1. ASSUME NEW a \in Agent, NEW b \in Agent, NEW m \in Memo, Carries(a, m)', Carries(b, m)'
        PROVE  a = b
    BY <2>1 DEF OneJobPerMemo
  <2>2. ASSUME NEW a \in Agent, NEW i \in DOMAIN jobs'
        PROVE  ~Carries(a, jobs[i].memo)'
    BY <1>1, <2>2 DEF OneJobPerMemo
  <2>3. QED BY <2>1, <2>2 DEF OneJobPerMemo
<1>3. ASSUME NEW i \in DOMAIN jobs'
      PROVE  status'[jobs'[i].memo] \in {"transcribing", "ready"}
  BY <1>1, <1>3 DEF JobStatus, InPipeline, Queued
<1>4. ASSUME NEW a \in Agent, NEW m \in Memo, Carries(a, m)'
      PROVE  status'[m] \in {"transcribing", "ready"}
  <2>1. \E b \in Agent : Carries(b, m)
    BY <1>4
  <2>2. QED BY <1>4, <2>1 DEF JobStatus, InPipeline
<1>5. QED BY <1>2, <1>3, <1>4 DEF JobStatus

\* An agent puts its job into the queue.
LEMMA PutInQueue ==
    ASSUME Types, OneJobPerMemo, JobStatus,
           NEW p \in Agent, NEW job \in Job,
           Carries(p, job.memo), Enqueue(job), EnqueueResult = "ok",
           \A m \in Memo : ~Carries(p, m)',
           \A a \in Agent \ {p}, m \in Memo : Carries(a, m)' => Carries(a, m),
           status' = status
    PROVE  OneJobPerMemo' /\ JobStatus'
<1>1. /\ DOMAIN jobs' = 1 .. Len(jobs) + 1
      /\ DOMAIN jobs = 1 .. Len(jobs) /\ Len(jobs) \in Nat
      /\ \A i \in DOMAIN jobs : jobs'[i] = jobs[i] /\ jobs[i].memo \in Memo
      /\ jobs'[Len(jobs) + 1] = job /\ job.memo \in Memo
  BY QueueAccepts, QueuedMemos DEF Types, TypeOK, QueueTypeOK, Job
<1>2. OneJobPerMemo'
  <2>1. ASSUME NEW a \in Agent, NEW b \in Agent, NEW m \in Memo, Carries(a, m)', Carries(b, m)'
        PROVE  a = b
    BY <2>1 DEF OneJobPerMemo
  <2>2. ASSUME NEW a \in Agent, NEW i \in DOMAIN jobs'
        PROVE  ~Carries(a, jobs[i].memo)'
    <3>1. CASE i \in DOMAIN jobs
      BY <1>1, <2>2, <3>1 DEF OneJobPerMemo
    <3>2. CASE i = Len(jobs) + 1
      BY <1>1, <2>2, <3>2 DEF OneJobPerMemo
    <3>3. QED BY <1>1, <3>1, <3>2
  <2>3. ASSUME NEW i \in DOMAIN jobs', NEW j \in DOMAIN jobs', jobs'[i].memo = jobs'[j].memo
        PROVE  i = j
    <3>1. \A k \in DOMAIN jobs : jobs[k].memo /= job.memo
      BY DEF OneJobPerMemo
    <3>2. QED BY <1>1, <2>3, <3>1 DEF OneJobPerMemo
  <2>4. QED BY <2>1, <2>2, <2>3 DEF OneJobPerMemo
<1>3. ASSUME NEW i \in DOMAIN jobs'
      PROVE  status'[jobs'[i].memo] \in {"transcribing", "ready"}
  BY <1>1, <1>3 DEF JobStatus
<1>4. ASSUME NEW a \in Agent, NEW m \in Memo, Carries(a, m)'
      PROVE  status'[m] \in {"transcribing", "ready"}
  BY <1>4 DEF JobStatus
<1>5. QED BY <1>2, <1>3, <1>4 DEF JobStatus

\* An agent takes the job at the head of the queue.
LEMMA TakenFromQueue ==
    ASSUME Types, OneJobPerMemo, JobStatus,
           NEW p \in Agent, TakeJob,
           \A m \in Memo : Carries(p, m)' => m = Head(jobs).memo,
           \A a \in Agent \ {p}, m \in Memo : Carries(a, m)' => Carries(a, m),
           status' = status
    PROVE  OneJobPerMemo' /\ JobStatus'
<1>1. /\ 1 \in DOMAIN jobs /\ Head(jobs) = jobs[1] /\ jobs[1].memo \in Memo
      /\ \A i \in DOMAIN jobs' :
            /\ i + 1 \in DOMAIN jobs /\ i \in Nat \ {0}
            /\ jobs'[i] = jobs[i + 1] /\ jobs[i + 1].memo \in Memo
  BY QueueYields, QueuedMemos DEF Types, TypeOK
<1>2. OneJobPerMemo'
  <2>1. ASSUME NEW a \in Agent, NEW b \in Agent, NEW m \in Memo, Carries(a, m)', Carries(b, m)'
        PROVE  a = b
    BY <1>1, <2>1 DEF OneJobPerMemo
  <2>2. ASSUME NEW a \in Agent, NEW i \in DOMAIN jobs', Carries(a, jobs[i].memo)'
        PROVE  FALSE
    <3>1. i + 1 /= 1 /\ jobs[i + 1].memo /= jobs[1].memo
      BY <1>1 DEF OneJobPerMemo
    <3>2. QED BY <1>1, <2>2, <3>1 DEF OneJobPerMemo
  <2>3. ASSUME NEW i \in DOMAIN jobs', NEW j \in DOMAIN jobs', jobs'[i].memo = jobs'[j].memo
        PROVE  i = j
    BY <1>1, <2>3 DEF OneJobPerMemo
  <2>4. QED BY <2>1, <2>2, <2>3 DEF OneJobPerMemo
<1>3. ASSUME NEW i \in DOMAIN jobs'
      PROVE  status'[jobs'[i].memo] \in {"transcribing", "ready"}
  BY <1>1, <1>3 DEF JobStatus
<1>4. ASSUME NEW a \in Agent, NEW m \in Memo, Carries(a, m)'
      PROVE  status'[m] \in {"transcribing", "ready"}
  BY <1>1, <1>4 DEF JobStatus
<1>5. QED BY <1>2, <1>3, <1>4 DEF JobStatus

\* A request takes up a memo nobody can hold.
LEMMA TakenUp ==
    ASSUME Types, OneJobPerMemo, JobStatus,
           jobs' = jobs,
           NEW p \in Agent, NEW n \in Memo,
           status[n] \notin {"transcribing", "ready"},
           \A m \in Memo : Carries(p, m)' => m = n,
           \A a \in Agent \ {p}, m \in Memo : Carries(a, m)' => Carries(a, m),
           status' = [status EXCEPT ![n] = "transcribing"]
    PROVE  OneJobPerMemo' /\ JobStatus'
<1>1. \A i \in DOMAIN jobs : jobs[i].memo \in Memo /\ jobs[i].memo /= n
  BY QueuedMemos DEF Types, TypeOK, JobStatus
<1>2. \A a \in Agent : ~Carries(a, n)
  BY DEF JobStatus
<1>3. status'[n] = "transcribing" /\ \A m \in Memo \ {n} : status'[m] = status[m]
  BY DEF Types, TypeOK, StoreTypeOK
<1>4. OneJobPerMemo'
  <2>1. ASSUME NEW a \in Agent, NEW b \in Agent, NEW m \in Memo, Carries(a, m)', Carries(b, m)'
        PROVE  a = b
    BY <1>2, <2>1 DEF OneJobPerMemo
  <2>2. ASSUME NEW a \in Agent, NEW i \in DOMAIN jobs', Carries(a, jobs[i].memo)'
        PROVE  FALSE
    BY <1>1, <2>2 DEF OneJobPerMemo
  <2>3. QED BY <2>1, <2>2 DEF OneJobPerMemo
<1>5. ASSUME NEW i \in DOMAIN jobs'
      PROVE  status'[jobs'[i].memo] \in {"transcribing", "ready"}
  BY <1>1, <1>3, <1>5 DEF JobStatus
<1>6. ASSUME NEW a \in Agent, NEW m \in Memo, Carries(a, m)'
      PROVE  status'[m] \in {"transcribing", "ready"}
  BY <1>3, <1>6 DEF JobStatus
<1>7. QED BY <1>4, <1>5, <1>6 DEF JobStatus

-------------------------------------------------------------------------------
(* The steps.                                                              *)

LEMMA CarriesBy ==
    /\ \A r \in Request, m \in Memo :
         Carries(r, m) <=> request[r].pc \in {"enqueue", "revert"} /\ request[r].memo = m
    /\ \A w \in Worker, m \in Memo : Carries(w, m) <=> worker[w].job.memo = m
    /\ \A t \in Timer, m \in Memo : Carries(t, m) <=> timer[t].job.memo = m
BY AgentAssumption DEF Carries

LEMMA CarriesByNext ==
    /\ \A r \in Request, m \in Memo :
         Carries(r, m)' <=> request'[r].pc \in {"enqueue", "revert"} /\ request'[r].memo = m
    /\ \A w \in Worker, m \in Memo : Carries(w, m)' <=> worker'[w].job.memo = m
    /\ \A t \in Timer, m \in Memo : Carries(t, m)' <=> timer'[t].job.memo = m
BY AgentAssumption DEF Carries

\* The idle carry nothing.
LEMMA IdleCarry ==
    /\ \A m \in Memo : NoJob.memo /= m /\ IdleWorker.job.memo /= m
         /\ ExitedWorker.job.memo /= m /\ IdleTimer.job.memo /= m
    /\ NoRequest.pc = "idle" /\ NoJob.retry = 0
    /\ IdleWorker \in WorkerState /\ ExitedWorker \in WorkerState /\ IdleTimer \in TimerState
    /\ IdleWorker.pc = "idle" /\ ExitedWorker.pc = "exited" /\ IdleTimer.job = NoJob
BY NoMemoAssumption
   DEF NoJob, IdleWorker, ExitedWorker, IdleTimer, NoRequest, WorkerState, TimerState

\* What one request does concerns only its own entry; if it changes no status
\* and does not reach for the queue, nobody takes anything.
LEMMA RequestHoldings ==
    ASSUME IInv, NEW r \in Request,
           \A q \in Request \ {r} : request'[q] = request[q],
           worker' = worker, timer' = timer
    PROVE  \A a \in Agent \ {r}, m \in Memo : Carries(a, m)' => Carries(a, m)
BY CarriesBy, CarriesByNext DEF Agent

LEMMA CreateStep ==
    ASSUME IInv, NEW m \in Memo, CreateVoiceMemo(m)
    PROVE  IInv'
<1> USE DEF IInv
<1>1. StoreTypeOK'
  BY StoreWrites DEF CreateVoiceMemo, Types, TypeOK, Status
<1>2. Types'
  BY <1>1 DEF CreateVoiceMemo, Types, TypeOK, QueueTypeOK, AttemptsLeft, queueVars, agentVars
<1>3. \A p \in Agent, n \in Memo : Carries(p, n)' => Carries(p, n)
  BY DEF CreateVoiceMemo, agentVars, Carries
<1>4. \A n \in Memo : InPipeline(n)' => n /= m
  BY QueuedMemos
     DEF CreateVoiceMemo, Create, Exists, agentVars, queueVars, JobStatus,
         InPipeline, Queued, Carries, Types, TypeOK
<1>5. \A n \in Memo : n /= m => status'[n] = status[n]
  BY DEF CreateVoiceMemo, Create, Types, TypeOK, StoreTypeOK
<1>6. QED
  BY <1>2, <1>3, <1>4, <1>5, NobodyTakes DEF CreateVoiceMemo, queueVars

LEMMA AcceptStep ==
    ASSUME IInv, NEW r \in Request, Accept(r)
    PROVE  IInv'
<1> USE DEF IInv
<1>1. PICK op \in Ops, m \in Memo, s \in Scope :
        request' = [request EXCEPT ![r] =
            [pc |-> "update", op |-> op, memo |-> m, scope |-> s, code |-> "none"]]
  BY DEF Accept
<1>2. /\ request' \in [Request -> RequestState]
      /\ request'[r].pc = "update"
      /\ \A q \in Request \ {r} : request'[q] = request[q]
  BY <1>1 DEF Types, TypeOK, RequestState, Codes
<1>3. Types'
  BY <1>2 DEF Accept, Types, TypeOK, StoreTypeOK, QueueTypeOK, AttemptsLeft, storeVars, queueVars
<1>4. \A p \in Agent, n \in Memo : Carries(p, n)' => Carries(p, n)
  BY <1>2, RequestHoldings, CarriesByNext DEF Accept
<1>5. QED
  BY <1>3, <1>4, NobodyTakes DEF Accept, storeVars, queueVars

LEMMA RequestTypes ==
    ASSUME Types, request' \in [Request -> RequestState],
           StoreTypeOK', UNCHANGED <<queueVars, worker, timer, phase>>
    PROVE  Types'
BY DEF Types, TypeOK, QueueTypeOK, AttemptsLeft, queueVars

LEMMA Replied ==
    ASSUME Types, NEW r \in Request, request[r].pc /= "idle", NEW code \in Codes,
           Reply(r, code)
    PROVE  /\ request' \in [Request -> RequestState]
           /\ request'[r].pc = "reply"
           /\ \A q \in Request \ {r} : request'[q] = request[q]
BY RequestMoves DEF Reply, Types, TypeOK

LEMMA SubmitStep ==
    ASSUME IInv, NEW r \in Request, SubmitForTranscription(r)
    PROVE  IInv'
<1> DEFINE m == request[r].memo
           s == request[r].scope
           from == FromStatus(request[r].op)
<1>1. PICK outcome \in Outcomes :
        /\ UpdateStatusInScope(m, s, from, "transcribing", outcome)
        /\ \/ outcome /= "ok" /\ Reply(r, "error")
           \/ outcome = "ok" /\ Selected(m, s, from) /\ Goto(r, "enqueue")
           \/ outcome = "ok" /\ ~Selected(m, s, from) /\ Goto(r, "diagnose")
  BY DEF SubmitForTranscription
<1>2. m \in Memo /\ request[r].pc = "update" /\ from \in {"pending_upload", "failed"}
  BY DEF SubmitForTranscription, IInv, Types, TypeOK, RequestState, NoRequest, FromStatus
<1>3. StoreTypeOK'
  BY <1>1, <1>2, StoreWrites DEF UpdateStatusInScope, Status, IInv, Types, TypeOK
<1>4. /\ request' \in [Request -> RequestState]
      /\ request'[r].memo = m
      /\ request'[r].pc = "enqueue" => outcome = "ok" /\ Selected(m, s, from)
      /\ request'[r].pc \in {"reply", "enqueue", "diagnose"}
      /\ \A q \in Request \ {r} : request'[q] = request[q]
  BY <1>1, <1>2, RequestMoves DEF Reply, Codes, IInv, Types, TypeOK
<1>5. Types'
  BY <1>3, <1>4, RequestTypes DEF SubmitForTranscription, IInv
<1>6. \A a \in Agent \ {r}, n \in Memo : Carries(a, n)' => Carries(a, n)
  BY <1>4, RequestHoldings DEF SubmitForTranscription
<1>7. \A n \in Memo : Carries(r, n)' => n = m
  BY <1>4, CarriesByNext
<1>8. CASE Selected(m, s, from) /\ outcome /= "refused"
  <2>1. status' = [status EXCEPT ![m] = "transcribing"]
    BY <1>1, <1>8 DEF UpdateStatusInScope, SetStatus
  <2>2. status[m] \notin {"transcribing", "ready"}
    BY <1>2, <1>8 DEF Selected
  <2>3. QED
    BY <1>2, <1>5, <1>6, <1>7, <2>1, <2>2, TakenUp
       DEF IInv, SubmitForTranscription, queueVars, Agent
<1>9. CASE ~(Selected(m, s, from) /\ outcome /= "refused")
  <2>1. status' = status
    BY <1>1, <1>9 DEF UpdateStatusInScope, SetStatus
  <2>2. \A n \in Memo : ~Carries(r, n)'
    BY <1>4, <1>9, CarriesByNext
  <2>3. QED
    BY <1>5, <1>6, <2>1, <2>2, NobodyTakes
       DEF IInv, SubmitForTranscription, queueVars
<1>10. QED BY <1>8, <1>9

LEMMA DeleteStep ==
    ASSUME IInv, NEW r \in Request, DeleteVoiceMemo(r)
    PROVE  IInv'
<1>1. PICK outcome \in Outcomes :
        /\ SoftDeleteInScope(request[r].memo, request[r].scope, outcome)
        /\ Reply(r, "error") \/ Reply(r, "ok") \/ Goto(r, "diagnose")
  BY DEF DeleteVoiceMemo
<1>2. request[r].memo \in Memo /\ request[r].pc = "update"
  BY DEF DeleteVoiceMemo, IInv, Types, TypeOK, RequestState, NoRequest
<1>3. StoreTypeOK' /\ status' = status
  BY <1>1, <1>2, StoreWrites DEF SoftDeleteInScope, Status, IInv, Types, TypeOK
<1>4. /\ request' \in [Request -> RequestState]
      /\ request'[r].pc \in {"reply", "diagnose"}
      /\ \A q \in Request \ {r} : request'[q] = request[q]
  BY <1>1, <1>2, RequestMoves DEF Reply, Codes, IInv, Types, TypeOK
<1>5. Types'
  BY <1>3, <1>4, RequestTypes DEF DeleteVoiceMemo, IInv
<1>6. \A a \in Agent, n \in Memo : Carries(a, n)' => Carries(a, n)
  BY <1>4, RequestHoldings, CarriesByNext DEF DeleteVoiceMemo
<1>7. QED
  BY <1>3, <1>5, <1>6, NobodyTakes DEF IInv, DeleteVoiceMemo, queueVars

LEMMA DiagnoseStep ==
    ASSUME IInv, NEW r \in Request, Diagnose(r)
    PROVE  IInv'
<1>1. PICK code \in Codes : Reply(r, code)
  BY DEF Diagnose, WhyNotDeleted, WhyNotUpdated, WrongScope, Selected, Codes
<1>2. /\ request' \in [Request -> RequestState]
      /\ request'[r].pc = "reply"
      /\ \A q \in Request \ {r} : request'[q] = request[q]
  BY <1>1, Replied DEF Diagnose, IInv
<1>3. Types'
  BY <1>2, RequestTypes DEF Diagnose, IInv, Types, TypeOK, StoreTypeOK, storeVars
<1>4. \A a \in Agent, n \in Memo : Carries(a, n)' => Carries(a, n)
  BY <1>2, RequestHoldings, CarriesByNext DEF Diagnose
<1>5. QED
  BY <1>3, <1>4, NobodyTakes DEF IInv, Diagnose, storeVars, queueVars

LEMMA EnqueueStep ==
    ASSUME IInv, NEW r \in Request, EnqueueJob(r)
    PROVE  IInv'
<1> DEFINE job == [memo |-> request[r].memo, retry |-> 0]
<1>1. request[r].pc = "enqueue" /\ Enqueue(job) /\ job.memo \in Memo /\ job.retry = 0
  BY DEF EnqueueJob, IInv, Types, TypeOK, RequestState, NoRequest
<1>2. job \in Job /\ 0 < MaxRetries
  BY <1>1, MaxRetriesAssumption DEF Job
<1>3. /\ request' \in [Request -> RequestState]
      /\ request'[r].memo = request[r].memo
      /\ request'[r].pc = IF EnqueueResult = "queue_full" THEN "revert" ELSE "reply"
      /\ \A q \in Request \ {r} : request'[q] = request[q]
  BY <1>1, <1>2, QueueAccepts, RequestMoves
     DEF EnqueueJob, Reply, Codes, IInv, Types, TypeOK
<1>4. Types'
  <2>1. QueueTypeOK' /\ \A i \in DOMAIN jobs' : jobs'[i].retry < MaxRetries
    BY <1>1, <1>2, QueueAccepts DEF IInv, Types, TypeOK, AttemptsLeft, QueueTypeOK
  <2>2. QED
    BY <1>3, <2>1 DEF EnqueueJob, IInv, Types, TypeOK, StoreTypeOK, AttemptsLeft, storeVars
<1>5. \A a \in Agent \ {r}, n \in Memo : Carries(a, n)' => Carries(a, n)
  BY <1>3, RequestHoldings DEF EnqueueJob
<1>6. CASE EnqueueResult = "ok"
  <2>1. Carries(r, job.memo) /\ \A n \in Memo : ~Carries(r, n)'
    BY <1>1, <1>3, <1>6, CarriesBy, CarriesByNext
  <2>2. QED
    BY <1>1, <1>2, <1>4, <1>5, <1>6, <2>1, PutInQueue
       DEF IInv, EnqueueJob, storeVars, Agent
<1>7. CASE EnqueueResult /= "ok"
  <2>1. jobs' = jobs
    BY <1>1, <1>2, <1>7, QueueAccepts DEF IInv, Types, TypeOK
  <2>2. \A a \in Agent, n \in Memo : Carries(a, n)' => Carries(a, n)
    BY <1>1, <1>3, <1>5, CarriesBy, CarriesByNext
  <2>3. QED
    BY <1>4, <2>1, <2>2, NobodyTakes DEF IInv, EnqueueJob, storeVars
<1>8. QED BY <1>6, <1>7

LEMMA RevertStep ==
    ASSUME IInv, NEW r \in Request, RevertStatus(r)
    PROVE  IInv'
<1>0. PICK m \in Memo : m = request[r].memo
  BY DEF RevertStatus, IInv, Types, TypeOK, RequestState, NoRequest
<1>1. PICK outcome \in Outcomes :
        UpdateStatusConditional(m, "transcribing", FromStatus(request[r].op), outcome)
  BY <1>0 DEF RevertStatus
<1>2. request[r].pc = "revert" /\ FromStatus(request[r].op) \in Status
  BY DEF RevertStatus, IInv, Types, TypeOK, RequestState, NoRequest, FromStatus, Status
<1>3. StoreTypeOK' /\ \A n \in Memo \ {m} : status'[n] = status[n]
  BY <1>1, <1>2, StoreWrites
     DEF UpdateStatusConditional, SetStatus, Status, IInv, Types, TypeOK, StoreTypeOK
<1>4. /\ request' \in [Request -> RequestState]
      /\ request'[r].pc = "reply"
      /\ \A q \in Request \ {r} : request'[q] = request[q]
  BY <1>2, Replied DEF RevertStatus, IInv, Codes
<1>5. Types'
  BY <1>3, <1>4, RequestTypes DEF RevertStatus, IInv
<1>6. \A a \in Agent, n \in Memo : Carries(a, n)' => Carries(a, n)
  BY <1>4, RequestHoldings, CarriesByNext DEF RevertStatus
<1>7. ~InPipeline(m)'
  <2>1. Carries(r, m) /\ ~Carries(r, m)'
    BY <1>0, <1>2, <1>4, CarriesBy, CarriesByNext
  <2>2. QED
    BY <1>2, <1>6, <2>1 DEF IInv, OneJobPerMemo, InPipeline, Queued, RevertStatus, queueVars, Agent
<1>8. QED
  BY <1>3, <1>5, <1>6, <1>7, NobodyTakes DEF IInv, RevertStatus, queueVars

LEMMA RespondStep ==
    ASSUME IInv, NEW r \in Request, Respond(r)
    PROVE  IInv'
<1>1. /\ request' \in [Request -> RequestState]
      /\ request'[r].pc = "idle"
      /\ \A q \in Request \ {r} : request'[q] = request[q]
  BY IdleCarry DEF Respond, IInv, Types, TypeOK, RequestState
<1>2. Types'
  BY <1>1, RequestTypes DEF Respond, IInv, Types, TypeOK, StoreTypeOK, storeVars
<1>3. \A a \in Agent, n \in Memo : Carries(a, n)' => Carries(a, n)
  BY <1>1, RequestHoldings, CarriesByNext DEF Respond
<1>4. QED
  BY <1>2, <1>3, NobodyTakes DEF IInv, Respond, storeVars, queueVars

LEMMA DequeueStep ==
    ASSUME IInv, NEW w \in Worker, Dequeue(w)
    PROVE  IInv'
<1>1. /\ QueueTypeOK' /\ Head(jobs) \in Job /\ Head(jobs).retry < MaxRetries
      /\ \A i \in DOMAIN jobs' : jobs'[i].retry < MaxRetries
  BY QueueYields DEF Dequeue, IInv, Types, TypeOK, AttemptsLeft
<1>2. /\ worker' \in [Worker -> WorkerState]
      /\ worker'[w] = [pc |-> "transcribing", job |-> Head(jobs)]
      /\ \A v \in Worker \ {w} : worker'[v] = worker[v]
  BY <1>1 DEF Dequeue, IInv, Types, TypeOK, WorkerState
<1>3. Types'
  BY <1>1, <1>2 DEF Dequeue, IInv, Types, TypeOK, StoreTypeOK, AttemptsLeft, storeVars
<1>4. \A n \in Memo : Carries(w, n)' => n = Head(jobs).memo
  BY <1>2, CarriesByNext
<1>5. \A a \in Agent \ {w}, n \in Memo : Carries(a, n)' => Carries(a, n)
  BY <1>2, CarriesBy, CarriesByNext DEF Dequeue, Agent
<1>6. QED
  BY <1>3, <1>4, <1>5, TakenFromQueue DEF IInv, Dequeue, storeVars, Agent

\* A worker that only moves on keeps at most the job it had; if it gives it
\* up, what it writes about the memo no longer matters to anybody.
LEMMA WorkerMoves ==
    ASSUME IInv, NEW w \in Worker,
           worker' \in [Worker -> WorkerState],
           \A v \in Worker \ {w} : worker'[v] = worker[v],
           worker'[w].job \in {worker[w].job, NoJob},
           worker'[w].pc \in {"transcribing", "saving"} =>
               worker[w].pc \in {"transcribing", "saving"},
           StoreTypeOK',
           UNCHANGED <<queueVars, request, timer, phase>>,
           \A n \in Memo : status'[n] /= status[n] =>
               /\ n = worker[w].job.memo
               /\ worker'[w].job = NoJob \/ status'[n] = "ready"
    PROVE  IInv'
<1>1. Types'
  BY IdleCarry, MaxRetriesAssumption
     DEF IInv, Types, TypeOK, QueueTypeOK, AttemptsLeft, queueVars
<1>2. \A a \in Agent, n \in Memo : Carries(a, n)' => Carries(a, n)
  BY IdleCarry, CarriesBy, CarriesByNext DEF Agent
<1>3. ASSUME NEW n \in Memo, InPipeline(n)'
      PROVE  status'[n] \in {status[n], "transcribing", "ready"}
  <2>1. CASE n = worker[w].job.memo /\ worker'[w].job = NoJob
    <3>1. Carries(w, n) /\ ~Carries(w, n)'
      BY <2>1, IdleCarry, CarriesBy, CarriesByNext
    <3>2. ~InPipeline(n)'
      BY <1>2, <3>1
         DEF IInv, OneJobPerMemo, InPipeline, Queued, queueVars, Agent
    <3>3. QED BY <1>3, <3>2
  <2>2. CASE ~(n = worker[w].job.memo /\ worker'[w].job = NoJob)
    BY <2>2
  <2>3. QED BY <2>1, <2>2
<1>4. QED
  BY <1>1, <1>2, <1>3, NobodyTakes DEF IInv, queueVars

LEMMA WorkerExitStep ==
    ASSUME IInv, NEW w \in Worker, WorkerExit(w)
    PROVE  IInv'
<1>1. /\ worker' \in [Worker -> WorkerState]
      /\ worker'[w] = ExitedWorker
      /\ \A v \in Worker \ {w} : worker'[v] = worker[v]
  BY IdleCarry DEF WorkerExit, IInv, Types, TypeOK
<1>2. worker'[w].job = NoJob /\ worker'[w].pc = "exited"
  BY <1>1 DEF ExitedWorker
<1>3. StoreTypeOK' /\ status' = status
  BY DEF WorkerExit, storeVars, IInv, Types, TypeOK, StoreTypeOK
<1>4. QED
  BY <1>1, <1>2, <1>3, WorkerMoves DEF WorkerExit

LEMMA TranscribedStep ==
    ASSUME IInv, NEW w \in Worker, Transcribed(w)
    PROVE  IInv'
<1>1. /\ worker[w].pc = "transcribing"
      /\ worker[w] \in [pc : {"transcribing", "saving", "failing"}, job : Job]
  BY WorkerJobs DEF Transcribed, IInv, Types, TypeOK
<1>2. worker'[w] = [worker[w] EXCEPT !.pc = "saving"]
  BY DEF Transcribed, IInv, Types, TypeOK
<1>3. worker'[w].job = worker[w].job /\ worker'[w] \in WorkerState
  BY <1>1, <1>2 DEF WorkerState
<1>4. /\ worker' \in [Worker -> WorkerState]
      /\ \A v \in Worker \ {w} : worker'[v] = worker[v]
  BY <1>3 DEF Transcribed, IInv, Types, TypeOK
<1>5. StoreTypeOK' /\ status' = status
  BY DEF Transcribed, storeVars, IInv, Types, TypeOK, StoreTypeOK
<1>6. QED
  BY <1>1, <1>3, <1>4, <1>5, WorkerMoves DEF Transcribed

\* handleFailure hands the job to a new timer, or keeps it for a last update.
LEMMA FailureStep ==
    ASSUME IInv, NEW w \in Worker, worker[w].pc \in {"transcribing", "saving"},
           HandleFailure(w), StoreTypeOK',
           \A n \in Memo : status'[n] \in {status[n], "ready"},
           UNCHANGED <<queueVars, request, phase>>
    PROVE  IInv'
<1>1. PICK n \in Memo : n = worker[w].job.memo
  BY WorkerJobs DEF IInv, Types, TypeOK, Job
<1>2. /\ worker' \in [Worker -> WorkerState]
      /\ timer' \in [Timer -> TimerState]
      /\ \A v \in Worker \ {w} : worker'[v] = worker[v]
  BY FailureMoves DEF IInv
<1>3. CASE /\ worker'[w].pc = "failing" /\ worker'[w].job.memo = n
           /\ timer' = timer
  <2>1. Types'
    BY <1>2, <1>3 DEF IInv, Types, TypeOK, QueueTypeOK, AttemptsLeft, queueVars
  <2>2. \A a \in Agent, m \in Memo : Carries(a, m)' => Carries(a, m)
    BY <1>1, <1>2, <1>3, CarriesBy, CarriesByNext DEF Agent
  <2>3. QED
    BY <2>1, <2>2, NobodyTakes DEF IInv, queueVars
<1>4. ASSUME NEW t \in Timer,
             timer[t] = IdleTimer,
             timer'[t].job.memo = n,
             timer'[t].job.retry < MaxRetries,
             \A u \in Timer \ {t} : timer'[u] = timer[u],
             worker'[w] = IdleWorker
      PROVE  IInv'
  <2>1. Types'
    BY <1>2, <1>4, IdleCarry
       DEF IInv, Types, TypeOK, QueueTypeOK, AttemptsLeft, queueVars
  <2>2. Carries(w, n)
    BY <1>1, CarriesBy
  <2>3. \A m \in Memo : ~Carries(w, m)'
    BY <1>4, IdleCarry, CarriesByNext
  <2>4. \A m \in Memo : Carries(t, m)' => m = n
    BY <1>4, CarriesByNext
  <2>5. \A a \in Agent \ {w, t}, m \in Memo : Carries(a, m)' => Carries(a, m)
    BY <1>2, <1>4, CarriesBy, CarriesByNext DEF Agent
  <2>6. w \in Agent /\ t \in Agent
    BY DEF Agent
  <2>7. QED
    BY <2>1, <2>2, <2>3, <2>4, <2>5, <2>6, PassedOn DEF IInv, queueVars
<1>5. QED
  BY <1>1, <1>3, <1>4, FailureMoves DEF IInv

LEMMA TranscribeFailsStep ==
    ASSUME IInv, NEW w \in Worker, TranscribeFails(w)
    PROVE  IInv'
<1>1. StoreTypeOK' /\ status' = status
  BY DEF TranscribeFails, storeVars, IInv, Types, TypeOK, StoreTypeOK
<1>2. QED BY <1>1, FailureStep DEF TranscribeFails

LEMMA SaveStep ==
    ASSUME IInv, NEW w \in Worker, SaveTranscript(w)
    PROVE  IInv'
<1>1. PICK n \in Memo : n = worker[w].job.memo
  BY WorkerJobs DEF SaveTranscript, IInv, Types, TypeOK, Job
<1>2. PICK outcome \in WorkerOutcomes :
        /\ UpdateTranscriptionAndStatus(n, "ready", outcome)
        /\ IF outcome = "ok" /\ Live(n)
             THEN worker' = [worker EXCEPT ![w] = IdleWorker] /\ UNCHANGED timer
             ELSE HandleFailure(w)
  BY <1>1 DEF SaveTranscript
<1>3. /\ StoreTypeOK'
      /\ \A m \in Memo : status'[m] \in {status[m], "ready"}
      /\ \A m \in Memo : status'[m] /= status[m] => m = n
  BY <1>2, StoreWrites
     DEF UpdateTranscriptionAndStatus, SetStatus, Status, IInv, Types, TypeOK, StoreTypeOK
<1>4. CASE outcome = "ok" /\ Live(n)
  <2>1. /\ worker' \in [Worker -> WorkerState]
        /\ worker'[w] = IdleWorker
        /\ \A v \in Worker \ {w} : worker'[v] = worker[v]
    BY <1>2, <1>4, IdleCarry DEF IInv, Types, TypeOK
  <2>2. worker'[w].job = NoJob /\ worker'[w].pc = "idle"
    BY <2>1 DEF IdleWorker
  <2>3. QED
    BY <1>1, <1>2, <1>3, <1>4, <2>1, <2>2, WorkerMoves DEF SaveTranscript
<1>5. CASE ~(outcome = "ok" /\ Live(n))
  BY <1>2, <1>3, <1>5, FailureStep DEF SaveTranscript
<1>6. QED BY <1>4, <1>5

LEMMA ExhaustedStep ==
    ASSUME IInv, NEW w \in Worker, MarkExhausted(w)
    PROVE  IInv'
<1>1. PICK n \in Memo : n = worker[w].job.memo
  BY WorkerJobs DEF MarkExhausted, IInv, Types, TypeOK, Job
<1>2. PICK outcome \in WorkerOutcomes : UpdateStatus(n, "failed", outcome)
  BY <1>1 DEF MarkExhausted
<1>3. /\ StoreTypeOK'
      /\ \A m \in Memo : status'[m] /= status[m] => m = n
  BY <1>2, StoreWrites
     DEF UpdateStatus, SetStatus, Status, IInv, Types, TypeOK, StoreTypeOK
<1>4. /\ worker' \in [Worker -> WorkerState]
      /\ worker'[w] = IdleWorker
      /\ \A v \in Worker \ {w} : worker'[v] = worker[v]
  BY IdleCarry DEF MarkExhausted, IInv, Types, TypeOK
<1>5. worker'[w].job = NoJob /\ worker'[w].pc = "idle"
  BY <1>4 DEF IdleWorker
<1>6. QED
  BY <1>1, <1>3, <1>4, <1>5, WorkerMoves DEF MarkExhausted

LEMMA TimerFiresStep ==
    ASSUME IInv, NEW t \in Timer, TimerFires(t)
    PROVE  IInv'
<1>1. /\ timer[t] \in [pc : {"sleeping", "marking"}, job : Job]
      /\ timer[t].job \in Job /\ timer[t].job.memo \in Memo
      /\ timer[t].job.retry < MaxRetries
  BY TimerJobs DEF TimerFires, IInv, Types, TypeOK, AttemptsLeft, Job
<1>2. PICK job \in Job : job = timer[t].job
  BY <1>1
<1>3. Enqueue(job)
  BY <1>2 DEF TimerFires
<1>4. QueueTypeOK' /\ \A i \in DOMAIN jobs' : jobs'[i].retry < MaxRetries
  BY <1>1, <1>2, <1>3, QueueAccepts DEF IInv, Types, TypeOK, AttemptsLeft, QueueTypeOK
<1>5. \A u \in Timer \ {t} : timer'[u] = timer[u]
  BY DEF TimerFires, IInv, Types, TypeOK
<1>6. CASE EnqueueResult = "ok"
  <2>1. timer'[t] = IdleTimer /\ timer' \in [Timer -> TimerState]
    BY <1>6, IdleCarry DEF TimerFires, IInv, Types, TypeOK
  <2>2. Types'
    BY <1>4, <1>5, <2>1, IdleCarry, MaxRetriesAssumption
       DEF TimerFires, IInv, Types, TypeOK, StoreTypeOK, AttemptsLeft, storeVars
  <2>3. Carries(t, job.memo) /\ \A n \in Memo : ~Carries(t, n)'
    BY <1>1, <1>2, <2>1, IdleCarry, CarriesBy, CarriesByNext
  <2>4. \A a \in Agent \ {t}, n \in Memo : Carries(a, n)' => Carries(a, n)
    BY <1>5, CarriesBy, CarriesByNext DEF TimerFires, Agent
  <2>5. t \in Agent /\ status' = status
    BY DEF Agent, TimerFires, storeVars
  <2>6. QED
    BY <1>3, <1>6, <2>2, <2>3, <2>4, <2>5, PutInQueue DEF IInv
<1>7. CASE EnqueueResult /= "ok"
  <2>1. timer'[t] = [timer[t] EXCEPT !.pc = "marking"]
    BY <1>7 DEF TimerFires, IInv, Types, TypeOK
  <2>2. timer'[t].job = timer[t].job /\ timer'[t] \in TimerState
    BY <1>1, <2>1 DEF TimerState
  <2>3. timer' \in [Timer -> TimerState]
    BY <1>7, <2>1, <2>2 DEF TimerFires, IInv, Types, TypeOK
  <2>4. Types'
    BY <1>4, <1>5, <2>2, <2>3
       DEF TimerFires, IInv, Types, TypeOK, StoreTypeOK, AttemptsLeft, storeVars
  <2>5. \A a \in Agent, n \in Memo : Carries(a, n)' => Carries(a, n)
    BY <1>5, <2>2, CarriesBy, CarriesByNext DEF TimerFires, Agent
  <2>6. jobs' = jobs /\ status' = status
    BY <1>2, <1>3, <1>7, QueueAccepts DEF IInv, Types, TypeOK, TimerFires, storeVars
  <2>7. QED
    BY <2>4, <2>5, <2>6, NobodyTakes DEF IInv
<1>8. QED BY <1>6, <1>7

LEMMA ShutdownSeenStep ==
    ASSUME IInv, NEW t \in Timer, ShutdownSeen(t)
    PROVE  IInv'
<1>1. timer[t] \in [pc : {"sleeping", "marking"}, job : Job]
  BY TimerJobs DEF ShutdownSeen, IInv, Types, TypeOK
<1>2. timer'[t] = [timer[t] EXCEPT !.pc = "marking"]
  BY DEF ShutdownSeen, IInv, Types, TypeOK
<1>3. timer'[t].job = timer[t].job /\ timer'[t] \in TimerState
  BY <1>1, <1>2 DEF TimerState
<1>4. /\ timer' \in [Timer -> TimerState]
      /\ \A u \in Timer \ {t} : timer'[u] = timer[u]
  BY <1>3 DEF ShutdownSeen, IInv, Types, TypeOK
<1>5. Types'
  BY <1>3, <1>4
     DEF ShutdownSeen, IInv, Types, TypeOK, StoreTypeOK, QueueTypeOK, AttemptsLeft,
         storeVars, queueVars
<1>6. \A a \in Agent, n \in Memo : Carries(a, n)' => Carries(a, n)
  BY <1>3, <1>4, CarriesBy, CarriesByNext DEF ShutdownSeen, Agent
<1>7. QED
  BY <1>5, <1>6, NobodyTakes DEF IInv, ShutdownSeen, storeVars, queueVars

LEMMA MarkFailedStep ==
    ASSUME IInv, NEW t \in Timer, MarkFailed(t)
    PROVE  IInv'
<1>1. PICK n \in Memo : n = timer[t].job.memo
  BY TimerJobs DEF MarkFailed, IInv, Types, TypeOK, Job
<1>2. PICK outcome \in Outcomes : UpdateStatus(n, "failed", outcome)
  BY <1>1 DEF MarkFailed
<1>3. /\ StoreTypeOK'
      /\ \A m \in Memo : status'[m] /= status[m] => m = n
  BY <1>2, StoreWrites
     DEF UpdateStatus, SetStatus, Status, IInv, Types, TypeOK, StoreTypeOK
<1>4. /\ timer' \in [Timer -> TimerState]
      /\ timer'[t] = IdleTimer
      /\ \A u \in Timer \ {t} : timer'[u] = timer[u]
  BY IdleCarry DEF MarkFailed, IInv, Types, TypeOK
<1>5. Types'
  BY <1>3, <1>4, IdleCarry, MaxRetriesAssumption
     DEF MarkFailed, IInv, Types, TypeOK, QueueTypeOK, AttemptsLeft, queueVars
<1>6. \A a \in Agent, m \in Memo : Carries(a, m)' => Carries(a, m)
  BY <1>4, IdleCarry, CarriesBy, CarriesByNext DEF MarkFailed, Agent
<1>7. ~InPipeline(n)'
  <2>1. Carries(t, n) /\ ~Carries(t, n)'
    BY <1>1, <1>4, IdleCarry, CarriesBy, CarriesByNext
  <2>2. QED
    BY <1>6, <2>1
       DEF IInv, OneJobPerMemo, InPipeline, Queued, MarkFailed, queueVars, Agent
<1>8. QED
  BY <1>3, <1>5, <1>6, <1>7, NobodyTakes DEF IInv, MarkFailed, queueVars

\* main() changes no holder but by ending the process.
LEMMA MainSteps ==
    ASSUME IInv, Sigterm \/ MainStep \/ Crash \/ Start
    PROVE  IInv'
<1>1. CASE Sigterm \/ CancelContext \/ SignalShutdown \/ CloseQueue
  <2>1. /\ status' = status /\ deleted' = deleted /\ jobs' = jobs /\ closed' \in BOOLEAN
        /\ UNCHANGED agentVars /\ phase' \in Phases
    BY <1>1
       DEF Sigterm, CancelContext, SignalShutdown, CloseQueue, Close, Advance, Phases,
           storeVars, queueVars, IInv, Types, TypeOK, QueueTypeOK
  <2>2. Types'
    BY <2>1 DEF IInv, Types, TypeOK, StoreTypeOK, QueueTypeOK, AttemptsLeft, agentVars
  <2>3. \A a \in Agent, m \in Memo : Carries(a, m)' => Carries(a, m)
    BY <2>1 DEF Carries, agentVars
  <2>4. QED BY <2>1, <2>2, <2>3, NobodyTakes DEF IInv
<1>2. CASE Exit \/ Crash
  <2>1. LoseMemory /\ phase' = "down"
    BY <1>2 DEF Exit, Crash, Advance
  <2>2. /\ request' \in [Request -> RequestState]
        /\ worker' \in [Worker -> WorkerState]
        /\ timer' \in [Timer -> TimerState]
        /\ \A r \in Request : request'[r].pc = "idle"
        /\ \A w \in Worker : worker'[w] = ExitedWorker
        /\ \A t \in Timer : timer'[t] = IdleTimer
    BY <2>1, IdleCarry DEF LoseMemory, RequestState
  <2>3. QueueTypeOK' /\ DOMAIN jobs' = {}
    <3>1. jobs' = <<>> /\ closed' = closed
      BY <2>1 DEF LoseMemory
    <3>2. jobs' \in Seq(Job) /\ Len(jobs') = 0 /\ DOMAIN jobs' = {}
      BY <3>1
    <3>3. QED
      BY <3>1, <3>2, CapacityAssumption DEF QueueTypeOK, IInv, Types, TypeOK
  <2>4. \A a \in Agent, m \in Memo : ~Carries(a, m)'
    BY <2>2, IdleCarry, CarriesByNext DEF Agent
  <2>5. Types'
    BY <2>1, <2>2, <2>3, IdleCarry, MaxRetriesAssumption
       DEF LoseMemory, storeVars, IInv, Types, TypeOK, StoreTypeOK, AttemptsLeft, Phases
  <2>6. QED
    BY <2>3, <2>4, <2>5 DEF IInv, OneJobPerMemo, JobStatus
<1>3. CASE Start
  <2>1. QueueTypeOK' /\ DOMAIN jobs' = {}
    <3>1. jobs' = <<>> /\ closed' = FALSE
      BY <1>3 DEF Start, ReplaceQueue
    <3>2. jobs' \in Seq(Job) /\ Len(jobs') = 0 /\ DOMAIN jobs' = {}
      BY <3>1
    <3>3. closed' \in BOOLEAN
      BY <3>1
    <3>4. QED BY <3>2, <3>3, CapacityAssumption DEF QueueTypeOK
  <2>2. worker' \in [Worker -> WorkerState] /\ \A w \in Worker : worker'[w] = IdleWorker
    BY <1>3, IdleCarry DEF Start
  <2>3. Types'
    BY <1>3, <2>1, <2>2, IdleCarry
       DEF Start, Advance, storeVars, IInv, Types, TypeOK, StoreTypeOK, AttemptsLeft, Phases
  <2>4. \A a \in Agent, m \in Memo : Carries(a, m)' => Carries(a, m)
    BY <1>3, <2>2, IdleCarry, CarriesBy, CarriesByNext DEF Start, Agent
  <2>5. OneJobPerMemo' /\ JobStatus'
    BY <1>3, <2>1, <2>4 DEF IInv, OneJobPerMemo, JobStatus, Start, storeVars
  <2>6. QED BY <2>3, <2>5 DEF IInv
<1>4. QED BY <1>1, <1>2, <1>3 DEF MainStep

LEMMA StutterStep ==
    ASSUME IInv, UNCHANGED vars
    PROVE  IInv'
BY DEF vars, IInv, Types, TypeOK, StoreTypeOK, QueueTypeOK, AttemptsLeft,
       OneJobPerMemo, JobStatus, Carries

LEMMA InitIInv == Init => IInv
<1> SUFFICES ASSUME Init PROVE IInv
  OBVIOUS
<1>1. StoreTypeOK
  BY DEF Init, StoreInit, StoreTypeOK, Status
<1>2. QueueTypeOK /\ DOMAIN jobs = {}
  <2>1. jobs = <<>> /\ closed = FALSE
    BY DEF Init, NewMemoryQueue
  <2>2. jobs \in Seq(Job) /\ Len(jobs) = 0 /\ DOMAIN jobs = {}
    BY <2>1
  <2>3. closed \in BOOLEAN
    BY <2>1
  <2>4. QED BY <2>2, <2>3, CapacityAssumption DEF QueueTypeOK
<1>3. /\ request \in [Request -> RequestState] /\ \A r \in Request : request[r].pc = "idle"
      /\ worker \in [Worker -> WorkerState] /\ \A w \in Worker : worker[w] = IdleWorker
      /\ timer \in [Timer -> TimerState] /\ \A t \in Timer : timer[t] = IdleTimer
  BY IdleCarry DEF Init, RequestState
<1>4. Types
  BY <1>1, <1>2, <1>3, IdleCarry, MaxRetriesAssumption
     DEF Init, Types, TypeOK, AttemptsLeft, Phases
<1>5. \A a \in Agent, m \in Memo : ~Carries(a, m)
  <2>1. \A m \in Memo, r \in Request : ~Carries(r, m)
    BY <1>3, CarriesBy
  <2>2. \A m \in Memo, w \in Worker : ~Carries(w, m)
    BY <1>3, IdleCarry, CarriesBy
  <2>3. \A m \in Memo, t \in Timer : ~Carries(t, m)
    BY <1>3, IdleCarry, CarriesBy
  <2>4. QED BY <2>1, <2>2, <2>3 DEF Agent
<1>6. QED
  BY <1>2, <1>4, <1>5 DEF IInv, OneJobPerMemo, JobStatus

LEMMA NextIInv == IInv /\ [Next]_vars => IInv'
<1> SUFFICES ASSUME IInv, [Next]_vars PROVE IInv'
  OBVIOUS
<1>1. ASSUME NEW m \in Memo, CreateVoiceMemo(m) PROVE IInv'
  BY <1>1, CreateStep
<1>2. ASSUME NEW r \in Request, Accept(r) \/ RequestStep(r) PROVE IInv'
  BY <1>2, AcceptStep, SubmitStep, DeleteStep, DiagnoseStep, EnqueueStep, RevertStep,
     RespondStep DEF RequestStep
<1>3. ASSUME NEW w \in Worker, WorkerStep(w) PROVE IInv'
  BY <1>3, DequeueStep, WorkerExitStep, TranscribedStep, TranscribeFailsStep, SaveStep,
     ExhaustedStep DEF WorkerStep
<1>4. ASSUME NEW t \in Timer, TimerStep(t) PROVE IInv'
  BY <1>4, TimerFiresStep, ShutdownSeenStep, MarkFailedStep DEF TimerStep
<1>5. QED
  BY <1>1, <1>2, <1>3, <1>4, MainSteps, StutterStep DEF Next

-------------------------------------------------------------------------------
THEOREM Invariance == Spec => []IInv
BY InitIInv, NextIInv, PTL DEF Spec

\* Every variable keeps its type; in particular no job counts more than
\* MaxRetries attempts.
THEOREM TypeCorrect == Spec => []TypeOK
<1>1. IInv => TypeOK
  BY DEF IInv, Types
<1>2. QED BY <1>1, Invariance, PTL

\* No memo is worked on by two goroutines, or queued twice, whatever the
\* database answers and however often the process is stopped or crashes.
THEOREM MutualExclusion == Spec => []OneJobPerMemo
<1>1. IInv => OneJobPerMemo
  BY DEF IInv
<1>2. QED BY <1>1, Invariance, PTL

\* No memo that is queued or in hand may be confirmed or retried.
THEOREM JobStatusCorrect == Spec => []JobStatus
<1>1. IInv => JobStatus
  BY DEF IInv
<1>2. QED BY <1>1, Invariance, PTL

-------------------------------------------------------------------------------
\* Only documents carry a deletedAt: a memo is not deleted before it is created.
DeletedExist == \A m \in Memo : deleted[m] => Exists(m)

LEMMA WritesSpareDeleted ==
    ASSUME StoreTypeOK, NEW m, NEW to, NEW selected, NEW outcome,
           selected => ~deleted[m],
           SetStatus(m, selected, to, outcome)
    PROVE  /\ \A n \in Memo : deleted[n] => deleted'[n] /\ status'[n] = status[n]
           /\ deleted' = deleted
BY DEF StoreTypeOK, SetStatus

LEMMA StepsSpareDeleted ==
    ASSUME StoreTypeOK, DeletedExist, [Next]_vars
    PROVE  \A n \in Memo :
             /\ deleted[n] => deleted'[n] /\ status'[n] = status[n]
             /\ deleted'[n] /\ ~deleted[n] => Exists(n) /\ status' = status
<1> DEFINE Spared == \A n \in Memo :
             /\ deleted[n] => deleted'[n] /\ status'[n] = status[n]
             /\ deleted'[n] /\ ~deleted[n] => Exists(n) /\ status' = status
<1>1. ASSUME NEW m \in Memo, CreateVoiceMemo(m) PROVE Spared
  BY <1>1 DEF CreateVoiceMemo, Create, Exists, StoreTypeOK, DeletedExist
<1>2. ASSUME NEW r \in Request, Accept(r) \/ RequestStep(r) PROVE Spared
  <2>1. CASE SubmitForTranscription(r)
    BY <2>1, WritesSpareDeleted
       DEF SubmitForTranscription, UpdateStatusInScope, Selected, Live
  <2>2. CASE DeleteVoiceMemo(r)
    BY <2>2 DEF DeleteVoiceMemo, SoftDeleteInScope, StoreTypeOK, Live
  <2>3. CASE RevertStatus(r)
    BY <2>3, WritesSpareDeleted DEF RevertStatus, UpdateStatusConditional, Live
  <2>4. CASE Accept(r) \/ Diagnose(r) \/ EnqueueJob(r) \/ Respond(r)
    BY <2>4 DEF Accept, Diagnose, EnqueueJob, Respond, storeVars
  <2>5. QED BY <1>2, <2>1, <2>2, <2>3, <2>4 DEF RequestStep
<1>3. ASSUME NEW w \in Worker, WorkerStep(w) PROVE Spared
  <2>1. CASE SaveTranscript(w)
    BY <2>1, WritesSpareDeleted DEF SaveTranscript, UpdateTranscriptionAndStatus, Live
  <2>2. CASE MarkExhausted(w)
    BY <2>2, WritesSpareDeleted DEF MarkExhausted, UpdateStatus, Live
  <2>3. CASE Dequeue(w) \/ WorkerExit(w) \/ Transcribed(w) \/ TranscribeFails(w)
    BY <2>3 DEF Dequeue, WorkerExit, Transcribed, TranscribeFails, storeVars
  <2>4. QED BY <1>3, <2>1, <2>2, <2>3 DEF WorkerStep
<1>4. ASSUME NEW t \in Timer, TimerStep(t) PROVE Spared
  <2>1. CASE MarkFailed(t)
    BY <2>1, WritesSpareDeleted DEF MarkFailed, UpdateStatus, Live
  <2>2. CASE TimerFires(t) \/ ShutdownSeen(t)
    BY <2>2 DEF TimerFires, ShutdownSeen, storeVars
  <2>3. QED BY <1>4, <2>1, <2>2 DEF TimerStep
<1>5. CASE Sigterm \/ MainStep \/ Crash \/ Start
  BY <1>5 DEF Sigterm, MainStep, CancelContext, SignalShutdown, CloseQueue, Exit, Crash,
              LoseMemory, Start, storeVars
<1>6. CASE UNCHANGED vars
  BY <1>6 DEF vars
<1>7. QED BY <1>1, <1>2, <1>3, <1>4, <1>5, <1>6 DEF Next

\* Once deleted a memo never changes again, though jobs for it may still run
\* and their updates still be sent.
THEOREM DeletedMemosFrozen == Spec => DeletedFrozen
<1>1. Init => DeletedExist
  BY DEF Init, StoreInit, DeletedExist
<1>2. TypeOK /\ DeletedExist /\ [Next]_vars => DeletedExist'
  <2> SUFFICES ASSUME TypeOK, DeletedExist, [Next]_vars, NEW n \in Memo, deleted'[n]
               PROVE  status'[n] /= "absent"
    BY DEF DeletedExist, Exists
  <2>1. QED BY StepsSpareDeleted DEF TypeOK, DeletedExist, Exists
<1>3. TypeOK /\ DeletedExist /\ [Next]_vars =>
        [\A m \in Memo : deleted[m] => deleted'[m] /\ status'[m] = status[m]]_vars
  BY StepsSpareDeleted DEF TypeOK
<1>4. QED BY <1>1, <1>2, <1>3, TypeCorrect, PTL DEF Spec, DeletedFrozen

-------------------------------------------------------------------------------
(* What callers hear: a reply says what is so, though it comes from a      *)
(* second query; and a drain that runs to its end keeps the closed queue   *)
(* from every caller.                                                      *)

\* Which request a step touches: its own, none, or all at the end of a process.
LEMMA OneRequestMoves ==
    ASSUME TypeOK, [Next]_vars
    PROVE  \/ request' = request
           \/ request' = [r \in Request |-> NoRequest] /\ phase' = "down"
           \/ \E r \in Request :
                /\ Accept(r) \/ RequestStep(r)
                /\ \A q \in Request \ {r} : request'[q] = request[q]
<1>1. ASSUME NEW r \in Request, Accept(r) \/ RequestStep(r)
      PROVE  \A q \in Request \ {r} : request'[q] = request[q]
  BY <1>1 DEF Accept, RequestStep, SubmitForTranscription, DeleteVoiceMemo, Diagnose,
              EnqueueJob, RevertStatus, Respond, Reply, Goto, TypeOK
<1>2. ASSUME NEW w \in Worker, WorkerStep(w) PROVE request' = request
  BY <1>2 DEF WorkerStep, Dequeue, WorkerExit, Transcribed, TranscribeFails,
              SaveTranscript, MarkExhausted
<1>3. ASSUME NEW t \in Timer, TimerStep(t) PROVE request' = request
  BY <1>3 DEF TimerStep, TimerFires, ShutdownSeen, MarkFailed
<1>4. ASSUME \/ \E m \in Memo : CreateVoiceMemo(m)
             \/ Sigterm \/ MainStep \/ Crash \/ Start \/ UNCHANGED vars
      PROVE  \/ request' = request
             \/ request' = [r \in Request |-> NoRequest] /\ phase' = "down"
  BY <1>4 DEF CreateVoiceMemo, Sigterm, MainStep, CancelContext, SignalShutdown, CloseQueue,
              Exit, Advance, Crash, LoseMemory, Start, agentVars, vars
<1>5. QED BY <1>1, <1>2, <1>3, <1>4 DEF Next

\* Only a confirm or a retry ever reaches the queue.
Submits ==
    \A r \in Request : request[r].pc \in {"enqueue", "revert"} =>
        request[r].op \in {"confirm", "retry"}

LEMMA NextSubmits ==
    ASSUME TypeOK, Submits, [Next]_vars
    PROVE  Submits'
<1>1. CASE request' = request
  BY <1>1 DEF Submits
<1>2. CASE request' = [r \in Request |-> NoRequest]
  BY <1>2 DEF Submits, NoRequest
<1>3. ASSUME NEW r \in Request, Accept(r) \/ RequestStep(r),
             \A q \in Request \ {r} : request'[q] = request[q]
      PROVE  Submits'
  <2>1. CASE Accept(r) \/ Respond(r)
    BY <1>3, <2>1 DEF Accept, Respond, NoRequest, TypeOK, Submits
  <2>2. CASE SubmitForTranscription(r) \/ EnqueueJob(r)
    <3>1. request[r].pc /= "idle" /\ request[r].op \in {"confirm", "retry"}
      BY <2>2 DEF SubmitForTranscription, EnqueueJob, Submits
    <3>2. \E pc : Goto(r, pc) \/ Reply(r, pc)
      BY <2>2 DEF SubmitForTranscription, EnqueueJob
    <3>3. request'[r].op = request[r].op
      BY <3>1, <3>2 DEF Goto, Reply, TypeOK, RequestState, NoRequest
    <3>4. QED BY <1>3, <3>1, <3>3 DEF Submits
  <2>3. CASE DeleteVoiceMemo(r) \/ Diagnose(r) \/ RevertStatus(r)
    <3>1. request[r].pc /= "idle" /\ (Goto(r, "diagnose") \/ \E code : Reply(r, code))
      BY <2>3 DEF DeleteVoiceMemo, Diagnose, RevertStatus
    <3>2. request'[r].pc \in {"diagnose", "reply"}
      BY <3>1 DEF Goto, Reply, TypeOK, RequestState, NoRequest
    <3>3. QED BY <1>3, <3>2 DEF Submits
  <2>4. QED BY <1>3, <2>1, <2>2, <2>3 DEF RequestStep
<1>4. QED BY <1>1, <1>2, <1>3, OneRequestMoves

-------------------------------------------------------------------------------
(* Replies.                                                                *)

\* A status update neither creates nor loses a document.
LEMMA WritesKeepDocuments ==
    ASSUME StoreTypeOK, NEW m \in Memo, NEW selected, NEW to \in Status \ {"absent"},
           NEW outcome, selected => Exists(m), SetStatus(m, selected, to, outcome)
    PROVE  \A n \in Memo : (Exists(n) <=> Exists(n)') /\ deleted'[n] = deleted[n]
BY DEF StoreTypeOK, SetStatus, Exists

LEMMA StepsKeepDocuments ==
    ASSUME TypeOK, [Next]_vars, NEW n \in Memo
    PROVE  /\ Exists(n) => Exists(n)'
           /\ deleted[n] => deleted'[n]
           /\ (\E r \in Request : request[r].memo = n) => (Exists(n)' => Exists(n))
<1> DEFINE Kept == (Exists(n) <=> Exists(n)') /\ (deleted[n] => deleted'[n])
<1> USE DEF TypeOK
<1>1. ASSUME NEW m \in Memo, CreateVoiceMemo(m)
      PROVE  /\ Exists(n) => Exists(n)'
             /\ deleted[n] => deleted'[n]
             /\ (\E r \in Request : request[r].memo = n) => (Exists(n)' => Exists(n))
  BY <1>1 DEF CreateVoiceMemo, Create, Exists, StoreTypeOK
<1>2. ASSUME NEW r \in Request, Accept(r) \/ RequestStep(r) PROVE Kept
  <2>1. FromStatus(request[r].op) \in Status \ {"absent"}
    BY DEF FromStatus, Status
  <2>2. CASE SubmitForTranscription(r)
    <3>1. PICK m \in Memo : m = request[r].memo
      BY <2>2 DEF SubmitForTranscription, RequestState, NoRequest
    <3>2. PICK outcome : UpdateStatusInScope(m, request[r].scope, FromStatus(request[r].op),
                                             "transcribing", outcome)
      BY <2>2, <3>1 DEF SubmitForTranscription
    <3>3. QED
      BY <3>2, WritesKeepDocuments DEF UpdateStatusInScope, Selected, Live, Status
  <2>3. CASE DeleteVoiceMemo(r)
    BY <2>3 DEF DeleteVoiceMemo, SoftDeleteInScope, StoreTypeOK, Exists
  <2>4. CASE RevertStatus(r)
    <3>1. PICK m \in Memo : m = request[r].memo
      BY <2>4 DEF RevertStatus, RequestState, NoRequest
    <3>2. PICK outcome : UpdateStatusConditional(m, "transcribing",
                                                 FromStatus(request[r].op), outcome)
      BY <2>4, <3>1 DEF RevertStatus
    <3>3. QED
      BY <2>1, <3>2, WritesKeepDocuments DEF UpdateStatusConditional, Live
  <2>5. CASE Accept(r) \/ Diagnose(r) \/ EnqueueJob(r) \/ Respond(r)
    BY <2>5 DEF Accept, Diagnose, EnqueueJob, Respond, storeVars, Exists
  <2>6. QED BY <1>2, <2>2, <2>3, <2>4, <2>5 DEF RequestStep
<1>3. ASSUME NEW w \in Worker, WorkerStep(w) PROVE Kept
  <2>1. CASE SaveTranscript(w) \/ MarkExhausted(w)
    <3>1. PICK m \in Memo : m = worker[w].job.memo
      BY <2>1, WorkerJobs DEF SaveTranscript, MarkExhausted, Job
    <3>2. PICK outcome : \/ UpdateTranscriptionAndStatus(m, "ready", outcome)
                         \/ UpdateStatus(m, "failed", outcome)
      BY <2>1, <3>1 DEF SaveTranscript, MarkExhausted
    <3>3. QED
      BY <3>2, WritesKeepDocuments DEF UpdateTranscriptionAndStatus, UpdateStatus, Live, Status
  <2>2. CASE Dequeue(w) \/ WorkerExit(w) \/ Transcribed(w) \/ TranscribeFails(w)
    BY <2>2 DEF Dequeue, WorkerExit, Transcribed, TranscribeFails, storeVars, Exists
  <2>3. QED BY <1>3, <2>1, <2>2 DEF WorkerStep
<1>4. ASSUME NEW t \in Timer, TimerStep(t) PROVE Kept
  <2>1. CASE MarkFailed(t)
    <3>1. PICK m \in Memo : m = timer[t].job.memo
      BY <2>1, TimerJobs DEF MarkFailed, Job
    <3>2. PICK outcome : UpdateStatus(m, "failed", outcome)
      BY <2>1, <3>1 DEF MarkFailed
    <3>3. QED BY <3>2, WritesKeepDocuments DEF UpdateStatus, Live, Status
  <2>2. CASE TimerFires(t) \/ ShutdownSeen(t)
    BY <2>2 DEF TimerFires, ShutdownSeen, storeVars, Exists
  <2>3. QED BY <1>4, <2>1, <2>2 DEF TimerStep
<1>5. CASE Sigterm \/ MainStep \/ Crash \/ Start
  BY <1>5 DEF Sigterm, MainStep, CancelContext, SignalShutdown, CloseQueue, Exit, Crash,
              LoseMemory, Start, storeVars, Exists
<1>6. CASE UNCHANGED vars
  BY <1>6 DEF vars, Exists
<1>7. QED BY <1>1, <1>2, <1>3, <1>4, <1>5, <1>6 DEF Next

\* What a reply says is so...
TrueReply(r) ==
    LET m == request[r].memo
        s == request[r].scope
        code == request[r].code
    IN  request[r].pc = "reply" =>
          /\ request[r].op = "delete" /\ code = "ok" => deleted[m] /\ InScope(m, s)
          /\ request[r].op = "delete" /\ code = "not_found" => ~Exists(m) \/ ~InScope(m, s)
          /\ code = "unauthorized" => Exists(m) /\ s \in User /\ s /= Owner[m]

\* ...and a delete that asks why it found nothing has nothing left to delete:
\* otherwise the query might see the memo alive and still answer "ok".
NothingToDelete(r) ==
    LET m == request[r].memo
        s == request[r].scope
    IN  request[r].pc = "diagnose" /\ request[r].op = "delete" => ~Live(m) \/ ~InScope(m, s)

Honest == Submits /\ \A r \in Request : TrueReply(r) /\ NothingToDelete(r)

LEMMA BystandersHonest ==
    ASSUME TypeOK, Honest, [Next]_vars, NEW r \in Request, request'[r] = request[r]
    PROVE  TrueReply(r)' /\ NothingToDelete(r)'
<1>1. CASE request[r].pc \notin {"reply", "diagnose"}
  BY <1>1 DEF TrueReply, NothingToDelete
<1>2. CASE request[r].pc \in {"reply", "diagnose"}
  <2>1. PICK m \in Memo : m = request[r].memo
    BY <1>2 DEF TypeOK, RequestState, NoRequest
  <2>2. /\ Exists(m) <=> Exists(m)'
        /\ deleted[m] => deleted'[m]
    BY <2>1, StepsKeepDocuments
  <2>3. TrueReply(r) /\ NothingToDelete(r)
    BY DEF Honest
  <2>4. QED BY <2>1, <2>2, <2>3 DEF TrueReply, NothingToDelete, Live, InScope
<1>3. QED BY <1>1, <1>2

LEMMA OwnStepHonest ==
    ASSUME TypeOK, Honest, NEW r \in Request, Accept(r) \/ RequestStep(r)
    PROVE  TrueReply(r)' /\ NothingToDelete(r)'
<1> USE DEF TypeOK
<1>1. CASE Accept(r) \/ Respond(r)
  <2>1. request'[r].pc \notin {"reply", "diagnose"}
    BY <1>1 DEF Accept, Respond, NoRequest
  <2>2. QED BY <2>1 DEF TrueReply, NothingToDelete
<1>2. ASSUME NEW pc \in {"update", "diagnose", "enqueue", "revert", "reply"}, Goto(r, pc),
             request[r].pc /= "idle"
      PROVE  request'[r] = [request[r] EXCEPT !.pc = pc] /\ request[r].memo \in Memo
             /\ request'[r].pc = pc /\ request'[r].op = request[r].op
             /\ request'[r].memo = request[r].memo /\ request'[r].scope = request[r].scope
  BY <1>2 DEF Goto, RequestState, NoRequest
<1>3. ASSUME NEW code, Reply(r, code), request[r].pc /= "idle"
      PROVE  request'[r].pc = "reply" /\ request'[r].op = request[r].op
             /\ request'[r].memo = request[r].memo /\ request'[r].scope = request[r].scope
             /\ request'[r].code = code /\ request[r].memo \in Memo
  BY <1>3 DEF Reply, RequestState, NoRequest
<1>4. CASE SubmitForTranscription(r)
  <2>1. \/ Reply(r, "error") \/ Goto(r, "enqueue") \/ Goto(r, "diagnose")
    BY <1>4 DEF SubmitForTranscription
  <2>2. request[r].pc /= "idle" /\ request[r].op /= "delete"
    BY <1>4 DEF SubmitForTranscription
  <2>3. QED BY <1>2, <1>3, <2>1, <2>2 DEF TrueReply, NothingToDelete
<1>5. CASE DeleteVoiceMemo(r)
  <2>1. PICK m, s : m = request[r].memo /\ s = request[r].scope
    OBVIOUS
  <2>2. request[r].pc /= "idle"
    BY <1>5 DEF DeleteVoiceMemo
  <2>3. PICK outcome \in Outcomes :
          /\ SoftDeleteInScope(m, s, outcome)
          /\ \/ Reply(r, "error")
             \/ outcome = "ok" /\ Live(m) /\ InScope(m, s) /\ Reply(r, "ok")
             \/ ~(Live(m) /\ InScope(m, s)) /\ Goto(r, "diagnose")
    BY <1>5, <2>1 DEF DeleteVoiceMemo
  <2>4. CASE Reply(r, "error")
    BY <1>3, <2>2, <2>4 DEF TrueReply, NothingToDelete
  <2>5. CASE outcome = "ok" /\ Live(m) /\ InScope(m, s) /\ Reply(r, "ok")
    <3>1. m \in Memo /\ deleted'[m]
      BY <1>3, <2>1, <2>2, <2>3, <2>5 DEF SoftDeleteInScope, StoreTypeOK
    <3>2. QED
      BY <1>3, <2>1, <2>2, <2>5, <3>1 DEF TrueReply, NothingToDelete, InScope
  <2>6. CASE ~(Live(m) /\ InScope(m, s)) /\ Goto(r, "diagnose")
    <3>1. UNCHANGED storeVars
      BY <2>3, <2>6 DEF SoftDeleteInScope, storeVars
    <3>2. QED
      BY <1>2, <2>1, <2>2, <2>6, <3>1
         DEF TrueReply, NothingToDelete, InScope, Live, Exists, storeVars
  <2>7. QED BY <2>3, <2>4, <2>5, <2>6
<1>6. CASE Diagnose(r)
  <2>1. PICK m \in Memo, s \in Scope : m = request[r].memo /\ s = request[r].scope
    BY <1>6 DEF Diagnose, RequestState, NoRequest
  <2>2. request[r].pc /= "idle" /\ status' = status /\ deleted' = deleted
    BY <1>6 DEF Diagnose, storeVars
  <2>3. \/ Reply(r, "error")
        \/ request[r].op = "delete" /\ Reply(r, WhyNotDeleted(m, s))
        \/ /\ request[r].op /= "delete"
           /\ Reply(r, WhyNotUpdated(m, s, FromStatus(request[r].op)))
    BY <1>6, <2>1 DEF Diagnose
  <2>4. CASE Reply(r, "error")
    BY <1>3, <2>2, <2>4 DEF TrueReply, NothingToDelete
  <2>5. CASE request[r].op = "delete" /\ Reply(r, WhyNotDeleted(m, s))
    <3>1. ~Live(m) \/ ~InScope(m, s)
      BY <1>6, <2>1, <2>5 DEF Honest, NothingToDelete, Diagnose
    <3>2. /\ WhyNotDeleted(m, s) = "ok" => Exists(m) /\ InScope(m, s)
          /\ WhyNotDeleted(m, s) = "not_found" => ~Exists(m) \/ ~InScope(m, s)
          /\ WhyNotDeleted(m, s) = "unauthorized" =>
               Exists(m) /\ s \in User /\ s /= Owner[m]
      BY DEF WhyNotDeleted, WrongScope, InScope
    <3>3. QED
      BY <1>3, <2>1, <2>2, <2>5, <3>1, <3>2
         DEF TrueReply, NothingToDelete, InScope, Live, Exists
  <2>6. CASE /\ request[r].op /= "delete"
             /\ Reply(r, WhyNotUpdated(m, s, FromStatus(request[r].op)))
    <3>1. WhyNotUpdated(m, s, FromStatus(request[r].op)) = "unauthorized" =>
            Exists(m) /\ s \in User /\ s /= Owner[m]
      BY DEF WhyNotUpdated, WrongScope, InScope, Live, Selected
    <3>2. QED
      BY <1>3, <2>1, <2>2, <2>6, <3>1 DEF TrueReply, NothingToDelete, Exists
  <2>7. QED BY <2>3, <2>4, <2>5, <2>6
<1>7. CASE EnqueueJob(r) \/ RevertStatus(r)
  <2>1. request[r].pc /= "idle" /\ request[r].op \in {"confirm", "retry"}
    BY <1>7 DEF EnqueueJob, RevertStatus, Honest, Submits
  <2>2. Goto(r, "revert") \/ \E code \in {"ok", "queue_full", "queue_closed"} : Reply(r, code)
    <3>1. CASE EnqueueJob(r)
      <4>1. EnqueueResult \in {"ok", "queue_full", "queue_closed"}
        BY CapacityAssumption DEF EnqueueResult, QueueTypeOK
      <4>2. QED BY <3>1, <4>1 DEF EnqueueJob
    <3>2. CASE RevertStatus(r)
      BY <3>2 DEF RevertStatus
    <3>3. QED BY <1>7, <3>1, <3>2
  <2>3. QED BY <1>2, <1>3, <2>1, <2>2 DEF TrueReply, NothingToDelete
<1>8. QED BY <1>1, <1>4, <1>5, <1>6, <1>7 DEF RequestStep

\* Whatever the two commands of a call race with, and whatever the database
\* answers, the reply is true: a delete that reports success left a deleted
\* memo of the caller's, and nobody is refused access to a memo of his own.
THEOREM TruthfulReplies == Spec => []RepliesAreTrue
<1>1. Init => Honest
  BY DEF Init, Honest, Submits, TrueReply, NothingToDelete, NoRequest
<1>2. TypeOK /\ Honest /\ [Next]_vars => Honest'
  <2> SUFFICES ASSUME TypeOK, Honest, [Next]_vars, NEW r \in Request
               PROVE  TrueReply(r)' /\ NothingToDelete(r)'
    BY NextSubmits DEF Honest
  <2>1. CASE request' = [q \in Request |-> NoRequest]
    BY <2>1 DEF TrueReply, NothingToDelete, NoRequest
  <2>2. QED BY <2>1, OneRequestMoves, BystandersHonest, OwnStepHonest
<1>3. Honest => RepliesAreTrue
  BY DEF Honest, TrueReply, RepliesAreTrue
<1>4. QED BY <1>1, <1>2, <1>3, TypeCorrect, PTL DEF Spec

-------------------------------------------------------------------------------
(* The drain.                                                              *)

\* While requests run, the queue is open.
Drained ==
    /\ phase \in {"cancelled", "signalled", "closed", "down"} =>
         \A r \in Request : request[r] = NoRequest
    /\ closed => phase \in {"closed", "down"}

LEMMA NextDrained ==
    ASSUME "drain_timeout" \notin Environment, TypeOK, Drained, [Next]_vars
    PROVE  Drained'
<1>1. ASSUME NEW r \in Request, Accept(r) \/ RequestStep(r) PROVE Drained'
  <2>1. phase' = phase /\ phase \in {"running", "draining"}
    <3>1. CASE Accept(r)
      BY <3>1 DEF Accept
    <3>2. CASE RequestStep(r)
      <4>1. request[r].pc /= "idle" /\ phase' = phase
        BY <3>2 DEF RequestStep, SubmitForTranscription, DeleteVoiceMemo, Diagnose,
                    EnqueueJob, RevertStatus, Respond
      <4>2. request[r] /= NoRequest
        BY <4>1 DEF NoRequest
      <4>3. QED BY <4>1, <4>2 DEF Drained, TypeOK, Phases
    <3>3. QED BY <1>1, <3>1, <3>2
  <2>2. closed' = closed
    BY <1>1 DEF Accept, RequestStep, SubmitForTranscription, DeleteVoiceMemo, Diagnose,
                EnqueueJob, Enqueue, RevertStatus, Respond, queueVars
  <2>3. QED BY <2>1, <2>2 DEF Drained
<1>2. ASSUME NEW w \in Worker, WorkerStep(w) PROVE UNCHANGED <<request, closed, phase>>
  BY <1>2 DEF WorkerStep, Dequeue, TakeJob, WorkerExit, Transcribed, TranscribeFails,
              SaveTranscript, MarkExhausted, queueVars
<1>3. ASSUME NEW t \in Timer, TimerStep(t) PROVE UNCHANGED <<request, closed, phase>>
  BY <1>3 DEF TimerStep, TimerFires, Enqueue, ShutdownSeen, MarkFailed, queueVars
<1>4. CASE Sigterm \/ CancelContext \/ SignalShutdown \/ CloseQueue
  BY <1>4 DEF Sigterm, CancelContext, SignalShutdown, CloseQueue, Close, Advance, Drained,
              queueVars, agentVars
<1>5. CASE Exit \/ Crash \/ Start
  BY <1>5 DEF Exit, Crash, Start, LoseMemory, ReplaceQueue, Advance, Drained
<1>6. CASE (\E m \in Memo : CreateVoiceMemo(m)) \/ UNCHANGED vars
  BY <1>6 DEF CreateVoiceMemo, vars, queueVars, agentVars, Drained
<1>7. CASE UNCHANGED <<request, closed, phase>>
  BY <1>7 DEF Drained
<1>8. QED BY <1>1, <1>2, <1>3, <1>4, <1>5, <1>6, <1>7 DEF Next, MainStep

LEMMA NextMeetsOpenQueue ==
    ASSUME TypeOK, Drained, NoRequestMeetsClosedQueue, [Next]_vars
    PROVE  NoRequestMeetsClosedQueue'
<1> USE DEF NoRequestMeetsClosedQueue, TypeOK
<1>1. CASE request' = request \/ request' = [r \in Request |-> NoRequest]
  BY <1>1 DEF NoRequest
<1>2. ASSUME NEW r \in Request, Accept(r) \/ RequestStep(r),
             \A q \in Request \ {r} : request'[q] = request[q]
      PROVE  request'[r].code /= "queue_closed"
  <2>1. CASE Accept(r) \/ Respond(r)
    BY <2>1 DEF Accept, Respond, NoRequest
  <2>2. ASSUME NEW pc, Goto(r, pc) PROVE request'[r].code = request[r].code
    BY <2>2 DEF Goto, RequestState, NoRequest
  <2>3. ASSUME NEW code, code /= "queue_closed", Reply(r, code), request[r].pc /= "idle"
        PROVE  request'[r].code /= "queue_closed"
    BY <2>3 DEF Reply, RequestState, NoRequest
  <2>4. CASE SubmitForTranscription(r) \/ DeleteVoiceMemo(r) \/ RevertStatus(r)
    <3>1. request[r].pc /= "idle"
      BY <2>4 DEF SubmitForTranscription, DeleteVoiceMemo, RevertStatus
    <3>2. \/ Goto(r, "enqueue") \/ Goto(r, "diagnose")
          \/ Reply(r, "ok") \/ Reply(r, "error") \/ Reply(r, "queue_full")
      BY <2>4 DEF SubmitForTranscription, DeleteVoiceMemo, RevertStatus
    <3>3. QED BY <2>2, <2>3, <3>1, <3>2
  <2>5. CASE Diagnose(r)
    <3>1. PICK m, s, from : \/ Reply(r, "error") \/ Reply(r, WhyNotDeleted(m, s))
                            \/ Reply(r, WhyNotUpdated(m, s, from))
      BY <2>5 DEF Diagnose
    <3>2. /\ WhyNotDeleted(m, s) /= "queue_closed"
          /\ WhyNotUpdated(m, s, from) /= "queue_closed"
      BY DEF WhyNotDeleted, WhyNotUpdated, WrongScope, Selected
    <3>3. QED BY <2>3, <2>5, <3>1, <3>2 DEF Diagnose
  <2>6. CASE EnqueueJob(r)
    <3>1. request[r].pc /= "idle" /\ request[r] /= NoRequest
      BY <2>6 DEF EnqueueJob, NoRequest
    <3>2. ~closed
      BY <3>1 DEF Drained
    <3>3. EnqueueResult /= "queue_closed"
      BY <3>2, CapacityAssumption DEF EnqueueResult, QueueTypeOK
    <3>4. QED BY <2>2, <2>3, <2>6, <3>1, <3>3 DEF EnqueueJob
  <2>7. QED BY <1>2, <2>1, <2>4, <2>5, <2>6 DEF RequestStep
<1>3. QED BY <1>1, <1>2, OneRequestMoves

\* A drain that is left to run to its end separates requests from the closed
\* queue, whatever else fails, and across crashes and restarts.
THEOREM DrainShieldsRequests ==
    ASSUME "drain_timeout" \notin Environment
    PROVE  Spec => []NoRequestMeetsClosedQueue
<1>1. Init => Drained /\ NoRequestMeetsClosedQueue
  BY DEF Init, NewMemoryQueue, NoRequest, Drained, NoRequestMeetsClosedQueue
<1>2. TypeOK /\ Drained /\ [Next]_vars => Drained'
  BY NextDrained
<1>3. TypeOK /\ Drained /\ NoRequestMeetsClosedQueue /\ [Next]_vars =>
        NoRequestMeetsClosedQueue'
  BY NextMeetsOpenQueue
<1>4. QED BY <1>1, <1>2, <1>3, TypeCorrect, PTL DEF Spec

===============================================================================
