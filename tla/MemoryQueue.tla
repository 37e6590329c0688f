------------------------------ MODULE MemoryQueue ------------------------------
(***************************************************************************)
(* queue.MemoryQueue as its users see it: a bounded FIFO of transcription  *)
(* jobs that can be closed.  Enqueue never blocks; it reports a full or a  *)
(* closed queue.  A closed queue still hands out what it holds.            *)
(***************************************************************************)
EXTENDS MemoModels, Sequences

CONSTANT Capacity

\* cfg.TranscriptionQueueSize is 100 unless the environment overrides it.
ASSUME CapacityAssumption == Capacity \in Nat \ {0}

VARIABLES
    jobs,      \* the contents of the channel, oldest first
    closed     \* the closed flag (and, with it, the closed channel)

queueVars == <<jobs, closed>>

QueueTypeOK ==
    /\ jobs \in Seq(Job)
    /\ Len(jobs) <= Capacity
    /\ closed \in BOOLEAN

NewMemoryQueue == jobs = <<>> /\ closed = FALSE

\* Another process makes another queue.
ReplaceQueue == jobs' = <<>> /\ closed' = FALSE

\* What Enqueue returns: nil, ErrQueueClosed or ErrQueueFull.
EnqueueResult ==
    CASE closed                               -> "queue_closed"
      [] ~closed /\ Len(jobs) >= Capacity     -> "queue_full"
      [] ~closed /\ Len(jobs) < Capacity      -> "ok"

Enqueue(job) ==
    /\ jobs' = IF EnqueueResult = "ok" THEN Append(jobs, job) ELSE jobs
    /\ UNCHANGED closed

\* Dequeue blocks while the open queue is empty: the action is then disabled.
TakeJob ==
    /\ jobs /= <<>>
    /\ jobs' = Tail(jobs)
    /\ UNCHANGED closed

\* Dequeue returns ErrQueueClosed.
ClosedAndDrained == closed /\ jobs = <<>>

Close ==
    /\ closed' = TRUE
    /\ UNCHANGED jobs

QueueNext ==
    \/ \E job \in Job : Enqueue(job)
    \/ TakeJob
    \/ Close

QueueSpec == NewMemoryQueue /\ [][QueueNext]_queueVars

===============================================================================
