--------------------------- MODULE MemoryQueueLocks ---------------------------
(***************************************************************************)
(* Inside queue.MemoryQueue: a Go channel, a flag and a sync.RWMutex.      *)
(* Enqueue holds the read lock from its look at the flag to its send;      *)
(* Close holds the write lock from its look at the flag to close(q.jobs);  *)
(* Dequeue takes no lock.  Sending on a closed channel, or closing it      *)
(* twice, panics.  MemoryQueue is what the callers see of it.              *)
(***************************************************************************)
EXTENDS MemoModels, Sequences

CONSTANTS
    Producer,    \* goroutines calling Enqueue: requests and retry timers
    Closer,      \* goroutines calling Close
    Capacity

ASSUME CallerAssumption == Producer \cap Closer = {}
ASSUME CapacityAssumption == Capacity \in Nat \ {0}

VARIABLES
    channel,          \* the buffer of q.jobs
    channelClosed,    \* close(q.jobs) has been called
    closed,           \* q.closed
    pc,               \* where each caller stands
    panicked          \* the runtime has stopped the process

vars == <<channel, channelClosed, closed, pc, panicked>>

\* A producer past RLock, and a closer past Lock.
Reading == {"check", "send", "runlock"}
Writing == {"setflag", "closechannel", "unlock"}

TypeOK ==
    /\ channel \in Seq(Job)
    /\ Len(channel) <= Capacity
    /\ channelClosed \in BOOLEAN /\ closed \in BOOLEAN /\ panicked \in BOOLEAN
    /\ pc \in [Producer \cup Closer -> {"idle", "waiting"} \cup Reading \cup Writing]
    /\ \A p \in Producer : pc[p] \in {"idle"} \cup Reading
    /\ \A c \in Closer : pc[c] \in {"idle", "waiting"} \cup Writing

Init ==
    /\ channel = <<>>
    /\ channelClosed = FALSE
    /\ closed = FALSE
    /\ pc = [x \in Producer \cup Closer |-> "idle"]
    /\ panicked = FALSE

Move(x, from, to) == pc[x] = from /\ pc' = [pc EXCEPT ![x] = to]

-------------------------------------------------------------------------------
\* Mutant: readers are let in until the write lock is taken.
RLockWhileWaiting(p) ==
    /\ \A c \in Closer : pc[c] \in {"idle", "waiting"}
    /\ Move(p, "idle", "check")
    /\ UNCHANGED <<channel, channelClosed, closed, panicked>>

\* A closer that has called Lock keeps new readers out, even while it waits
\* for the old ones to leave.
RLock(p) ==
    /\ \A c \in Closer : pc[c] = "idle"
    /\ Move(p, "idle", "check")
    /\ UNCHANGED <<channel, channelClosed, closed, panicked>>

CheckOpen(p) ==
    /\ Move(p, "check", IF closed THEN "runlock" ELSE "send")
    /\ UNCHANGED <<channel, channelClosed, closed, panicked>>

\* Mutant: the capacity of the channel is not respected.
SendUnbounded(p) ==
    /\ Move(p, "send", "runlock")
    /\ \E job \in Job : channel' = Append(channel, job)
    /\ panicked' = (panicked \/ channelClosed)
    /\ UNCHANGED <<channelClosed, closed>>

\* select { case q.jobs <- job: default: } -- with no room the job is refused.
Send(p) ==
    /\ Move(p, "send", "runlock")
    /\ \E job \in Job :
         channel' = IF ~channelClosed /\ Len(channel) < Capacity
                      THEN Append(channel, job) ELSE channel
    /\ panicked' = (panicked \/ channelClosed)
    /\ UNCHANGED <<channelClosed, closed>>

RUnlock(p) ==
    /\ Move(p, "runlock", "idle")
    /\ UNCHANGED <<channel, channelClosed, closed, panicked>>

\* Dequeue, by any worker.
Receive ==
    /\ channel /= <<>>
    /\ channel' = Tail(channel)
    /\ UNCHANGED <<channelClosed, closed, pc, panicked>>

\* Writers take turns, then wait for the readers that are already in.
CallLock(c) ==
    /\ \A d \in Closer : pc[d] = "idle"
    /\ Move(c, "idle", "waiting")
    /\ UNCHANGED <<channel, channelClosed, closed, panicked>>

\* Mutant: Enqueue does not hold the lock during its send.
GetLockAtOnce(c) ==
    /\ \A p \in Producer : pc[p] \in {"idle", "send"}
    /\ Move(c, "waiting", "setflag")
    /\ UNCHANGED <<channel, channelClosed, closed, panicked>>

GetLock(c) ==
    /\ \A p \in Producer : pc[p] = "idle"
    /\ Move(c, "waiting", "setflag")
    /\ UNCHANGED <<channel, channelClosed, closed, panicked>>

\* Mutant: Close does not look at the flag.
SetFlagUnguarded(c) ==
    /\ Move(c, "setflag", "closechannel")
    /\ closed' = TRUE
    /\ UNCHANGED <<channel, channelClosed, panicked>>

SetFlag(c) ==
    /\ Move(c, "setflag", IF closed THEN "unlock" ELSE "closechannel")
    /\ closed' = TRUE
    /\ UNCHANGED <<channel, channelClosed, panicked>>

CloseChannel(c) ==
    /\ Move(c, "closechannel", "unlock")
    /\ channelClosed' = TRUE
    /\ panicked' = (panicked \/ channelClosed)
    /\ UNCHANGED <<channel, closed>>

Unlock(c) ==
    /\ Move(c, "unlock", "idle")
    /\ UNCHANGED <<channel, channelClosed, closed, panicked>>

EnqueueStep(p) == CheckOpen(p) \/ Send(p) \/ RUnlock(p)
CloseStep(c) == GetLock(c) \/ SetFlag(c) \/ CloseChannel(c) \/ Unlock(c)

Next ==
    \/ \E p \in Producer : RLock(p) \/ EnqueueStep(p)
    \/ \E c \in Closer : CallLock(c) \/ CloseStep(c)
    \/ Receive

Spec == Init /\ [][Next]_vars

\* A caller that is inside Enqueue or Close runs on; nobody has to call, and
\* no worker has to receive.
FairSpec ==
    /\ Spec
    /\ \A p \in Producer : WF_vars(EnqueueStep(p))
    /\ \A c \in Closer : WF_vars(CloseStep(c))

-------------------------------------------------------------------------------
\* The comment on Enqueue: holding the lock throughout prevents the race with
\* Close.  No interleaving sends on a closed channel or closes it twice.
NeverPanics == ~panicked

\* Callers see the bounded FIFO of MemoryQueue: no job is accepted once the
\* flag is set, and none is lost, reordered or taken twice.
Queue == INSTANCE MemoryQueue WITH jobs <- channel
ImplementsQueue == Queue!QueueSpec

\* Close, and with it Processor.Stop, is not held up by callers that keep
\* enqueuing.
CloseReturns == \A c \in Closer : pc[c] = "waiting" ~> pc[c] = "idle"

===============================================================================
