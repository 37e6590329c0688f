------------------------- MODULE MemoryQueueLocksProofs -------------------------
(***************************************************************************)
(* For any number of callers and any capacity, the locking of MemoryQueue  *)
(* keeps its channel from panicking and makes it a bounded FIFO.           *)
(***************************************************************************)
EXTENDS MemoryQueueLocks, SequenceTheorems, TLAPS

\* At most one closer is past CallLock, and producers and closers exclude
\* each other: a producer that has seen the flag down sends before it is up,
\* and the closer that raises the flag is the only one to close the channel.
LockInv ==
    /\ \A c, d \in Closer : pc[c] /= "idle" /\ pc[d] /= "idle" => c = d
    /\ \A c \in Closer, p \in Producer : pc[c] \in Writing => pc[p] = "idle"
    /\ \A p \in Producer : pc[p] = "send" => ~closed
    /\ \A c \in Closer : pc[c] = "closechannel" => closed /\ ~channelClosed
    /\ channelClosed => closed

IInv == TypeOK /\ LockInv /\ NeverPanics

-------------------------------------------------------------------------------
LEMMA InitIInv == Init => IInv
<1> SUFFICES ASSUME Init PROVE IInv
  OBVIOUS
<1>1. channel \in Seq(Job) /\ Len(channel) <= Capacity
  BY CapacityAssumption DEF Init
<1>2. channelClosed = FALSE /\ closed = FALSE /\ panicked = FALSE
  BY DEF Init
<1>3. /\ pc \in [Producer \cup Closer -> {"idle", "waiting"} \cup Reading \cup Writing]
      /\ \A x \in Producer \cup Closer : pc[x] = "idle"
  BY DEF Init
<1>4. TypeOK
  BY <1>1, <1>2, <1>3 DEF TypeOK
<1>5. LockInv
  BY <1>2, <1>3 DEF LockInv, Writing
<1>6. QED BY <1>2, <1>4, <1>5 DEF IInv, NeverPanics

\* A move of one caller leaves pc the kind of function it was.
LEMMA MoveType ==
    ASSUME TypeOK, NEW x \in Producer \cup Closer, NEW from, NEW to,
           Move(x, from, to),
           x \in Producer => to \in {"idle"} \cup Reading,
           x \in Closer => to \in {"idle", "waiting"} \cup Writing
    PROVE  /\ pc' \in [Producer \cup Closer -> {"idle", "waiting"} \cup Reading \cup Writing]
           /\ \A p \in Producer : pc'[p] \in {"idle"} \cup Reading
           /\ \A c \in Closer : pc'[c] \in {"idle", "waiting"} \cup Writing
           /\ pc[x] = from /\ pc'[x] = to
           /\ \A y \in Producer \cup Closer : y /= x => pc'[y] = pc[y]
BY CallerAssumption DEF TypeOK, Move, Reading, Writing

LEMMA ProducerStep ==
    ASSUME IInv, NEW p \in Producer, RLock(p) \/ EnqueueStep(p)
    PROVE  IInv'
<1> USE CallerAssumption, CapacityAssumption DEF IInv
<1>1. CASE RLock(p)
  <2>1. TypeOK'
    BY <1>1, MoveType DEF RLock, TypeOK, Reading, Writing
  <2>2. LockInv'
    BY <1>1, MoveType DEF RLock, LockInv, Reading, Writing
  <2>3. QED BY <1>1, <2>1, <2>2 DEF RLock, NeverPanics
<1>2. CASE CheckOpen(p)
  <2>1. TypeOK'
    BY <1>2, MoveType DEF CheckOpen, TypeOK, Reading, Writing
  <2>2. LockInv'
    BY <1>2, MoveType DEF CheckOpen, LockInv, Reading, Writing
  <2>3. QED BY <1>2, <2>1, <2>2 DEF CheckOpen, NeverPanics
<1>3. CASE Send(p)
  <2>1. ~channelClosed
    BY <1>3 DEF Send, Move, LockInv
  <2>2. channel' \in Seq(Job) /\ Len(channel') <= Capacity
    <3>1. PICK job \in Job : channel' = IF ~channelClosed /\ Len(channel) < Capacity
                                          THEN Append(channel, job) ELSE channel
      BY <1>3 DEF Send
    <3>2. channel \in Seq(Job) /\ Len(channel) <= Capacity
      BY DEF TypeOK
    <3>3. CASE Len(channel) < Capacity
      BY <2>1, <3>1, <3>2, <3>3, AppendProperties
    <3>4. CASE ~(Len(channel) < Capacity)
      BY <3>1, <3>2, <3>4
    <3>5. QED BY <3>3, <3>4
  <2>3. TypeOK'
    BY <1>3, <2>2, MoveType DEF Send, TypeOK, Reading, Writing
  <2>4. LockInv'
    BY <1>3, MoveType DEF Send, LockInv, Reading, Writing
  <2>5. QED BY <1>3, <2>1, <2>3, <2>4 DEF Send, NeverPanics
<1>4. CASE RUnlock(p)
  <2>1. TypeOK'
    BY <1>4, MoveType DEF RUnlock, TypeOK, Reading, Writing
  <2>2. LockInv'
    BY <1>4, MoveType DEF RUnlock, LockInv, Reading, Writing
  <2>3. QED BY <1>4, <2>1, <2>2 DEF RUnlock, NeverPanics
<1>5. QED BY <1>1, <1>2, <1>3, <1>4 DEF EnqueueStep

LEMMA CloserStep ==
    ASSUME IInv, NEW c \in Closer, CallLock(c) \/ CloseStep(c)
    PROVE  IInv'
<1> USE CallerAssumption DEF IInv
<1>1. CASE CallLock(c)
  <2>1. TypeOK'
    BY <1>1, MoveType DEF CallLock, TypeOK, Reading, Writing
  <2>2. LockInv'
    BY <1>1, MoveType DEF CallLock, LockInv, Reading, Writing
  <2>3. QED BY <1>1, <2>1, <2>2 DEF CallLock, NeverPanics
<1>2. CASE GetLock(c)
  <2>1. TypeOK'
    BY <1>2, MoveType DEF GetLock, TypeOK, Reading, Writing
  <2>2. LockInv'
    BY <1>2, MoveType DEF GetLock, LockInv, Reading, Writing
  <2>3. QED BY <1>2, <2>1, <2>2 DEF GetLock, NeverPanics
<1>3. CASE SetFlag(c)
  <2>1. TypeOK'
    BY <1>3, MoveType DEF SetFlag, TypeOK, Reading, Writing
  <2>2. LockInv'
    BY <1>3, MoveType DEF SetFlag, LockInv, Reading, Writing
  <2>3. QED BY <1>3, <2>1, <2>2 DEF SetFlag, NeverPanics
<1>4. CASE CloseChannel(c)
  <2>1. ~channelClosed
    BY <1>4 DEF CloseChannel, Move, LockInv
  <2>2. TypeOK'
    BY <1>4, <2>1, MoveType DEF CloseChannel, TypeOK, Reading, Writing
  <2>3. LockInv'
    BY <1>4, MoveType DEF CloseChannel, LockInv, Reading, Writing
  <2>4. QED BY <1>4, <2>1, <2>2, <2>3 DEF CloseChannel, NeverPanics
<1>5. CASE Unlock(c)
  <2>1. TypeOK'
    BY <1>5, MoveType DEF Unlock, TypeOK, Reading, Writing
  <2>2. LockInv'
    BY <1>5, MoveType DEF Unlock, LockInv, Reading, Writing
  <2>3. QED BY <1>5, <2>1, <2>2 DEF Unlock, NeverPanics
<1>6. QED BY <1>1, <1>2, <1>3, <1>4, <1>5 DEF CloseStep

LEMMA NextIInv == IInv /\ [Next]_vars => IInv'
<1> SUFFICES ASSUME IInv, [Next]_vars PROVE IInv'
  OBVIOUS
<1>1. CASE \E p \in Producer : RLock(p) \/ EnqueueStep(p)
  BY <1>1, ProducerStep
<1>2. CASE \E c \in Closer : CallLock(c) \/ CloseStep(c)
  BY <1>2, CloserStep
<1>3. CASE Receive
  <2>1. channel' \in Seq(Job) /\ Len(channel') <= Capacity
    <3>1. channel \in Seq(Job) /\ channel /= <<>> /\ Len(channel) <= Capacity
      BY <1>3 DEF Receive, IInv, TypeOK
    <3>2. Tail(channel) \in Seq(Job) /\ Len(Tail(channel)) = Len(channel) - 1
      BY <3>1, HeadTailProperties
    <3>3. QED BY <1>3, <3>1, <3>2, CapacityAssumption DEF Receive
  <2>2. QED
    BY <1>3, <2>1 DEF Receive, IInv, TypeOK, LockInv, NeverPanics
<1>4. CASE UNCHANGED vars
  BY <1>4 DEF vars, IInv, TypeOK, LockInv, NeverPanics
<1>5. QED BY <1>1, <1>2, <1>3, <1>4 DEF Next

\* The variables keep their types, the locks exclude, and nothing panics.
THEOREM Invariance == Spec => []IInv
BY InitIInv, NextIInv, PTL DEF Spec

\* Enqueue racing Close never sends on the closed channel, and Close called
\* twice closes it once, whatever the number of callers.
THEOREM NoPanic == Spec => []NeverPanics
<1>1. IInv => NeverPanics
  BY DEF IInv
<1>2. QED BY <1>1, Invariance, PTL

\* The channel never holds more jobs than the capacity, nor anything else.
THEOREM TypeCorrect == Spec => []TypeOK
<1>1. IInv => TypeOK
  BY DEF IInv
<1>2. QED BY <1>1, Invariance, PTL

\* Every step is a step of the queue its callers see, or invisible to them.
THEOREM Refinement == Spec => ImplementsQueue
<1>1. Init => Queue!NewMemoryQueue
  BY DEF Init, Queue!NewMemoryQueue
<1>2. IInv /\ [Next]_vars => [Queue!QueueNext]_(Queue!queueVars)
  <2> SUFFICES ASSUME IInv, [Next]_vars
               PROVE  Queue!QueueNext \/ UNCHANGED <<channel, closed>>
    BY DEF Queue!queueVars
  <2>1. ASSUME NEW p \in Producer, Send(p)
        PROVE  Queue!QueueNext \/ UNCHANGED <<channel, closed>>
    <3>1. ~closed /\ ~channelClosed
      BY <2>1 DEF Send, Move, IInv, LockInv
    <3>2. PICK job \in Job : channel' = IF ~channelClosed /\ Len(channel) < Capacity
                                          THEN Append(channel, job) ELSE channel
      BY <2>1 DEF Send
    <3>3. CASE Len(channel) < Capacity
      <4>1. Queue!EnqueueResult = "ok"
        BY <3>1, <3>3 DEF Queue!EnqueueResult
      <4>2. Queue!Enqueue(job)
        BY <2>1, <3>1, <3>2, <3>3, <4>1 DEF Send, Queue!Enqueue
      <4>3. QED BY <3>2, <4>2 DEF Queue!QueueNext, Queue!Job, Job
    <3>4. CASE ~(Len(channel) < Capacity)
      BY <2>1, <3>2, <3>4 DEF Send
    <3>5. QED BY <3>3, <3>4
  <2>2. ASSUME NEW c \in Closer, SetFlag(c)
        PROVE  Queue!QueueNext
    BY <2>2 DEF SetFlag, Queue!QueueNext, Queue!Close
  <2>3. CASE Receive
    BY <2>3 DEF Receive, Queue!QueueNext, Queue!TakeJob
  <2>4. QED
    BY <2>1, <2>2, <2>3
       DEF Next, vars, EnqueueStep, CloseStep, RLock, CheckOpen, RUnlock,
           CallLock, GetLock, CloseChannel, Unlock
<1>3. QED
  BY <1>1, <1>2, Invariance, PTL DEF Spec, ImplementsQueue, Queue!QueueSpec

===============================================================================
