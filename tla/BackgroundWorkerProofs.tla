------------------------ MODULE BackgroundWorkerProofs ------------------------
(***************************************************************************)
(* That an instance always has a worker to serve it, for any number of     *)
(* instances, workers and queued tasks.                                    *)
(***************************************************************************)
EXTENDS BackgroundWorker, SequenceTheorems, TLAPS

\* A worker being torn down has no owners left,
TornDownUnowned ==
  \A i \in Instances :
    pc[i] \in {"send", "join"} => handle[i] \in Workers /\ Owners(handle[i]) = {}

\* so that no owner's worker has been told to end,
NotShutDown(w) == \A k \in DOMAIN queue[w] : queue[w][k] # Shutdown
OwnersServed == \A w \in Workers : Owners(w) # {} => thread[w] # "absent" /\ NotShutDown(w)

\* and a thread that is not there leaves an empty channel for the next.
AbsentEmpty == \A w \in Workers : thread[w] = "absent" => queue[w] = <<>>

OneCurrent == \A i \in Wrapped : handle[i] = current /\ handle[i] \in Workers

IInv == TypeOK /\ OneCurrent /\ TornDownUnowned /\ OwnersServed /\ AbsentEmpty

LEMMA InitInv == Init => IInv
  BY WorkerAssumption DEF Init, IInv, TypeOK, OneCurrent, TornDownUnowned, OwnersServed,
     AbsentEmpty, Wrapped, Owners, Message

\* Orphaned() only turns an instance's tasks into dead ones.
LEMMA OrphanedQueue ==
  ASSUME NEW i \in Instances, NEW q \in Seq(Message)
  PROVE  /\ Orphaned(i, q) \in Seq(Message)
         /\ DOMAIN Orphaned(i, q) = DOMAIN q
         /\ q = <<>> => Orphaned(i, q) = <<>>
         /\ \A k \in DOMAIN q : Orphaned(i, q)[k] = Shutdown => q[k] = Shutdown
<1>1. DOMAIN q = 1 .. Len(q) /\ Len(q) \in Nat /\ \A k \in 1 .. Len(q) : q[k] \in Message
  OBVIOUS
<1>2. DOMAIN Orphaned(i, q) = 1 .. Len(q)
  BY <1>1 DEF Orphaned
<1>3. \A k \in 1 .. Len(q) : Orphaned(i, q)[k] \in Message
  BY <1>1 DEF Orphaned, Message
<1>4. Orphaned(i, q) \in Seq(Message)
  BY <1>1, <1>2, <1>3 DEF Orphaned
<1>5. q = <<>> => Orphaned(i, q) = <<>>
  BY <1>1, <1>2, <1>4
<1>6. \A k \in DOMAIN q : Orphaned(i, q)[k] = Shutdown => q[k] = Shutdown
  BY <1>1, WorkerAssumption DEF Orphaned
<1> QED
  BY <1>1, <1>2, <1>4, <1>5, <1>6

\* A new instance joins the current worker, or finds no owner anywhere and
\* a fresh thread with an empty channel.
LEMMA CreateInv ==
  ASSUME IInv, NEW i \in Instances, Create(i)
  PROVE  IInv'
<1> USE DEF IInv
<1>0. pc[i] = "none" /\ pc' = [pc EXCEPT ![i] = "live"] /\ UNCHANGED <<task, queue>>
  BY DEF Create
<1>a. Wrapped' = Wrapped \cup {i} /\ i \notin Wrapped
  BY <1>0 DEF Wrapped, TypeOK
<1>1. CASE upgrade(current) /\ handle' = [handle EXCEPT ![i] = current]
           /\ UNCHANGED <<current, thread>>
  <2>1. PICK o \in Wrapped : handle[o] = current /\ current \in Workers
    BY <1>1 DEF upgrade, Owners, OneCurrent
  <2>2. TypeOK'
    BY <1>0, <1>1, <2>1 DEF TypeOK
  <2>3. OneCurrent'
    BY <1>0, <1>1, <1>a, <2>1 DEF OneCurrent, TypeOK
  <2>4. \A w : Owners(w)' = IF w = current THEN Owners(w) \cup {i} ELSE Owners(w)
    BY <1>0, <1>1, <1>a DEF Owners, TypeOK, Wrapped
  <2>5. TornDownUnowned'
    <3> SUFFICES ASSUME NEW j \in Instances, pc'[j] \in {"send", "join"}
                 PROVE  handle'[j] \in Workers /\ Owners(handle[j])' = {}
      BY <1>0, <1>1 DEF TornDownUnowned, TypeOK
    <3>1. j # i /\ pc[j] \in {"send", "join"}
      BY <1>0 DEF TypeOK
    <3>2. handle[j] # current /\ handle[j] \in Workers /\ Owners(handle[j]) = {}
      BY <3>1, <1>1 DEF TornDownUnowned, upgrade
    <3>3. handle'[j] = handle[j] /\ Owners(handle[j])' = {x \in Wrapped' : handle'[x] = handle'[j]}
      BY <3>1, <1>1 DEF TypeOK, Owners
    <3>4. Owners(handle[j])' = Owners(handle[j])
      BY <3>2, <3>3, <2>4 DEF Owners
    <3> QED
      BY <3>2, <3>3, <3>4
  <2>6. OwnersServed'
    BY <1>0, <1>1, <2>1, <2>4 DEF OwnersServed, NotShutDown, upgrade
  <2>7. AbsentEmpty'
    BY <1>0, <1>1 DEF AbsentEmpty
  <2> QED
    BY <2>2, <2>3, <2>5, <2>6, <2>7
<1>2. ASSUME ~upgrade(current), NEW w \in Workers, thread[w] = "absent",
             \A j \in Instances : handle[j] # w,
             thread' = [thread EXCEPT ![w] = "recv"],
             handle' = [handle EXCEPT ![i] = w], current' = w
      PROVE  IInv'
  <2>1. Wrapped = {}
    BY <1>2 DEF upgrade, Owners, OneCurrent
  <2>2. TypeOK'
    BY <1>0, <1>2 DEF TypeOK
  <2>3. OneCurrent'
    BY <1>0, <1>2, <1>a, <2>1 DEF OneCurrent, TypeOK
  <2>4. \A v : Owners(v)' = IF v = w THEN {i} ELSE {}
    BY <1>0, <1>2, <1>a, <2>1 DEF Owners, TypeOK
  <2>5. TornDownUnowned'
    BY <1>0, <1>2, <2>4 DEF TornDownUnowned, TypeOK
  <2>6. OwnersServed'
    BY <1>0, <1>2, <2>4 DEF OwnersServed, NotShutDown, AbsentEmpty, TypeOK
  <2>7. AbsentEmpty'
    BY <1>0, <1>2 DEF AbsentEmpty, TypeOK
  <2> QED
    BY <2>2, <2>3, <2>5, <2>6, <2>7
<1> QED
  BY <1>1, <1>2 DEF Create

LEMMA ScheduleInv ==
  ASSUME IInv, NEW i \in Instances, schedule(i)
  PROVE  IInv'
<1> USE DEF IInv
<1>0. /\ pc[i] = "live" /\ thread[handle[i]] # "absent"
      /\ queue' = [queue EXCEPT ![handle[i]] = Append(@, i)]
      /\ UNCHANGED <<pc, handle, current, thread, task>>
  BY DEF schedule
<1>1. i \in Wrapped /\ handle[i] \in Workers
  BY <1>0 DEF Wrapped, OneCurrent
<1>2. Wrapped' = Wrapped /\ \A w : Owners(w)' = Owners(w)
  BY <1>0 DEF Wrapped, Owners
<1>3. TypeOK'
  BY <1>0, <1>1 DEF TypeOK, Message
<1>4. OneCurrent' /\ TornDownUnowned'
  BY <1>0, <1>2 DEF OneCurrent, TornDownUnowned
<1>5. OwnersServed'
  <2> SUFFICES ASSUME NEW w \in Workers, Owners(w) # {}
               PROVE  thread[w] # "absent" /\ NotShutDown(w)'
    BY <1>0, <1>2 DEF OwnersServed
  <2>1. thread[w] # "absent" /\ NotShutDown(w) /\ queue[w] \in Seq(Message)
    BY DEF OwnersServed, TypeOK
  <2>2. CASE w = handle[i]
    <3>1. queue'[w] = Append(queue[w], i)
      BY <1>0, <1>1, <2>2 DEF TypeOK
    <3>2. \A k \in DOMAIN queue'[w] : queue'[w][k] # Shutdown
      BY <2>1, <3>1, WorkerAssumption DEF NotShutDown, Message
    <3> QED
      BY <2>1, <3>2 DEF NotShutDown
  <2>3. CASE w # handle[i]
    BY <1>0, <1>1, <2>1, <2>3 DEF TypeOK, NotShutDown
  <2> QED
    BY <2>2, <2>3
<1>6. AbsentEmpty'
  BY <1>0, <1>1 DEF AbsentEmpty, TypeOK
<1> QED
  BY <1>3, <1>4, <1>5, <1>6

\* The host's reference goes.  The last owner leaves the worker unowned.
LEMMA DestroyInv ==
  ASSUME IInv, NEW i \in Instances, Destroy(i)
  PROVE  IInv'
<1> USE DEF IInv
<1> DEFINE w == handle[i]
           last == Owners(w) = {i}
<1>0. pc[i] = "live" /\ UNCHANGED <<current, thread>>
  BY DEF Destroy
<1>1. i \in Wrapped /\ w \in Workers /\ i \in Owners(w)
  BY <1>0 DEF Wrapped, OneCurrent, Owners
<1>2. CASE pc' = [pc EXCEPT ![i] = "orphan"] /\ UNCHANGED <<handle, task, queue>>
  <2>1. Wrapped' = Wrapped /\ \A v : Owners(v)' = Owners(v)
    BY <1>0, <1>1, <1>2 DEF Wrapped, Owners, TypeOK
  <2>2. TypeOK' /\ OneCurrent' /\ AbsentEmpty'
    BY <1>0, <1>2, <2>1 DEF TypeOK, OneCurrent, AbsentEmpty
  <2>3. TornDownUnowned' /\ OwnersServed'
    BY <1>0, <1>2, <2>1 DEF TornDownUnowned, OwnersServed, NotShutDown, TypeOK
  <2> QED
    BY <2>2, <2>3
<1>3. CASE /\ ~Busy(i)
           /\ pc' = [pc EXCEPT ![i] = IF last THEN "send" ELSE "none"]
           /\ handle' = [handle EXCEPT ![i] = IF last THEN w ELSE None]
           /\ task' = [task EXCEPT ![w] = IF @ = i THEN Dead ELSE @]
           /\ queue' = [queue EXCEPT ![w] = Orphaned(i, @)]
  <2>1. Wrapped' = Wrapped \ {i}
    BY <1>0, <1>3 DEF Wrapped, TypeOK
  <2>2. \A v : Owners(v)' = Owners(v) \ {i}
    BY <1>3, <2>1 DEF Owners, TypeOK, Wrapped
  <2>3. queue[w] \in Seq(Message) /\ queue'[w] = Orphaned(i, queue[w])
        /\ \A v \in Workers \ {w} : queue'[v] = queue[v]
    BY <1>1, <1>3 DEF TypeOK
  <2>4. /\ queue'[w] \in Seq(Message) /\ DOMAIN queue'[w] = DOMAIN queue[w]
        /\ queue[w] = <<>> => queue'[w] = <<>>
        /\ \A k \in DOMAIN queue[w] : queue'[w][k] = Shutdown => queue[w][k] = Shutdown
    <3> HIDE DEF w
    <3> QED
      BY <2>3, OrphanedQueue
  <2>5. TypeOK'
    <3>1. queue' \in [Workers -> Seq(Message)]
      BY <1>3, <2>3, <2>4 DEF TypeOK
    <3> QED
      BY <1>0, <1>1, <1>3, <3>1 DEF TypeOK, Busy
  <2>6. OneCurrent'
    BY <1>0, <1>3, <2>1 DEF OneCurrent, TypeOK, Wrapped
  <2>7. TornDownUnowned'
    <3> SUFFICES ASSUME NEW j \in Instances, pc'[j] \in {"send", "join"}
                 PROVE  handle'[j] \in Workers /\ Owners(handle[j])' = {}
      BY DEF TornDownUnowned
    <3>1. CASE j = i
      <4>1. last /\ handle'[j] = w
        BY <1>3, <3>1 DEF TypeOK
      <4>2. Owners(handle[j])' = Owners(w)'
        BY <4>1, <1>0, <3>1 DEF Owners
      <4> QED
        BY <4>1, <4>2, <1>1, <2>2
    <3>2. CASE j # i
      <4>1. pc[j] \in {"send", "join"} /\ handle'[j] = handle[j]
        BY <1>3, <3>2 DEF TypeOK
      <4> QED
        BY <4>1, <2>2 DEF TornDownUnowned
    <3> QED
      BY <3>1, <3>2
  <2>8. OwnersServed'
    <3> SUFFICES ASSUME NEW v \in Workers, Owners(v) # {}
                 PROVE  thread[v] # "absent" /\ NotShutDown(v)'
      BY <1>0, <2>2 DEF OwnersServed
    <3>1. thread[v] # "absent" /\ NotShutDown(v)
      BY DEF OwnersServed
    <3> QED
      BY <3>1, <2>3, <2>4 DEF NotShutDown
  <2>9. AbsentEmpty'
    BY <1>0, <2>3, <2>4 DEF AbsentEmpty
  <2> QED
    BY <2>5, <2>6, <2>7, <2>8, <2>9
<1> QED
  BY <1>2, <1>3 DEF Destroy

LEMMA DropInv ==
  ASSUME IInv, NEW i \in Instances, DropStep(i)
  PROVE  IInv'
<1> USE DEF IInv
<1>1. CASE SendShutdown(i)
  <2>1. /\ pc[i] = "send" /\ pc' = [pc EXCEPT ![i] = "join"]
        /\ queue' = IF thread[handle[i]] = "absent" THEN queue
                    ELSE [queue EXCEPT ![handle[i]] = Append(@, Shutdown)]
        /\ UNCHANGED <<handle, current, thread, task>>
    BY <1>1 DEF SendShutdown
  <2>2. Wrapped' = Wrapped /\ \A v : Owners(v)' = Owners(v)
    BY <2>1 DEF Wrapped, Owners, TypeOK
  <2>3. handle[i] \in Workers /\ Owners(handle[i]) = {}
    BY <2>1 DEF TornDownUnowned
  <2>4. TypeOK'
    BY <2>1, <2>3 DEF TypeOK, Message
  <2>5. OneCurrent' /\ TornDownUnowned'
    BY <2>1, <2>2 DEF OneCurrent, TornDownUnowned, TypeOK
  <2>6. OwnersServed'
    BY <2>1, <2>2, <2>3 DEF OwnersServed, NotShutDown, TypeOK
  <2>7. AbsentEmpty'
    BY <2>1, <2>3 DEF AbsentEmpty, TypeOK
  <2> QED
    BY <2>4, <2>5, <2>6, <2>7
<1>2. CASE Join(i)
  <2>1. /\ pc[i] = "join" /\ pc' = [pc EXCEPT ![i] = "none"]
        /\ handle' = [handle EXCEPT ![i] = None]
        /\ UNCHANGED <<current, thread, task, queue>>
    BY <1>2 DEF Join
  <2>2. Wrapped' = Wrapped /\ \A v : Owners(v)' = Owners(v)
    BY <2>1 DEF Wrapped, Owners, TypeOK
  <2>3. TypeOK' /\ AbsentEmpty'
    BY <2>1 DEF TypeOK, AbsentEmpty
  <2>4. OneCurrent' /\ TornDownUnowned'
    BY <2>1, <2>2 DEF OneCurrent, TornDownUnowned, TypeOK, Wrapped
  <2>5. OwnersServed'
    BY <2>1, <2>2 DEF OwnersServed, NotShutDown
  <2> QED
    BY <2>3, <2>4, <2>5
<1> QED
  BY <1>1, <1>2 DEF DropStep

\* The thread takes a message, or ends; it ends only where nobody is served.
LEMMA RecvInv ==
  ASSUME IInv, NEW w \in Workers, Recv(w) \/ Disconnected(w)
  PROVE  IInv'
<1> USE DEF IInv
<1>0. UNCHANGED <<pc, handle, current>> /\ thread[w] = "recv" /\ queue[w] \in Seq(Message)
  BY DEF Recv, Disconnected, TypeOK
<1>1. Wrapped' = Wrapped /\ \A v : Owners(v)' = Owners(v)
  BY <1>0 DEF Wrapped, Owners
<1>2. OneCurrent' /\ TornDownUnowned'
  BY <1>0, <1>1 DEF OneCurrent, TornDownUnowned
<1>3. ASSUME Return(w), Owners(w) = {}
      PROVE  IInv'
  <2>1. TypeOK' /\ AbsentEmpty'
    BY <1>0, <1>3 DEF Return, TypeOK, AbsentEmpty
  <2>2. OwnersServed'
    BY <1>1, <1>3 DEF Return, OwnersServed, NotShutDown, TypeOK
  <2> QED
    BY <1>2, <2>1, <2>2
<1>4. CASE Disconnected(w)
  <2>1. Return(w) /\ Owners(w) = {}
    BY <1>4 DEF Disconnected, Owners, Wrapped
  <2> QED
    BY <1>3, <2>1
<1>5. CASE Recv(w) /\ Head(queue[w]) = Shutdown
  <2>1. queue[w] # <<>> /\ (Return(w) \/ Head(queue[w]) # Shutdown)
    BY <1>5 DEF Recv
  <2>2. ~NotShutDown(w)
    BY <1>0, <1>5, <2>1 DEF NotShutDown
  <2> QED
    BY <1>3, <1>5, <2>1, <2>2 DEF OwnersServed
<1>6. CASE Recv(w) /\ Head(queue[w]) # Shutdown
  <2>1. /\ queue[w] # <<>> /\ thread' = [thread EXCEPT ![w] = "got"]
        /\ task' = [task EXCEPT ![w] = Head(queue[w])]
        /\ queue' = [queue EXCEPT ![w] = Tail(@)]
    BY <1>6 DEF Recv
  <2>2. Head(queue[w]) \in Instances \cup {Dead, None} /\ Tail(queue[w]) \in Seq(Message)
    BY <1>0, <1>6, <2>1 DEF Message
  <2>3. TypeOK' /\ AbsentEmpty'
    BY <1>0, <2>1, <2>2 DEF TypeOK, AbsentEmpty
  <2>4. NotShutDown(w) => NotShutDown(w)'
    <3>1. queue'[w] = Tail(queue[w])
      BY <2>1 DEF TypeOK
    <3>2. \A k \in DOMAIN Tail(queue[w]) : k + 1 \in DOMAIN queue[w]
                                           /\ Tail(queue[w])[k] = queue[w][k + 1]
      BY <1>0, <2>1
    <3> QED
      BY <3>1, <3>2 DEF NotShutDown
  <2>5. OwnersServed'
    BY <1>1, <2>1, <2>4 DEF OwnersServed, NotShutDown, TypeOK
  <2> QED
    BY <1>2, <2>3, <2>5
<1> QED
  BY <1>4, <1>5, <1>6

LEMMA ExecuteInv ==
  ASSUME IInv, NEW w \in Workers, Execute(w)
  PROVE  IInv'
<1> USE DEF IInv
<1>1. UNCHANGED <<pc, handle, current, queue>> /\ thread[w] = "got"
  BY DEF Execute
<1>2. Wrapped' = Wrapped /\ \A v : Owners(v)' = Owners(v)
  BY <1>1 DEF Wrapped, Owners
<1>3. OneCurrent' /\ TornDownUnowned'
  BY <1>1, <1>2 DEF OneCurrent, TornDownUnowned
<1>4. TypeOK' /\ OwnersServed' /\ AbsentEmpty'
  BY <1>1, <1>2 DEF Execute, TypeOK, OwnersServed, NotShutDown, AbsentEmpty
<1> QED
  BY <1>3, <1>4

\* The wrapper may die here, and the message is offered only by the last owner.
LEMMA FinishInv ==
  ASSUME IInv, NEW w \in Workers, Finish(w)
  PROVE  IInv'
<1> USE DEF IInv
<1> DEFINE i == task[w]
           rest == Orphaned(i, queue[w])
           offered == Owners(w) = {i} /\ ~Full(w)
<1>0. /\ thread[w] = "run" /\ thread' = [thread EXCEPT ![w] = "recv"]
      /\ task' = [task EXCEPT ![w] = None] /\ UNCHANGED current
      /\ queue[w] \in Seq(Message)
  BY DEF Finish, TypeOK
<1>1. CASE UNCHANGED <<pc, handle, queue>>
  <2>1. Wrapped' = Wrapped /\ \A v : Owners(v)' = Owners(v)
    BY <1>1 DEF Wrapped, Owners
  <2>2. OneCurrent' /\ TornDownUnowned'
    BY <1>0, <1>1, <2>1 DEF OneCurrent, TornDownUnowned
  <2>3. TypeOK' /\ OwnersServed' /\ AbsentEmpty'
    BY <1>0, <1>1, <2>1 DEF TypeOK, OwnersServed, NotShutDown, AbsentEmpty
  <2> QED
    BY <2>2, <2>3
<1>2. ASSUME i \in Instances, pc[i] = "orphan", pc' = [pc EXCEPT ![i] = "none"],
             handle' = [handle EXCEPT ![i] = None],
             queue' = [queue EXCEPT ![w] = IF offered THEN Append(rest, Shutdown) ELSE rest]
      PROVE  IInv'
  <2>1. Wrapped' = Wrapped \ {i} /\ \A v : Owners(v)' = Owners(v) \ {i}
    BY <1>2 DEF Wrapped, Owners, TypeOK
  <2>2. /\ rest \in Seq(Message)
        /\ \A k \in DOMAIN rest : rest[k] = Shutdown => queue[w][k] = Shutdown
        /\ DOMAIN rest = DOMAIN queue[w]
    <3> HIDE DEF i
    <3> QED
      BY <1>0, <1>2, OrphanedQueue
  <2>3. /\ queue'[w] = IF offered THEN Append(rest, Shutdown) ELSE rest
        /\ \A v \in Workers \ {w} : queue'[v] = queue[v]
    BY <1>2 DEF TypeOK
  <2>4. queue'[w] \in Seq(Message)
    <3> HIDE DEF rest, offered
    <3> QED
      BY <2>2, <2>3 DEF Message
  <2>5. TypeOK'
    BY <1>0, <1>2, <2>3, <2>4 DEF TypeOK
  <2>6. OneCurrent'
    BY <1>0, <1>2, <2>1 DEF OneCurrent, TypeOK
  <2>7. TornDownUnowned'
    <3> SUFFICES ASSUME NEW j \in Instances, pc'[j] \in {"send", "join"}
                 PROVE  handle'[j] \in Workers /\ Owners(handle[j])' = {}
      BY DEF TornDownUnowned
    <3>1. j # i /\ pc[j] \in {"send", "join"} /\ handle'[j] = handle[j]
      BY <1>2 DEF TypeOK
    <3>2. handle[j] \in Workers /\ Owners(handle[j]) = {}
      BY <3>1 DEF TornDownUnowned
    <3>3. Owners(handle[j])' = {x \in Wrapped' : handle'[x] = handle[j]}
      BY <3>1 DEF Owners
    <3>4. \A x \in Wrapped' : handle'[x] = handle[x] /\ x \in Wrapped
      BY <2>1, <1>2 DEF TypeOK, Wrapped
    <3> QED
      BY <3>1, <3>2, <3>3, <3>4 DEF Owners
  <2>8. OwnersServed'
    <3> SUFFICES ASSUME NEW v \in Workers, Owners(v)' # {}
                 PROVE  thread'[v] # "absent" /\ NotShutDown(v)'
      BY DEF OwnersServed
    <3>1. Owners(v) # {} /\ Owners(v) # {i} /\ thread[v] # "absent" /\ NotShutDown(v)
      BY <2>1 DEF OwnersServed
    <3>2. thread'[v] # "absent"
      BY <1>0, <3>1 DEF TypeOK
    <3>3. CASE v = w
      <4>1. queue'[w] = rest
        BY <2>3, <3>1, <3>3
      <4> QED
        BY <3>1, <3>2, <3>3, <4>1, <2>2 DEF NotShutDown
    <3>4. CASE v # w
      BY <2>3, <3>1, <3>2, <3>4 DEF NotShutDown
    <3> QED
      BY <3>3, <3>4
  <2>9. AbsentEmpty'
    BY <1>0, <2>3 DEF AbsentEmpty, TypeOK
  <2> QED
    BY <2>5, <2>6, <2>7, <2>8, <2>9
<1>3. pc[i] = "orphan" => i \in Instances
  BY <1>0 DEF TypeOK
<1> QED
  BY <1>1, <1>2, <1>3 DEF Finish

LEMMA StepInv == IInv /\ [Next]_vars => IInv'
<1> SUFFICES ASSUME IInv, [Next]_vars
             PROVE  IInv'
  OBVIOUS
<1>1. ASSUME NEW i \in Instances, Create(i) \/ schedule(i) \/ Destroy(i) \/ DropStep(i)
      PROVE  IInv'
  BY <1>1, CreateInv, ScheduleInv, DestroyInv, DropInv
<1>2. ASSUME NEW w \in Workers, WorkerStep(w)
      PROVE  IInv'
  BY <1>2, RecvInv, ExecuteInv, FinishInv DEF WorkerStep
<1>3. CASE UNCHANGED vars
  BY <1>3 DEF vars, IInv, TypeOK, OneCurrent, TornDownUnowned, OwnersServed, AbsentEmpty,
     Wrapped, Owners, NotShutDown
<1> QED
  BY <1>1, <1>2, <1>3 DEF Next

\* Every instance that exists shares the current worker, whose thread is there to run
\* its tasks, however many instances come and go and wherever their last reference dies
\* (background_thread.rs: get_or_create_worker_thread, WorkerThread::drop).
THEOREM InstancesServed == Spec => []Served
<1>1. IInv => Served
  BY DEF IInv, Served, OneCurrent, OwnersServed, Owners
<1> QED
  BY <1>1, InitInv, StepInv, PTL DEF Spec
=============================================================================
