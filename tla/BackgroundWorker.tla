--------------------------- MODULE BackgroundWorker ---------------------------
(***************************************************************************)
(* The worker thread that runs the plugin's background tasks               *)
(* (background_thread.rs).  Every instance's wrapper owns a handle to it,  *)
(* and the worker owns the wrapper while it runs one of its tasks, so the  *)
(* last handle may die on the worker itself.                               *)
(***************************************************************************)
EXTENDS Naturals, Sequences

CONSTANTS
  Instances,
  Workers,               \* bound: worker threads there may be at a time
  TASK_QUEUE_CAPACITY,
  Shutdown, Dead,        \* the message; a task whose wrapper no longer exists
  None

ASSUME WorkerAssumption ==
  /\ TASK_QUEUE_CAPACITY \in Nat \ {0}
  /\ None \notin Workers /\ {Shutdown, Dead, None} \cap Instances = {} /\ Shutdown # Dead

VARIABLES
  pc,        \* per instance: how far its life has got
  handle,    \* per instance: the worker its BackgroundThread points to
  current,   \* HANDLE_MAP: the worker a new instance tries first
  thread,    \* per worker
  task,      \* per worker: the task in hand
  queue      \* per worker: its channel

vars == <<pc, handle, current, thread, task, queue>>

Message == Instances \cup {Shutdown, Dead}

TypeOK ==
  /\ pc \in [Instances -> {"none", "live", "orphan", "send", "join"}]
  /\ handle \in [Instances -> Workers \cup {None}]
  /\ current \in Workers \cup {None}
  /\ thread \in [Workers -> {"absent", "recv", "got", "run"}]
  /\ task \in [Workers -> Instances \cup {Dead, None}]
  /\ queue \in [Workers -> Seq(Message)]
  /\ \A w \in Workers : thread[w] = "run" => task[w] \in Instances

Init ==
  /\ pc = [i \in Instances |-> "none"] /\ handle = [i \in Instances |-> None]
  /\ current = None
  /\ thread = [w \in Workers |-> "absent"] /\ task = [w \in Workers |-> None]
  /\ queue = [w \in Workers |-> <<>>]

\* Those whose wrapper exists, and with it the handle it owns.
Wrapped == {i \in Instances : pc[i] \in {"live", "orphan"}}
Owners(w) == {i \in Wrapped : handle[i] = w}
Full(w)   == Len(queue[w]) >= TASK_QUEUE_CAPACITY

-----------------------------------------------------------------------------
\* Mutant: an instance the host has let go of no longer counts as an owner.
MutUpgrade(w) == \E i \in Instances : pc[i] = "live" /\ handle[i] = w
\* Weak::upgrade of the registered worker.
upgrade(w) == Owners(w) # {}

\* Under the map's lock: the worker there is, or a new one in its place.
Create(i) ==
  /\ pc[i] = "none"
  /\ pc' = [pc EXCEPT ![i] = "live"]
  /\ \/ /\ upgrade(current)
        /\ handle' = [handle EXCEPT ![i] = current]
        /\ UNCHANGED <<current, thread>>
     \/ /\ ~upgrade(current)
        /\ \E w \in Workers :
             /\ thread[w] = "absent" /\ \A j \in Instances : handle[j] # w
             /\ thread' = [thread EXCEPT ![w] = "recv"]
             /\ handle' = [handle EXCEPT ![i] = w] /\ current' = w
  /\ UNCHANGED <<task, queue>>

\* try_send; a refused task is lost (CapturePhase has what becomes of it).
schedule(i) ==
  /\ pc[i] = "live" /\ thread[handle[i]] # "absent" /\ ~Full(handle[i])
  /\ queue' = [queue EXCEPT ![handle[i]] = Append(@, i)]
  /\ UNCHANGED <<pc, handle, current, thread, task>>

\* The wrapper dies: tasks that refer to it can no longer upgrade.
Orphaned(i, q) == [k \in DOMAIN q |-> IF q[k] = i THEN Dead ELSE q[k]]

(***************************************************************************)
(* The host drops its reference.  While the worker runs a task of the      *)
(* instance that is not the last one; otherwise the wrapper dies here, and *)
(* the worker's last owner starts to tear it down.                         *)
(***************************************************************************)
Busy(i) == thread[handle[i]] = "run" /\ task[handle[i]] = i

Destroy(i) ==
  /\ pc[i] = "live"
  /\ LET w == handle[i]
         last == Owners(w) = {i} IN
       \/ /\ Busy(i)
          /\ pc' = [pc EXCEPT ![i] = "orphan"]
          /\ UNCHANGED <<handle, task, queue>>
       \/ /\ ~Busy(i)
          /\ pc' = [pc EXCEPT ![i] = IF last THEN "send" ELSE "none"]
          /\ handle' = [handle EXCEPT ![i] = IF last THEN w ELSE None]
          /\ task' = [task EXCEPT ![w] = IF @ = i THEN Dead ELSE @]
          /\ queue' = [queue EXCEPT ![w] = Orphaned(i, @)]
  /\ UNCHANGED <<current, thread>>

\* Mutant: the message is only offered.
MutSendShutdown(i) ==
  /\ pc[i] = "send"
  /\ pc' = [pc EXCEPT ![i] = "join"]
  /\ queue' = IF Full(handle[i]) THEN queue
              ELSE [queue EXCEPT ![handle[i]] = Append(@, Shutdown)]
  /\ UNCHANGED <<handle, current, thread, task>>

\* WorkerThread::drop on the host's thread: a send that waits for room (and fails
\* if nobody receives),
SendShutdown(i) ==
  /\ pc[i] = "send" /\ ~Full(handle[i])
  /\ pc' = [pc EXCEPT ![i] = "join"]
  /\ queue' = IF thread[handle[i]] = "absent" THEN queue
              ELSE [queue EXCEPT ![handle[i]] = Append(@, Shutdown)]
  /\ UNCHANGED <<handle, current, thread, task>>

\* and the join; the sender goes last.
Join(i) ==
  /\ pc[i] = "join" /\ thread[handle[i]] = "absent"
  /\ pc' = [pc EXCEPT ![i] = "none"] /\ handle' = [handle EXCEPT ![i] = None]
  /\ UNCHANGED <<current, thread, task, queue>>

-----------------------------------------------------------------------------
(***************************************************************************)
(* The worker's loop.                                                      *)
(***************************************************************************)
\* The receiver goes with the thread, and what is still queued with it.
Return(w) ==
  /\ thread' = [thread EXCEPT ![w] = "absent"] /\ task' = [task EXCEPT ![w] = None]
  /\ queue' = [queue EXCEPT ![w] = <<>>]

Recv(w) ==
  /\ thread[w] = "recv" /\ queue[w] # <<>>
  /\ \/ /\ Head(queue[w]) = Shutdown /\ Return(w)
     \/ /\ Head(queue[w]) # Shutdown
        /\ thread' = [thread EXCEPT ![w] = "got"]
        /\ task' = [task EXCEPT ![w] = Head(queue[w])]
        /\ queue' = [queue EXCEPT ![w] = Tail(@)]
  /\ UNCHANGED <<pc, handle, current>>

\* The sender of a detached worker is gone, and its channel is empty.
Disconnected(w) ==
  /\ thread[w] = "recv" /\ queue[w] = <<>> /\ \A i \in Instances : handle[i] # w
  /\ Return(w)
  /\ UNCHANGED <<pc, handle, current>>

\* Mutant: one dead executor ends the thread for everyone.
MutExecute(w) ==
  /\ thread[w] = "got"
  /\ \/ task[w] = Dead /\ Return(w)
     \/ task[w] # Dead /\ thread' = [thread EXCEPT ![w] = "run"] /\ UNCHANGED <<task, queue>>
  /\ UNCHANGED <<pc, handle, current>>

\* A task whose wrapper is gone is dropped, and the thread serves on.
Execute(w) ==
  /\ thread[w] = "got"
  /\ \/ /\ task[w] = Dead
        /\ thread' = [thread EXCEPT ![w] = "recv"] /\ task' = [task EXCEPT ![w] = None]
     \/ /\ task[w] \in Instances
        /\ thread' = [thread EXCEPT ![w] = "run"] /\ UNCHANGED task
  /\ UNCHANGED <<pc, handle, current, queue>>

(***************************************************************************)
(* The task is over and the worker drops its reference.  If it was the     *)
(* wrapper's last, WorkerThread::drop may run here: it offers the message  *)
(* and detaches, and dropping the only sender disconnects the channel.     *)
(***************************************************************************)
Finish(w) ==
  /\ thread[w] = "run"
  /\ thread' = [thread EXCEPT ![w] = "recv"] /\ task' = [task EXCEPT ![w] = None]
  /\ LET i == task[w]
         rest == Orphaned(i, queue[w])
         offered == Owners(w) = {i} /\ ~Full(w) IN
       \/ pc[i] = "live" /\ UNCHANGED <<pc, handle, queue>>
       \/ /\ pc[i] = "orphan"
          /\ pc' = [pc EXCEPT ![i] = "none"] /\ handle' = [handle EXCEPT ![i] = None]
          /\ queue' = [queue EXCEPT ![w] = IF offered THEN Append(rest, Shutdown) ELSE rest]
  /\ UNCHANGED current

WorkerStep(w) == Recv(w) \/ Disconnected(w) \/ Execute(w) \/ Finish(w)
DropStep(i)   == SendShutdown(i) \/ Join(i)

Next ==
  \/ \E i \in Instances : Create(i) \/ schedule(i) \/ Destroy(i) \/ DropStep(i)
  \/ \E w \in Workers : WorkerStep(w)

\* Threads run, tasks end, and nobody else sends to a worker without owners.
Fairness ==
  /\ \A i \in Instances : WF_vars(DropStep(i))
  /\ \A w \in Workers : WF_vars(WorkerStep(w))

Spec == Init /\ [][Next]_vars
FairSpec == Spec /\ Fairness
-----------------------------------------------------------------------------
\* Whatever is being torn down meanwhile, the instances that exist share the
\* worker the map names, and its thread is there to serve them.
Served == \A i \in Wrapped : handle[i] = current /\ thread[current] # "absent"

\* A destroyed instance is gone in the end, wherever its last reference died, and a
\* worker without owners ends: no self-join on the worker, no wait for a full queue.
TeardownEnds ==
  /\ \A i \in Instances : pc[i] \in {"orphan", "send", "join"} ~> pc[i] = "none"
  /\ \A w \in Workers : Owners(w) = {} ~> thread[w] = "absent" \/ Owners(w) # {}

Queued(i) == pc[i] = "live" /\ \E k \in DOMAIN queue[handle[i]] : queue[handle[i]][k] = i
Runs(i)   == \E w \in Workers : thread[w] = "run" /\ task[w] = i

\* The patch note in worker_thread(): an instance destroyed with tasks queued does
\* not stop the tasks of the others.
AcceptedTaskRuns == \A i \in Instances : Queued(i) ~> Runs(i) \/ pc[i] # "live"
=============================================================================
