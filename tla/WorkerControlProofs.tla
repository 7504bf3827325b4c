------------------------- MODULE WorkerControlProofs -------------------------
(***************************************************************************)
(* Proofs about WorkerControl: its types, that a waiting worker never      *)
(* misses a control message, that the callbacks of the event loop outlive  *)
(* their epoll registration, that an acknowledged stop leaves no worker in *)
(* its loop and that the stack worker polls the tasks it is told to, for   *)
(* any number of workers, tasks, callbacks and requests.                   *)
(***************************************************************************)
EXTENDS WorkerControl, TLAPS, FiniteSetTheorems, SequenceTheorems

-----------------------------------------------------------------------------
(* The inductive invariant.                                                *)

\* The points of run() after it has found the inbox empty.
Committed == {"enter", "top", "poll", "fetched", "serve", "update"}

\* What makes the edge triggered control socket work: from the check of run()
\* on, either the next message will be signalled, or the signal of a message
\* that came since is on its way to the flag the loop stops on.
Signalling ==
    /\ \A w \in asleep : inbox[w] = <<>> /\ pc[w] # "boot"
    /\ \A w \in Workers :
         /\ pc[w] \in Committed /\ inbox[w] = <<>> => w \in asleep
         /\ inbox[w] # <<>> \/ terminated =>
              /\ pc[w] = "enter" => w \in signalled
              /\ pc[w] \in {"top", "poll"} => w \in edge
              /\ pc[w] \in {"fetched", "serve", "update"} => w \in edge \/ messages[w]

\* The lists of the event loop are disjoint, and what poll() has returned is
\* gone when the loop is updated.
Loop ==
    /\ m_additions \cap m_runnables = {} /\ m_additions \cap m_deletions = {}
    /\ m_runnables \cap m_deletions = {}
    /\ \A w \in Workers : pc[w] \notin {"fetched", "serve"} => fetched[w] = {}
    /\ \A w \in Workers : w # Stack => (registered[w] \cup fetched[w]) \subseteq Tasks
    /\ LoopCallbacksKept

\* The commands in a queue, and a queue that ends with a command.
Only(q, cmds) == \A i \in 1..Len(q) : q[i].cmd \in cmds
EndsIn(q, cmd, cmds) ==
    /\ q # <<>> /\ q[Len(q)].cmd = cmd
    /\ \A i \in 1..Len(q) - 1 : q[i].cmd \in cmds

\* The workers that have stopped and have nothing left to do.
Silent == {w \in Workers : /\ state[w] = "stopped" /\ inbox[w] = <<>>
                           /\ pc[w] \in {"recv", "exited"}}

\* The workers that have nothing left to read.
Emptied == {w \in Workers : inbox[w] = <<>>}

\* Launch: a worker answers once, after it has subscribed.
Launching ==
    /\ responses <= Cardinality(subscribed)
    /\ \A w \in Workers : pc[w] \in {"boot", "recv"} /\ inbox[w] = <<>>

\* Start: a worker that has read everything has answered.
Starting ==
    /\ responses <= Cardinality(Emptied)
    /\ \A w \in Workers : inbox[w] = <<>> \/ EndsIn(inbox[w], "start", {"queues"})

\* Stop: a worker answers when it has left its loop, and reads nothing after.
Stopping ==
    /\ responses <= Cardinality(Silent)
    /\ \A w \in Workers : w \in Silent \/ EndsIn(inbox[w], "stop", {"add", "del"})

\* What is queued and who has acknowledged it, in each phase of the controller.
Phase ==
    /\ ctl = "launch" => Launching
    /\ ctl # "launch" => \A w \in Workers : pc[w] # "boot"
    /\ ctl \in {"launch", "config", "starting"} => ~terminated
    /\ ctl = "config" => \A w \in Workers : Only(inbox[w], {"queues"})
    /\ ctl = "starting" => Starting
    /\ ctl = "serve" => \A w \in Workers : Only(inbox[w], {"add", "del"})
    /\ ctl = "stopping" => Stopping
    /\ ctl = "stopped" => \A w \in Workers : w \in Silent

\* Message m adds or deletes task t.
About(m, t) == m.cmd \in {"add", "del"} /\ m.task = t

\* The tasks that are to be erased, and those that are added and not deleted.
Doomed == {cb.task : cb \in m_callbacks}
Live   == m_tasks \ Doomed

\* A worker with tasks P that obeys its queue q will have t exactly if t is in L.
Agrees(q, P, L, t) ==
    /\ (\A i \in 1..Len(q) : ~About(q[i], t)) => (t \in P <=> t \in L)
    /\ \A i \in 1..Len(q) :
         About(q[i], t) /\ (\A j \in i + 1..Len(q) : ~About(q[j], t)) =>
            (q[i].cmd = "add" <=> t \in L)

\* The controller's tasks and the queue of the stack worker.
Applied ==
    /\ ~terminated => Doomed \subseteq m_tasks
    /\ \A w \in Workers : pc[w] = "exited" => terminated
    /\ \A w \in Workers : w # Stack => pollables[w] = {}
    /\ ~terminated => \A t \in Tasks : Agrees(inbox[Stack], pollables[Stack], Live, t)

\* The tasks in the epoll set.
Polled ==
    \A w \in Workers :
        /\ pc[w] \notin Running => registered[w] \cap Tasks = {}
        /\ registered[w] \cap Tasks \subseteq pollables[w]
        /\ pc[w] \in Running /\ inbox[w] = <<>> /\ ~terminated =>
              pollables[w] \subseteq registered[w]

Inv == TypeOK /\ Signalling /\ Loop /\ Phase /\ Applied /\ Polled

-----------------------------------------------------------------------------
(* Types.                                                                  *)

\* publish() keeps the types of the sockets.
LEMMA PublishTypes ==
    ASSUME ZmqTypes, NEW msg \in Messages, publish(msg)
    PROVE  ZmqTypes'
<1>1. CASE terminated
  BY <1>1 DEF publish, zmqVars, ZmqTypes
<1>2. CASE ~terminated
  <2> DEFINE f == [w \in Workers |-> IF w \in subscribed
                                    THEN Append(inbox[w], msg) ELSE inbox[w]]
  <2>1. inbox' = f
    BY <1>2 DEF publish
  <2>2. \A w \in Workers : f[w] \in Seq(Messages)
    BY DEF ZmqTypes
  <2>3. f \in [Workers -> Seq(Messages)]
    BY <2>2
  <2>4. asleep' \subseteq Workers /\ signalled' \subseteq Workers /\ edge' \subseteq Workers
    BY <1>2 DEF publish, notify, watching, ZmqTypes
  <2> QED
    BY <2>1, <2>3, <2>4 DEF ZmqTypes
<1> QED
  BY <1>1, <1>2

\* The recycler keeps the types.
LEMMA GcTypes ==
    ASSUME CtlTypes, WorkerTypes, writer_process_gc_callbacks
    PROVE  /\ m_tasks' \subseteq Tasks
           /\ m_callbacks' \subseteq [task : Tasks, readers : SUBSET Workers]
           /\ active' \subseteq Workers
           /\ registered' \in [Workers -> SUBSET (Tasks \cup Callbacks)]
           /\ fetched' \in [Workers -> SUBSET (Tasks \cup Callbacks)]
BY DEF CtlTypes, WorkerTypes, writer_process_gc_callbacks

\* A reader that passes a quiescent point leaves the pending erasures typed.
LEMMA PassedTypes ==
    ASSUME CtlTypes, NEW w \in Workers
    PROVE  passed(w) \subseteq [task : Tasks, readers : SUBSET Workers]
<1> SUFFICES ASSUME NEW c \in m_callbacks
             PROVE  [c EXCEPT !.readers = @ \ {w}] \in [task : Tasks, readers : SUBSET Workers]
  BY DEF passed
<1>1. c \in [task : Tasks, readers : SUBSET Workers]
  BY DEF CtlTypes
<1> QED
  BY <1>1

\* Types are preserved by every step.
LEMMA TypesStep ==
    ASSUME TypeOK, Next
    PROVE  TypeOK'
<1> USE DEF TypeOK
<1> USE DEF ctlVars, gcVars, runVars, confVars, pollVars, loopVars, zmqVars, workerVars
<1>1. CASE launch_workers
  <2>1. CtlTypes'
    BY <1>1 DEF launch_workers, CtlTypes
  <2>2. WorkerTypes'
    BY <1>1 DEF launch_workers, WorkerTypes
  <2>3. ZmqTypes'
    <3>1. message("queues", None) \in Messages
      BY DEF message, Messages
    <3> QED
      BY <1>1, <3>1, PublishTypes DEF launch_workers
  <2> QED
    BY <2>1, <2>2, <2>3
<1>2. CASE start
  <2>1. CtlTypes'
    BY <1>2 DEF start, CtlTypes
  <2>2. WorkerTypes'
    BY <1>2 DEF start, WorkerTypes
  <2>3. ZmqTypes'
    <3>1. message("start", None) \in Messages
      BY DEF message, Messages
    <3> QED
      BY <1>2, <3>1, PublishTypes DEF start
  <2> QED
    BY <2>1, <2>2, <2>3
<1>3. CASE started
  <2>1. CtlTypes'
    BY <1>3 DEF started, CtlTypes
  <2>2. WorkerTypes'
    BY <1>3 DEF started, WorkerTypes
  <2>3. ZmqTypes'
    BY <1>3 DEF started, ZmqTypes
  <2> QED
    BY <2>1, <2>2, <2>3
<1>4. CASE stopped
  <2>1. CtlTypes'
    BY <1>4 DEF stopped, CtlTypes
  <2>2. WorkerTypes'
    BY <1>4 DEF stopped, WorkerTypes
  <2>3. ZmqTypes'
    BY <1>4 DEF stopped, ZmqTypes
  <2> QED
    BY <2>1, <2>2, <2>3
<1>5. CASE reclaim
  <2>1. CtlTypes'
    BY <1>5, GcTypes DEF reclaim, CtlTypes
  <2>2. WorkerTypes'
    BY <1>5, GcTypes DEF reclaim, WorkerTypes
  <2>3. ZmqTypes'
    BY <1>5 DEF reclaim, ZmqTypes
  <2> QED
    BY <2>1, <2>2, <2>3
<1>6. CASE join
  <2>1. CtlTypes'
    BY <1>6 DEF join, CtlTypes
  <2>2. WorkerTypes'
    BY <1>6 DEF join, WorkerTypes
  <2>3. ZmqTypes'
    BY <1>6 DEF join, ZmqTypes
  <2> QED
    BY <2>1, <2>2, <2>3
<1>7. CASE handle_recycler_timeout
  <2>1. CtlTypes'
    BY <1>7, GcTypes DEF handle_recycler_timeout, CtlTypes
  <2>2. WorkerTypes'
    BY <1>7, GcTypes DEF handle_recycler_timeout, WorkerTypes
  <2>3. ZmqTypes'
    BY <1>7 DEF handle_recycler_timeout, ZmqTypes
  <2> QED
    BY <2>1, <2>2, <2>3
<1>8. CASE stop
  <2>1. CtlTypes'
    BY <1>8 DEF stop, CtlTypes
  <2>2. WorkerTypes'
    BY <1>8 DEF stop, WorkerTypes
  <2>3. ZmqTypes'
    <3>1. message("stop", None) \in Messages
      BY DEF message, Messages
    <3> QED
      BY <1>8, <3>1, PublishTypes DEF stop
  <2> QED
    BY <2>1, <2>2, <2>3
<1>9. CASE zmq_ctx_shutdown
  <2>1. CtlTypes'
    BY <1>9 DEF zmq_ctx_shutdown, CtlTypes
  <2>2. WorkerTypes'
    BY <1>9 DEF zmq_ctx_shutdown, WorkerTypes
  <2>3. ZmqTypes'
    BY <1>9 DEF zmq_ctx_shutdown, ZmqTypes, notify, watching
  <2> QED
    BY <2>1, <2>2, <2>3
<1>10. CASE finished
  <2>1. CtlTypes'
    BY <1>10 DEF finished, CtlTypes, vars
  <2>2. WorkerTypes'
    BY <1>10 DEF finished, WorkerTypes, vars
  <2>3. ZmqTypes'
    BY <1>10 DEF finished, ZmqTypes, vars
  <2> QED
    BY <2>1, <2>2, <2>3
<1>11. ASSUME NEW t \in Tasks, add_task(t) PROVE TypeOK'
  <2>1. CtlTypes'
    BY <1>11 DEF add_task, CtlTypes
  <2>2. WorkerTypes'
    BY <1>11 DEF add_task, WorkerTypes
  <2>3. ZmqTypes'
    <3>1. message("add", t) \in Messages
      BY DEF message, Messages
    <3> QED
      BY <1>11, <3>1, PublishTypes DEF add_task
  <2> QED
    BY <2>1, <2>2, <2>3
<1>12. ASSUME NEW t \in Tasks, del_task(t) PROVE TypeOK'
  <2>1. CtlTypes'
    BY <1>12 DEF del_task, CtlTypes
  <2>2. WorkerTypes'
    BY <1>12 DEF del_task, WorkerTypes
  <2>3. ZmqTypes'
    <3>1. message("del", t) \in Messages
      BY DEF message, Messages
    <3> QED
      BY <1>12, <3>1, PublishTypes DEF del_task
  <2> QED
    BY <2>1, <2>2, <2>3
<1>13. ASSUME NEW w \in Workers, main(w) PROVE TypeOK'
  <2>1. CtlTypes'
    BY <1>13 DEF main, CtlTypes
  <2>2. WorkerTypes'
    BY <1>13 DEF main, WorkerTypes, goto, Running
  <2>3. ZmqTypes'
    BY <1>13 DEF main, ZmqTypes
  <2> QED
    BY <2>1, <2>2, <2>3
<1>14. ASSUME NEW w \in Workers, recv_block(w) PROVE TypeOK'
  <2>1. CtlTypes'
    BY <1>14 DEF recv_block, CtlTypes
  <2>2. WorkerTypes'
    BY <1>14 DEF recv_block, WorkerTypes
  <2>3. ZmqTypes'
    BY <1>14 DEF recv_block, ZmqTypes, drained
  <2> QED
    BY <2>1, <2>2, <2>3
<1>15. ASSUME NEW w \in Workers, recv_eterm(w) PROVE TypeOK'
  <2>1. CtlTypes'
    BY <1>15 DEF recv_eterm, CtlTypes
  <2>2. WorkerTypes'
    BY <1>15 DEF recv_eterm, WorkerTypes, goto, Running
  <2>3. ZmqTypes'
    BY <1>15 DEF recv_eterm, ZmqTypes
  <2> QED
    BY <2>1, <2>2, <2>3
<1>16. ASSUME NEW w \in Workers, dispatch(w) PROVE TypeOK'
  <2>1. CtlTypes'
    BY <1>16 DEF dispatch, CtlTypes, on_event, ping
  <2>2. WorkerTypes'
    <3> DEFINE msg == Head(inbox[w])
    <3>1. msg \in Messages
      BY <1>16 DEF dispatch, ZmqTypes
    <3> HIDE DEF msg
    <3>2. ready' \subseteq Workers /\ pollables' \in [Workers -> SUBSET Tasks]
      <4>1. on_event(w, msg)
        BY <1>16 DEF dispatch, msg
      <4> QED
        BY <3>1, <4>1 DEF on_event, add_config, del_config, Messages, WorkerTypes
    <3>3. state' \in [Workers -> {"stopped", "started"}]
      BY <1>16 DEF dispatch, on_event, WorkerTypes
    <3>4. pc' \in [Workers -> Running \cup {"boot", "recv", "check", "enter", "exited"}]
      BY <1>16 DEF dispatch, on_event, goto, WorkerTypes
    <3> QED
      BY <1>16, <3>2, <3>3, <3>4 DEF dispatch, WorkerTypes
  <2>3. ZmqTypes'
    BY <1>16 DEF dispatch, ZmqTypes
  <2> QED
    BY <2>1, <2>2, <2>3
<1>17. ASSUME NEW w \in Workers, run(w) PROVE TypeOK'
  <2>1. CtlTypes'
    BY <1>17 DEF run, CtlTypes
  <2>2. WorkerTypes'
    BY <1>17 DEF run, WorkerTypes, goto, Running
  <2>3. ZmqTypes'
    BY <1>17 DEF run, ZmqTypes, drained
  <2> QED
    BY <2>1, <2>2, <2>3
<1>18. ASSUME NEW w \in Workers, enter(w) PROVE TypeOK'
  <2>1. CtlTypes'
    BY <1>18 DEF enter, CtlTypes
  <2>2. WorkerTypes'
    BY <1>18 DEF enter, WorkerTypes, goto, Running
  <2>3. ZmqTypes'
    BY <1>18 DEF enter, ZmqTypes
  <2> QED
    BY <2>1, <2>2, <2>3
<1>19. ASSUME NEW w \in Workers, reader_checkpoint(w) PROVE TypeOK'
  <2>1. CtlTypes'
    BY <1>19, PassedTypes DEF reader_checkpoint, CtlTypes
  <2>2. WorkerTypes'
    BY <1>19 DEF reader_checkpoint, WorkerTypes, goto, Running
  <2>3. ZmqTypes'
    BY <1>19 DEF reader_checkpoint, ZmqTypes
  <2> QED
    BY <2>1, <2>2, <2>3
<1>20. ASSUME NEW w \in Workers, guard(w) PROVE TypeOK'
  <2>1. CtlTypes'
    BY <1>20, PassedTypes DEF guard, CtlTypes
  <2>2. WorkerTypes'
    BY <1>20 DEF guard, WorkerTypes, goto, Running
  <2>3. ZmqTypes'
    BY <1>20 DEF guard, ZmqTypes
  <2> QED
    BY <2>1, <2>2, <2>3
<1>21. ASSUME NEW w \in Workers, service_event(w) PROVE TypeOK'
  <2>1. CtlTypes'
    BY <1>21, PassedTypes DEF service_event, CtlTypes
  <2>2. WorkerTypes'
    BY <1>21 DEF service_event, WorkerTypes, goto, Running, del_callback, known
  <2>3. ZmqTypes'
    BY <1>21 DEF service_event, ZmqTypes
  <2> QED
    BY <2>1, <2>2, <2>3
<1>22. ASSUME NEW w \in Workers, update_poller(w) PROVE TypeOK'
  <2>1. CtlTypes'
    BY <1>22 DEF update_poller, CtlTypes
  <2>2. WorkerTypes'
    BY <1>22 DEF update_poller, WorkerTypes, goto, Running
  <2>3. ZmqTypes'
    BY <1>22 DEF update_poller, ZmqTypes
  <2> QED
    BY <2>1, <2>2, <2>3
<1>23. ASSUME NEW w \in Workers, leave(w) PROVE TypeOK'
  <2>1. CtlTypes'
    BY <1>23 DEF leave, CtlTypes
  <2>2. WorkerTypes'
    BY <1>23 DEF leave, WorkerTypes, goto, Running
  <2>3. ZmqTypes'
    BY <1>23 DEF leave, ZmqTypes
  <2> QED
    BY <2>1, <2>2, <2>3
<1>24. ASSUME NEW w \in Workers, poll(w) PROVE TypeOK'
  <2>1. CtlTypes'
    BY <1>24 DEF poll, CtlTypes
  <2>2. WorkerTypes'
    BY <1>24 DEF poll, WorkerTypes, goto, Running
  <2>3. ZmqTypes'
    BY <1>24 DEF poll, ZmqTypes
  <2> QED
    BY <2>1, <2>2, <2>3
<1> QED
  BY <1>1, <1>2, <1>3, <1>4, <1>5, <1>6, <1>7, <1>8, <1>9, <1>10,
     <1>11, <1>12, <1>13, <1>14, <1>15, <1>16, <1>17, <1>18, <1>19, <1>20,
     <1>21, <1>22, <1>23, <1>24
     DEF Next, controller, client, worker

-----------------------------------------------------------------------------
(* Control messages.                                                       *)

\* Signalling depends on the sockets and on where the workers are.
LEMMA SignallingFrame ==
    ASSUME Signalling, UNCHANGED <<zmqVars, pc, messages, terminated>>
    PROVE  Signalling'
BY DEF Signalling, zmqVars

\* A message, or the end of the context, is signalled where it has to be.
LEMMA SignallingPublish ==
    ASSUME TypeOK, Signalling, NEW msg, publish(msg), UNCHANGED <<pc, messages, terminated>>
    PROVE  Signalling'
<1>1. CASE terminated
  BY <1>1, SignallingFrame DEF publish
<1>2. CASE ~terminated
  <2>1. \A w \in Workers : /\ w \in subscribed => inbox'[w] # <<>>
                           /\ w \notin subscribed => inbox'[w] = inbox[w]
    BY <1>2 DEF publish, TypeOK, ZmqTypes
  <2>2. /\ asleep' = asleep \ subscribed
        /\ signalled' = signalled \cup (asleep \cap subscribed)
        /\ edge' = edge \cup ((asleep \cap subscribed) \cap watching)
    BY <1>2 DEF publish, notify
  <2>3. asleep \subseteq subscribed
    BY DEF Signalling, subscribed, TypeOK, ZmqTypes
  <2>4. asleep' = {}
    BY <2>2, <2>3
  <2>5. ASSUME NEW w \in Workers
        PROVE  /\ pc'[w] \in Committed /\ inbox'[w] = <<>> => w \in asleep'
               /\ inbox'[w] # <<>> \/ terminated' =>
                     /\ pc'[w] = "enter" => w \in signalled'
                     /\ pc'[w] \in {"top", "poll"} => w \in edge'
                     /\ pc'[w] \in {"fetched", "serve", "update"} => w \in edge' \/ messages'[w]
    BY <1>2, <2>1, <2>2, <2>3 DEF Signalling, Committed, subscribed, watching, Running
  <2> QED
    BY <2>4, <2>5 DEF Signalling
<1> QED
  BY <1>1, <1>2

\* Every step preserves the signalling of control messages.
LEMMA SignallingStep ==
    ASSUME TypeOK, Signalling, Next
    PROVE  Signalling'
<1> USE DEF ctlVars, gcVars, runVars, confVars, pollVars, loopVars, workerVars
<1>1. CASE launch_workers
  BY <1>1, SignallingPublish DEF launch_workers
<1>2. CASE start
  BY <1>2, SignallingPublish DEF start
<1>3. CASE started
  BY <1>3, SignallingFrame DEF started
<1>4. CASE stopped
  BY <1>4, SignallingFrame DEF stopped
<1>5. CASE reclaim
  BY <1>5, SignallingFrame DEF reclaim
<1>6. CASE join
  BY <1>6, SignallingFrame DEF join
<1>7. CASE handle_recycler_timeout
  BY <1>7, SignallingFrame DEF handle_recycler_timeout
<1>8. CASE stop
  BY <1>8, SignallingPublish DEF stop
<1>9. CASE zmq_ctx_shutdown
  BY <1>9
     DEF zmq_ctx_shutdown, zmqVars, Signalling, Committed, TypeOK, WorkerTypes,
         ZmqTypes, notify, watching, Running
<1>10. CASE finished
  BY <1>10, SignallingFrame DEF finished, vars
<1>11. ASSUME NEW t \in Tasks, add_task(t) PROVE Signalling'
  BY <1>11, SignallingPublish DEF add_task
<1>12. ASSUME NEW t \in Tasks, del_task(t) PROVE Signalling'
  BY <1>12, SignallingPublish DEF del_task
<1>13. ASSUME NEW w \in Workers, main(w) PROVE Signalling'
  BY <1>13 DEF main, zmqVars, Signalling, Committed, TypeOK, WorkerTypes, ZmqTypes, goto
<1>14. ASSUME NEW w \in Workers, recv_block(w) PROVE Signalling'
  BY <1>14
     DEF recv_block, zmqVars, Signalling, Committed, TypeOK, WorkerTypes, ZmqTypes,
         drained
<1>15. ASSUME NEW w \in Workers, recv_eterm(w) PROVE Signalling'
  BY <1>15
     DEF recv_eterm, zmqVars, Signalling, Committed, TypeOK, WorkerTypes, ZmqTypes,
         goto
<1>16. ASSUME NEW w \in Workers, dispatch(w) PROVE Signalling'
  BY <1>16
     DEF dispatch, zmqVars, Signalling, Committed, TypeOK, WorkerTypes, ZmqTypes,
         goto, on_event
<1>17. ASSUME NEW w \in Workers, run(w) PROVE Signalling'
  BY <1>17
     DEF run, zmqVars, Signalling, Committed, TypeOK, WorkerTypes, ZmqTypes, goto,
         drained
<1>18. ASSUME NEW w \in Workers, enter(w) PROVE Signalling'
  BY <1>18 DEF enter, zmqVars, Signalling, Committed, TypeOK, WorkerTypes, ZmqTypes, goto
<1>19. ASSUME NEW w \in Workers, reader_checkpoint(w) PROVE Signalling'
  BY <1>19
     DEF reader_checkpoint, zmqVars, Signalling, Committed, TypeOK, WorkerTypes,
         ZmqTypes, goto
<1>20. ASSUME NEW w \in Workers, guard(w) PROVE Signalling'
  BY <1>20 DEF guard, zmqVars, Signalling, Committed, TypeOK, WorkerTypes, ZmqTypes, goto
<1>21. ASSUME NEW w \in Workers, service_event(w) PROVE Signalling'
  BY <1>21
     DEF service_event, zmqVars, Signalling, Committed, TypeOK, WorkerTypes, ZmqTypes,
         goto
<1>22. ASSUME NEW w \in Workers, update_poller(w) PROVE Signalling'
  BY <1>22
     DEF update_poller, zmqVars, Signalling, Committed, TypeOK, WorkerTypes, ZmqTypes,
         goto
<1>23. ASSUME NEW w \in Workers, leave(w) PROVE Signalling'
  BY <1>23 DEF leave, zmqVars, Signalling, Committed, TypeOK, WorkerTypes, ZmqTypes, goto
<1>24. ASSUME NEW w \in Workers, poll(w) PROVE Signalling'
  BY <1>24 DEF poll, zmqVars, Signalling, Committed, TypeOK, WorkerTypes, ZmqTypes, goto
<1> QED
  BY <1>1, <1>2, <1>3, <1>4, <1>5, <1>6, <1>7, <1>8, <1>9, <1>10,
     <1>11, <1>12, <1>13, <1>14, <1>15, <1>16, <1>17, <1>18, <1>19, <1>20,
     <1>21, <1>22, <1>23, <1>24
     DEF Next, controller, client, worker

-----------------------------------------------------------------------------
(* The event loop.                                                         *)

\* Loop depends on the event loop, the epoll sets and where the workers are.
LEMMA LoopFrame ==
    ASSUME Loop, UNCHANGED <<loopVars, pollVars, pc>>
    PROVE  Loop'
BY DEF Loop, LoopCallbacksKept, known, loopVars, pollVars

\* The erasure of tasks leaves the callbacks in the epoll sets.
LEMMA LoopGc ==
    ASSUME TypeOK, Loop, writer_process_gc_callbacks, UNCHANGED <<loopVars, pc>>
    PROVE  Loop'
<1> DEFINE dead == {cb.task : cb \in {c \in m_callbacks : c.readers = {}}}
<1>1. dead \subseteq Tasks
  BY DEF TypeOK, CtlTypes
<1>2. /\ registered' = [w \in Workers |-> registered[w] \ dead]
      /\ fetched' = fetched
  BY DEF writer_process_gc_callbacks
<1> HIDE DEF dead
<1>3. m_runnables \cap dead = {}
  BY <1>1, WorkerControlAssumption DEF TypeOK, WorkerTypes
<1> QED
  BY <1>2, <1>3, WorkerControlAssumption DEF Loop, LoopCallbacksKept, known, loopVars

\* Every step preserves the invariant of the event loop.
LEMMA LoopStep ==
    ASSUME TypeOK, Loop, Next
    PROVE  Loop'
<1> USE DEF ctlVars, gcVars, runVars, confVars, zmqVars, workerVars
<1>1. CASE launch_workers
  BY <1>1, LoopFrame DEF launch_workers
<1>2. CASE start
  BY <1>2, LoopFrame DEF start
<1>3. CASE started
  BY <1>3, LoopFrame DEF started
<1>4. CASE stopped
  BY <1>4, LoopFrame DEF stopped
<1>5. CASE reclaim
  BY <1>5, LoopGc DEF reclaim
<1>6. CASE join
  BY <1>6, LoopFrame DEF join
<1>7. CASE handle_recycler_timeout
  BY <1>7, LoopGc DEF handle_recycler_timeout
<1>8. CASE stop
  BY <1>8, LoopFrame DEF stop
<1>9. CASE zmq_ctx_shutdown
  BY <1>9, LoopFrame DEF zmq_ctx_shutdown
<1>10. CASE finished
  BY <1>10, LoopFrame DEF finished, vars
<1>11. ASSUME NEW t \in Tasks, add_task(t) PROVE Loop'
  BY <1>11, LoopFrame DEF add_task
<1>12. ASSUME NEW t \in Tasks, del_task(t) PROVE Loop'
  BY <1>12, LoopFrame DEF del_task
<1>13. ASSUME NEW w \in Workers, main(w) PROVE Loop'
  BY <1>13, WorkerControlAssumption
     DEF main, loopVars, pollVars, Loop, LoopCallbacksKept, known, TypeOK,
         WorkerTypes, goto
<1>14. ASSUME NEW w \in Workers, recv_block(w) PROVE Loop'
  BY <1>14, LoopFrame DEF recv_block
<1>15. ASSUME NEW w \in Workers, recv_eterm(w) PROVE Loop'
  BY <1>15, WorkerControlAssumption
     DEF recv_eterm, loopVars, pollVars, Loop, LoopCallbacksKept, known, TypeOK,
         WorkerTypes, goto
<1>16. ASSUME NEW w \in Workers, dispatch(w) PROVE Loop'
  BY <1>16, WorkerControlAssumption
     DEF dispatch, loopVars, pollVars, Loop, LoopCallbacksKept, known, TypeOK,
         WorkerTypes, goto, on_event
<1>17. ASSUME NEW w \in Workers, run(w) PROVE Loop'
  BY <1>17, WorkerControlAssumption
     DEF run, loopVars, pollVars, Loop, LoopCallbacksKept, known, TypeOK, WorkerTypes,
         goto
<1>18. ASSUME NEW w \in Workers, enter(w) PROVE Loop'
  BY <1>18, WorkerControlAssumption
     DEF enter, loopVars, pollVars, Loop, LoopCallbacksKept, known, TypeOK,
         WorkerTypes, goto
<1>19. ASSUME NEW w \in Workers, reader_checkpoint(w) PROVE Loop'
  BY <1>19, WorkerControlAssumption
     DEF reader_checkpoint, loopVars, pollVars, Loop, LoopCallbacksKept, known,
         TypeOK, WorkerTypes, goto
<1>20. ASSUME NEW w \in Workers, guard(w) PROVE Loop'
  BY <1>20, WorkerControlAssumption
     DEF guard, loopVars, pollVars, Loop, LoopCallbacksKept, known, TypeOK,
         WorkerTypes, goto
<1>21. ASSUME NEW w \in Workers, service_event(w) PROVE Loop'
  BY <1>21, WorkerControlAssumption
     DEF service_event, loopVars, pollVars, Loop, LoopCallbacksKept, known, TypeOK,
         WorkerTypes, goto, del_callback
<1>22. ASSUME NEW w \in Workers, update_poller(w) PROVE Loop'
  BY <1>22, WorkerControlAssumption
     DEF update_poller, loopVars, pollVars, Loop, LoopCallbacksKept, known, TypeOK,
         WorkerTypes, goto
<1>23. ASSUME NEW w \in Workers, leave(w) PROVE Loop'
  BY <1>23, WorkerControlAssumption
     DEF leave, loopVars, pollVars, Loop, LoopCallbacksKept, known, TypeOK,
         WorkerTypes, goto
<1>24. ASSUME NEW w \in Workers, poll(w) PROVE Loop'
  BY <1>24, WorkerControlAssumption
     DEF poll, loopVars, pollVars, Loop, LoopCallbacksKept, known, TypeOK,
         WorkerTypes, goto
<1> QED
  BY <1>1, <1>2, <1>3, <1>4, <1>5, <1>6, <1>7, <1>8, <1>9, <1>10,
     <1>11, <1>12, <1>13, <1>14, <1>15, <1>16, <1>17, <1>18, <1>19, <1>20,
     <1>21, <1>22, <1>23, <1>24
     DEF Next, controller, client, worker

-----------------------------------------------------------------------------
(* The phases of the controller.                                          *)

\* A message at the end of a queue.
LEMMA QueueAppend ==
    ASSUME NEW q \in Seq(Messages), NEW m \in Messages, NEW cmds, Only(q, cmds)
    PROVE  /\ m.cmd \in cmds => Only(Append(q, m), cmds)
           /\ EndsIn(Append(q, m), m.cmd, cmds)
<1> DEFINE r == Append(q, m)
<1>1. /\ Len(q) \in Nat /\ Len(r) = Len(q) + 1 /\ r # <<>> /\ r[Len(q) + 1] = m
      /\ \A i \in 1..Len(q) : r[i] = q[i]
  BY AppendProperties, LenProperties
<1> HIDE DEF r
<1>2. (m.cmd \in cmds => Only(r, cmds)) /\ EndsIn(r, m.cmd, cmds)
  BY <1>1 DEF Only, EndsIn
<1> QED
  BY <1>2 DEF r

\* The head of a queue, and what it leaves.
LEMMA QueueTail ==
    ASSUME NEW q \in Seq(Messages), q # <<>>, NEW cmds, NEW cmd
    PROVE  /\ Only(q, cmds) => Head(q).cmd \in cmds /\ Only(Tail(q), cmds)
           /\ EndsIn(q, cmd, cmds) =>
                \/ Head(q).cmd \in cmds /\ EndsIn(Tail(q), cmd, cmds)
                \/ Head(q).cmd = cmd /\ Tail(q) = <<>>
<1>1. /\ Tail(q) \in Seq(Messages) /\ Len(q) \in Nat \ {0} /\ Head(q) = q[1]
      /\ Len(Tail(q)) = Len(q) - 1
      /\ \A i \in 1..Len(q) - 1 : Tail(q)[i] = q[i + 1]
  BY EmptySeq, HeadTailProperties
<1>2. Len(q) = 1 <=> Tail(q) = <<>>
  <2>1. Tail(q) # <<>> => Len(Tail(q)) \in Nat \ {0}
    BY <1>1, EmptySeq
  <2>2. Tail(q) = <<>> => Len(Tail(q)) = 0
    BY EmptySeq
  <2> QED
    BY <1>1, <2>1, <2>2
<1> HIDE DEF Messages
<1>3. Only(q, cmds) => Head(q).cmd \in cmds /\ Only(Tail(q), cmds)
  BY <1>1 DEF Only
<1>4. ASSUME EndsIn(q, cmd, cmds), Len(q) # 1
      PROVE  Head(q).cmd \in cmds /\ EndsIn(Tail(q), cmd, cmds)
  BY <1>1, <1>2, <1>4 DEF EndsIn
<1>5. EndsIn(q, cmd, cmds) /\ Len(q) = 1 => Head(q).cmd = cmd
  BY <1>1 DEF EndsIn
<1> QED
  BY <1>2, <1>3, <1>4, <1>5

\* Counts of workers.
LEMMA Counting ==
    ASSUME NEW S \in SUBSET Workers, NEW T \in SUBSET Workers, NEW n \in Nat,
           n <= Cardinality(S)
    PROVE  /\ S \subseteq T => n <= Cardinality(T)
           /\ n = NbWorkers => S = Workers
           /\ \A w \in Workers \ S : n + 1 <= Cardinality(S \cup {w})
<1>1. IsFiniteSet(S) /\ IsFiniteSet(T) /\ Cardinality(S) <= NbWorkers
  BY WorkerControlAssumption, FS_Subset DEF NbWorkers
<1>2. Cardinality(S) \in Nat /\ Cardinality(T) \in Nat /\ NbWorkers \in Nat
  BY <1>1, WorkerControlAssumption, FS_CardinalityType DEF NbWorkers
<1>3. S \subseteq T => Cardinality(S) <= Cardinality(T)
  BY <1>1, FS_Subset
<1>4. Cardinality(S) = NbWorkers => S = Workers
  BY WorkerControlAssumption, FS_Subset DEF NbWorkers
<1>5. \A w \in Workers \ S : Cardinality(S \cup {w}) = Cardinality(S) + 1
  BY <1>1, FS_AddElement
<1> QED
  BY <1>1, <1>2, <1>3, <1>4, <1>5

\* A published message is at the end of every inbox, once the workers have launched.
LEMMA Delivered ==
    ASSUME ZmqTypes, NEW msg \in Messages, publish(msg), ~terminated,
           \A w \in Workers : pc[w] # "boot"
    PROVE  \A w \in Workers : inbox'[w] = Append(inbox[w], msg)
BY DEF publish, subscribed, ZmqTypes

\* Phase depends on the queues, the answers and where the workers are.
LEMMA PhaseFrame ==
    ASSUME Phase, UNCHANGED <<ctl, responses, inbox, terminated, pc, state>>
    PROVE  Phase'
BY DEF Phase, Launching, Starting, Stopping, Silent, Emptied, Only, EndsIn, subscribed

\* A worker that goes round its loop, or ends, stays on its side of an
\* acknowledgment.
LEMMA PhaseMove ==
    ASSUME TypeOK, Phase, NEW w \in Workers, NEW to, goto(w, to), to # "boot",
           pc[w] \in {"recv", "exited"} => pc[w] = "recv" /\ to = "exited" /\ terminated,
           pc[w] # "boot", UNCHANGED <<ctl, responses, inbox, terminated, state>>
    PROVE  Phase'
<1>1. pc' = [pc EXCEPT ![w] = to] /\ \A x \in Workers : pc'[x] = IF x = w THEN to ELSE pc[x]
  BY DEF goto, TypeOK, WorkerTypes
<1>2. ctl # "launch"
  BY DEF Phase, Launching
<1>3. Silent \subseteq Silent'
  BY <1>1 DEF Silent
<1>4. ctl = "stopping" => responses <= Cardinality(Silent')
  BY <1>3, Counting DEF Phase, Stopping, TypeOK, CtlTypes, Silent
<1>5. Stopping => Stopping'
  BY <1>1, <1>3, <1>4, Counting
     DEF Phase, Stopping, TypeOK, CtlTypes, Silent, EndsIn
<1>6. Starting => Starting'
  BY DEF Starting, Emptied, EndsIn
<1> QED
  BY <1>1, <1>2, <1>3, <1>5, <1>6 DEF Phase, Only

\* A message of the kind that the phase allows.
LEMMA PhaseDispatch ==
    ASSUME TypeOK, Phase, NEW w \in Workers, dispatch(w)
    PROVE  Phase'
<1> DEFINE msg == Head(inbox[w])
           q == inbox[w]
<1>1. /\ q \in Seq(Messages) /\ q # <<>> /\ pc[w] = "recv" /\ msg \in Messages
      /\ \A x \in Workers : inbox'[x] = IF x = w THEN Tail(q) ELSE inbox[x]
      /\ UNCHANGED <<ctl, terminated>>
  BY DEF dispatch, TypeOK, ZmqTypes
<1>2. /\ \A x \in Workers : state'[x] = IF x = w
                                        THEN (IF msg.cmd = "start" THEN "started"
                                              ELSE IF msg.cmd = "stop" THEN "stopped" ELSE state[x])
                                        ELSE state[x]
      /\ \A x \in Workers : pc'[x] = IF x = w
                                     THEN IF state'[w] = "started" THEN "check" ELSE "recv"
                                     ELSE pc[x]
  BY DEF dispatch, on_event, goto, TypeOK, WorkerTypes
<1>3. /\ msg.cmd \notin {"start", "stop"} => responses' = responses
      /\ responses' \in Nat /\ responses' <= responses + 1
  BY DEF dispatch, on_event, ping, TypeOK, CtlTypes
<1> HIDE DEF msg
<1>4. ctl # "launch" /\ ctl # "stopped"
  BY <1>1 DEF Phase, Launching, Silent
<1>5. \A x \in Workers : pc'[x] # "boot"
  BY <1>2, <1>4 DEF Phase
<1>6. \A cmds : Only(q, cmds) => Only(Tail(q), cmds)
  BY <1>1, QueueTail
<1>7. CASE ctl \in {"config", "serve"}
  BY <1>1, <1>5, <1>6, <1>7 DEF Phase
<1>8. CASE ctl = "starting"
  <2>1. Starting
    BY <1>8 DEF Phase
  <2>2. \/ msg.cmd = "queues" /\ EndsIn(Tail(q), "start", {"queues"})
        \/ msg.cmd = "start" /\ Tail(q) = <<>>
    <3>1. EndsIn(q, "start", {"queues"})
      BY <1>1, <2>1 DEF Starting
    <3> QED
      BY <1>1, <3>1, QueueTail DEF msg
  <2>3. Emptied \subseteq Emptied' /\ w \notin Emptied
    BY <1>1 DEF Emptied
  <2>4. responses' <= Cardinality(Emptied')
    <3>1. CASE msg.cmd = "queues"
      BY <3>1, <1>3, <2>1, <2>3, Counting DEF Starting, TypeOK, CtlTypes, Emptied
    <3>2. CASE Tail(q) = <<>>
      <4>1. responses + 1 <= Cardinality(Emptied \cup {w})
        BY <2>1, <2>3, Counting DEF Starting, TypeOK, CtlTypes, Emptied
      <4>2. Emptied' = Emptied \cup {w}
        BY <3>2, <1>1 DEF Emptied
      <4>3. Cardinality(Emptied \cup {w}) \in Nat /\ responses \in Nat
        BY WorkerControlAssumption, FS_Subset, FS_CardinalityType DEF TypeOK, CtlTypes, Emptied
      <4> QED
        BY <4>1, <4>2, <4>3, <1>3
    <3> QED
      BY <2>2, <3>1, <3>2
  <2>5. Starting'
    BY <1>1, <2>1, <2>2, <2>4 DEF Starting
  <2> QED
    BY <1>1, <1>5, <1>8, <2>5 DEF Phase
<1>9. CASE ctl = "stopping"
  <2>1. Stopping
    BY <1>9 DEF Phase
  <2>2. \/ msg.cmd \in {"add", "del"} /\ EndsIn(Tail(q), "stop", {"add", "del"})
        \/ msg.cmd = "stop" /\ Tail(q) = <<>>
    <3>1. EndsIn(q, "stop", {"add", "del"})
      BY <1>1, <2>1 DEF Stopping, Silent
    <3> QED
      BY <1>1, <3>1, QueueTail DEF msg
  <2>3. w \notin Silent /\ \A x \in Workers : x # w => (x \in Silent <=> x \in Silent')
    BY <1>1, <1>2 DEF Silent
  <2>4. w \in Silent' <=> msg.cmd = "stop"
    BY <1>1, <1>2, <2>2 DEF Silent, EndsIn
  <2>5. responses' <= Cardinality(Silent')
    <3>1. CASE msg.cmd # "stop"
      <4>1. Silent' = Silent
        BY <2>3, <2>4, <3>1 DEF Silent
      <4> QED
        BY <4>1, <3>1, <1>3, <2>1, <2>2 DEF Stopping
    <3>2. CASE msg.cmd = "stop"
      <4>1. responses + 1 <= Cardinality(Silent \cup {w})
        BY <2>1, <2>3, Counting DEF Stopping, TypeOK, CtlTypes, Silent
      <4>2. Silent' = Silent \cup {w}
        BY <2>3, <2>4, <3>2 DEF Silent
      <4>3. Cardinality(Silent \cup {w}) \in Nat /\ responses \in Nat
        BY WorkerControlAssumption, FS_Subset, FS_CardinalityType DEF TypeOK, CtlTypes, Silent
      <4> QED
        BY <4>1, <4>2, <4>3, <1>3
    <3> QED
      BY <3>1, <3>2
  <2>6. Stopping'
    <3>1. w \in Silent' \/ EndsIn(inbox'[w], "stop", {"add", "del"})
      BY <1>1, <2>2, <2>4
    <3>2. \A x \in Workers : x # w => x \in Silent' \/ EndsIn(inbox'[x], "stop", {"add", "del"})
      BY <1>1, <2>1, <2>3 DEF Stopping
    <3> QED
      BY <2>5, <3>1, <3>2 DEF Stopping
  <2> QED
    BY <1>1, <1>5, <1>9, <2>6 DEF Phase
<1>10. CASE ctl \in {"reclaim", "join", "gone"}
  BY <1>1, <1>5, <1>10 DEF Phase
<1> QED
  BY <1>4, <1>7, <1>8, <1>9, <1>10 DEF TypeOK, CtlTypes

\* Every step leads to a state of its phase.
LEMMA PhaseStep ==
    ASSUME TypeOK, Phase, Next
    PROVE  Phase'
<1> USE DEF ctlVars, gcVars, runVars, confVars, pollVars, loopVars, zmqVars, workerVars
<1>1. CASE launch_workers
  <2>1. subscribed = Workers
    BY <1>1, Counting DEF launch_workers, Phase, Launching, subscribed, TypeOK, CtlTypes
  <2>2. \A w \in Workers : pc[w] # "boot"
    BY <2>1 DEF subscribed
  <2>3. message("queues", None) \in Messages /\ message("queues", None).cmd = "queues"
    BY DEF message, Messages
  <2>4. \A w \in Workers : inbox'[w] = Append(inbox[w], message("queues", None))
    BY <1>1, <2>2, <2>3, Delivered DEF launch_workers, Phase, TypeOK
  <2>5. \A w \in Workers : Only(inbox[w], {"queues"}) /\ inbox[w] \in Seq(Messages)
    BY <1>1 DEF launch_workers, Phase, Launching, Only, TypeOK, ZmqTypes
  <2>6. \A w \in Workers : Only(inbox'[w], {"queues"})
    BY <2>3, <2>4, <2>5, QueueAppend
  <2> QED
    BY <1>1, <2>2, <2>6 DEF launch_workers, Phase
<1>2. CASE start
  <2>1. message("start", None) \in Messages /\ message("start", None).cmd = "start"
    BY DEF message, Messages
  <2>2. \A w \in Workers : inbox'[w] = Append(inbox[w], message("start", None))
    BY <1>2, <2>1, Delivered DEF start, Phase, TypeOK
  <2>3. \A w \in Workers : EndsIn(inbox'[w], "start", {"queues"})
    <3> SUFFICES ASSUME NEW w \in Workers PROVE EndsIn(inbox'[w], "start", {"queues"})
      OBVIOUS
    <3>1. Only(inbox[w], {"queues"}) /\ inbox[w] \in Seq(Messages)
      BY <1>2 DEF start, Phase, TypeOK, ZmqTypes
    <3> QED
      BY <3>1, <2>1, <2>2, QueueAppend
  <2>4. responses' <= Cardinality(Emptied')
    <3>1. IsFiniteSet(Emptied')
      BY WorkerControlAssumption, FS_Subset DEF Emptied
    <3> QED
      BY <1>2, <3>1, FS_CardinalityType DEF start
  <2>5. Starting'
    BY <2>3, <2>4 DEF Starting
  <2> QED
    BY <1>2, <2>5 DEF start, Phase
<1>3. CASE started
  <2>1. Emptied = Workers
    BY <1>3, Counting DEF started, Phase, Starting, Emptied, TypeOK, CtlTypes
  <2> QED
    BY <1>3, <2>1 DEF started, Phase, Emptied, Only
<1>4. CASE stopped
  <2>1. ctl' = "stopped" => Silent = Workers
    BY <1>4, Counting DEF stopped, Phase, Stopping, Silent, TypeOK, CtlTypes
  <2>2. Silent' = Silent
    BY <1>4 DEF stopped, Silent
  <2> QED
    BY <1>4, <2>1, <2>2 DEF stopped, Phase
<1>5. CASE reclaim
  BY <1>5 DEF reclaim, Phase
<1>6. CASE join
  BY <1>6 DEF join, Phase
<1>7. CASE handle_recycler_timeout
  BY <1>7, PhaseFrame DEF handle_recycler_timeout
<1>8. CASE stop
  <2>1. CASE terminated
    BY <1>8, <2>1 DEF stop, Phase
  <2>2. CASE ~terminated
    <3>1. message("stop", None) \in Messages /\ message("stop", None).cmd = "stop"
      BY DEF message, Messages
    <3>2. \A w \in Workers : inbox'[w] = Append(inbox[w], message("stop", None))
      BY <1>8, <2>2, <3>1, Delivered DEF stop, Phase, TypeOK
    <3>3. \A w \in Workers : EndsIn(inbox'[w], "stop", {"add", "del"})
      <4> SUFFICES ASSUME NEW w \in Workers PROVE EndsIn(inbox'[w], "stop", {"add", "del"})
        OBVIOUS
      <4>1. Only(inbox[w], {"add", "del"}) /\ inbox[w] \in Seq(Messages)
        BY <1>8 DEF stop, Phase, TypeOK, ZmqTypes
      <4> QED
        BY <4>1, <3>1, <3>2, QueueAppend
    <3>4. responses' <= Cardinality(Silent')
      <4>1. IsFiniteSet(Silent')
        BY WorkerControlAssumption, FS_Subset DEF Silent
      <4> QED
        BY <1>8, <2>2, <4>1, FS_CardinalityType DEF stop
    <3>5. Stopping'
      BY <3>3, <3>4 DEF Stopping
    <3> QED
      BY <1>8, <2>2, <3>5 DEF stop, Phase
  <2> QED
    BY <2>1, <2>2
<1>9. CASE zmq_ctx_shutdown
  BY <1>9 DEF zmq_ctx_shutdown, Phase, Launching, Starting, Stopping, Silent, EndsIn, Only
<1>10. CASE finished
  BY <1>10, PhaseFrame DEF finished, vars
<1>11. ASSUME NEW t \in Tasks, publish(message("add", t)) \/ publish(message("del", t)),
              ctl = "serve", UNCHANGED <<ctl, terminated, pc>>
       PROVE  Phase'
  <2>1. PICK m \in Messages : publish(m) /\ m.cmd \in {"add", "del"}
    BY <1>11 DEF message, Messages
  <2>2. CASE terminated
    BY <1>11, <2>1, <2>2 DEF publish, Phase
  <2>3. CASE ~terminated
    <3>1. \A w \in Workers : inbox'[w] = Append(inbox[w], m)
      BY <1>11, <2>1, <2>3, Delivered DEF Phase, TypeOK
    <3>2. \A w \in Workers : Only(inbox[w], {"add", "del"}) /\ inbox[w] \in Seq(Messages)
      BY <1>11 DEF Phase, TypeOK, ZmqTypes
    <3>3. \A w \in Workers : Only(inbox'[w], {"add", "del"})
      BY <2>1, <3>1, <3>2, QueueAppend
    <3> QED
      BY <1>11, <3>3 DEF Phase
  <2> QED
    BY <2>2, <2>3
<1>12. ASSUME NEW t \in Tasks, add_task(t) \/ del_task(t) PROVE Phase'
  BY <1>11, <1>12 DEF add_task, del_task
<1>13. ASSUME NEW w \in Workers, main(w) PROVE Phase'
  <2>1. /\ \A x \in Workers : pc'[x] = IF x = w THEN "recv" ELSE pc[x]
        /\ pc[w] = "boot" /\ ctl = "launch" /\ responses' = responses + 1
        /\ UNCHANGED <<ctl, inbox, terminated>>
    BY <1>13 DEF main, goto, TypeOK, WorkerTypes, Phase
  <2>2. subscribed' = subscribed \cup {w} /\ w \notin subscribed
    BY <2>1 DEF subscribed
  <2>3. responses' <= Cardinality(subscribed')
    <3>1. subscribed \in SUBSET Workers /\ responses \in Nat /\ responses <= Cardinality(subscribed)
      BY <2>1 DEF subscribed, TypeOK, CtlTypes, Phase, Launching
    <3> QED
      BY <2>1, <2>2, <3>1, Counting
  <2>4. Launching'
    BY <2>1, <2>3 DEF Launching, Phase
  <2> QED
    BY <2>1, <2>4 DEF Phase
<1>14. ASSUME NEW w \in Workers, recv_block(w) PROVE Phase'
  BY <1>14, PhaseFrame DEF recv_block
<1>15. ASSUME NEW w \in Workers, recv_eterm(w) PROVE Phase'
  BY <1>15, PhaseMove DEF recv_eterm
<1>16. ASSUME NEW w \in Workers, dispatch(w) PROVE Phase'
  BY <1>16, PhaseDispatch
<1>17. ASSUME NEW w \in Workers, run(w) PROVE Phase'
  BY <1>17, PhaseMove DEF run
<1>18. ASSUME NEW w \in Workers, enter(w) PROVE Phase'
  BY <1>18, PhaseMove DEF enter
<1>19. ASSUME NEW w \in Workers, reader_checkpoint(w) PROVE Phase'
  BY <1>19, PhaseMove DEF reader_checkpoint
<1>20. ASSUME NEW w \in Workers, guard(w) PROVE Phase'
  BY <1>20, PhaseMove DEF guard
<1>21. ASSUME NEW w \in Workers, service_event(w) PROVE Phase'
  BY <1>21, PhaseMove DEF service_event
<1>22. ASSUME NEW w \in Workers, update_poller(w) PROVE Phase'
  BY <1>22, PhaseMove DEF update_poller
<1>23. ASSUME NEW w \in Workers, leave(w) PROVE Phase'
  BY <1>23, PhaseMove DEF leave
<1>24. ASSUME NEW w \in Workers, poll(w) PROVE Phase'
  BY <1>24, PhaseMove DEF poll
<1> QED
  BY <1>1, <1>2, <1>3, <1>4, <1>5, <1>6, <1>7, <1>8, <1>9, <1>10,
     <1>12, <1>13, <1>14, <1>15, <1>16, <1>17, <1>18, <1>19, <1>20,
     <1>21, <1>22, <1>23, <1>24
     DEF Next, controller, client, worker

-----------------------------------------------------------------------------
(* The configuration that reaches the stack worker.                        *)

\* A message about t at the end of the queue settles t, and no other task.
LEMMA AgreesAppend ==
    ASSUME NEW q \in Seq(Messages), NEW m \in Messages, NEW P, NEW L, NEW M, NEW t,
           Agrees(q, P, L, t),
           About(m, t) => (m.cmd = "add" <=> t \in M),
           ~About(m, t) => (t \in L <=> t \in M)
    PROVE  Agrees(Append(q, m), P, M, t)
<1> DEFINE r == Append(q, m)
<1>1. /\ Len(q) \in Nat /\ Len(r) = Len(q) + 1 /\ r[Len(q) + 1] = m
      /\ \A i \in 1..Len(q) : r[i] = q[i]
  OBVIOUS
<1> HIDE DEF r
<1>2. CASE About(m, t)
  <2>1. ~(\A i \in 1..Len(r) : ~About(r[i], t))
    BY <1>1, <1>2
  <2>2. ASSUME NEW i \in 1..Len(r), \A j \in i + 1..Len(r) : ~About(r[j], t)
        PROVE  i = Len(q) + 1
    BY <1>1, <1>2, <2>2
  <2>3. Agrees(r, P, M, t)
    BY <1>1, <1>2, <2>1, <2>2 DEF Agrees
  <2> QED
    BY <2>3 DEF r
<1>3. CASE ~About(m, t)
  <2>1. (\A i \in 1..Len(r) : ~About(r[i], t)) => (\A i \in 1..Len(q) : ~About(q[i], t))
    BY <1>1
  <2>2. ASSUME NEW i \in 1..Len(r), About(r[i], t), \A j \in i + 1..Len(r) : ~About(r[j], t)
        PROVE  i \in 1..Len(q) /\ r[i] = q[i] /\ \A j \in i + 1..Len(q) : ~About(q[j], t)
    <3>1. i # Len(q) + 1
      BY <1>1, <1>3, <2>2
    <3> QED
      BY <1>1, <2>2, <3>1
  <2>3. Agrees(r, P, M, t)
    BY <1>3, <2>1, <2>2 DEF Agrees
  <2> QED
    BY <2>3 DEF r
<1> QED
  BY <1>2, <1>3

\* Obeying the head of the queue.
LEMMA AgreesTail ==
    ASSUME NEW q \in Seq(Messages), q # <<>>, NEW P, NEW R, NEW L, NEW t,
           Agrees(q, P, L, t),
           t \in R <=> IF About(Head(q), t) THEN Head(q).cmd = "add" ELSE t \in P
    PROVE  Agrees(Tail(q), R, L, t)
<1> DEFINE r == Tail(q)
           n == Len(r)
<1>1. /\ n \in Nat /\ Len(q) = n + 1 /\ Head(q) = q[1]
      /\ \A i \in 1..n : r[i] = q[i + 1]
  BY EmptySeq, HeadTailProperties
<1> HIDE DEF r, n
<1>2. ASSUME \A i \in 1..n : ~About(r[i], t)
      PROVE  t \in R <=> t \in L
  <2>1. \A j \in 2..Len(q) : ~About(q[j], t)
    <3> SUFFICES ASSUME NEW j \in 2..Len(q) PROVE ~About(q[j], t)
      OBVIOUS
    <3>1. j - 1 \in 1..n /\ (j - 1) + 1 = j
      BY <1>1
    <3> QED
      BY <1>1, <1>2, <3>1
  <2>2. CASE About(q[1], t)
    BY <1>1, <2>1, <2>2 DEF Agrees
  <2>3. CASE ~About(q[1], t)
    <3>1. \A i \in 1..Len(q) : ~About(q[i], t)
      BY <1>1, <2>1, <2>3
    <3> QED
      BY <1>1, <2>3, <3>1 DEF Agrees
  <2> QED
    BY <2>2, <2>3
<1>3. ASSUME NEW i \in 1..n, About(r[i], t), \A j \in i + 1..n : ~About(r[j], t)
      PROVE  r[i].cmd = "add" <=> t \in L
  <2>1. i + 1 \in 1..Len(q) /\ r[i] = q[i + 1]
    BY <1>1
  <2>2. \A j \in (i + 1) + 1..Len(q) : ~About(q[j], t)
    <3> SUFFICES ASSUME NEW j \in (i + 1) + 1..Len(q) PROVE ~About(q[j], t)
      OBVIOUS
    <3>1. j - 1 \in i + 1..n /\ j - 1 \in 1..n /\ (j - 1) + 1 = j
      BY <1>1
    <3> QED
      BY <1>1, <1>3, <3>1
  <2> QED
    BY <1>3, <2>1, <2>2 DEF Agrees
<1> QED
  BY <1>2, <1>3 DEF Agrees, r, n

\* The recycler erases only what is to be erased.
LEMMA GcLive ==
    ASSUME writer_process_gc_callbacks
    PROVE  Live' = Live /\ (Doomed \subseteq m_tasks => Doomed' \subseteq m_tasks')
<1> DEFINE dead == {cb.task : cb \in {c \in m_callbacks : c.readers = {}}}
<1>1. m_callbacks' = {cb \in m_callbacks : cb.task \notin dead} /\ m_tasks' = m_tasks \ dead
  BY DEF writer_process_gc_callbacks
<1>2. dead \subseteq Doomed
  BY DEF Doomed
<1> HIDE DEF dead
<1>3. Doomed' = Doomed \ dead
  BY <1>1 DEF Doomed
<1> QED
  BY <1>1, <1>2, <1>3 DEF Live

\* A quiescent reader changes no erasure's task.
LEMMA PassedLive ==
    ASSUME TypeOK, NEW w \in Workers, m_callbacks' \in {m_callbacks, passed(w)}, m_tasks' = m_tasks
    PROVE  Doomed' = Doomed /\ Live' = Live
<1>1. ASSUME NEW c \in m_callbacks PROVE [c EXCEPT !.readers = @ \ {w}].task = c.task
  BY DEF TypeOK, CtlTypes
<1>2. {cb.task : cb \in passed(w)} = Doomed
  <2>1. \A cb \in passed(w) : \E c \in m_callbacks : cb.task = c.task
    BY <1>1 DEF passed
  <2>2. \A c \in m_callbacks : \E cb \in passed(w) : cb.task = c.task
    BY <1>1 DEF passed
  <2> HIDE DEF passed
  <2> QED
    BY <2>1, <2>2 DEF Doomed
<1>3. Doomed' = Doomed
  <2>1. CASE m_callbacks' = m_callbacks
    BY <2>1 DEF Doomed
  <2>2. CASE m_callbacks' = passed(w)
    BY <1>2, <2>2 DEF Doomed
  <2> QED
    BY <2>1, <2>2
<1> QED
  BY <1>3 DEF Live

\* Applied depends on the tasks, the queue and on who has ended.
LEMMA AppliedFrame ==
    ASSUME Applied, Live' = Live, ~terminated => Doomed' \subseteq m_tasks',
           UNCHANGED <<inbox, pollables, terminated>>,
           \A w \in Workers : pc'[w] = "exited" => pc[w] = "exited" \/ terminated
    PROVE  Applied'
<1>1. ~terminated => \A t \in Tasks : Agrees(inbox'[Stack], pollables'[Stack], Live', t)
  BY DEF Applied
<1> QED
  BY <1>1 DEF Applied

\* A published message tells the stack worker what the controller has done.
LEMMA AppliedPublish ==
    ASSUME TypeOK, Applied, NEW m \in Messages, publish(m), pc[Stack] # "boot",
           ~terminated => /\ Doomed' \subseteq m_tasks'
                          /\ \A t \in Tasks :
                               /\ About(m, t) => (m.cmd = "add" <=> t \in Live')
                               /\ ~About(m, t) => (t \in Live <=> t \in Live'),
           UNCHANGED <<pollables, terminated, pc>>
    PROVE  Applied'
<1>1. CASE terminated
  BY <1>1 DEF Applied
<1>2. CASE ~terminated
  <2>1. inbox'[Stack] = Append(inbox[Stack], m) /\ inbox[Stack] \in Seq(Messages)
    BY <1>2, WorkerControlAssumption DEF publish, subscribed, TypeOK, ZmqTypes
  <2>2. \A t \in Tasks : Agrees(inbox'[Stack], pollables'[Stack], Live', t)
    BY <1>2, <2>1, AgreesAppend DEF Applied
  <2> QED
    BY <1>2, <2>2 DEF Applied
<1> QED
  BY <1>1, <1>2

\* A worker obeys a message of its queue.
LEMMA AppliedDispatch ==
    ASSUME TypeOK, Applied, NEW w \in Workers, dispatch(w)
    PROVE  Applied'
<1> DEFINE msg == Head(inbox[w])
<1>1. /\ inbox[w] \in Seq(Messages) /\ inbox[w] # <<>> /\ msg \in Messages
      /\ \A x \in Workers : inbox'[x] = IF x = w THEN Tail(inbox[w]) ELSE inbox[x]
      /\ UNCHANGED <<terminated, m_tasks, m_callbacks>>
  BY DEF dispatch, TypeOK, ZmqTypes, gcVars
<1>2. \A x \in Workers : pc'[x] = "exited" => pc[x] = "exited"
  BY DEF dispatch, on_event, goto, TypeOK, WorkerTypes
<1>3. on_event(w, msg)
  BY DEF dispatch
<1>4. Live' = Live /\ Doomed' = Doomed
  BY <1>1 DEF Live, Doomed
<1> HIDE DEF msg
<1>5. CASE w # Stack
  <2>1. pollables' = pollables /\ inbox'[Stack] = inbox[Stack]
    BY <1>1, <1>3, <1>5, WorkerControlAssumption
       DEF on_event, add_config, del_config, confVars
  <2>2. ~terminated => \A t \in Tasks : Agrees(inbox'[Stack], pollables'[Stack], Live', t)
    BY <1>4, <2>1 DEF Applied
  <2> QED
    BY <1>1, <1>2, <1>4, <2>1, <2>2 DEF Applied
<1>6. CASE w = Stack
  <2>1. /\ \A x \in Workers : x # w => pollables'[x] = pollables[x]
        /\ pollables'[w] = IF msg.cmd = "add" THEN pollables[w] \cup {msg.task}
                           ELSE IF msg.cmd = "del" THEN pollables[w] \ {msg.task}
                           ELSE pollables[w]
    BY <1>1, <1>3, <1>6
       DEF on_event, add_config, del_config, confVars, TypeOK, WorkerTypes, Messages
  <2>2. ASSUME NEW t \in Tasks
        PROVE  t \in pollables'[w] <=> IF About(msg, t) THEN msg.cmd = "add" ELSE t \in pollables[w]
    BY <2>1 DEF About
  <2>3. ~terminated => \A t \in Tasks : Agrees(inbox'[w], pollables'[w], Live', t)
    BY <1>1, <1>4, <1>6, <2>2, AgreesTail DEF Applied, msg
  <2> QED
    BY <1>1, <1>2, <1>4, <1>6, <2>1, <2>3 DEF Applied
<1> QED
  BY <1>5, <1>6

\* Every step keeps the stack worker's queue in line with the tasks.
LEMMA AppliedStep ==
    ASSUME TypeOK, Phase, Phase', Applied, Next
    PROVE  Applied'
<1> USE DEF ctlVars, gcVars, runVars, confVars, pollVars, loopVars, zmqVars, workerVars
<1>1. ASSUME NEW cmd \in {"queues", "start", "stop"}, publish(message(cmd, None)), ctl' # "launch",
             UNCHANGED <<m_tasks, m_callbacks, pollables, terminated, pc>>
      PROVE  Applied'
  <2>1. message(cmd, None) \in Messages /\ \A t : ~About(message(cmd, None), t)
    BY DEF message, Messages, About
  <2>2. pc[Stack] # "boot"
    BY <1>1, WorkerControlAssumption DEF Phase
  <2>3. Live' = Live /\ Doomed' = Doomed
    BY <1>1 DEF Live, Doomed
  <2>4. ~terminated => Doomed' \subseteq m_tasks'
    BY <1>1, <2>3 DEF Applied
  <2> QED
    BY <1>1, <2>1, <2>2, <2>3, <2>4, AppliedPublish
<1>2. CASE launch_workers
  BY <1>1, <1>2 DEF launch_workers
<1>3. CASE start
  BY <1>1, <1>3 DEF start
<1>4. CASE stop
  BY <1>1, <1>4 DEF stop
<1>5. ASSUME UNCHANGED <<m_tasks, m_callbacks, inbox, pollables, terminated>>,
             \A w \in Workers : pc'[w] = "exited" => pc[w] = "exited" \/ terminated
      PROVE  Applied'
  <2>1. Live' = Live /\ Doomed' = Doomed
    BY <1>5 DEF Live, Doomed
  <2>2. ~terminated => Doomed' \subseteq m_tasks'
    BY <1>5, <2>1 DEF Applied
  <2> QED
    BY <1>5, <2>1, <2>2, AppliedFrame
<1>6. CASE started \/ stopped \/ finished
  BY <1>5, <1>6 DEF started, stopped, finished, vars
<1>7. CASE reclaim \/ handle_recycler_timeout
  BY <1>7, GcLive, AppliedFrame DEF reclaim, handle_recycler_timeout, Applied
<1>8. CASE join
  BY <1>8, WorkerControlAssumption DEF join, Applied
<1>9. CASE zmq_ctx_shutdown
  BY <1>9 DEF zmq_ctx_shutdown, Applied
<1>10. ASSUME NEW t \in Tasks, add_task(t) PROVE Applied'
  <2>1. message("add", t) \in Messages
        /\ \A x : About(message("add", t), x) <=> x = t
    BY DEF message, Messages, About
  <2>2. Doomed' = Doomed /\ (~terminated => Live' = Live \cup {t} /\ Doomed \subseteq m_tasks)
    BY <1>10 DEF add_task, Live, Doomed, Applied
  <2>3. pc[Stack] # "boot" /\ publish(message("add", t))
        /\ UNCHANGED <<pollables, terminated, pc>> /\ m_tasks' = m_tasks \cup {t}
    BY <1>10, WorkerControlAssumption DEF add_task, Phase
  <2>4. message("add", t).cmd = "add"
    BY DEF message
  <2> QED
    BY <2>1, <2>2, <2>3, <2>4, AppliedPublish
<1>11. ASSUME NEW t \in Tasks, del_task(t) PROVE Applied'
  <2>1. message("del", t) \in Messages
        /\ \A x : About(message("del", t), x) <=> x = t
    BY DEF message, Messages, About
  <2>2. Doomed' = Doomed \cup {t} /\ Live' = Live \ {t} /\ t \in m_tasks /\ m_tasks' = m_tasks
    <3> DEFINE cb == [task |-> t, readers |-> active]
    <3>1. m_callbacks' = m_callbacks \cup {cb} /\ cb.task = t
      BY <1>11 DEF del_task
    <3> HIDE DEF cb
    <3>2. Doomed' = Doomed \cup {t}
      BY <3>1 DEF Doomed
    <3> QED
      BY <1>11, <3>2 DEF del_task, Live
  <2>3. pc[Stack] # "boot" /\ publish(message("del", t))
        /\ UNCHANGED <<pollables, terminated, pc>>
    BY <1>11, WorkerControlAssumption DEF del_task, Phase
  <2>4. message("del", t).cmd = "del" /\ (~terminated => Doomed \subseteq m_tasks)
    BY DEF message, Applied
  <2> QED
    BY <2>1, <2>2, <2>3, <2>4, AppliedPublish
<1>12. ASSUME NEW w \in Workers, main(w) \/ recv_block(w) \/ recv_eterm(w) \/ run(w) \/ enter(w)
                                 \/ update_poller(w) \/ leave(w) \/ poll(w)
       PROVE  Applied'
  BY <1>5, <1>12 DEF main, recv_block, recv_eterm, run, enter, update_poller, leave, poll,
                     goto, TypeOK, WorkerTypes
<1>13. ASSUME NEW w \in Workers, dispatch(w) PROVE Applied'
  BY <1>13, AppliedDispatch
<1>14. ASSUME NEW w \in Workers, reader_checkpoint(w) \/ guard(w) \/ service_event(w)
       PROVE  Applied'
  <2>1. /\ m_callbacks' \in {m_callbacks, passed(w)}
        /\ UNCHANGED <<m_tasks, inbox, pollables, terminated>>
        /\ \A x \in Workers : pc'[x] = "exited" => pc[x] = "exited"
    BY <1>14 DEF reader_checkpoint, guard, service_event, goto, TypeOK, WorkerTypes
  <2>2. Doomed' = Doomed /\ Live' = Live
    BY <2>1, PassedLive
  <2> QED
    BY <2>1, <2>2, AppliedFrame DEF Applied
<1> QED
  BY <1>2, <1>3, <1>4, <1>6, <1>7, <1>8, <1>9, <1>10, <1>11, <1>12, <1>13, <1>14
     DEF Next, controller, client, worker

\* Polled depends on the epoll sets, the queues and where the workers are.
LEMMA PolledFrame ==
    ASSUME Polled, UNCHANGED <<registered, pollables>>, terminated => terminated',
           \A w \in Workers : /\ pc'[w] \in Running <=> pc[w] \in Running
                              /\ inbox'[w] = <<>> => inbox[w] = <<>>
    PROVE  Polled'
BY DEF Polled

\* The erasure of a task takes it out of the epoll set.
LEMMA PolledGc ==
    ASSUME TypeOK, Applied, Polled, writer_process_gc_callbacks,
           UNCHANGED <<pollables, terminated, pc, inbox>>
    PROVE  Polled'
<1> DEFINE dead == {cb.task : cb \in {c \in m_callbacks : c.readers = {}}}
<1>1. registered' = [w \in Workers |-> registered[w] \ dead]
  BY DEF writer_process_gc_callbacks
<1>2. dead \subseteq Doomed
  BY DEF Doomed
<1> HIDE DEF dead
<1>3. ASSUME NEW w \in Workers, inbox[w] = <<>>, ~terminated
      PROVE  pollables[w] \cap dead = {}
  <2>1. CASE w = Stack
    <3>1. \A t \in Tasks : t \in pollables[w] <=> t \in Live
      BY <1>3, <2>1 DEF Applied, Agrees
    <3> QED
      BY <1>2, <3>1 DEF Live, TypeOK, WorkerTypes
  <2>2. CASE w # Stack
    BY <2>2 DEF Applied
  <2> QED
    BY <2>1, <2>2
<1> QED
  BY <1>1, <1>3 DEF Polled

\* Every step keeps the epoll sets in line with the configuration.
LEMMA PolledStep ==
    ASSUME TypeOK, Applied, Polled, Next
    PROVE  Polled'
<1> USE DEF ctlVars, gcVars, runVars, confVars, pollVars, loopVars, zmqVars, workerVars
<1>1. ASSUME NEW m, publish(m), UNCHANGED <<registered, pollables, terminated, pc>>
      PROVE  Polled'
  <2>1. \A w \in Workers : inbox'[w] = <<>> => inbox[w] = <<>>
    BY <1>1 DEF publish, TypeOK, ZmqTypes
  <2> QED
    BY <1>1, <2>1, PolledFrame
<1>2. CASE launch_workers \/ start \/ stop \/ \E t \in Tasks : add_task(t) \/ del_task(t)
  BY <1>1, <1>2 DEF launch_workers, start, stop, add_task, del_task
<1>3. CASE started \/ stopped \/ finished \/ join \/ zmq_ctx_shutdown
  BY <1>3, PolledFrame DEF started, stopped, finished, join, zmq_ctx_shutdown, vars
<1>4. CASE reclaim \/ handle_recycler_timeout
  BY <1>4, PolledGc DEF reclaim, handle_recycler_timeout
<1>5. ASSUME NEW w \in Workers, main(w) \/ recv_block(w) \/ recv_eterm(w) \/ run(w)
                                \/ reader_checkpoint(w) \/ guard(w) \/ service_event(w) \/ poll(w)
      PROVE  Polled'
  <2>1. /\ UNCHANGED <<registered, pollables, inbox, terminated>>
        /\ \A x \in Workers : pc'[x] \in Running <=> pc[x] \in Running
    BY <1>5 DEF main, recv_block, recv_eterm, run, reader_checkpoint, guard, service_event,
                poll, goto, Running, TypeOK, WorkerTypes
  <2> QED
    BY <2>1, PolledFrame
<1>6. ASSUME NEW w \in Workers, dispatch(w) PROVE Polled'
  <2>1. /\ \A x \in Workers : pc'[x] \in Running <=> pc[x] \in Running
        /\ pc[w] \notin Running
        /\ \A x \in Workers : x # w => inbox'[x] = inbox[x]
        /\ UNCHANGED <<registered, terminated>>
    BY <1>6 DEF dispatch, on_event, goto, Running, TypeOK, WorkerTypes, ZmqTypes
  <2>2. \A x \in Workers : x # w => pollables'[x] = pollables[x]
    BY <1>6 DEF dispatch, on_event, add_config, del_config, TypeOK, WorkerTypes
  <2> QED
    BY <2>1, <2>2 DEF Polled
<1>7. ASSUME NEW w \in Workers, enter(w) PROVE Polled'
  <2>1. /\ \A x \in Workers : x # w => /\ pc'[x] = pc[x] /\ registered'[x] = registered[x]
        /\ pc'[w] \in Running /\ pc[w] \notin Running
        /\ registered'[w] = registered[w] \cup (pollables[w] \cap m_tasks)
        /\ UNCHANGED <<pollables, inbox, terminated>>
    BY <1>7 DEF enter, goto, Running, TypeOK, WorkerTypes
  <2>2. inbox[w] = <<>> /\ ~terminated => pollables[w] \subseteq m_tasks
    <3>1. CASE w = Stack
      <4>1. inbox[w] = <<>> /\ ~terminated => \A t \in Tasks : t \in pollables[w] <=> t \in Live
        BY <3>1 DEF Applied, Agrees
      <4> QED
        BY <4>1 DEF Live, TypeOK, WorkerTypes
    <3>2. CASE w # Stack
      BY <3>2 DEF Applied
    <3> QED
      BY <3>1, <3>2
  <2> QED
    BY <2>1, <2>2 DEF Polled
<1>8. ASSUME NEW w \in Workers, update_poller(w) PROVE Polled'
  <2>1. /\ \A x \in Workers : pc'[x] \in Running <=> pc[x] \in Running
        /\ \A x \in Workers : registered'[x] \cap Tasks = registered[x] \cap Tasks
        /\ UNCHANGED <<pollables, inbox, terminated>>
    BY <1>8, WorkerControlAssumption DEF update_poller, goto, Running, TypeOK, WorkerTypes
  <2> QED
    BY <2>1 DEF Polled, TypeOK, WorkerTypes
<1>9. ASSUME NEW w \in Workers, leave(w) PROVE Polled'
  <2>1. /\ \A x \in Workers : x # w => /\ pc'[x] = pc[x] /\ registered'[x] = registered[x]
        /\ pc'[w] \notin Running /\ registered'[w] = registered[w] \ pollables[w]
        /\ UNCHANGED <<pollables, inbox, terminated>>
    BY <1>9 DEF leave, goto, Running, TypeOK, WorkerTypes
  <2> QED
    BY <2>1 DEF Polled
<1> QED
  BY <1>2, <1>3, <1>4, <1>5, <1>6, <1>7, <1>8, <1>9 DEF Next, controller, client, worker

-----------------------------------------------------------------------------
(* Theorems.                                                               *)

\* The invariant holds initially and is kept by every step.
THEOREM Inductive == Spec => []Inv
<1>1. Init => Inv
  <2> SUFFICES ASSUME Init PROVE Inv
    OBVIOUS
  <2>1. CtlTypes /\ WorkerTypes
    BY DEF Init, CtlTypes, WorkerTypes
  <2>2. ZmqTypes
    BY DEF Init, ZmqTypes
  <2>3. Signalling
    BY DEF Init, Signalling, Committed
  <2>4. Loop
    BY WorkerControlAssumption DEF Init, Loop, LoopCallbacksKept, known
  <2>5. Phase
    <3>1. responses <= Cardinality(subscribed)
      <4>1. IsFiniteSet(subscribed)
        BY WorkerControlAssumption, FS_Subset DEF subscribed
      <4> QED
        BY <4>1, FS_CardinalityType DEF Init
    <3> QED
      BY <3>1 DEF Init, Phase, Launching
  <2>6. Applied
    BY WorkerControlAssumption DEF Init, Applied, Agrees, Live, Doomed
  <2>7. Polled
    BY DEF Init, Polled, Running
  <2> QED
    BY <2>1, <2>2, <2>3, <2>4, <2>5, <2>6, <2>7 DEF Inv, TypeOK
<1>2. Inv /\ [Next]_vars => Inv'
  <2> SUFFICES ASSUME Inv, [Next]_vars PROVE Inv'
    OBVIOUS
  <2>1. CASE Next
    BY <2>1, TypesStep, SignallingStep, LoopStep, PhaseStep, AppliedStep, PolledStep DEF Inv
  <2>2. CASE UNCHANGED vars
    <3> USE <2>2 DEF vars, ctlVars, gcVars, runVars, confVars, pollVars, loopVars, zmqVars, Inv
    <3>1. TypeOK' /\ Signalling' /\ Loop'
      BY DEF TypeOK, CtlTypes, WorkerTypes, ZmqTypes, Signalling, Loop,
             LoopCallbacksKept, known
    <3>2. Phase' /\ Polled'
      BY PhaseFrame, PolledFrame
    <3>3. Applied'
      BY AppliedFrame DEF Applied, Live, Doomed
    <3> QED
      BY <3>1, <3>2, <3>3
  <2> QED
    BY <2>1, <2>2
<1> QED
  BY <1>1, <1>2, PTL DEF Spec

\* Every variable of the workers' control has its type.
THEOREM TypeCorrect == Spec => []TypeOK
<1>1. Inv => TypeOK
  BY DEF Inv
<1> QED
  BY <1>1, Inductive, PTL

\* A worker that waits in poll() with a control message queued, or after the
\* shutdown, has the event that wakes it (worker.cpp, run).
THEOREM NoLostWakeup == Spec => []ControlSeen
<1>1. Inv => ControlSeen
  BY DEF Inv, Signalling, ControlSeen
<1> QED
  BY <1>1, Inductive, PTL

\* The callbacks of the event loop outlive their epoll registration, and stay
\* registered while the worker is reconfigured (event_loop_adapter.cpp).
THEOREM CallbacksKept == Spec => []LoopCallbacksKept
<1>1. Inv => LoopCallbacksKept
  BY DEF Inv, Loop
<1> QED
  BY <1>1, Inductive, PTL

\* An acknowledged stop leaves no worker in its run loop, where it would use the
\* tables that the destructor deletes next (worker_client.cpp, stop).
THEOREM StopAcknowledged == Spec => []StopQuiesces
<1>1. Inv => StopQuiesces
  BY DEF Inv, Phase, StopQuiesces, Silent
<1> QED
  BY <1>1, Inductive, PTL

\* A waiting worker that has read its messages polls the tasks that were added
\* and not deleted, and only the stack worker polls any (worker.cpp, enter).
THEOREM ConfigReached == Spec => []ConfigApplied
<1>1. TypeOK /\ Applied /\ Polled => ConfigApplied
  <2> SUFFICES ASSUME TypeOK, Applied, Polled, NEW w \in Workers,
                      pc[w] = "poll", inbox[w] = <<>>, ~terminated
               PROVE  registered[w] \cap Tasks =
                         IF w = Stack THEN m_tasks \ {cb.task : cb \in m_callbacks} ELSE {}
    BY DEF ConfigApplied
  <2>1. registered[w] \cap Tasks = pollables[w]
    BY DEF Polled, Running, TypeOK, WorkerTypes
  <2>2. CASE w = Stack
    <3>1. \A t \in Tasks : t \in pollables[w] <=> t \in Live
      BY <2>2 DEF Applied, Agrees
    <3>2. pollables[w] = Live
      BY <3>1 DEF Live, TypeOK, WorkerTypes, CtlTypes
    <3> QED
      BY <2>1, <2>2, <3>2 DEF Live, Doomed
  <2>3. CASE w # Stack
    BY <2>1, <2>3 DEF Applied
  <2> QED
    BY <2>2, <2>3
<1>2. Inv => ConfigApplied
  BY <1>1 DEF Inv
<1> QED
  BY <1>2, Inductive, PTL
=============================================================================
