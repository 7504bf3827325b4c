---------------------------- MODULE WorkerControl ----------------------------
(***************************************************************************)
(* How packetio/workers/dpdk/worker_controller.cpp drives its worker       *)
(* threads (worker.cpp): launch, start, stop and join; the control         *)
(* messages of worker_client.cpp; the tasks that run on the stack worker   *)
(* and the callbacks they add to its event loop (event_loop_adapter.cpp).  *)
(*                                                                         *)
(* A worker notices a control message only through an edge triggered epoll *)
(* event of the socket's file descriptor.  The ZeroMQ socket is external:  *)
(* a message is put in the worker's inbox, and the descriptor is signalled *)
(* only if the worker had last found the inbox empty.                      *)
(*                                                                         *)
(* A task is named by its address, which may be used again after the       *)
(* recycler has freed it.  Touching a freed task is undefined; here, as in *)
(* the build, epoll_ctl() then fails for the closed descriptor.            *)
(***************************************************************************)
EXTENDS Naturals, Sequences, FiniteSets

CONSTANTS
    Workers,        \* worker threads
    Stack,          \* the worker on the stack lcore
    Spinning,       \* workers with a receive queue that cannot be polled
    Tasks,          \* addresses of the callbacks in m_tasks
    Callbacks,      \* callbacks that tasks add to the event loop
    MaxRequests     \* bound: add_task and del_task requests

ASSUME WorkerControlAssumption ==
    /\ IsFiniteSet(Workers) /\ Stack \in Workers /\ Spinning \subseteq Workers
    /\ Tasks \cap Callbacks = {}
    /\ MaxRequests \in Nat

VARIABLES
    ctl,            \* where the controller's thread is
    responses,      \* pings received at the current syncpoint
    requests,       \* add_task and del_task requests so far
    terminated,     \* zmq_ctx_shutdown() was called
    m_tasks,        \* the tasks that exist
    m_callbacks,    \* pending erasures of tasks: set of [task, readers]
    active,         \* workers that are not idle for the recycler
    pc,             \* [Workers -> where the worker is]
    state,          \* [Workers -> "stopped" or "started"]
    ready,          \* the workers that have their queues in their configuration
    pollables,      \* [Workers -> tasks in m_pollables]
    registered,     \* [Workers -> tasks and callbacks in the worker's epoll set]
    fetched,        \* [Workers -> tasks and callbacks poll() has returned]
    messages,       \* [Workers -> the flag run() stops on]
    m_additions, m_runnables, m_deletions,  \* event_loop_adapter of Stack
    inbox,          \* [Workers -> queued control messages]
    asleep,         \* the workers that last found their inbox empty
    signalled,      \* the workers whose control descriptor is readable
    edge            \* the workers with an epoll event for it pending

ctlVars  == <<ctl, responses, requests, terminated, m_tasks>>
gcVars   == <<m_callbacks, active>>
runVars  == <<pc, state, messages>>
confVars == <<ready, pollables>>
pollVars == <<registered, fetched>>
loopVars == <<m_additions, m_runnables, m_deletions>>
zmqVars  == <<inbox, asleep, signalled, edge>>
vars == <<ctlVars, gcVars, runVars, confVars, pollVars, loopVars, zmqVars>>

Init ==
    /\ ctl = "launch" /\ responses = 0 /\ requests = 0 /\ terminated = FALSE
    /\ m_tasks = {} /\ m_callbacks = {} /\ active = {}
    /\ pc = [w \in Workers |-> "boot"]
    /\ state = [w \in Workers |-> "stopped"]
    /\ messages = [w \in Workers |-> FALSE]
    /\ ready = {} /\ pollables = [w \in Workers |-> {}]
    /\ registered = [w \in Workers |-> {}] /\ fetched = [w \in Workers |-> {}]
    /\ m_additions = {} /\ m_runnables = {} /\ m_deletions = {}
    /\ inbox = [w \in Workers |-> <<>>]
    /\ asleep = {} /\ signalled = {} /\ edge = {}

-----------------------------------------------------------------------------
(* The control socket.                                                     *)

\* Where the worker's control descriptor is in its epoll set.
Running  == {"top", "poll", "fetched", "serve", "update", "leave"}
watching == {w \in Workers : pc[w] \in Running}

\* The workers whose subscription is in place.
subscribed == {w \in Workers : pc[w] # "boot"}

\* Signal the control descriptors of W.
notify(W) == /\ signalled' = signalled \cup W
             /\ edge' = edge \cup (W \cap watching)

\* zmq_msg_send on the PUB socket; after the shutdown it fails with ETERM,
\* which worker_client.cpp ignores.
publish(msg) ==
    IF terminated THEN UNCHANGED zmqVars
    ELSE /\ inbox' = [w \in Workers |-> IF w \in subscribed
                                        THEN Append(inbox[w], msg) ELSE inbox[w]]
         /\ asleep' = asleep \ subscribed
         /\ notify(asleep \cap subscribed)

\* zmq_ctx_shutdown: every socket is told to stop.
zmq_ctx_shutdown ==
    /\ ctl # "launch" /\ ctl # "config" /\ ctl # "starting"
    /\ ~terminated /\ terminated' = TRUE
    /\ notify(Workers)
    /\ UNCHANGED <<ctl, responses, requests, m_tasks, inbox, asleep>>
    /\ UNCHANGED <<gcVars, runVars, confVars, pollVars, loopVars>>

-----------------------------------------------------------------------------
(* worker_controller.cpp and worker_client.cpp: the server's thread.       *)

NbWorkers == Cardinality(Workers)
message(cmd, t) == [cmd |-> cmd, task |-> t]
None == "none"

workerVars == <<runVars, confVars, pollVars, loopVars>>

\* launch_workers returns when all workers have pinged; add_descriptors then
\* distributes the queues and schedulers.
launch_workers ==
    /\ ctl = "launch" /\ responses = NbWorkers
    /\ ctl' = "config"
    /\ publish(message("queues", None))
    /\ UNCHANGED <<responses, requests, terminated, m_tasks, gcVars, workerVars>>

\* client::start, and its wait for the acknowledgments.
start ==
    /\ ctl = "config" /\ ctl' = "starting" /\ responses' = 0
    /\ publish(message("start", None))
    /\ UNCHANGED <<requests, terminated, m_tasks, gcVars, workerVars>>

started ==
    /\ ctl = "starting" /\ responses = NbWorkers /\ ctl' = "serve"
    /\ UNCHANGED <<responses, requests, terminated, m_tasks, gcVars, workerVars, zmqVars>>

add_task(t) ==
    /\ ctl = "serve" /\ requests < MaxRequests /\ requests' = requests + 1
    /\ t \notin m_tasks /\ m_tasks' = m_tasks \cup {t}
    /\ publish(message("add", t))
    /\ UNCHANGED <<ctl, responses, terminated, gcVars, workerVars>>

\* The task stays in m_tasks until the recycler erases it, so it can be
\* deleted again.
del_task(t) ==
    /\ ctl = "serve" /\ requests < MaxRequests /\ requests' = requests + 1
    /\ t \in m_tasks
    /\ publish(message("del", t))
    /\ m_callbacks' = m_callbacks \cup {[task |-> t, readers |-> active]}
    /\ UNCHANGED <<ctl, responses, terminated, m_tasks, active, workerVars>>

\* The erasures that every reader has passed.  An erased task closes its
\* descriptor, which takes it out of the epoll set.  An erasure names its task
\* by uuid: one that is left of a task deleted twice finds nothing to erase,
\* whoever has the address by then.
writer_process_gc_callbacks ==
    LET done == {cb \in m_callbacks : cb.readers = {}}
        dead == {cb.task : cb \in done}
    IN  /\ m_callbacks' = {cb \in m_callbacks : cb.task \notin dead}
        /\ m_tasks' = m_tasks \ dead
        /\ registered' = [w \in Workers |-> registered[w] \ dead]
        /\ UNCHANGED <<active, fetched>>

handle_recycler_timeout ==
    /\ ctl = "serve" /\ m_callbacks # {}
    /\ writer_process_gc_callbacks
    /\ UNCHANGED <<ctl, responses, requests, terminated>>
    /\ UNCHANGED <<runVars, confVars, loopVars, zmqVars>>

\* ~worker_controller: client::stop, which gives up without a syncpoint once
\* the context is shut down.
stop ==
    /\ ctl = "serve"
    /\ IF terminated THEN ctl' = "reclaim" /\ UNCHANGED responses
       ELSE ctl' = "stopping" /\ responses' = 0
    /\ publish(message("stop", None))
    /\ UNCHANGED <<requests, terminated, m_tasks, gcVars, workerVars>>

\* The wait of op_task_sync_block_and_warn, also ended by ETERM.
stopped ==
    /\ ctl = "stopping"
    /\ \/ responses = NbWorkers /\ ctl' = "stopped"
       \/ terminated /\ ctl' = "reclaim"
    /\ UNCHANGED <<responses, requests, terminated, m_tasks, gcVars, workerVars, zmqVars>>

reclaim ==
    /\ ctl \in {"stopped", "reclaim"} /\ ctl' = "join"
    /\ writer_process_gc_callbacks
    /\ UNCHANGED <<responses, requests, terminated, runVars, confVars, loopVars, zmqVars>>

\* rte_eal_mp_wait_lcore, after which the tables and tasks are destroyed.
join ==
    /\ ctl = "join" /\ \A w \in Workers : pc[w] = "exited"
    /\ ctl' = "gone" /\ m_tasks' = {}
    /\ UNCHANGED <<responses, requests, terminated, gcVars, workerVars, zmqVars>>

-----------------------------------------------------------------------------
(* worker.cpp: the worker threads.                                         *)

goto(w, next) == pc' = [pc EXCEPT ![w] = next]

\* op_task_sync_ping.
ping == responses' = IF terminated THEN responses ELSE responses + 1

\* main: subscribe to the control socket, then ping the launch's syncpoint.
main(w) ==
    /\ pc[w] = "boot" /\ goto(w, "recv")
    /\ responses' = IF ctl = "launch" THEN responses + 1 ELSE responses
    /\ UNCHANGED <<ctl, requests, terminated, m_tasks, gcVars, state, messages>>
    /\ UNCHANGED <<confVars, pollVars, loopVars, zmqVars>>

\* A read of the inbox handles the signal; finding no message, it asks for the
\* next one to be signalled.
drained(w) == /\ signalled' = signalled \ {w}
              /\ asleep' = IF inbox[w] = <<>> THEN asleep \cup {w} ELSE asleep

\* recv_message with nothing to read.
recv_block(w) ==
    /\ pc[w] = "recv" /\ inbox[w] = <<>> /\ ~terminated
    /\ w \notin asleep \/ w \in signalled
    /\ drained(w)
    /\ UNCHANGED <<ctlVars, gcVars, workerVars, inbox, edge>>

\* Mutation: main takes ETERM for a passing error and goes on.
recv_eterm_continues(w) ==
    /\ pc[w] = "recv" /\ terminated
    /\ goto(w, IF state[w] = "started" THEN "check" ELSE "recv")
    /\ UNCHANGED <<ctlVars, gcVars, state, messages, confVars, pollVars, loopVars, zmqVars>>

\* recv_message fails with ETERM and main returns.
recv_eterm(w) ==
    /\ pc[w] = "recv" /\ terminated /\ goto(w, "exited")
    /\ UNCHANGED <<ctlVars, gcVars, state, messages, confVars, pollVars, loopVars, zmqVars>>

\* A worker takes the descriptors that are addressed to it.
add_config(w, msg) ==
    /\ ready' = IF msg.cmd = "queues" THEN ready \cup {w} ELSE ready
    /\ pollables' = IF msg.cmd = "add" /\ w = Stack
                    THEN [pollables EXCEPT ![w] = @ \cup {msg.task}] ELSE pollables

\* Mutation: the task stays in m_pollables.
del_config_forgets(w, msg) == UNCHANGED confVars

del_config(w, msg) ==
    /\ pollables' = IF w = Stack
                    THEN [pollables EXCEPT ![w] = @ \ {msg.task}] ELSE pollables
    /\ UNCHANGED ready

\* Mutation: the acknowledgment of stop comes from inside the run loop.
on_event_stops_late(w, msg) ==
    /\ IF msg.cmd \in {"start", "stop"} THEN ping /\ UNCHANGED confVars
       ELSE UNCHANGED responses
            /\ IF msg.cmd = "del" THEN del_config(w, msg) ELSE add_config(w, msg)
    /\ state' = [state EXCEPT ![w] = IF msg.cmd \in {"start", "stop"}
                                     THEN "started" ELSE @]
    /\ goto(w, IF state'[w] = "started" THEN "check" ELSE "recv")

\* The state machine's on_event for msg.  A started worker goes back to run();
\* start enters the new state after its run(), which no later event can tell
\* from before.
on_event(w, msg) ==
    /\ IF msg.cmd \in {"start", "stop"} THEN ping /\ UNCHANGED confVars
       ELSE UNCHANGED responses
            /\ IF msg.cmd = "del" THEN del_config(w, msg) ELSE add_config(w, msg)
    /\ state' = [state EXCEPT ![w] = IF msg.cmd = "start" THEN "started"
                                     ELSE IF msg.cmd = "stop" THEN "stopped" ELSE @]
    /\ goto(w, IF state'[w] = "started" THEN "check" ELSE "recv")

\* recv_message returns a message, which is dispatched.
dispatch(w) ==
    /\ pc[w] = "recv" /\ inbox[w] # <<>>
    /\ on_event(w, Head(inbox[w]))
    /\ inbox' = [inbox EXCEPT ![w] = Tail(@)]
    /\ signalled' = signalled \ {w}
    /\ UNCHANGED <<asleep, edge, messages>>
    /\ UNCHANGED <<ctl, requests, terminated, m_tasks, gcVars, pollVars, loopVars>>

\* Mutation: run() does not look for messages.
run_without_check(w) ==
    /\ pc[w] = "check" /\ goto(w, "enter")
    /\ UNCHANGED <<ctlVars, gcVars, state, messages, confVars, pollVars, loopVars, zmqVars>>

\* run: op_socket_has_messages, also true when the context is gone.
run(w) ==
    /\ pc[w] = "check"
    /\ goto(w, IF inbox[w] # <<>> \/ terminated THEN "recv" ELSE "enter")
    /\ drained(w)
    /\ UNCHANGED <<ctlVars, gcVars, state, messages, confVars, pollVars, loopVars>>
    /\ UNCHANGED <<inbox, edge>>

\* run_pollable and run_spinning up to the loop.  Adding a descriptor that is
\* readable is an edge.
enter(w) ==
    /\ pc[w] = "enter" /\ goto(w, IF w \in Spinning THEN "top" ELSE "poll")
    /\ messages' = [messages EXCEPT ![w] = FALSE]
    /\ edge' = IF w \in signalled THEN edge \cup {w} ELSE edge \ {w}
    /\ registered' = [registered EXCEPT ![w] = @ \cup (pollables[w] \cap m_tasks)]
    /\ UNCHANGED <<ctlVars, gcVars, state, confVars, fetched, loopVars>>
    /\ UNCHANGED <<inbox, asleep, signalled>>

passed(w) == {[cb EXCEPT !.readers = @ \ {w}] : cb \in m_callbacks}

\* The head of the loop of run_spinning, which never is idle for the recycler.
reader_checkpoint(w) ==
    /\ pc[w] = "top" /\ goto(w, "poll")
    /\ active' = active \cup {w} /\ m_callbacks' = passed(w)
    /\ UNCHANGED <<ctlVars, state, messages, confVars, pollVars, loopVars, zmqVars>>

\* epoll_poller::poll.  An event of the control descriptor sets the flag
\* (interrupt_event_callback).  With a timeout poll() may return nothing.
poll(w) ==
    /\ pc[w] = "poll" /\ goto(w, IF w \in Spinning THEN "serve" ELSE "fetched")
    /\ \E E \in SUBSET registered[w] :
          /\ fetched' = [fetched EXCEPT ![w] = E]
          /\ E # {} \/ w \in edge \/ w \in Spinning
    /\ messages' = [messages EXCEPT ![w] = @ \/ w \in edge]
    /\ edge' = edge \ {w}
    /\ UNCHANGED <<ctlVars, gcVars, state, confVars, registered, loopVars>>
    /\ UNCHANGED <<inbox, asleep, signalled>>

\* The guard of run_pollable.
guard(w) ==
    /\ pc[w] = "fetched" /\ goto(w, "serve")
    /\ active' = active \cup {w} /\ m_callbacks' = passed(w)
    /\ UNCHANGED <<ctlVars, state, messages, confVars, pollVars, loopVars, zmqVars>>

\* Mutation: a deleted callback is destroyed on the spot.
del_callback_now(D) == UNCHANGED m_deletions

\* event_loop_adapter::del_callback: kept until the loop is updated.
del_callback(D) == m_deletions' = m_deletions \cup D

known == m_additions \cup m_runnables \cup m_deletions

\* The handlers of what poll() returned.  They may add and delete callbacks of
\* the event loop (a failing callback deletes itself).  Leaving the guard makes
\* the worker idle.
service_event(w) ==
    /\ pc[w] = "serve" /\ goto(w, "update")
    /\ \E A \in SUBSET (Callbacks \ known), D \in SUBSET (m_additions \cup m_runnables) :
          /\ fetched[w] = {} => A = {} /\ D = {}
          /\ m_additions' = (m_additions \ D) \cup A
          /\ m_runnables' = m_runnables \ D
          /\ del_callback(D)
    /\ fetched' = [fetched EXCEPT ![w] = {}]
    /\ IF w \in Spinning THEN UNCHANGED gcVars
       ELSE active' = active \ {w} /\ m_callbacks' = passed(w)
    /\ UNCHANGED <<ctlVars, state, messages, confVars, registered, zmqVars>>

\* event_loop_adapter::update_poller: what can be added becomes runnable, what
\* was deleted leaves the epoll set and is destroyed; the destructors may
\* delete other callbacks (More).
update_poller(w) ==
    /\ pc[w] = "update"
    /\ goto(w, IF messages[w] THEN "leave" ELSE IF w \in Spinning THEN "top" ELSE "poll")
    /\ IF w # Stack THEN UNCHANGED <<registered, loopVars>>
       ELSE \E OK \in SUBSET m_additions, More \in SUBSET (m_additions \cup m_runnables) :
              /\ m_deletions = {} => More = {}
              /\ registered' = [registered EXCEPT ![w] = (@ \cup OK) \ m_deletions]
              /\ m_additions' = (m_additions \ OK) \ More
              /\ m_runnables' = (m_runnables \cup OK) \ More
              /\ m_deletions' = More
    /\ UNCHANGED <<ctlVars, gcVars, state, messages, confVars, fetched, zmqVars>>

\* The end of run_pollable and run_spinning: the tasks and the control socket
\* leave the epoll set, the callbacks of the event loop stay in it.
leave(w) ==
    /\ pc[w] = "leave" /\ goto(w, "recv")
    /\ registered' = [registered EXCEPT ![w] = @ \ pollables[w]]
    /\ UNCHANGED <<ctlVars, gcVars, state, messages, confVars, fetched, loopVars, zmqVars>>

-----------------------------------------------------------------------------
\* The end of the program.
finished == ctl = "gone" /\ UNCHANGED vars

controller == \/ launch_workers \/ start \/ started
              \/ stopped \/ reclaim \/ join

client == \/ \E t \in Tasks : add_task(t) \/ del_task(t)
          \/ handle_recycler_timeout \/ stop \/ zmq_ctx_shutdown

worker(w) == \/ main(w) \/ recv_block(w) \/ recv_eterm(w) \/ dispatch(w)
             \/ run(w) \/ enter(w) \/ reader_checkpoint(w) \/ guard(w)
             \/ service_event(w) \/ update_poller(w) \/ leave(w)

Next == controller \/ client \/ finished \/ \E w \in Workers : worker(w) \/ poll(w)

Spec == Init /\ [][Next]_vars

\* Threads run, and op_halt() destroys the modules after it has shut down the
\* context.  poll() returns when the control descriptor has an event, and at its
\* timeout in a spinning worker; events of tasks are not assumed.
Fairness == /\ WF_vars(controller) /\ WF_vars(terminated /\ stop)
            /\ \A w \in Workers : WF_vars(worker(w))
                                  /\ WF_vars((w \in edge \/ w \in Spinning) /\ poll(w))

FairSpec == Spec /\ Fairness

-----------------------------------------------------------------------------
(* Properties.                                                             *)

\* The control messages of worker_api.hpp.
Messages == [cmd : {"queues", "start", "stop"}, task : {None}]
            \cup [cmd : {"add", "del"}, task : Tasks]

CtlTypes ==
    /\ ctl \in {"launch", "config", "starting", "serve", "stopping", "stopped",
                "reclaim", "join", "gone"}
    /\ responses \in Nat /\ requests \in Nat /\ terminated \in BOOLEAN
    /\ m_tasks \subseteq Tasks
    /\ m_callbacks \subseteq [task : Tasks, readers : SUBSET Workers]
    /\ active \subseteq Workers

WorkerTypes ==
    /\ pc \in [Workers -> Running \cup {"boot", "recv", "check", "enter", "exited"}]
    /\ state \in [Workers -> {"stopped", "started"}]
    /\ messages \in [Workers -> BOOLEAN]
    /\ ready \subseteq Workers
    /\ pollables \in [Workers -> SUBSET Tasks]
    /\ registered \in [Workers -> SUBSET (Tasks \cup Callbacks)]
    /\ fetched \in [Workers -> SUBSET (Tasks \cup Callbacks)]
    /\ m_additions \subseteq Callbacks /\ m_runnables \subseteq Callbacks
    /\ m_deletions \subseteq Callbacks

ZmqTypes ==
    /\ inbox \in [Workers -> Seq(Messages)]
    /\ asleep \subseteq Workers /\ signalled \subseteq Workers /\ edge \subseteq Workers

\* Every variable has its type.
TypeOK == CtlTypes /\ WorkerTypes /\ ZmqTypes

\* A worker that waits in poll() (worker.cpp, run_pollable) while a control
\* message is queued, or the context is shut down, has the event that wakes it.
ControlSeen ==
    \A w \in Workers : pc[w] = "poll" /\ (inbox[w] # <<>> \/ terminated) => w \in edge

\* A worker that has read all its messages polls exactly the tasks that the
\* controller has added and not deleted (add_task, del_task); other workers
\* poll none.
ConfigApplied ==
    \A w \in Workers :
        pc[w] = "poll" /\ inbox[w] = <<>> /\ ~terminated =>
            registered[w] \cap Tasks =
                IF w = Stack THEN m_tasks \ {cb.task : cb \in m_callbacks} ELSE {}

\* After an acknowledged stop no worker is in its run loop, where it would use
\* the tables the destructor is about to delete.
StopQuiesces == ctl = "stopped" => \A w \in Workers : pc[w] \in {"recv", "exited"}

\* A callback of the event loop that poll() can return, or has returned, has
\* not been destroyed (update_poller), and a runnable one stays in the epoll
\* set while the worker is reconfigured.
LoopCallbacksKept ==
    /\ (registered[Stack] \cup fetched[Stack]) \cap Callbacks \subseteq known
    /\ m_runnables \subseteq registered[Stack]

\* The tasks a worker is about to touch exist: the ones poll() has returned and
\* the ones it adds to or removes from its epoll set.
NoDeadTask ==
    \A w \in Workers :
        /\ pc[w] = "serve" => fetched[w] \cap Tasks \subseteq m_tasks
        /\ pc[w] \in {"enter", "leave"} => pollables[w] \subseteq m_tasks

\* After the context is shut down the destructor returns: all workers exit.
Exits == terminated ~> ctl = "gone"
=============================================================================
