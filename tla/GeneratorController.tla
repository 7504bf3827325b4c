------------------------ MODULE GeneratorController -------------------------
(***************************************************************************)
(* src/framework/generator: the controller that the block and network      *)
(* generators put their load tasks under.  The owner's thread calls        *)
(* add(), pause(), resume(), reset(), clear() and remove_task() and waits  *)
(* for the workers to confirm; a control thread reads what the workers     *)
(* send (INIT, STATISTICS and confirmations) and counts the confirmations  *)
(* down; every worker is a thread that runs one task.  Commands go out on  *)
(* one PUB socket, everything else comes in on one SUB socket.             *)
(*                                                                         *)
(* Sockets are ZeroMQ's: a message on a pipe keeps its order, a message    *)
(* that is published before the subscription has arrived is lost, and a    *)
(* message that finds its pipe at the high water mark is dropped (Drops).  *)
(***************************************************************************)
EXTENDS Naturals, Sequences, FiniteSets

CONSTANTS
    Workers,    \* the workers that may be in m_workers
    MaxPipe,    \* messages of one worker that wait for the control thread
    MaxCmd,     \* commands that wait for one worker
    Drops       \* TRUE: a full pipe drops; FALSE: the task finds room

ASSUME GeneratorAssumption ==
    /\ IsFiniteSet(Workers)
    /\ MaxPipe \in Nat \ {0} /\ MaxCmd \in Nat \ {0}
    /\ Drops \in BOOLEAN

Confirmed == {"PAUSE", "RESUME", "RESET", "STOP"}
Messages  == Confirmed \union {"INIT", "READY", "STATISTICS"}

VARIABLES
    m_workers,  \* the workers of the list
    feedback,   \* m_feedback_operation and the counter of m_feedback
    owner,      \* where the owner's thread is, in which call, for which worker
    ctl,        \* the messages the control thread has in hand: none or one
    cmd,        \* commands on the way to each worker
    sub,        \* workers whose subscription the control socket has seen
    stat,       \* messages on the way from each worker
    link,       \* workers that have seen the controller's subscription
    thread,     \* where each worker's thread is
    paused, m_finished,
    spun,       \* workers whose task has run since it was made or reset
    promised    \* what the calls that returned promise of each worker

vars == <<m_workers, feedback, owner, ctl, cmd, sub, stat, link, thread,
          paused, m_finished, spun, promised>>

wvars == <<thread, paused, m_finished, spun>>

TypeOK ==
    /\ m_workers \subseteq Workers
    /\ feedback \in [op : Messages, counter : 0..Cardinality(Workers)]
    /\ owner \in [pc : {"idle", "sending", "wait", "join"},
                  op : Messages, of : SUBSET Workers]
    /\ ctl \in Seq(Workers \X Messages) /\ Len(ctl) <= 1
    /\ cmd \in [Workers -> Seq(Messages)]
    /\ sub \subseteq Workers /\ link \subseteq Workers
    /\ stat \in [Workers -> Seq(Messages)]
    /\ thread \in [Workers -> {"none", "init", "sleep", "loop", "recv", "done"}]
    /\ paused \in [Workers -> BOOLEAN] /\ m_finished \in [Workers -> BOOLEAN]
    /\ spun \subseteq Workers
    /\ promised \in [Workers -> [paused : BOOLEAN, clean : BOOLEAN]]

Init ==
    /\ m_workers = {}
    /\ feedback = [op |-> "READY", counter |-> 0]
    /\ owner = [pc |-> "idle", op |-> "READY", of |-> {}]
    /\ ctl = <<>>
    /\ cmd = [w \in Workers |-> <<>>] /\ sub = {}
    /\ stat = [w \in Workers |-> <<>>] /\ link = {}
    /\ thread = [w \in Workers |-> "none"]
    /\ paused = [w \in Workers |-> TRUE]
    /\ m_finished = [w \in Workers |-> TRUE]
    /\ spun = {}
    /\ promised = [w \in Workers |-> [paused |-> TRUE, clean |-> TRUE]]

-----------------------------------------------------------------------------
(* The sockets.                                                            *)

\* zmq_send() on the control socket: to every subscription it has seen.
Published(op) == [w \in Workers |-> IF w \in sub THEN Append(cmd[w], op) ELSE cmd[w]]

\* message::send() on the statistics socket of worker w.
Reported(w, msg) ==
    IF w \in link /\ (Drops => Len(stat[w]) < MaxPipe)
    THEN [stat EXCEPT ![w] = Append(@, msg)] ELSE stat

\* A subscription arrives at the control socket.
subscribe(w) ==
    /\ w \in m_workers \ sub
    /\ sub' = sub \union {w}
    /\ UNCHANGED <<m_workers, feedback, owner, ctl, cmd, stat, link, promised>>
    /\ UNCHANGED wvars

\* The controller's subscription arrives at the socket of worker w.
connect(w) ==
    /\ w \in m_workers \ link
    /\ link' = link \union {w}
    /\ UNCHANGED <<m_workers, feedback, owner, ctl, cmd, stat, sub, promised>>
    /\ UNCHANGED wvars

-----------------------------------------------------------------------------
(* The owner's thread.                                                     *)

\* What the owner may rely on in worker w once command op has returned.
Promise(w, op) ==
    CASE op = "PAUSE"  -> [promised[w] EXCEPT !.paused = TRUE]
      [] op = "RESUME" -> [paused |-> FALSE, clean |-> FALSE]
      [] op = "RESET"  -> [promised[w] EXCEPT !.clean = @ \/ promised[w].paused]
      [] OTHER         -> promised[w]

feedback_init(op, count) == [op |-> op, counter |-> count]

\* Mutation: the first confirmation is enough.
expected_one(op) == feedback_init(op, 1)

\* Every command expects the confirmation of every worker.
expected(op) == feedback_init(op, Cardinality(m_workers))

\* pause(), resume(), reset() and clear(), up to zmq_send(); they return at
\* once when there is no worker.
command(op) ==
    /\ owner.pc = "idle" /\ m_workers # {}
    /\ feedback' = expected(op)
    /\ owner' = [pc |-> "sending", op |-> op, of |-> m_workers]
    /\ promised' = [w \in Workers |->
                      IF w \in m_workers THEN Promise(w, op) ELSE promised[w]]
    /\ UNCHANGED <<m_workers, ctl, cmd, sub, stat, link>> /\ UNCHANGED wvars

\* The zmq_send() of a command, or of the READY of remove_task().
send ==
    /\ owner.pc = "sending"
    /\ cmd' = Published(owner.op)
    /\ owner' = [owner EXCEPT !.pc = IF owner.op = "READY" THEN "join" ELSE "wait"]
    /\ UNCHANGED <<m_workers, feedback, ctl, sub, stat, link, promised>>
    /\ UNCHANGED wvars

\* m_feedback.wait() returns.
wait ==
    /\ owner.pc = "wait" /\ feedback.counter = 0
    /\ owner' = [owner EXCEPT !.pc = IF owner.op = "STOP" THEN "join" ELSE "idle"]
    /\ UNCHANGED <<m_workers, feedback, ctl, cmd, sub, stat, link, promised>>
    /\ UNCHANGED wvars

\* ~worker(): the threads end, their sockets close.  What they have sent stays
\* readable.
joined ==
    /\ owner.pc = "join" /\ \A w \in owner.of : thread[w] = "done"
    /\ owner' = [owner EXCEPT !.pc = "idle"]
    /\ m_workers' = m_workers \ owner.of
    /\ cmd' = [w \in Workers |-> IF w \in owner.of THEN <<>> ELSE cmd[w]]
    /\ sub' = sub \ owner.of /\ link' = link \ owner.of
    /\ thread' = [w \in Workers |-> IF w \in owner.of THEN "none" ELSE thread[w]]
    /\ UNCHANGED <<feedback, ctl, stat, paused, m_finished, spun, promised>>

\* add(): connects the sockets of a new worker, starts its thread, and waits
\* for one READY.
add_until(w, step) ==
    /\ owner.pc = "idle"
    /\ thread[w] = "none" /\ stat[w] = <<>> /\ \A i \in 1..Len(ctl) : ctl[i][1] # w
    /\ feedback' = feedback_init("READY", 1)
    /\ m_workers' = m_workers \union {w}
    /\ thread' = [thread EXCEPT ![w] = "init"]
    /\ paused' = [paused EXCEPT ![w] = TRUE]
    /\ m_finished' = [m_finished EXCEPT ![w] = FALSE]
    /\ spun' = spun \ {w}
    /\ promised' = [promised EXCEPT ![w] = [paused |-> TRUE, clean |-> TRUE]]
    /\ owner' = [pc |-> step, op |-> "INIT", of |-> {w}]
    /\ UNCHANGED <<ctl, cmd, sub, stat, link>>

\* Mutation: add() does not wait for the worker.
add_unwaited(w) == add_until(w, "idle")

add(w) == add_until(w, "wait")

\* remove_task(): sets the worker's flag, has every worker look at its own,
\* and joins the one.
remove_task_via(w, step) ==
    /\ owner.pc = "idle" /\ w \in m_workers
    /\ m_finished' = [m_finished EXCEPT ![w] = TRUE]
    /\ owner' = [pc |-> step, op |-> "READY", of |-> {w}]
    /\ UNCHANGED <<m_workers, feedback, ctl, cmd, sub, stat, link, promised,
                   thread, paused, spun>>

\* Mutation: without the broadcast a paused worker sleeps on.
remove_task_silent(w) == remove_task_via(w, "join")

remove_task(w) == remove_task_via(w, "sending")

-----------------------------------------------------------------------------
(* The control thread.                                                     *)

receive(w) ==
    /\ ctl = <<>> /\ stat[w] # <<>>
    /\ ctl' = <<<<w, Head(stat[w])>>>>
    /\ stat' = [stat EXCEPT ![w] = Tail(@)]
    /\ UNCHANGED <<m_workers, feedback, owner, cmd, sub, link, promised>>
    /\ UNCHANGED wvars

\* An INIT is answered with a READY, on the socket that the owner sends on.
answer_init ==
    /\ ctl # <<>> /\ ctl[1][2] = "INIT"
    /\ ctl' = <<>>
    /\ cmd' = Published("READY")
    /\ UNCHANGED <<m_workers, feedback, owner, sub, stat, link, promised>>
    /\ UNCHANGED wvars

\* The processor adds statistics to the generator's.
process_stats ==
    /\ ctl # <<>> /\ ctl[1][2] = "STATISTICS"
    /\ ctl' = <<>>
    /\ UNCHANGED <<m_workers, feedback, owner, cmd, sub, stat, link, promised>>
    /\ UNCHANGED wvars

count_down ==
    /\ ctl # <<>> /\ ctl[1][2] \in Confirmed \union {"READY"}
    /\ ctl' = <<>>
    /\ feedback' = IF feedback.op = ctl[1][2] /\ feedback.counter > 0
                   THEN [feedback EXCEPT !.counter = @ - 1] ELSE feedback
    /\ UNCHANGED <<m_workers, owner, cmd, sub, stat, link, promised>>
    /\ UNCHANGED wvars

-----------------------------------------------------------------------------
(* The workers' threads.                                                   *)

\* worker::run() sends an INIT every millisecond ...
send_init(w) ==
    /\ thread[w] = "init"
    /\ Len(stat[w]) < MaxPipe /\ \A v \in Workers \ {w} : Len(cmd[v]) < MaxCmd
    /\ stat' = Reported(w, "INIT")
    /\ thread' = [thread EXCEPT ![w] = "sleep"]
    /\ UNCHANGED <<m_workers, feedback, owner, ctl, cmd, sub, link, promised,
                   paused, m_finished, spun>>

\* ... until a READY comes, and confirms it.
next_ready(w) ==
    /\ thread[w] = "sleep"
    /\ LET ready == cmd[w] # <<>> /\ Head(cmd[w]) = "READY" IN
       /\ cmd' = IF cmd[w] # <<>> THEN [cmd EXCEPT ![w] = Tail(@)] ELSE cmd
       /\ stat' = IF ready THEN Reported(w, "READY") ELSE stat
       /\ thread' = [thread EXCEPT ![w] = IF ready THEN "loop" ELSE "init"]
    /\ UNCHANGED <<m_workers, feedback, owner, ctl, sub, link, promised,
                   paused, m_finished, spun>>

check_finished(w) ==
    /\ thread[w] = "loop"
    /\ thread' = [thread EXCEPT ![w] = IF m_finished[w] THEN "done" ELSE "recv"]
    /\ UNCHANGED <<m_workers, feedback, owner, ctl, cmd, sub, stat, link,
                   promised, paused, m_finished, spun>>

\* next_command() returns a command, which is obeyed and confirmed.
obey(w) ==
    /\ thread[w] = "recv" /\ cmd[w] # <<>>
    /\ LET op == Head(cmd[w]) IN
       /\ m_finished' = [m_finished EXCEPT ![w] = @ \/ op = "STOP"]
       /\ paused' = [paused EXCEPT ![w] = IF op \in {"PAUSE", "RESUME"}
                                          THEN op = "PAUSE" ELSE @]
       /\ spun' = IF op = "RESET" THEN spun \ {w} ELSE spun
       /\ stat' = IF op = "READY" THEN stat ELSE Reported(w, op)
    /\ cmd' = [cmd EXCEPT ![w] = Tail(@)]
    /\ thread' = [thread EXCEPT ![w] = "loop"]
    /\ UNCHANGED <<m_workers, feedback, owner, ctl, sub, link, promised>>

\* There is no command and the worker is not paused: the task runs once.
spin(w) ==
    /\ thread[w] = "recv" /\ cmd[w] = <<>> /\ ~paused[w]
    /\ Drops \/ Len(stat[w]) < MaxPipe
    /\ stat' = Reported(w, "STATISTICS")
    /\ spun' = spun \union {w}
    /\ thread' = [thread EXCEPT ![w] = "loop"]
    /\ UNCHANGED <<m_workers, feedback, owner, ctl, cmd, sub, link, promised,
                   paused, m_finished>>

-----------------------------------------------------------------------------
Worker(w) == \/ send_init(w) \/ next_ready(w) \/ check_finished(w)
             \/ obey(w) \/ spin(w)

Handle == answer_init \/ process_stats \/ count_down

Next ==
    \/ \E op \in Confirmed : command(op)
    \/ send \/ wait \/ joined
    \/ \E w \in Workers : add(w) \/ remove_task(w) \/ subscribe(w) \/ connect(w)
    \/ \E w \in Workers : receive(w) \/ Worker(w)
    \/ Handle

Spec == Init /\ [][Next]_vars

\* The threads run, subscriptions arrive, and a SUB socket reads its pipes in
\* turn.  The owner need not call anything.
Fairness ==
    /\ WF_vars(send) /\ WF_vars(wait) /\ WF_vars(joined) /\ WF_vars(Handle)
    /\ \A w \in Workers : /\ WF_vars(subscribe(w)) /\ WF_vars(connect(w))
                          /\ SF_vars(receive(w)) /\ WF_vars(Worker(w))

FairSpec == Spec /\ Fairness

-----------------------------------------------------------------------------
(* Properties.                                                             *)

\* The control socket and the list of workers belong to the owner's thread, but
\* the control thread reads the list and sends on the socket when it answers an
\* INIT (controller.hpp:133).  It only ever does so while the owner waits in
\* add(), although a worker may send many INITs and its subscriptions may be
\* late.
SocketExclusive ==
    (ctl # <<>> /\ ctl[1][2] = "INIT") => owner.pc = "wait" /\ owner.op = "INIT"

\* When a call has returned, every worker has obeyed every command: the paused
\* ones are paused, none of their statistics is still on its way to the
\* processor or in its hands, so that the owner may clear the totals, and a
\* task that was reset has not run since.
Fenced ==
    owner.pc = "idle" =>
        \A w \in m_workers :
            /\ paused[w] = promised[w].paused
            /\ promised[w].paused =>
                 /\ stat[w] = <<>>
                 /\ \A i \in 1..Len(ctl) : ctl[i][1] # w
            /\ promised[w].clean => w \notin spun

\* add(), pause(), resume(), reset(), clear() and remove_task() return.
CallsReturn == owner.pc # "idle" ~> owner.pc = "idle"
=============================================================================
