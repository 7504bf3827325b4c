-------------------------- MODULE GeneratorsProofs --------------------------
(***************************************************************************)
(* Proofs about what runs load over time: the controller of the generators *)
(* (GeneratorController), the clock (TimeKeeper) and the profiles (Tvlp).  *)
(***************************************************************************)
EXTENDS MCGenerators, TLAPS, FiniteSetTheorems, SequenceTheorems

-----------------------------------------------------------------------------
(* The controller.                                                         *)

\* The first element of a sequence and the ones after it.
LEMMA HeadOfQueue ==
    ASSUME NEW S, NEW q \in Seq(S), q # <<>>
    PROVE  /\ Len(q) \in Nat /\ 1 \in 1..Len(q) /\ Head(q) = q[1] /\ Head(q) \in S
           /\ Tail(q) \in Seq(S) /\ Len(Tail(q)) = Len(q) - 1
           /\ \A i \in 1..Len(Tail(q)) : i + 1 \in 1..Len(q) /\ Tail(q)[i] = q[i + 1]
           /\ \A i \in 1..Len(q) : i # 1 => i - 1 \in 1..Len(Tail(q)) /\ Tail(q)[i - 1] = q[i]
<1>1. Len(q) \in Nat /\ Len(q) > 0 /\ Head(q) = q[1]
  BY EmptySeq, LenProperties
<1>2. Tail(q) \in Seq(S) /\ Len(Tail(q)) = Len(q) - 1 /\ Head(q) \in S
      /\ \A i \in 1..Len(Tail(q)) : Tail(q)[i] = q[i + 1]
  BY HeadTailProperties
<1> QED
  BY <1>1, <1>2

\* What a worker sends arrives at the end of its pipe, if it arrives.
LEMMA ReportedPipe ==
    ASSUME TypeOK, NEW w \in Workers, NEW m \in Messages, stat' = Reported(w, m)
    PROVE  /\ stat' \in [Workers -> Seq(Messages)]
           /\ \A x \in Workers : x # w => stat'[x] = stat[x]
           /\ stat'[w] = stat[w] \/ (w \in link /\ stat'[w] = Append(stat[w], m))
BY DEF Reported, TypeOK

\* What the control socket sends is a message.
LEMMA PublishedTypes ==
    ASSUME TypeOK, NEW m \in Messages
    PROVE  Published(m) \in [Workers -> Seq(Messages)]
<1>1. \A w \in Workers : Published(m)[w] \in Seq(Messages)
  BY AppendProperties DEF Published, TypeOK
<1> QED
  BY <1>1 DEF Published

\* Types are kept.
LEMMA ControllerTypes ==
    ASSUME TypeOK, Next
    PROVE  TypeOK'
<1> USE GeneratorAssumption DEF wvars
<1>1. ASSUME NEW op \in Confirmed, command(op) PROVE TypeOK'
  <2>1. Cardinality(m_workers) \in 0..Cardinality(Workers)
    BY FS_Subset, FS_CardinalityType DEF TypeOK
  <2>2. feedback' \in [op : Messages, counter : 0..Cardinality(Workers)]
    BY <1>1, <2>1 DEF command, expected, feedback_init, Messages
  <2>3. promised' \in [Workers -> [paused : BOOLEAN, clean : BOOLEAN]]
    <3>1. ASSUME NEW x \in Workers PROVE Promise(x, op) \in [paused : BOOLEAN, clean : BOOLEAN]
      <4>1. promised[x] \in [paused : BOOLEAN, clean : BOOLEAN]
        BY DEF TypeOK
      <4> QED
        BY <4>1 DEF Promise
    <3> QED
      BY <1>1, <3>1 DEF command, TypeOK
  <2> QED
    BY <1>1, <2>2, <2>3 DEF command, TypeOK, Messages
<1>2. CASE send
  BY <1>2, PublishedTypes DEF send, TypeOK
<1>3. CASE wait
  BY <1>3 DEF wait, TypeOK
<1>4. CASE joined
  <2>1. cmd' \in [Workers -> Seq(Messages)]
    BY <1>4 DEF joined, TypeOK
  <2> QED
    BY <1>4, <2>1 DEF joined, TypeOK
<1>5. ASSUME NEW w \in Workers, add(w) PROVE TypeOK'
  <2>1. 1 \in 0..Cardinality(Workers)
    BY FS_EmptySet, FS_CardinalityType
  <2>2. feedback' \in [op : Messages, counter : 0..Cardinality(Workers)]
    BY <1>5, <2>1 DEF add, add_until, feedback_init, Messages
  <2> QED
    BY <1>5, <2>2 DEF add, add_until, TypeOK, Messages
<1>6. ASSUME NEW w \in Workers, remove_task(w) PROVE TypeOK'
  BY <1>6 DEF remove_task, remove_task_via, TypeOK, Messages
<1>7. ASSUME NEW w \in Workers, subscribe(w) \/ connect(w) PROVE TypeOK'
  BY <1>7 DEF subscribe, connect, TypeOK
<1>8. ASSUME NEW w \in Workers, receive(w) PROVE TypeOK'
  <2>1. Head(stat[w]) \in Messages /\ stat' \in [Workers -> Seq(Messages)]
    BY <1>8 DEF receive, TypeOK
  <2>2. ctl' \in Seq(Workers \X Messages) /\ Len(ctl') <= 1
    BY <1>8, <2>1 DEF receive
  <2> QED
    BY <1>8, <2>1, <2>2 DEF receive, TypeOK
<1>9. CASE answer_init
  <2>1. cmd' \in [Workers -> Seq(Messages)]
    BY <1>9, PublishedTypes DEF answer_init, Messages
  <2> QED
    BY <1>9, <2>1 DEF answer_init, TypeOK
<1>10. CASE process_stats
  BY <1>10 DEF process_stats, TypeOK
<1>11. CASE count_down
  <2>1. feedback' \in [op : Messages, counter : 0..Cardinality(Workers)]
    <3>1. Cardinality(Workers) \in Nat
      BY FS_CardinalityType
    <3>2. /\ feedback \in [op : Messages, counter : 0..Cardinality(Workers)]
          /\ feedback.counter \in 0..Cardinality(Workers)
      BY DEF TypeOK
    <3>3. CASE feedback' = feedback
      BY <3>2, <3>3
    <3>4. CASE feedback.counter > 0 /\ feedback' = [feedback EXCEPT !.counter = @ - 1]
      <4>1. feedback.counter - 1 \in 0..Cardinality(Workers)
        BY <3>1, <3>2, <3>4
      <4> QED
        BY <3>2, <3>4, <4>1
    <3> QED
      BY <1>11, <3>3, <3>4 DEF count_down
  <2> QED
    BY <1>11, <2>1 DEF count_down, TypeOK
<1>12. ASSUME NEW w \in Workers, send_init(w) PROVE TypeOK'
  <2>1. stat' \in [Workers -> Seq(Messages)]
    BY <1>12, ReportedPipe DEF send_init, Messages
  <2> QED
    BY <1>12, <2>1 DEF send_init, TypeOK
<1>13. ASSUME NEW w \in Workers, next_ready(w) PROVE TypeOK'
  <2>1. stat' \in [Workers -> Seq(Messages)]
    BY <1>13, ReportedPipe DEF next_ready, Messages, TypeOK
  <2>2. cmd' \in [Workers -> Seq(Messages)]
    BY <1>13 DEF next_ready, TypeOK
  <2> QED
    BY <1>13, <2>1, <2>2 DEF next_ready, TypeOK
<1>14. ASSUME NEW w \in Workers, check_finished(w) PROVE TypeOK'
  BY <1>14 DEF check_finished, TypeOK
<1>15. ASSUME NEW w \in Workers, obey(w) PROVE TypeOK'
  <2>1. Head(cmd[w]) \in Messages
    BY <1>15 DEF obey, TypeOK
  <2>2. stat' \in [Workers -> Seq(Messages)]
    BY <1>15, <2>1, ReportedPipe DEF obey, TypeOK
  <2>3. cmd' \in [Workers -> Seq(Messages)]
    BY <1>15 DEF obey, TypeOK
  <2>4. paused' \in [Workers -> BOOLEAN] /\ m_finished' \in [Workers -> BOOLEAN]
    BY <1>15 DEF obey, TypeOK
  <2> QED
    BY <1>15, <2>2, <2>3, <2>4 DEF obey, TypeOK
<1>16. ASSUME NEW w \in Workers, spin(w) PROVE TypeOK'
  <2>1. stat' \in [Workers -> Seq(Messages)]
    BY <1>16, ReportedPipe DEF spin, Messages
  <2> QED
    BY <1>16, <2>1 DEF spin, TypeOK
<1> QED
  BY <1>1, <1>2, <1>3, <1>4, <1>5, <1>6, <1>7, <1>8, <1>9, <1>10, <1>11, <1>12, <1>13,
     <1>14, <1>15, <1>16 DEF Next, Worker, Handle

-----------------------------------------------------------------------------

\* The owner is in pause(), resume(), reset() or clear(); it is in add(w).
Calling   == owner.op \in Confirmed
Adding(w) == owner = [pc |-> "wait", op |-> "INIT", of |-> {w}]

\* The messages of worker w that the control thread has or will have.
Held(w, m)   == ctl # <<>> /\ ctl[1] = <<w, m>>
InStat(w, m) == \E i \in 1..Len(stat[w]) : stat[w][i] = m
InPipe(w, m) == Held(w, m) \/ InStat(w, m)
PipeEmpty(w) == stat[w] = <<>> /\ \A m \in Messages : ~Held(w, m)

\* The owner's command is on its way to worker w; it is still to be obeyed.
InCmd(w)    == \E i \in 1..Len(cmd[w]) : cmd[w][i] = owner.op
Unobeyed(w) == Calling /\ (owner.pc = "sending" \/ (owner.pc = "wait" /\ InCmd(w)))

Member(w) ==
    /\ w \in m_workers <=> thread[w] # "none"
    /\ w \notin m_workers => cmd[w] = <<>> /\ w \notin sub /\ w \notin link
    /\ cmd[w] # <<>> => w \in sub
    /\ thread[w] \in {"loop", "recv", "done"} => w \in sub /\ w \in link
    /\ thread[w] \in {"init", "sleep"} =>
          /\ Adding(w) /\ feedback = [op |-> "READY", counter |-> 1]
          /\ \A i \in 1..Len(stat[w]) : stat[w][i] = "INIT"
          /\ \A m \in Messages : Held(w, m) => m = "INIT"
          /\ cmd[w] # <<>> => w \in link
    /\ Adding(w) => /\ w \in m_workers /\ paused[w] = TRUE /\ w \notin spun
                    /\ promised[w] = [paused |-> TRUE, clean |-> TRUE]

Commands(w) ==
    \A i \in 1..Len(cmd[w]) :
        \/ cmd[w][i] = "READY"
        \/ cmd[w][i] = owner.op /\ Calling /\ owner.pc = "wait" /\ i = Len(cmd[w])

Greetings(w) ==
    /\ InPipe(w, "INIT") \/ InPipe(w, "READY") =>
          Adding(w) /\ feedback = [op |-> "READY", counter |-> 1] /\ w \in link
    /\ InPipe(w, "STATISTICS") => ~Adding(w)
    /\ \A m \in Confirmed : InPipe(w, m) =>
          owner.pc = "wait" /\ owner.op = m /\ w \in m_workers /\ ~InCmd(w)

Once(w) ==
    \A m \in Confirmed \cup {"READY"} :
        /\ Held(w, m) => ~InStat(w, m)
        /\ \A i, j \in 1..Len(stat[w]) : stat[w][i] = m /\ stat[w][j] = m => i = j
        /\ w \in m_workers /\ promised[w].paused = TRUE =>
              /\ Held(w, m) => stat[w] = <<>>
              /\ \A i \in 1..Len(stat[w]) : stat[w][i] = m => i = Len(stat[w])

Promises(w) ==
    w \in m_workers =>
        /\ promised[w].clean = TRUE => promised[w].paused = TRUE /\ paused[w] = TRUE
        /\ ~Unobeyed(w) \/ owner.op \notin {"PAUSE", "RESUME"} => paused[w] = promised[w].paused
        /\ promised[w].clean = TRUE /\ (~Unobeyed(w) \/ owner.op # "RESET") => w \notin spun
        /\ Unobeyed(w) /\ owner.op = "RESUME" => promised[w].paused = FALSE
        /\ Unobeyed(w) /\ owner.op = "PAUSE" => promised[w].paused = TRUE

Drained(w) ==
    w \in m_workers /\ promised[w].paused = TRUE /\ ~Adding(w) =>
        \/ PipeEmpty(w)
        \/ owner.pc \in {"sending", "wait"} /\ Calling

Local(w) == Member(w) /\ Commands(w) /\ Greetings(w) /\ Once(w) /\ Promises(w) /\ Drained(w)

OwnerAt ==
    /\ owner.pc = "sending" => owner.op \in Confirmed \cup {"READY"}
    /\ owner.pc = "sending" /\ Calling => feedback = [op |-> owner.op, counter |-> Cardinality(m_workers)]
    /\ owner.pc = "wait" => Calling \/ (\E w \in Workers : Adding(w))
    /\ owner.pc = "wait" /\ Calling => feedback.op = owner.op
    /\ owner.pc = "wait" /\ ~Calling => feedback.op = "READY"
    /\ owner.pc = "join" => owner.op \in {"READY", "STOP"}
    /\ owner.pc # "idle" => owner.of \subseteq m_workers
    /\ owner.pc # "idle" /\ Calling => owner.of = m_workers

\* The workers whose answer the owner's command still waits for.
Outstanding == {w \in m_workers : InCmd(w) \/ InPipe(w, owner.op)
                                  \/ (promised[w].paused = TRUE /\ ~PipeEmpty(w))}

Counts == owner.pc = "wait" /\ Calling => Cardinality(Outstanding) <= feedback.counter

CInv == TypeOK /\ (\A w \in Workers : Local(w)) /\ OwnerAt /\ Counts

\* Local depends on what is the worker's and on the owner, the counter and the control thread.
LEMMA LocalFrame ==
    ASSUME NEW w \in Workers, Local(w), UNCHANGED <<owner, feedback, ctl>>,
           w \in m_workers' <=> w \in m_workers, w \in sub' <=> w \in sub,
           w \in link' <=> w \in link, w \in spun' <=> w \in spun,
           thread'[w] = thread[w], cmd'[w] = cmd[w], stat'[w] = stat[w],
           paused'[w] = paused[w], promised'[w] = promised[w]
    PROVE  Local(w)'
BY DEF Local, Member, Commands, Greetings, Once, Promises, Drained, Calling, Adding, Held,
       InStat, InPipe, PipeEmpty, InCmd, Unobeyed

\* A step of worker w alone.
LEMMA WorkerFrame ==
    ASSUME CInv, TypeOK', NEW w \in Workers, Local(w)',
           UNCHANGED <<m_workers, feedback, owner, ctl, promised>>,
           \A x \in Workers : x # w =>
              /\ thread'[x] = thread[x] /\ cmd'[x] = cmd[x] /\ stat'[x] = stat[x]
              /\ paused'[x] = paused[x] /\ (x \in spun' <=> x \in spun)
              /\ (x \in sub' <=> x \in sub) /\ (x \in link' <=> x \in link),
           Calling /\ owner.pc = "wait" /\ w \in Outstanding' => w \in Outstanding
    PROVE  CInv'
<1>1. \A x \in Workers : Local(x)'
  BY LocalFrame DEF CInv
<1>2. OwnerAt'
  BY DEF CInv, OwnerAt, Calling, Adding
<1>3. Counts'
  <2> SUFFICES ASSUME owner.pc = "wait", Calling
               PROVE  Cardinality(Outstanding') <= feedback.counter
    BY DEF Counts, Calling
  <2>1. Outstanding' \subseteq Outstanding
    <3> SUFFICES ASSUME NEW x \in Outstanding', x # w PROVE x \in Outstanding
      OBVIOUS
    <3>1. x \in Workers
      BY DEF Outstanding, CInv, TypeOK
    <3> QED
      BY <3>1 DEF Outstanding, InCmd, InPipe, Held, InStat, PipeEmpty
  <2>2. IsFiniteSet(Outstanding) /\ Outstanding \subseteq Workers
    BY GeneratorAssumption, FS_Subset DEF Outstanding, CInv, TypeOK
  <2>3. Cardinality(Outstanding') <= Cardinality(Outstanding) /\ IsFiniteSet(Outstanding')
    BY <2>1, <2>2, FS_Subset
  <2>4. Cardinality(Outstanding') \in Nat /\ Cardinality(Outstanding) \in Nat /\ feedback.counter \in Nat
    BY <2>2, <2>3, FS_CardinalityType DEF CInv, TypeOK
  <2> QED
    BY <2>3, <2>4 DEF CInv, Counts, Calling
<1> QED
  BY <1>1, <1>2, <1>3 DEF CInv

\* What a report adds to a pipe.
LEMMA PipeAppend ==
    ASSUME TypeOK, NEW w \in Workers, NEW m \in Messages, stat' = Reported(w, m), ctl' = ctl
    PROVE  /\ \A k : Held(w, k)' <=> Held(w, k)
           /\ \A k : InStat(w, k)' => InStat(w, k) \/ (k = m /\ w \in link)
           /\ \A k : InPipe(w, k)' => InPipe(w, k) \/ (k = m /\ w \in link)
<1>1. \A k : Held(w, k)' <=> Held(w, k)
  BY DEF Held
<1>2. \A k : InStat(w, k)' => InStat(w, k) \/ (k = m /\ w \in link)
  <2>1. CASE stat'[w] = stat[w]
    BY <2>1 DEF InStat
  <2>2. CASE w \in link /\ stat'[w] = Append(stat[w], m)
    <3>1. /\ Len(stat'[w]) = Len(stat[w]) + 1 /\ Len(stat[w]) \in Nat
          /\ stat'[w][Len(stat[w]) + 1] = m
          /\ \A i \in 1..Len(stat[w]) : stat'[w][i] = stat[w][i]
      BY <2>2, AppendProperties, LenProperties DEF TypeOK
    <3> QED
      BY <2>2, <3>1 DEF InStat
  <2> QED
    BY <2>1, <2>2, ReportedPipe
<1> QED
  BY <1>1, <1>2 DEF InPipe

\* A report that leaves confirmations unique, and last where they have to be.
LEMMA OnceAppend ==
    ASSUME TypeOK, NEW w \in Workers, NEW m \in Messages, stat' = Reported(w, m), ctl' = ctl,
           Once(w), UNCHANGED <<m_workers, promised>>,
           \/ \A k \in Confirmed \cup {"READY"} : ~InPipe(w, k)
           \/ m \notin Confirmed \cup {"READY"} /\ promised[w].paused # TRUE
    PROVE  Once(w)'
<1>1. CASE stat'[w] = stat[w]
  BY <1>1 DEF Once, Held, InStat
<1>2. CASE stat'[w] = Append(stat[w], m)
  <2>1. /\ Len(stat'[w]) = Len(stat[w]) + 1 /\ Len(stat[w]) \in Nat
        /\ stat'[w][Len(stat[w]) + 1] = m
        /\ \A i \in 1..Len(stat[w]) : stat'[w][i] = stat[w][i]
    BY <1>2, AppendProperties, LenProperties DEF TypeOK
  <2>2. CASE \A k \in Confirmed \cup {"READY"} : ~InPipe(w, k)
    <3>1. ASSUME NEW k \in Confirmed \cup {"READY"}, NEW i \in 1..Len(stat'[w]), stat'[w][i] = k
          PROVE  i = Len(stat'[w])
      <4>1. \A j \in 1..Len(stat[w]) : stat[w][j] # k
        BY <2>2 DEF InPipe, InStat
      <4> QED
        BY <2>1, <3>1, <4>1
    <3>2. \A k \in Confirmed \cup {"READY"} : ~Held(w, k)'
      BY <2>2 DEF InPipe, Held
    <3> QED
      BY <3>1, <3>2 DEF Once
  <2>3. CASE m \notin Confirmed \cup {"READY"} /\ promised[w].paused # TRUE
    <3>1. ASSUME NEW k \in Confirmed \cup {"READY"}, NEW i \in 1..Len(stat'[w]), stat'[w][i] = k
          PROVE  i \in 1..Len(stat[w]) /\ stat[w][i] = k
      BY <2>1, <2>3, <3>1
    <3> SUFFICES ASSUME NEW k \in Confirmed \cup {"READY"}
                 PROVE  /\ Held(w, k)' => ~InStat(w, k)'
                        /\ \A i, j \in 1..Len(stat'[w]) : stat'[w][i] = k /\ stat'[w][j] = k => i = j
      BY <2>3 DEF Once
    <3>2. InStat(w, k)' => InStat(w, k)
      BY <3>1 DEF InStat
    <3>3. Held(w, k)' => Held(w, k)
      BY DEF Held
    <3> QED
      BY <3>1, <3>2, <3>3 DEF Once
  <2> QED
    BY <2>2, <2>3
<1> QED
  BY <1>1, <1>2, ReportedPipe

\* An INIT more in the pipe of the worker that add() waits for.
LEMMA SendInit ==
    ASSUME CInv, TypeOK', NEW w \in Workers, send_init(w)
    PROVE  CInv'
<1> USE DEF CInv
<1>1. /\ stat' = Reported(w, "INIT") /\ thread[w] = "init" /\ thread'[w] = "sleep" /\ "INIT" \in Messages
      /\ \A x \in Workers : x # w => thread'[x] = thread[x]
      /\ UNCHANGED <<m_workers, feedback, owner, ctl, cmd, sub, link, promised, paused, m_finished, spun>>
  BY DEF send_init, TypeOK, Messages
<1>2. Local(w) /\ Adding(w) /\ ~Calling
  BY <1>1 DEF Local, Member, Adding, Calling, Confirmed
<1>3. /\ \A k : InPipe(w, k)' => InPipe(w, k) \/ (k = "INIT" /\ w \in link)
      /\ \A k : Held(w, k)' <=> Held(w, k)
      /\ \A x \in Workers : x # w => stat'[x] = stat[x]
  BY <1>1, PipeAppend, ReportedPipe
<1>4. \A k \in Confirmed \cup {"READY"} : ~InPipe(w, k)
  BY <1>1, <1>2 DEF Local, Member, Greetings, InPipe, InStat, Calling, Confirmed, Messages
<1>5. Once(w)'
  BY <1>1, <1>2, <1>4, OnceAppend DEF Local
<1>6. Member(w)'
  <2>1. \A i \in 1..Len(stat'[w]) : stat'[w][i] = "INIT"
    <3>1. \A k : InStat(w, k) => k = "INIT"
      BY <1>1, <1>2 DEF Local, Member, InStat
    <3>2. \A k : InStat(w, k)' => k = "INIT"
      BY <1>1, <3>1, PipeAppend
    <3> QED
      BY <3>2 DEF InStat
  <2> QED
    BY <1>1, <1>2, <1>3, <2>1 DEF Local, Member, Adding
<1>7. Commands(w)'
  BY <1>1, <1>2 DEF Local, Commands, Calling
<1>8. Greetings(w)'
  BY <1>1, <1>2, <1>3, <1>4 DEF Local, Member, Greetings, Adding, InCmd, Confirmed
<1>9. Promises(w)'
  BY <1>1, <1>2 DEF Local, Promises, Unobeyed, Calling, InCmd
<1>10. Drained(w)'
  BY <1>1, <1>2 DEF Drained, Adding
<1> QED
  BY <1>1, <1>2, <1>3, <1>5, <1>6, <1>7, <1>8, <1>9, <1>10, WorkerFrame DEF Local

\* The READY that ends the wait of a new worker.
LEMMA NextReady ==
    ASSUME CInv, TypeOK', NEW w \in Workers, next_ready(w)
    PROVE  CInv'
<1> USE DEF CInv
<1>1. /\ thread[w] = "sleep" /\ "READY" \in Messages /\ cmd[w] \in Seq(Messages)
      /\ \A x \in Workers : x # w => thread'[x] = thread[x] /\ cmd'[x] = cmd[x]
      /\ UNCHANGED <<m_workers, feedback, owner, ctl, sub, link, promised, paused, m_finished, spun>>
  BY DEF next_ready, TypeOK, Messages
<1>2. Local(w) /\ Adding(w) /\ ~Calling /\ owner.op = "INIT"
  BY <1>1 DEF Local, Member, Adding, Calling, Confirmed
<1>3. \A k \in Confirmed \cup {"READY", "STATISTICS"} : ~InPipe(w, k)
  BY <1>1, <1>2 DEF Local, Member, Greetings, InPipe, InStat, Calling, Confirmed, Messages
<1>4. CASE cmd[w] = <<>>
  <2>1. UNCHANGED <<cmd, stat>> /\ thread'[w] = "init"
    BY <1>4 DEF next_ready, TypeOK
  <2>2. Local(w)'
    <3>1. Member(w)'
      BY <1>1, <1>2, <2>1 DEF Local, Member, Adding, Held
    <3>2. Commands(w)' /\ Greetings(w)'
      BY <1>1, <1>2, <2>1 DEF Local, Commands, Greetings, Calling, Adding, InPipe, Held, InStat, InCmd
    <3>3. Once(w)' /\ Drained(w)'
      BY <1>1, <1>2, <2>1 DEF Local, Once, Drained, Adding, Held, InStat
    <3>4. Promises(w)'
      BY <1>1, <1>2, <2>1 DEF Local, Promises, Unobeyed, Calling, InCmd
    <3> QED
      BY <3>1, <3>2, <3>3, <3>4 DEF Local
  <2> QED
    BY <1>1, <1>2, <2>1, <2>2, WorkerFrame
<1>5. CASE cmd[w] # <<>>
  <2>1. Head(cmd[w]) = "READY"
    <3>1. Head(cmd[w]) = cmd[w][1] /\ 1 \in 1..Len(cmd[w])
      BY <1>1, <1>5, EmptySeq
    <3> QED
      BY <1>2, <3>1 DEF Local, Commands
  <2>2. /\ stat' = Reported(w, "READY") /\ thread'[w] = "loop" /\ cmd'[w] = Tail(cmd[w])
    BY <1>1, <1>5, <2>1 DEF next_ready, TypeOK
  <2>3. w \in sub /\ w \in link
    BY <1>1, <1>2, <1>5 DEF Local, Member
  <2>4. /\ \A k : InPipe(w, k)' => InPipe(w, k) \/ k = "READY"
        /\ \A k : Held(w, k)' <=> Held(w, k)
        /\ \A x \in Workers : x # w => stat'[x] = stat[x]
    BY <1>1, <2>2, PipeAppend, ReportedPipe
  <2>5. Once(w)'
    BY <1>1, <1>2, <1>3, <2>2, OnceAppend DEF Local
  <2>6. Member(w)'
    BY <1>1, <1>2, <2>2, <2>3 DEF Local, Member, Adding
  <2>7. Commands(w)'
    <3>1. \A i \in 1..Len(cmd[w]) : cmd[w][i] = "READY"
      BY <1>2 DEF Local, Commands
    <3>2. \A i \in 1..Len(cmd'[w]) : cmd'[w][i] = "READY"
      BY <1>1, <1>5, <2>2, <3>1, HeadOfQueue
    <3> QED
      BY <3>2 DEF Commands
  <2>8. Greetings(w)'
    BY <1>1, <1>2, <1>3, <2>3, <2>4 DEF Local, Member, Greetings, Adding, Confirmed
  <2>9. Promises(w)' /\ Drained(w)'
    BY <1>1, <1>2 DEF Local, Promises, Drained, Unobeyed, Calling, Adding
  <2>10. Local(w)'
    BY <2>5, <2>6, <2>7, <2>8, <2>9 DEF Local
  <2> QED
    BY <1>1, <1>2, <2>4, <2>10, WorkerFrame
<1> QED
  BY <1>4, <1>5

\* The worker looks at its flag.
LEMMA CheckFinished ==
    ASSUME CInv, TypeOK', NEW w \in Workers, check_finished(w)
    PROVE  CInv'
<1> USE DEF CInv
<1>1. /\ thread[w] = "loop" /\ thread'[w] \in {"recv", "done"}
      /\ \A x \in Workers : x # w => thread'[x] = thread[x]
      /\ UNCHANGED <<m_workers, feedback, owner, ctl, cmd, sub, stat, link, promised, paused, m_finished, spun>>
  BY DEF check_finished, TypeOK
<1>2. Local(w)
  OBVIOUS
<1>3. Member(w)'
  BY <1>1, <1>2 DEF Local, Member, Adding
<1>4. Local(w)'
  BY <1>1, <1>2, <1>3
     DEF Local, Commands, Greetings, Once, Promises, Drained, Calling, Adding, Held,
         InStat, InPipe, PipeEmpty, InCmd, Unobeyed
<1>5. Outstanding' = Outstanding
  BY <1>1 DEF Outstanding, InCmd, InPipe, Held, InStat, PipeEmpty
<1> QED
  BY <1>1, <1>4, <1>5, WorkerFrame

\* Statistics are sent by a worker that is to run, or that has not yet been told to pause.
LEMMA Spin ==
    ASSUME CInv, TypeOK', NEW w \in Workers, spin(w)
    PROVE  CInv'
<1> USE DEF CInv
<1>1. /\ thread[w] = "recv" /\ thread'[w] = "loop" /\ paused[w] # TRUE /\ cmd[w] = <<>>
      /\ stat' = Reported(w, "STATISTICS") /\ "STATISTICS" \in Messages /\ spun' = spun \cup {w}
      /\ \A x \in Workers : x # w => thread'[x] = thread[x]
      /\ UNCHANGED <<m_workers, feedback, owner, ctl, cmd, sub, link, promised, paused, m_finished>>
  BY DEF spin, TypeOK, Messages
<1>2. Local(w) /\ w \in m_workers /\ ~Adding(w) /\ ~InCmd(w)
  <2>1. Len(cmd[w]) = 0
    BY <1>1
  <2>2. ~InCmd(w)
    BY <2>1 DEF InCmd
  <2> QED
    BY <1>1, <2>2 DEF Local, Member
<1>3. /\ \A k : InPipe(w, k)' => InPipe(w, k) \/ k = "STATISTICS"
      /\ \A k : Held(w, k)' <=> Held(w, k)
      /\ \A x \in Workers : x # w => stat'[x] = stat[x]
  BY <1>1, PipeAppend, ReportedPipe
<1>4. CASE promised[w].paused # TRUE
  <2>1. Once(w)'
    BY <1>1, <1>2, <1>4, OnceAppend DEF Local, Confirmed
  <2>2. Member(w)' /\ Commands(w)'
    BY <1>1, <1>2 DEF Local, Member, Commands, Adding, Calling
  <2>3. Greetings(w)'
    BY <1>1, <1>2, <1>3 DEF Local, Greetings, Adding, InCmd, Confirmed
  <2>4. Promises(w)' /\ Drained(w)'
    BY <1>1, <1>2, <1>4 DEF Local, Promises, Drained, Unobeyed, Calling, Adding, InCmd
  <2>5. Calling /\ owner.pc = "wait" /\ w \in Outstanding' => w \in Outstanding
    BY <1>1, <1>2, <1>3, <1>4 DEF Outstanding, InCmd, Calling, Confirmed
  <2> QED
    BY <1>1, <1>3, <2>1, <2>2, <2>3, <2>4, <2>5, WorkerFrame DEF Local
<1>5. CASE promised[w].paused = TRUE
  <2>1. Calling /\ owner.pc = "sending" /\ owner.op = "PAUSE"
    BY <1>1, <1>2, <1>5 DEF Local, Promises, Unobeyed, TypeOK
  <2>2. \A k \in Confirmed \cup {"READY"} : ~InPipe(w, k)
    BY <1>2, <2>1 DEF Local, Greetings, Adding
  <2>3. Once(w)'
    BY <1>1, <1>2, <2>2, OnceAppend DEF Local
  <2>4. Member(w)' /\ Commands(w)'
    BY <1>1, <1>2 DEF Local, Member, Commands, Adding, Calling
  <2>5. Greetings(w)'
    BY <1>1, <1>2, <1>3, <2>2 DEF Local, Greetings, Adding, InCmd, Confirmed
  <2>6. Promises(w)' /\ Drained(w)'
    BY <1>1, <1>2, <1>5, <2>1 DEF Local, Promises, Drained, Unobeyed, Calling, Adding, InCmd
  <2> QED
    BY <1>1, <1>3, <2>1, <2>3, <2>4, <2>5, <2>6, WorkerFrame DEF Local
<1> QED
  BY <1>4, <1>5

\* The worker obeys: there is one command at most behind the READYs, and it is the owner's.
LEMMA Obey ==
    ASSUME CInv, TypeOK', NEW w \in Workers, obey(w)
    PROVE  CInv'
<1> USE DEF CInv
<1>1. /\ thread[w] = "recv" /\ thread'[w] = "loop" /\ cmd[w] # <<>> /\ cmd[w] \in Seq(Messages)
      /\ cmd'[w] = Tail(cmd[w])
      /\ \A x \in Workers : x # w => /\ thread'[x] = thread[x] /\ cmd'[x] = cmd[x]
                                     /\ paused'[x] = paused[x] /\ (x \in spun' <=> x \in spun)
      /\ UNCHANGED <<m_workers, feedback, owner, ctl, sub, link, promised>>
  BY DEF obey, TypeOK
<1>2. Local(w) /\ w \in m_workers /\ w \in sub /\ w \in link
  BY <1>1 DEF Local, Member
<1>3. /\ Head(cmd[w]) = cmd[w][1] /\ 1 \in 1..Len(cmd[w]) /\ Len(cmd[w]) \in Nat
      /\ Head(cmd[w]) \in Messages /\ Len(Tail(cmd[w])) = Len(cmd[w]) - 1
      /\ \A i \in 1..Len(Tail(cmd[w])) : i + 1 \in 1..Len(cmd[w]) /\ Tail(cmd[w])[i] = cmd[w][i + 1]
      /\ \A i \in 1..Len(cmd[w]) : i # 1 =>
            i - 1 \in 1..Len(Tail(cmd[w])) /\ Tail(cmd[w])[i - 1] = cmd[w][i]
  BY <1>1, HeadOfQueue
<1>4. CASE Head(cmd[w]) = "READY"
  <2>1. UNCHANGED stat /\ paused'[w] = paused[w] /\ (w \in spun' <=> w \in spun)
    BY <1>4 DEF obey, TypeOK
  <2>2. Commands(w)'
    <3>1. ASSUME NEW i \in 1..Len(cmd'[w])
          PROVE  \/ cmd'[w][i] = "READY"
                 \/ cmd'[w][i] = owner.op /\ Calling /\ owner.pc = "wait" /\ i = Len(cmd'[w])
      <4>1. i + 1 \in 1..Len(cmd[w]) /\ cmd'[w][i] = cmd[w][i + 1]
        BY <1>1, <1>3
      <4> QED
        BY <1>1, <1>2, <1>3, <4>1 DEF Local, Commands
    <3> QED
      BY <1>1, <3>1 DEF Commands, Calling
  <2>3. Calling => (InCmd(w)' <=> InCmd(w))
    <3>1. InCmd(w)' => InCmd(w)
      BY <1>1, <1>3 DEF InCmd
    <3>2. Calling => owner.op # "READY"
      BY DEF Calling, Confirmed
    <3> QED
      BY <1>1, <1>3, <1>4, <3>1, <3>2 DEF InCmd
  <2>4. Member(w)'
    BY <1>1, <1>2, <2>1 DEF Local, Member, Adding
  <2>5. Greetings(w)'
    BY <1>1, <1>2, <2>1, <2>3 DEF Local, Greetings, Adding, InPipe, Held, InStat, Calling, Confirmed
  <2>6. Once(w)' /\ Drained(w)'
    <3>1. Once(w)'
      BY <1>1, <1>2, <2>1 DEF Local, Once, Held, InStat
    <3>2. Drained(w)'
      BY <1>1, <1>2, <2>1 DEF Local, Drained, Adding, Held, PipeEmpty, Calling
    <3> QED
      BY <3>1, <3>2
  <2>7. Promises(w)'
    <3>1. Unobeyed(w)' <=> Unobeyed(w)
      BY <1>1, <2>3 DEF Unobeyed, Calling
    <3> QED
      BY <1>1, <1>2, <2>1, <3>1 DEF Local, Promises
  <2>8. Calling /\ owner.pc = "wait" /\ w \in Outstanding' => w \in Outstanding
    BY <1>1, <2>1, <2>3 DEF Outstanding, InPipe, Held, InStat, PipeEmpty
  <2> QED
    BY <1>1, <2>1, <2>2, <2>4, <2>5, <2>6, <2>7, <2>8, WorkerFrame DEF Local
<1>5. CASE Head(cmd[w]) # "READY"
  <2> DEFINE op == owner.op
  <2>1. Head(cmd[w]) = op /\ Calling /\ owner.pc = "wait" /\ Len(cmd[w]) = 1 /\ ~Adding(w)
    <3>1. Head(cmd[w]) = op /\ Calling /\ owner.pc = "wait" /\ Len(cmd[w]) = 1
      BY <1>2, <1>3, <1>5 DEF Local, Commands
    <3> QED
      BY <3>1 DEF Calling, Adding, Confirmed
  <2>2. /\ stat' = Reported(w, op)
        /\ paused'[w] = (IF op \in {"PAUSE", "RESUME"} THEN op = "PAUSE" ELSE paused[w])
        /\ (op = "RESET" => w \notin spun') /\ (w \in spun' => w \in spun)
    BY <1>5, <2>1 DEF obey, TypeOK
  <2>3. InCmd(w) /\ ~InCmd(w)' /\ Len(cmd'[w]) = 0 /\ cmd'[w] = <<>> /\ Unobeyed(w) /\ ~Unobeyed(w)'
    <3>1. Len(cmd'[w]) = 0 /\ cmd'[w] \in Seq(Messages)
      BY <1>1, <1>3, <2>1 DEF TypeOK
    <3>2. ~InCmd(w)' /\ cmd'[w] = <<>>
      BY <3>1, EmptySeq DEF InCmd
    <3>3. InCmd(w)
      BY <1>3, <2>1 DEF InCmd
    <3> QED
      BY <1>1, <2>1, <3>1, <3>2, <3>3 DEF Unobeyed, Calling
  <2>4. /\ \A k : InPipe(w, k)' => InPipe(w, k) \/ k = op
        /\ \A x \in Workers : x # w => stat'[x] = stat[x]
    BY <1>1, <1>3, <2>1, <2>2, PipeAppend, ReportedPipe
  <2>5. \A k \in Confirmed \cup {"READY"} : ~InPipe(w, k)
    BY <1>2, <2>1, <2>3 DEF Local, Greetings
  <2>6. Once(w)'
    BY <1>1, <1>2, <1>3, <2>1, <2>2, <2>5, OnceAppend DEF Local
  <2>7. Member(w)' /\ Commands(w)'
    BY <1>1, <1>2, <2>1, <2>3 DEF Local, Member, Commands, Adding
  <2>8. Greetings(w)'
    BY <1>1, <1>2, <2>1, <2>3, <2>4, <2>5 DEF Local, Greetings, Adding, Calling, Confirmed
  <2>9. Promises(w)'
    <3>1. op \in Confirmed /\ paused[w] \in BOOLEAN /\ promised[w].paused \in BOOLEAN
          /\ promised[w].clean \in BOOLEAN
      BY <2>1 DEF Calling, TypeOK
    <3>2. /\ promised[w].clean = TRUE => promised[w].paused = TRUE /\ paused[w] = TRUE
          /\ op \notin {"PAUSE", "RESUME"} => paused[w] = promised[w].paused
          /\ promised[w].clean = TRUE /\ op # "RESET" => w \notin spun
          /\ op = "RESUME" => promised[w].paused = FALSE
          /\ op = "PAUSE" => promised[w].paused = TRUE
      BY <1>2, <2>1, <2>3 DEF Local, Promises
    <3>3. paused'[w] = promised[w].paused
      BY <2>2, <3>1, <3>2
    <3>4. promised[w].clean = TRUE => promised[w].paused = TRUE /\ w \notin spun'
      BY <2>2, <3>2
    <3> QED
      BY <1>1, <2>3, <3>3, <3>4 DEF Promises
  <2>10. Drained(w)'
    BY <1>1, <2>1 DEF Drained, Calling
  <2>11. w \in Outstanding
    BY <1>2, <2>3 DEF Outstanding
  <2> QED
    BY <1>1, <2>4, <2>6, <2>7, <2>8, <2>9, <2>10, <2>11, WorkerFrame DEF Local
<1> QED
  BY <1>4, <1>5

\* A subscription arrives.
LEMMA Subscribed ==
    ASSUME CInv, TypeOK', NEW w \in Workers, subscribe(w) \/ connect(w)
    PROVE  CInv'
<1> USE DEF CInv
<1>1. /\ w \in m_workers /\ (w \in sub => w \in sub') /\ (w \in link => w \in link')
      /\ \A x \in Workers : x # w => (x \in sub' <=> x \in sub) /\ (x \in link' <=> x \in link)
      /\ UNCHANGED <<m_workers, feedback, owner, ctl, cmd, stat, thread, promised, paused, m_finished, spun>>
  BY DEF subscribe, connect, wvars
<1>2. Local(w)
  OBVIOUS
<1>3. Member(w)'
  BY <1>1, <1>2 DEF Local, Member, Adding, Held
<1>4. Greetings(w)'
  BY <1>1, <1>2 DEF Local, Greetings, Adding, InPipe, Held, InStat, InCmd
<1>5. Local(w)'
  BY <1>1, <1>2, <1>3, <1>4
     DEF Local, Commands, Once, Promises, Drained, Calling, Adding, Held,
         InStat, InPipe, PipeEmpty, InCmd, Unobeyed
<1>6. Outstanding' = Outstanding
  BY <1>1 DEF Outstanding, InCmd, InPipe, Held, InStat, PipeEmpty
<1> QED
  BY <1>1, <1>5, <1>6, WorkerFrame

-----------------------------------------------------------------------------

\* What holds of worker w when no call waits for it.
Quiet(w) ==
    /\ w \in m_workers <=> thread[w] # "none"
    /\ thread[w] \notin {"init", "sleep"}
    /\ w \notin m_workers => cmd[w] = <<>> /\ w \notin sub /\ w \notin link
    /\ w \in m_workers => w \in sub /\ w \in link
    /\ \A i \in 1..Len(cmd[w]) : cmd[w][i] = "READY"
    /\ \A m \in Messages : InPipe(w, m) => m = "STATISTICS"
    /\ w \in m_workers =>
          /\ paused[w] = promised[w].paused
          /\ promised[w].clean = TRUE => promised[w].paused = TRUE /\ w \notin spun
          /\ promised[w].paused = TRUE => PipeEmpty(w)

\* The owner has no call under way that a worker has to obey.
OwnerQuiet == owner.pc \in {"idle", "join"} \/ (owner.pc = "sending" /\ ~Calling)

\* With no call under way every worker is quiet.
LEMMA QuietWorkers ==
    ASSUME CInv, OwnerQuiet, NEW w \in Workers
    PROVE  Quiet(w) /\ ~Adding(w) /\ ~Unobeyed(w)
<1> USE DEF CInv
<1>1. Local(w) /\ ~Adding(w) /\ ~Unobeyed(w)
  BY DEF OwnerQuiet, Adding, Unobeyed
<1>2. thread[w] \in {"none", "init", "sleep", "loop", "recv", "done"}
  BY DEF TypeOK
<1>3. /\ w \in m_workers <=> thread[w] # "none"
      /\ thread[w] \notin {"init", "sleep"}
      /\ w \notin m_workers => cmd[w] = <<>> /\ w \notin sub /\ w \notin link
      /\ w \in m_workers => w \in sub /\ w \in link
  BY <1>1, <1>2 DEF Local, Member
<1>4. \A i \in 1..Len(cmd[w]) : cmd[w][i] = "READY"
  BY <1>1 DEF Local, Commands, OwnerQuiet
<1>5. \A m \in Messages : InPipe(w, m) => m = "STATISTICS"
  BY <1>1 DEF Local, Greetings, OwnerQuiet, Messages
<1>6. w \in m_workers =>
          /\ paused[w] = promised[w].paused
          /\ promised[w].clean = TRUE => promised[w].paused = TRUE /\ w \notin spun
          /\ promised[w].paused = TRUE => PipeEmpty(w)
  BY <1>1 DEF Local, Promises, Drained, OwnerQuiet
<1> QED
  BY <1>1, <1>3, <1>4, <1>5, <1>6 DEF Quiet

\* A message in a pipe is one of the messages.
LEMMA PipeMessages ==
    ASSUME TypeOK, NEW w \in Workers, NEW m, InPipe(w, m)
    PROVE  m \in Messages
BY DEF TypeOK, InPipe, InStat, Held

\* Nothing is in a pipe that is empty, and a pipe with nothing in it is empty.
LEMMA EmptyPipe ==
    ASSUME TypeOK, NEW w \in Workers
    PROVE  PipeEmpty(w) <=> \A m \in Messages : ~InPipe(w, m)
<1>1. ASSUME PipeEmpty(w) PROVE \A m \in Messages : ~InPipe(w, m)
  <2>1. Len(stat[w]) = 0
    BY <1>1 DEF PipeEmpty
  <2> QED
    BY <1>1, <2>1 DEF PipeEmpty, InPipe, InStat
<1>2. ASSUME \A m \in Messages : ~InPipe(w, m) PROVE PipeEmpty(w)
  <2>1. stat[w] \in Seq(Messages)
    BY DEF TypeOK
  <2>2. ASSUME stat[w] # <<>> PROVE FALSE
    <3>1. 1 \in 1..Len(stat[w]) /\ stat[w][1] \in Messages
      BY <2>1, <2>2, HeadOfQueue
    <3> QED
      BY <1>2, <3>1 DEF InPipe, InStat
  <2> QED
    BY <1>2, <2>2 DEF PipeEmpty, InPipe
<1> QED
  BY <1>1, <1>2

\* A worker that is quiet after a step satisfies the invariant, whatever the owner does
\* that is not for it.
LEMMA QuietLocal ==
    ASSUME TypeOK', NEW w \in Workers, Quiet(w)', ~Adding(w)', ~Unobeyed(w)'
    PROVE  Local(w)'
<1>1. \A m \in Messages : m # "STATISTICS" => ~InPipe(w, m)'
  BY DEF Quiet
<1>2. Member(w)'
  BY DEF Member, Quiet
<1>3. Commands(w)'
  BY DEF Commands, Quiet
<1>4. Greetings(w)'
  BY <1>1 DEF Greetings, Messages, Confirmed
<1>5. Once(w)'
  <2> SUFFICES ASSUME NEW m \in Confirmed \cup {"READY"}
               PROVE  ~Held(w, m)' /\ ~InStat(w, m)'
    BY DEF Once, InStat
  <2> QED
    BY <1>1 DEF Messages, Confirmed, InPipe
<1>6. Promises(w)'
  BY DEF Promises, Quiet
<1>7. Drained(w)'
  BY DEF Drained, Quiet
<1> QED
  BY <1>2, <1>3, <1>4, <1>5, <1>6, <1>7 DEF Local

\* A worker that a step leaves alone stays quiet.
LEMMA QuietFrame ==
    ASSUME NEW w \in Workers, Quiet(w), UNCHANGED ctl,
           w \in m_workers' <=> w \in m_workers, w \in sub' <=> w \in sub,
           w \in link' <=> w \in link, w \in spun' <=> w \in spun,
           thread'[w] = thread[w], stat'[w] = stat[w],
           paused'[w] = paused[w], promised'[w] = promised[w]
    PROVE  (\A i \in 1..Len(cmd'[w]) : cmd'[w][i] = "READY") /\ (w \notin m_workers => cmd'[w] = <<>>)
              => Quiet(w)'
BY DEF Quiet, Held, InStat, InPipe, PipeEmpty

\* A call begins: from now on the promise of the last one is not to be relied upon.
LEMMA Command ==
    ASSUME CInv, TypeOK', NEW op \in Confirmed, command(op)
    PROVE  CInv'
<1> USE DEF CInv
<1>1. /\ owner.pc = "idle" /\ owner' = [pc |-> "sending", op |-> op, of |-> m_workers]
      /\ feedback' = [op |-> op, counter |-> Cardinality(m_workers)]
      /\ \A x \in Workers : promised'[x] = IF x \in m_workers THEN Promise(x, op) ELSE promised[x]
      /\ UNCHANGED <<m_workers, ctl, cmd, sub, stat, link, thread, paused, m_finished, spun>>
  BY DEF command, wvars, expected, feedback_init
<1>2. owner'.pc = "sending" /\ owner'.op = op /\ owner'.of = m_workers /\ Calling' /\ OwnerQuiet
  BY <1>1 DEF Calling, OwnerQuiet
<1>3. ASSUME NEW x \in Workers PROVE Local(x)'
  <2>1. Quiet(x) /\ ~Adding(x)' /\ Unobeyed(x)'
    BY <1>2, QuietWorkers DEF Adding, Unobeyed
  <2>2. \A m \in Messages : m # "STATISTICS" => ~InPipe(x, m)'
    BY <1>1, <2>1 DEF Quiet, InPipe, InStat, Held
  <2>3. Member(x)' /\ Commands(x)'
    BY <1>1, <2>1 DEF Member, Commands, Quiet
  <2>4. Greetings(x)'
    BY <2>1, <2>2 DEF Greetings, Messages, Confirmed
  <2>5. Once(x)'
    <3> SUFFICES ASSUME NEW m \in Confirmed \cup {"READY"}
                 PROVE  ~Held(x, m)' /\ ~InStat(x, m)'
      BY DEF Once, InStat
    <3> QED
      BY <2>2 DEF Messages, Confirmed, InPipe
  <2>6. Promises(x)'
    <3> SUFFICES ASSUME x \in m_workers
                 PROVE  /\ promised'[x].clean = TRUE => promised'[x].paused = TRUE /\ paused[x] = TRUE
                        /\ op \notin {"PAUSE", "RESUME"} => paused[x] = promised'[x].paused
                        /\ promised'[x].clean = TRUE /\ op # "RESET" => x \notin spun
                        /\ op = "RESUME" => promised'[x].paused = FALSE
                        /\ op = "PAUSE" => promised'[x].paused = TRUE
      BY <1>1, <1>2, <2>1 DEF Promises
    <3>1. promised[x] \in [paused : BOOLEAN, clean : BOOLEAN] /\ paused[x] \in BOOLEAN
      BY DEF TypeOK
    <3>2. /\ paused[x] = promised[x].paused
          /\ promised[x].clean = TRUE => promised[x].paused = TRUE /\ x \notin spun
      BY <2>1 DEF Quiet
    <3>3. promised'[x] = Promise(x, op)
      BY <1>1
    <3>4. CASE op = "PAUSE"
      <4>1. promised'[x].paused = TRUE /\ promised'[x].clean = promised[x].clean
        BY <3>1, <3>3, <3>4 DEF Promise
      <4> QED
        BY <3>2, <3>4, <4>1
    <3>5. CASE op = "RESUME"
      <4>1. promised'[x].paused = FALSE /\ promised'[x].clean = FALSE
        BY <3>3, <3>5 DEF Promise
      <4> QED
        BY <3>5, <4>1
    <3>6. CASE op = "RESET"
      <4>1. promised'[x].paused = promised[x].paused
            /\ (promised'[x].clean = TRUE => promised[x].clean = TRUE \/ promised[x].paused = TRUE)
        BY <3>1, <3>3, <3>6 DEF Promise
      <4> QED
        BY <3>1, <3>2, <3>6, <4>1
    <3>7. CASE op = "STOP"
      <4>1. promised'[x] = promised[x]
        BY <3>3, <3>7 DEF Promise
      <4> QED
        BY <3>2, <3>7, <4>1
    <3> QED
      BY <3>4, <3>5, <3>6, <3>7 DEF Confirmed
  <2>7. Drained(x)'
    BY <1>2 DEF Drained
  <2> QED
    BY <2>3, <2>4, <2>5, <2>6, <2>7 DEF Local
<1>4. OwnerAt' /\ Counts'
  BY <1>1, <1>2 DEF OwnerAt, Counts
<1> QED
  BY <1>3, <1>4

\* A worker that is added has nothing in its pipes.
LEMMA Add ==
    ASSUME CInv, TypeOK', NEW w \in Workers, add(w)
    PROVE  CInv'
<1> USE DEF CInv
<1>1. /\ owner.pc = "idle" /\ owner' = [pc |-> "wait", op |-> "INIT", of |-> {w}]
      /\ thread[w] = "none" /\ stat[w] = <<>> /\ (\A i \in 1..Len(ctl) : ctl[i][1] # w)
      /\ feedback' = [op |-> "READY", counter |-> 1]
      /\ m_workers' = m_workers \cup {w}
      /\ thread'[w] = "init" /\ paused'[w] = TRUE /\ w \notin spun'
      /\ promised'[w] = [paused |-> TRUE, clean |-> TRUE]
      /\ UNCHANGED <<ctl, cmd, sub, stat, link>>
      /\ \A x \in Workers : x # w =>
            /\ thread'[x] = thread[x] /\ paused'[x] = paused[x] /\ (x \in spun' <=> x \in spun)
            /\ promised'[x] = promised[x]
  BY DEF add, add_until, feedback_init, TypeOK
<1>2. OwnerQuiet /\ Adding(w)' /\ ~Calling' /\ owner'.pc = "wait" /\ owner'.of = {w} /\ owner'.op = "INIT"
  BY <1>1 DEF OwnerQuiet, Adding, Calling, Confirmed
<1>3. ASSUME NEW x \in Workers, x # w PROVE Local(x)'
  <2>1. Quiet(x) /\ ~Adding(x)' /\ ~Unobeyed(x)'
    BY <1>2, <1>3, QuietWorkers DEF Adding, Unobeyed
  <2>2. Quiet(x)'
    BY <1>1, <1>3, <2>1, QuietFrame DEF Quiet
  <2> QED
    BY <2>1, <2>2, QuietLocal
<1>4. Local(w)'
  <2>1. Quiet(w) /\ w \notin m_workers /\ cmd[w] = <<>> /\ w \notin sub /\ w \notin link
    BY <1>1, <1>2, QuietWorkers DEF Quiet
  <2>2. PipeEmpty(w)
    <3>1. ctl \in Seq(Workers \X Messages)
      BY DEF TypeOK
    <3>2. ctl # <<>> => 1 \in 1..Len(ctl)
      BY <3>1, HeadOfQueue
    <3>3. \A m \in Messages : ~Held(w, m)
      BY <1>1, <3>2 DEF Held
    <3> QED
      BY <1>1, <3>3 DEF PipeEmpty
  <2>3. \A m \in Messages : ~InPipe(w, m)' /\ ~Held(w, m)' /\ ~InStat(w, m)'
    BY <1>1, <2>2, EmptyPipe DEF InPipe, Held, InStat
  <2>4. Member(w)'
    <3>1. \A i \in 1..Len(stat'[w]) : stat'[w][i] = "INIT"
      <4>1. Len(stat'[w]) = 0
        BY <1>1
      <4> QED
        BY <4>1
    <3> QED
      BY <1>1, <1>2, <2>1, <2>3, <3>1 DEF Member
  <2>5. Commands(w)'
    <3>1. Len(cmd'[w]) = 0
      BY <1>1, <2>1
    <3> QED
      BY <3>1 DEF Commands
  <2>6. Greetings(w)'
    BY <2>3 DEF Greetings, Messages, Confirmed
  <2>7. Once(w)'
    BY <2>3 DEF Once, InStat, Messages
  <2>8. Promises(w)'
    <3>1. promised'[w].paused = TRUE /\ promised'[w].clean = TRUE /\ paused'[w] = TRUE /\ w \notin spun'
      BY <1>1
    <3>2. ~Unobeyed(w)'
      BY <1>2 DEF Unobeyed
    <3> QED
      BY <3>1, <3>2 DEF Promises
  <2>9. Drained(w)'
    BY <1>2 DEF Drained
  <2> QED
    BY <2>4, <2>5, <2>6, <2>7, <2>8, <2>9 DEF Local
<1>5. OwnerAt' /\ Counts'
  BY <1>1, <1>2 DEF OwnerAt, Counts
<1> QED
  BY <1>3, <1>4, <1>5

\* remove_task() begins.
LEMMA RemoveTask ==
    ASSUME CInv, TypeOK', NEW w \in Workers, remove_task(w)
    PROVE  CInv'
<1> USE DEF CInv
<1>1. /\ owner.pc = "idle" /\ w \in m_workers /\ owner' = [pc |-> "sending", op |-> "READY", of |-> {w}]
      /\ UNCHANGED <<m_workers, feedback, ctl, cmd, sub, stat, link, promised, thread, paused, spun>>
  BY DEF remove_task, remove_task_via
<1>2. OwnerQuiet /\ ~Calling' /\ owner'.pc = "sending" /\ owner'.of = {w} /\ owner'.op = "READY"
  BY <1>1 DEF OwnerQuiet, Calling, Confirmed
<1>3. ASSUME NEW x \in Workers PROVE Local(x)'
  <2>1. Quiet(x) /\ ~Adding(x)' /\ ~Unobeyed(x)'
    BY <1>2, QuietWorkers DEF Adding, Unobeyed
  <2>2. Quiet(x)'
    BY <1>1, <2>1, QuietFrame DEF Quiet
  <2> QED
    BY <2>1, <2>2, QuietLocal
<1>4. OwnerAt' /\ Counts'
  BY <1>1, <1>2 DEF OwnerAt, Counts
<1> QED
  BY <1>3, <1>4

\* The workers that are joined leave nothing but statistics.
LEMMA Joined ==
    ASSUME CInv, TypeOK', joined
    PROVE  CInv'
<1> USE DEF CInv
<1>1. /\ owner.pc = "join" /\ owner' = [owner EXCEPT !.pc = "idle"]
      /\ m_workers' = m_workers \ owner.of /\ sub' = sub \ owner.of /\ link' = link \ owner.of
      /\ \A x \in Workers : /\ cmd'[x] = IF x \in owner.of THEN <<>> ELSE cmd[x]
                            /\ thread'[x] = IF x \in owner.of THEN "none" ELSE thread[x]
      /\ UNCHANGED <<feedback, ctl, stat, paused, m_finished, spun, promised>>
  BY DEF joined
<1>2. OwnerQuiet /\ owner'.pc = "idle"
  BY <1>1 DEF OwnerQuiet, TypeOK
<1>3. ASSUME NEW x \in Workers PROVE Local(x)'
  <2>1. Quiet(x) /\ ~Adding(x)' /\ ~Unobeyed(x)'
    BY <1>2, QuietWorkers DEF Adding, Unobeyed
  <2>2. CASE x \in owner.of
    <3>1. x \notin m_workers' /\ x \notin sub' /\ x \notin link' /\ cmd'[x] = <<>> /\ thread'[x] = "none"
          /\ Len(cmd'[x]) = 0
      BY <1>1, <2>2
    <3>2. \A m \in Messages : InPipe(x, m)' => m = "STATISTICS"
      BY <1>1, <2>1 DEF Quiet, InPipe, InStat, Held
    <3>3. Quiet(x)'
      BY <3>1, <3>2 DEF Quiet
    <3> QED
      BY <2>1, <3>3, QuietLocal
  <2>3. CASE x \notin owner.of
    <3>1. /\ (x \in m_workers' <=> x \in m_workers) /\ (x \in sub' <=> x \in sub)
          /\ (x \in link' <=> x \in link) /\ cmd'[x] = cmd[x] /\ thread'[x] = thread[x]
      BY <1>1, <2>3
    <3>2. (\A i \in 1..Len(cmd'[x]) : cmd'[x][i] = "READY") /\ (x \notin m_workers => cmd'[x] = <<>>)
      BY <2>1, <3>1 DEF Quiet
    <3>3. Quiet(x)'
      BY <1>1, <2>1, <3>1, <3>2, QuietFrame
    <3> QED
      BY <2>1, <3>3, QuietLocal
  <2> QED
    BY <2>2, <2>3
<1>4. OwnerAt' /\ Counts'
  BY <1>1, <1>2 DEF OwnerAt, Counts
<1> QED
  BY <1>3, <1>4

\* The command reaches every worker: each one has subscribed before add() returned.
LEMMA Send ==
    ASSUME CInv, TypeOK', send
    PROVE  CInv'
<1> USE DEF CInv
<1>1. /\ owner.pc = "sending" /\ cmd' = Published(owner.op)
      /\ owner' = [owner EXCEPT !.pc = IF owner.op = "READY" THEN "join" ELSE "wait"]
      /\ UNCHANGED <<m_workers, feedback, ctl, sub, stat, link, promised, thread, paused, m_finished, spun>>
  BY DEF send, wvars
<1>2. /\ \A x \in Workers : x \in sub => cmd'[x] = Append(cmd[x], owner.op)
      /\ \A x \in Workers : x \notin sub => cmd'[x] = cmd[x]
      /\ owner'.op = owner.op /\ owner'.of = owner.of
      /\ owner'.pc = IF owner.op = "READY" THEN "join" ELSE "wait"
      /\ owner.op \in Messages
  BY <1>1 DEF Published, TypeOK
<1>3. ASSUME NEW x \in Workers, x \in sub
      PROVE  /\ Len(cmd'[x]) = Len(cmd[x]) + 1 /\ Len(cmd[x]) \in Nat
             /\ cmd'[x][Len(cmd[x]) + 1] = owner.op
             /\ \A i \in 1..Len(cmd[x]) : cmd'[x][i] = cmd[x][i]
  <2>1. cmd[x] \in Seq(Messages) /\ cmd'[x] = Append(cmd[x], owner.op)
    BY <1>2, <1>3 DEF TypeOK
  <2> QED
    BY <1>2, <2>1, AppendProperties, LenProperties
<1>4. CASE owner.op = "READY"
  <2>1. OwnerQuiet /\ owner'.pc = "join"
    BY <1>1, <1>2, <1>4 DEF OwnerQuiet, Calling, Confirmed
  <2>2. ASSUME NEW x \in Workers PROVE Local(x)'
    <3>1. Quiet(x) /\ ~Adding(x)' /\ ~Unobeyed(x)'
      BY <2>1, QuietWorkers DEF Adding, Unobeyed
    <3>2. \A i \in 1..Len(cmd'[x]) : cmd'[x][i] = "READY"
      BY <1>2, <1>3, <1>4, <3>1 DEF Quiet
    <3>3. x \notin m_workers => cmd'[x] = <<>>
      BY <1>2, <3>1 DEF Quiet
    <3>4. Quiet(x)'
      BY <1>1, <3>1, <3>2, <3>3, QuietFrame
    <3> QED
      BY <3>1, <3>4, QuietLocal
  <2>3. OwnerAt' /\ Counts'
    <3>1. owner.of \subseteq m_workers /\ ~Calling'
      BY <1>1, <1>2, <1>4 DEF OwnerAt, Calling, Confirmed
    <3> QED
      BY <1>1, <1>2, <1>4, <2>1, <3>1 DEF OwnerAt, Counts
  <2> QED
    BY <2>2, <2>3
<1>5. CASE owner.op # "READY"
  <2>1. Calling /\ Calling' /\ owner'.pc = "wait" /\ ~(\E x \in Workers : Adding(x))
    BY <1>1, <1>2, <1>5 DEF OwnerAt, Calling, Adding
  <2>2. ASSUME NEW x \in Workers PROVE Local(x)'
    <3>1. Local(x) /\ ~Adding(x) /\ ~Adding(x)'
      BY <1>2, <2>1 DEF Adding, Calling, Confirmed
    <3>2. x \in m_workers <=> x \in sub
      BY <3>1 DEF Local, Member, TypeOK
    <3>3. \A i \in 1..Len(cmd[x]) : cmd[x][i] = "READY"
      BY <1>1, <3>1 DEF Local, Commands
    <3>4. \A m \in Messages : m # "STATISTICS" => ~InPipe(x, m)
      BY <1>1, <3>1 DEF Local, Greetings, Messages
    <3>5. Member(x)'
      <4>1. thread[x] \notin {"init", "sleep"} /\ (x \notin m_workers => cmd'[x] = <<>>)
        BY <1>2, <3>1, <3>2 DEF Local, Member
      <4> QED
        BY <1>1, <1>2, <3>1, <3>2, <4>1 DEF Local, Member
    <3>6. Commands(x)'
      BY <1>2, <1>3, <2>1, <3>3 DEF Commands
    <3>7. Greetings(x)'
      <4>1. \A m \in Messages : m # "STATISTICS" => ~InPipe(x, m)'
        BY <1>1, <3>4 DEF InPipe, Held, InStat
      <4> QED
        BY <3>1, <4>1 DEF Greetings, Messages, Confirmed
    <3>8. Once(x)'
      BY <1>1, <3>1 DEF Local, Once, Held, InStat
    <3>9. Promises(x)'
      <4>1. ASSUME x \in m_workers PROVE Unobeyed(x) /\ Unobeyed(x)'
        <5>1. Len(cmd[x]) + 1 \in 1..Len(cmd'[x]) /\ cmd'[x][Len(cmd[x]) + 1] = owner'.op
          BY <1>2, <1>3, <3>2, <4>1
        <5> QED
          BY <1>1, <2>1, <5>1 DEF Unobeyed, InCmd
      <4> QED
        BY <1>1, <1>2, <3>1, <4>1 DEF Local, Promises
    <3>10. Drained(x)'
      BY <2>1 DEF Drained
    <3> QED
      BY <3>5, <3>6, <3>7, <3>8, <3>9, <3>10 DEF Local
  <2>3. OwnerAt'
    BY <1>1, <1>2, <2>1 DEF OwnerAt, Calling
  <2>4. Counts'
    <3>1. feedback' = [op |-> owner.op, counter |-> Cardinality(m_workers)]
      BY <1>1, <2>1 DEF OwnerAt
    <3>2. Outstanding' \subseteq m_workers
      BY <1>1 DEF Outstanding
    <3>3. IsFiniteSet(m_workers)
      BY GeneratorAssumption, FS_Subset DEF TypeOK
    <3>4. Cardinality(Outstanding') <= Cardinality(m_workers)
      BY <3>2, <3>3, FS_Subset
    <3> QED
      BY <3>1, <3>4 DEF Counts
  <2> QED
    BY <2>2, <2>3, <2>4
<1> QED
  BY <1>4, <1>5

\* The counter reaches zero only when every worker has obeyed and its confirmation, with
\* what it sent before, has been read.
LEMMA Wait ==
    ASSUME CInv, TypeOK', wait
    PROVE  CInv'
<1> USE DEF CInv
<1>1. /\ owner.pc = "wait" /\ feedback.counter = 0
      /\ owner' = [owner EXCEPT !.pc = IF owner.op = "STOP" THEN "join" ELSE "idle"]
      /\ UNCHANGED <<m_workers, feedback, ctl, cmd, sub, stat, link, promised, thread, paused, m_finished, spun>>
  BY DEF wait, wvars
<1>2. /\ owner'.pc = IF owner.op = "STOP" THEN "join" ELSE "idle"
      /\ owner'.op = owner.op /\ owner'.of = owner.of
  BY <1>1 DEF TypeOK
<1>3. ASSUME NEW x \in Workers, Local(x), x \in m_workers => ~InCmd(x) \/ ~Calling,
             x \in m_workers => \A m \in Confirmed \cup {"INIT", "READY"} : ~InPipe(x, m),
             x \in m_workers /\ promised[x].paused = TRUE => PipeEmpty(x),
             thread[x] \notin {"init", "sleep"}
      PROVE  Local(x)'
  <2>1. ~Adding(x)' /\ ~Unobeyed(x)'
    BY <1>2 DEF Adding, Unobeyed
  <2>2. /\ x \in m_workers <=> thread[x] # "none"
        /\ x \notin m_workers => cmd[x] = <<>> /\ x \notin sub /\ x \notin link
        /\ x \in m_workers => x \in sub /\ x \in link
    <3>1. thread[x] \in {"none", "init", "sleep", "loop", "recv", "done"}
      BY DEF TypeOK
    <3> QED
      BY <1>3, <3>1 DEF Local, Member
  <2>3. \A i \in 1..Len(cmd[x]) : cmd[x][i] = "READY"
    <3>1. CASE x \in m_workers
      BY <1>3, <3>1 DEF Local, Commands, InCmd
    <3>2. CASE x \notin m_workers
      <4>1. Len(cmd[x]) = 0
        BY <2>2, <3>2
      <4> QED
        BY <4>1
    <3> QED
      BY <3>1, <3>2
  <2>4. \A m \in Messages : InPipe(x, m) => m = "STATISTICS"
    <3>1. \A m \in Messages : m = "STATISTICS" \/ m \in Confirmed \cup {"INIT", "READY"}
      BY DEF Messages
    <3>2. CASE x \in m_workers
      BY <1>3, <3>1, <3>2
    <3>3. CASE x \notin m_workers
      <4>1. ~Adding(x)
        BY <1>3, <3>3 DEF Local, Member
      <4> QED
        BY <1>3, <3>1, <3>3, <4>1 DEF Local, Greetings
    <3> QED
      BY <3>2, <3>3
  <2>5. x \in m_workers =>
          /\ paused[x] = promised[x].paused
          /\ promised[x].clean = TRUE => promised[x].paused = TRUE /\ x \notin spun
          /\ promised[x].paused = TRUE => PipeEmpty(x)
    <3>1. x \in m_workers => ~Unobeyed(x)
      BY <1>1, <1>3 DEF Unobeyed
    <3> QED
      BY <1>3, <3>1 DEF Local, Promises
  <2>6. Quiet(x)
    BY <1>3, <2>2, <2>3, <2>4, <2>5 DEF Quiet
  <2>7. Quiet(x)'
    BY <1>1, <2>6 DEF Quiet, InPipe, Held, InStat, PipeEmpty
  <2> QED
    BY <2>1, <2>7, QuietLocal
<1>4. CASE Calling
  <2>1. Outstanding = {}
    <3>1. IsFiniteSet(Outstanding)
      BY GeneratorAssumption, FS_Subset DEF Outstanding, TypeOK
    <3>2. Cardinality(Outstanding) <= 0 /\ Cardinality(Outstanding) \in Nat
      BY <1>1, <1>4, <3>1, FS_CardinalityType DEF Counts
    <3> QED
      BY <3>1, <3>2, FS_EmptySet
  <2>2. ASSUME NEW x \in Workers PROVE Local(x)'
    <3>1. Local(x) /\ ~Adding(x)
      BY <1>4 DEF Adding, Calling, Confirmed
    <3>2. x \in m_workers => /\ ~InCmd(x) /\ ~InPipe(x, owner.op)
                             /\ (promised[x].paused = TRUE => PipeEmpty(x))
      BY <2>1 DEF Outstanding
    <3>3. x \in m_workers => \A m \in Confirmed \cup {"INIT", "READY"} : ~InPipe(x, m)
      BY <3>1, <3>2 DEF Local, Greetings
    <3>4. thread[x] \notin {"init", "sleep"}
      BY <3>1 DEF Local, Member
    <3> QED
      BY <1>3, <3>1, <3>2, <3>3, <3>4
  <2>3. OwnerAt' /\ Counts'
    <3>1. owner.of \subseteq m_workers /\ owner.of = m_workers
      BY <1>1, <1>4 DEF OwnerAt
    <3> QED
      BY <1>1, <1>2, <3>1 DEF OwnerAt, Counts
  <2> QED
    BY <2>2, <2>3
<1>5. CASE ~Calling
  <2>1. PICK w \in Workers : Adding(w)
    BY <1>1, <1>5 DEF OwnerAt
  <2>2. owner.op = "INIT" /\ owner.of = {w} /\ feedback # [op |-> "READY", counter |-> 1]
    BY <1>1, <2>1 DEF Adding
  <2>3. ASSUME NEW x \in Workers PROVE Local(x)'
    <3>1. Local(x)
      OBVIOUS
    <3>2. thread[x] \notin {"init", "sleep"}
      BY <2>2, <3>1 DEF Local, Member
    <3>3. \A m \in Confirmed \cup {"INIT", "READY"} : ~InPipe(x, m)
      BY <2>2, <3>1 DEF Local, Greetings, Confirmed
    <3>4. x \in m_workers /\ promised[x].paused = TRUE => PipeEmpty(x)
      <4>1. CASE x = w
        <5>1. \A m \in Messages : ~InPipe(x, m)
          BY <2>1, <3>1, <3>3, <4>1 DEF Local, Greetings, Messages
        <5> QED
          BY <5>1, EmptyPipe
      <4>2. CASE x # w
        <5>1. ~Adding(x)
          BY <2>2, <4>2 DEF Adding
        <5> QED
          BY <1>5, <3>1, <5>1 DEF Local, Drained
      <4> QED
        BY <4>1, <4>2
    <3> QED
      BY <1>3, <1>5, <3>1, <3>2, <3>3, <3>4
  <2>4. OwnerAt' /\ Counts'
    <3>1. owner.of \subseteq m_workers /\ owner'.pc = "idle"
      BY <1>1, <1>2, <2>2 DEF OwnerAt
    <3> QED
      BY <1>1, <1>2, <3>1 DEF OwnerAt, Counts
  <2> QED
    BY <2>3, <2>4
<1> QED
  BY <1>4, <1>5

\* The control thread takes the oldest message of a pipe.
LEMMA Receive ==
    ASSUME CInv, TypeOK', NEW w \in Workers, receive(w)
    PROVE  CInv'
<1> USE DEF CInv
<1> DEFINE h == Head(stat[w])
<1>1. /\ ctl = <<>> /\ stat[w] # <<>> /\ stat[w] \in Seq(Messages)
      /\ ctl' = <<<<w, h>>>> /\ stat'[w] = Tail(stat[w])
      /\ \A x \in Workers : x # w => stat'[x] = stat[x]
      /\ UNCHANGED <<m_workers, feedback, owner, cmd, sub, link, promised, thread, paused, m_finished, spun>>
  BY DEF receive, wvars, TypeOK
<1>2. /\ h = stat[w][1] /\ 1 \in 1..Len(stat[w]) /\ Len(stat[w]) \in Nat
      /\ h \in Messages /\ Len(stat'[w]) = Len(stat[w]) - 1 /\ stat'[w] \in Seq(Messages)
      /\ \A i \in 1..Len(stat'[w]) : i + 1 \in 1..Len(stat[w]) /\ stat'[w][i] = stat[w][i + 1]
      /\ \A i \in 1..Len(stat[w]) : i # 1 =>
            i - 1 \in 1..Len(stat'[w]) /\ stat'[w][i - 1] = stat[w][i]
  BY <1>1, HeadOfQueue
<1>3. \A k : (Held(w, k)' <=> k = h) /\ ~Held(w, k)
  BY <1>1 DEF Held
<1>4. \A k : InStat(w, k)' => InStat(w, k)
  BY <1>2 DEF InStat
<1>5. \A k : InPipe(w, k)' <=> InPipe(w, k)
  <2>1. \A k : InStat(w, k) => k = h \/ InStat(w, k)'
    BY <1>2 DEF InStat
  <2>2. InStat(w, h)
    BY <1>2 DEF InStat
  <2> QED
    BY <1>3, <1>4, <2>1, <2>2 DEF InPipe
<1>6. ~PipeEmpty(w) /\ ~PipeEmpty(w)'
  BY <1>1, <1>2, <1>3 DEF PipeEmpty
<1>7. ASSUME NEW x \in Workers, x # w
      PROVE  /\ \A k : ~Held(x, k) /\ ~Held(x, k)' /\ (InStat(x, k)' <=> InStat(x, k))
             /\ \A k : InPipe(x, k)' <=> InPipe(x, k)
             /\ PipeEmpty(x)' <=> PipeEmpty(x)
  <2>1. \A k : ~Held(x, k) /\ ~Held(x, k)'
    BY <1>1, <1>7 DEF Held
  <2>2. \A k : InStat(x, k)' <=> InStat(x, k)
    BY <1>1, <1>7 DEF InStat
  <2> QED
    BY <1>1, <1>7, <2>1, <2>2 DEF InPipe, PipeEmpty
<1>8. \A x \in Workers : (\A k : InPipe(x, k)' <=> InPipe(x, k)) /\ (PipeEmpty(x)' <=> PipeEmpty(x))
  BY <1>5, <1>6, <1>7
<1>9. ASSUME NEW x \in Workers PROVE Local(x)'
  <2>1. Local(x) /\ (InCmd(x)' <=> InCmd(x)) /\ (Unobeyed(x)' <=> Unobeyed(x))
        /\ (Adding(x)' <=> Adding(x)) /\ (Calling' <=> Calling)
    BY <1>1 DEF InCmd, Unobeyed, Calling, Adding
  <2>2. Greetings(x)' /\ Drained(x)'
    BY <1>1, <1>8, <2>1 DEF Local, Greetings, Drained
  <2>3. Commands(x)' /\ Promises(x)'
    BY <1>1, <2>1 DEF Local, Commands, Promises
  <2>4. Member(x)'
    <3>1. ASSUME thread[x] \in {"init", "sleep"}
          PROVE  /\ \A i \in 1..Len(stat'[x]) : stat'[x][i] = "INIT"
                 /\ \A m \in Messages : Held(x, m)' => m = "INIT"
      <4>1. \A k \in Messages : InPipe(x, k) => k = "INIT"
        BY <2>1, <3>1 DEF Local, Member, InPipe, InStat
      <4>2. \A k \in Messages : InPipe(x, k)' => k = "INIT"
        BY <1>8, <4>1
      <4>3. \A i \in 1..Len(stat'[x]) : stat'[x][i] \in Messages
        BY DEF TypeOK
      <4> QED
        BY <4>2, <4>3 DEF InPipe, InStat
    <3> QED
      BY <1>1, <2>1, <3>1 DEF Local, Member
  <2>5. CASE x # w
    <3>1. Once(x)'
      <4>1. stat'[x] = stat[x] /\ Once(x)
        BY <1>1, <1>7, <2>1, <2>5 DEF Local
      <4>2. \A m : ~Held(x, m)'
        BY <1>7, <2>5
      <4> QED
        BY <1>1, <4>1, <4>2 DEF Once
    <3> QED
      BY <2>2, <2>3, <2>4, <3>1 DEF Local
  <2>6. ASSUME x = w PROVE Once(w)'
    <3> SUFFICES ASSUME NEW m \in Confirmed \cup {"READY"}
                 PROVE  /\ Held(w, m)' => ~InStat(w, m)'
                        /\ \A i, j \in 1..Len(stat'[w]) : stat'[w][i] = m /\ stat'[w][j] = m => i = j
                        /\ w \in m_workers /\ promised[w].paused = TRUE =>
                              /\ Held(w, m)' => stat'[w] = <<>>
                              /\ \A i \in 1..Len(stat'[w]) : stat'[w][i] = m => i = Len(stat'[w])
      BY <1>1 DEF Once
    <3>1. /\ \A i, j \in 1..Len(stat[w]) : stat[w][i] = m /\ stat[w][j] = m => i = j
          /\ w \in m_workers /\ promised[w].paused = TRUE =>
                \A i \in 1..Len(stat[w]) : stat[w][i] = m => i = Len(stat[w])
      BY <2>1, <2>6 DEF Local, Once
    <3>2. Held(w, m)' => ~InStat(w, m)'
      <4> SUFFICES ASSUME m = h, NEW i \in 1..Len(stat'[w]), stat'[w][i] = m PROVE FALSE
        BY <1>3 DEF InStat
      <4>1. i + 1 \in 1..Len(stat[w]) /\ stat[w][i + 1] = m /\ stat[w][1] = m
        BY <1>2
      <4>2. i + 1 = 1
        BY <1>2, <3>1, <4>1
      <4> QED
        BY <1>2, <4>2
    <3>3. \A i, j \in 1..Len(stat'[w]) : stat'[w][i] = m /\ stat'[w][j] = m => i = j
      <4> SUFFICES ASSUME NEW i \in 1..Len(stat'[w]), NEW j \in 1..Len(stat'[w]),
                          stat'[w][i] = m, stat'[w][j] = m
                   PROVE  i = j
        OBVIOUS
      <4>1. i + 1 \in 1..Len(stat[w]) /\ j + 1 \in 1..Len(stat[w]) /\ stat[w][i + 1] = m /\ stat[w][j + 1] = m
        BY <1>2
      <4>2. i + 1 = j + 1
        BY <3>1, <4>1
      <4> QED
        BY <1>2, <4>2
    <3>4. ASSUME w \in m_workers, promised[w].paused = TRUE
          PROVE  /\ Held(w, m)' => stat'[w] = <<>>
                 /\ \A i \in 1..Len(stat'[w]) : stat'[w][i] = m => i = Len(stat'[w])
      <4>1. ASSUME m = h PROVE stat'[w] = <<>>
        <5>1. Len(stat[w]) = 1
          BY <1>2, <3>1, <3>4, <4>1
        <5> QED
          BY <1>2, <5>1, EmptySeq
      <4>2. ASSUME NEW i \in 1..Len(stat'[w]), stat'[w][i] = m PROVE i = Len(stat'[w])
        <5>1. i + 1 \in 1..Len(stat[w]) /\ stat[w][i + 1] = m
          BY <1>2, <4>2
        <5>2. i + 1 = Len(stat[w])
          BY <3>1, <3>4, <5>1
        <5> QED
          BY <1>2, <5>2
      <4> QED
        BY <1>3, <4>1, <4>2
    <3> QED
      BY <3>2, <3>3, <3>4
  <2>7. CASE x = w
    BY <2>2, <2>3, <2>4, <2>6, <2>7 DEF Local
  <2> QED
    BY <2>5, <2>7
<1>10. OwnerAt'
  BY <1>1 DEF OwnerAt, Calling, Adding
<1>11. Counts'
  <2>1. Outstanding' = Outstanding
    <3>1. m_workers \subseteq Workers
      BY DEF TypeOK
    <3>2. \A x \in Workers : InCmd(x)' <=> InCmd(x)
      BY <1>1 DEF InCmd
    <3>3. \A x \in Workers : x \in Outstanding' <=> x \in Outstanding
      BY <1>1, <1>8, <3>2 DEF Outstanding
    <3> QED
      BY <1>1, <3>1, <3>3 DEF Outstanding
  <2> QED
    BY <1>1, <2>1 DEF Counts, Calling
<1> QED
  BY <1>9, <1>10, <1>11

\* The control thread has done with the message in its hands.
LEMMA Cleared ==
    ASSUME CInv, ctl # <<>>, ctl' = <<>>, UNCHANGED <<stat, m_workers, promised>>, NEW x \in Workers
    PROVE  /\ \A k : ~Held(x, k)' /\ (InStat(x, k)' <=> InStat(x, k))
           /\ \A k : InPipe(x, k)' => InPipe(x, k)
           /\ PipeEmpty(x) => PipeEmpty(x)'
           /\ Once(x)'
<1>1. \A k : ~Held(x, k)' /\ (InStat(x, k)' <=> InStat(x, k))
  BY DEF Held, InStat
<1>2. \A k : InPipe(x, k)' => InPipe(x, k)
  BY <1>1 DEF InPipe
<1>3. PipeEmpty(x) => PipeEmpty(x)'
  BY <1>1 DEF PipeEmpty
<1>4. Once(x) /\ stat'[x] = stat[x] /\ (x \in m_workers' <=> x \in m_workers) /\ promised'[x] = promised[x]
  BY DEF CInv, Local
<1>5. Once(x)'
  <2>1. ASSUME NEW m \in Confirmed \cup {"READY"}
        PROVE  /\ ~Held(x, m)'
               /\ \A i, j \in 1..Len(stat'[x]) : stat'[x][i] = m /\ stat'[x][j] = m => i = j
               /\ x \in m_workers' /\ promised'[x].paused = TRUE =>
                     \A i \in 1..Len(stat'[x]) : stat'[x][i] = m => i = Len(stat'[x])
    <3>1. /\ \A i, j \in 1..Len(stat[x]) : stat[x][i] = m /\ stat[x][j] = m => i = j
          /\ x \in m_workers /\ promised[x].paused = TRUE =>
                \A i \in 1..Len(stat[x]) : stat[x][i] = m => i = Len(stat[x])
      BY <1>4 DEF Once
    <3> QED
      BY <1>1, <1>4, <3>1
  <2> QED
    BY <2>1 DEF Once
<1> QED
  BY <1>1, <1>2, <1>3, <1>5

\* The message in its hands is one of a worker's.
LEMMA HeldMessage ==
    ASSUME TypeOK, ctl # <<>>
    PROVE  /\ ctl[1][1] \in Workers /\ ctl[1][2] \in Messages
           /\ Held(ctl[1][1], ctl[1][2]) /\ InPipe(ctl[1][1], ctl[1][2])
<1>1. ctl[1] \in Workers \X Messages
  BY HeadOfQueue DEF TypeOK
<1>2. ctl[1] = <<ctl[1][1], ctl[1][2]>>
  BY <1>1
<1> QED
  BY <1>1, <1>2 DEF Held, InPipe

\* Statistics are added to the generator's.
LEMMA ProcessStats ==
    ASSUME CInv, TypeOK', process_stats
    PROVE  CInv'
<1> USE DEF CInv
<1>1. /\ ctl # <<>> /\ ctl' = <<>>
      /\ UNCHANGED <<m_workers, feedback, owner, cmd, sub, stat, link, promised, thread, paused, m_finished, spun>>
  BY DEF process_stats, wvars
<1>2. ASSUME NEW x \in Workers PROVE Local(x)'
  <2>1. Local(x) /\ (InCmd(x)' <=> InCmd(x)) /\ (Unobeyed(x)' <=> Unobeyed(x))
        /\ (Adding(x)' <=> Adding(x)) /\ (Calling' <=> Calling)
    BY <1>1 DEF InCmd, Unobeyed, Calling, Adding
  <2>2. /\ \A k : ~Held(x, k)' /\ (InPipe(x, k)' => InPipe(x, k))
        /\ PipeEmpty(x) => PipeEmpty(x)'
        /\ Once(x)'
    BY <1>1, Cleared
  <2>3. Greetings(x)' /\ Drained(x)'
    BY <1>1, <2>1, <2>2 DEF Local, Greetings, Drained
  <2>4. Commands(x)' /\ Promises(x)'
    BY <1>1, <2>1 DEF Local, Commands, Promises
  <2>5. Member(x)'
    BY <1>1, <2>1, <2>2 DEF Local, Member
  <2> QED
    BY <2>2, <2>3, <2>4, <2>5 DEF Local
<1>3. OwnerAt'
  BY <1>1 DEF OwnerAt, Calling, Adding
<1>4. Counts'
  <2>1. \A x \in Workers : InCmd(x)' <=> InCmd(x)
    BY <1>1 DEF InCmd
  <2>2. \A x \in Workers : (\A k : InPipe(x, k)' => InPipe(x, k)) /\ (PipeEmpty(x) => PipeEmpty(x)')
    BY <1>1, Cleared
  <2>3. m_workers \subseteq Workers
    BY DEF TypeOK
  <2>4. Outstanding' \subseteq Outstanding
    BY <1>1, <2>1, <2>2, <2>3 DEF Outstanding
  <2>5. IsFiniteSet(Outstanding)
    BY GeneratorAssumption, FS_Subset DEF Outstanding, TypeOK
  <2>6. /\ Cardinality(Outstanding') <= Cardinality(Outstanding)
        /\ Cardinality(Outstanding') \in Nat /\ Cardinality(Outstanding) \in Nat
    BY <2>4, <2>5, FS_Subset, FS_CardinalityType
  <2>7. feedback.counter \in Nat
    BY DEF TypeOK
  <2> QED
    BY <1>1, <2>6, <2>7 DEF Counts, Calling
<1> QED
  BY <1>2, <1>3, <1>4

\* The answer to an INIT goes to every worker while the owner waits in add().
LEMMA AnswerInit ==
    ASSUME CInv, TypeOK', answer_init
    PROVE  CInv'
<1> USE DEF CInv
<1>1. /\ ctl # <<>> /\ ctl[1][2] = "INIT" /\ ctl' = <<>> /\ cmd' = Published("READY")
      /\ UNCHANGED <<m_workers, feedback, owner, sub, stat, link, promised, thread, paused, m_finished, spun>>
  BY DEF answer_init, wvars
<1>2. PICK w \in Workers : InPipe(w, "INIT")
  BY <1>1, HeldMessage
<1>3. Adding(w) /\ feedback = [op |-> "READY", counter |-> 1] /\ w \in link
  BY <1>2 DEF Local, Greetings
<1>4. owner.op = "INIT" /\ owner.pc = "wait" /\ owner.of = {w} /\ ~Calling /\ ~Calling'
  BY <1>1, <1>3 DEF Adding, Calling, Confirmed
<1>5. ASSUME NEW x \in Workers PROVE Local(x)'
  <2>1. Local(x) /\ (Adding(x)' <=> Adding(x)) /\ ~Unobeyed(x) /\ ~Unobeyed(x)'
        /\ (Adding(x) => x = w)
    <3>1. Adding(x)' <=> Adding(x)
      BY <1>1 DEF Adding
    <3>2. Adding(x) => x = w
      BY <1>4 DEF Adding
    <3> QED
      BY <1>4, <3>1, <3>2 DEF Unobeyed
  <2>2. /\ \A k : ~Held(x, k)' /\ (InPipe(x, k)' => InPipe(x, k))
        /\ PipeEmpty(x) => PipeEmpty(x)'
        /\ Once(x)'
    BY <1>1, Cleared
  <2>3. /\ x \notin sub => cmd'[x] = cmd[x]
        /\ \A i \in 1..Len(cmd'[x]) : cmd'[x][i] = "READY"
    <3>1. \A i \in 1..Len(cmd[x]) : cmd[x][i] = "READY"
      BY <1>4, <2>1 DEF Local, Commands
    <3>2. CASE x \in sub
      <4>1. cmd[x] \in Seq(Messages) /\ cmd'[x] = Append(cmd[x], "READY") /\ "READY" \in Messages
        BY <1>1, <3>2 DEF TypeOK, Published, Messages
      <4>2. /\ Len(cmd'[x]) = Len(cmd[x]) + 1 /\ Len(cmd[x]) \in Nat
            /\ cmd'[x][Len(cmd[x]) + 1] = "READY"
            /\ \A i \in 1..Len(cmd[x]) : cmd'[x][i] = cmd[x][i]
        BY <4>1, AppendProperties, LenProperties
      <4> QED
        BY <3>1, <3>2, <4>2
    <3>3. CASE x \notin sub
      BY <1>1, <3>1, <3>3 DEF Published
    <3> QED
      BY <3>2, <3>3
  <2>4. Greetings(x)'
    BY <1>1, <1>4, <2>1, <2>2 DEF Local, Greetings, Confirmed
  <2>5. Drained(x)'
    BY <1>1, <1>4, <2>1, <2>2 DEF Local, Drained
  <2>6. Commands(x)' /\ Promises(x)'
    BY <1>1, <2>1, <2>3 DEF Local, Commands, Promises
  <2>7. Member(x)'
    BY <1>1, <1>3, <2>1, <2>2, <2>3 DEF Local, Member
  <2> QED
    BY <2>2, <2>4, <2>5, <2>6, <2>7 DEF Local
<1>6. OwnerAt' /\ Counts'
  BY <1>1, <1>4 DEF OwnerAt, Counts, Calling, Adding
<1> QED
  BY <1>5, <1>6

\* A confirmation is counted once, and only for the command that is waited for.
LEMMA CountDown ==
    ASSUME CInv, TypeOK', count_down
    PROVE  CInv'
<1> USE DEF CInv
<1>2. PICK w \in Workers, m \in Messages :
         ctl # <<>> /\ m = ctl[1][2] /\ Held(w, m) /\ InPipe(w, m)
  BY HeldMessage DEF count_down
<1>1. /\ ctl # <<>> /\ m \in Confirmed \cup {"READY"} /\ ctl' = <<>>
      /\ feedback' = IF feedback.op = m /\ feedback.counter > 0
                     THEN [feedback EXCEPT !.counter = @ - 1] ELSE feedback
      /\ UNCHANGED <<m_workers, owner, cmd, sub, stat, link, promised, thread, paused, m_finished, spun>>
  BY <1>2 DEF count_down, wvars
<1>3. Local(w)
  BY <1>2
<1>4. \A x \in Workers :
        /\ (InCmd(x)' <=> InCmd(x)) /\ (Unobeyed(x)' <=> Unobeyed(x)) /\ (Adding(x)' <=> Adding(x))
  BY <1>1 DEF InCmd, Unobeyed, Calling, Adding
<1>5. Calling' <=> Calling
  BY <1>1 DEF Calling
<1>6. \A x \in Workers :
        /\ \A k : ~Held(x, k)' /\ (InPipe(x, k)' => InPipe(x, k)) /\ (InStat(x, k)' <=> InStat(x, k))
        /\ PipeEmpty(x) => PipeEmpty(x)'
        /\ Once(x)'
  BY <1>1, Cleared
<1>7. ASSUME NEW x \in Workers,
             Adding(x) => thread[x] \notin {"init", "sleep"} /\ ~InPipe(x, "INIT")' /\ ~InPipe(x, "READY")'
      PROVE  Local(x)'
  <2>1. Local(x) /\ (InCmd(x)' <=> InCmd(x)) /\ (Unobeyed(x)' <=> Unobeyed(x))
        /\ (Adding(x)' <=> Adding(x))
    BY <1>4
  <2>2. /\ \A k : ~Held(x, k)' /\ (InPipe(x, k)' => InPipe(x, k))
        /\ PipeEmpty(x) => PipeEmpty(x)'
        /\ Once(x)'
    BY <1>6
  <2>3. Greetings(x)'
    BY <1>1, <1>7, <2>1, <2>2 DEF Local, Greetings
  <2>4. Drained(x)'
    BY <1>1, <1>5, <2>1, <2>2 DEF Local, Drained
  <2>5. Commands(x)' /\ Promises(x)'
    BY <1>1, <1>5, <2>1 DEF Local, Commands, Promises
  <2>6. Member(x)'
    BY <1>1, <1>7, <2>1, <2>2 DEF Local, Member
  <2> QED
    BY <2>2, <2>3, <2>4, <2>5, <2>6 DEF Local
<1>8. CASE m \in Confirmed
  <2>1. owner.pc = "wait" /\ owner.op = m /\ w \in m_workers /\ ~InCmd(w) /\ Calling /\ feedback.op = m
    BY <1>2, <1>3, <1>8 DEF Local, Greetings, OwnerAt, Calling
  <2>2. \A x \in Workers : Local(x)'
    <3>1. \A x \in Workers : ~Adding(x)
      BY <2>1, <1>8 DEF Adding, Confirmed
    <3> QED
      BY <1>7, <3>1
  <2>3. IsFiniteSet(Outstanding) /\ w \in Outstanding /\ m_workers \subseteq Workers
    BY <1>2, <2>1, GeneratorAssumption, FS_Subset DEF Outstanding, TypeOK
  <2>4. Outstanding' \subseteq Outstanding \ {w}
    <3>1. w \notin Outstanding'
      <4>1. ~InStat(w, m) /\ (promised[w].paused = TRUE => stat[w] = <<>>)
        BY <1>2, <1>3, <1>8, <2>1 DEF Local, Once
      <4>2. ~InPipe(w, m)'
        BY <1>2, <1>6, <4>1 DEF InPipe
      <4>3. promised[w].paused = TRUE => PipeEmpty(w)'
        BY <1>1, <1>2, <1>6, <4>1 DEF PipeEmpty
      <4>4. owner'.op = m /\ promised'[w] = promised[w] /\ ~InCmd(w)'
        BY <1>1, <1>2, <1>4, <2>1
      <4> QED
        BY <4>2, <4>3, <4>4 DEF Outstanding
    <3>2. ASSUME NEW x \in Outstanding' PROVE x \in Outstanding
      <4>1. x \in m_workers /\ x \in Workers
        BY <1>1, <2>3 DEF Outstanding
      <4>2. /\ InCmd(x)' <=> InCmd(x)
            /\ InPipe(x, m)' => InPipe(x, m)
            /\ PipeEmpty(x) => PipeEmpty(x)'
        BY <1>4, <1>6, <4>1
      <4>3. owner.op = m /\ owner'.op = m /\ promised' = promised
        BY <1>1, <2>1
      <4> QED
        BY <4>1, <4>2, <4>3 DEF Outstanding
    <3> QED
      BY <3>1, <3>2
  <2>5. /\ Cardinality(Outstanding \ {w}) = Cardinality(Outstanding) - 1
        /\ Cardinality(Outstanding) \in Nat /\ IsFiniteSet(Outstanding \ {w})
    BY <2>3, FS_RemoveElement, FS_CardinalityType
  <2>6. /\ Cardinality(Outstanding') <= Cardinality(Outstanding) - 1
        /\ Cardinality(Outstanding') \in Nat
    BY <2>4, <2>5, FS_Subset, FS_CardinalityType
  <2>7. feedback.counter \in Nat /\ Cardinality(Outstanding) <= feedback.counter
    BY <2>1 DEF TypeOK, Counts
  <2>8. feedback' = [feedback EXCEPT !.counter = @ - 1]
    <3>1. feedback.counter > 0
      BY <2>5, <2>6, <2>7
    <3> QED
      BY <1>1, <2>1, <3>1
  <2>9. feedback'.counter = feedback.counter - 1 /\ feedback'.op = m
    BY <2>1, <2>8 DEF TypeOK
  <2>10. Counts'
    <3>1. Cardinality(Outstanding') <= feedback'.counter
      BY <2>5, <2>6, <2>7, <2>9
    <3> QED
      BY <3>1 DEF Counts
  <2>11. OwnerAt'
    BY <1>1, <1>5, <2>1, <2>9 DEF OwnerAt, Calling
  <2> QED
    BY <2>2, <2>10, <2>11
<1>9. CASE m = "READY"
  <2>1. Adding(w) /\ feedback = [op |-> "READY", counter |-> 1]
    BY <1>2, <1>3, <1>9 DEF Local, Greetings
  <2>2. owner.op = "INIT" /\ owner.pc = "wait" /\ owner.of = {w} /\ ~Calling
    BY <2>1 DEF Adding, Calling, Confirmed
  <2>3. feedback' = [op |-> "READY", counter |-> 0]
    BY <1>1, <1>9, <2>1
  <2>4. thread[w] \notin {"init", "sleep"}
    BY <1>2, <1>3, <1>9 DEF Local, Member
  <2>5. \A k \in Messages : ~InPipe(w, k)'
    <3>1. w \in m_workers /\ promised[w].paused = TRUE
      BY <1>3, <2>1 DEF Local, Member
    <3>2. stat[w] = <<>>
      BY <1>2, <1>3, <1>9, <3>1 DEF Local, Once
    <3>3. \A k : ~InStat(w, k)
      <4>1. Len(stat[w]) = 0
        BY <3>2
      <4> QED
        BY <4>1 DEF InStat
    <3> QED
      BY <1>2, <1>6, <3>3 DEF InPipe
  <2>6. \A x \in Workers : Local(x)'
    <3>1. \A x \in Workers : Adding(x) => x = w
      BY <2>2 DEF Adding
    <3>2. "INIT" \in Messages /\ "READY" \in Messages
      BY DEF Messages
    <3> QED
      BY <1>2, <1>7, <2>4, <2>5, <3>1, <3>2
  <2>7. OwnerAt' /\ Counts'
    BY <1>1, <1>2, <1>4, <1>5, <2>1, <2>2, <2>3 DEF OwnerAt, Counts
  <2> QED
    BY <2>6, <2>7
<1> QED
  BY <1>1, <1>8, <1>9

-----------------------------------------------------------------------------

\* The invariant holds of the empty controller ...
LEMMA ControllerInit ==
    ASSUME Init
    PROVE  CInv
<1> USE DEF Init
<1>1. TypeOK
  <2>1. Cardinality(Workers) \in Nat
    BY GeneratorAssumption, FS_CardinalityType
  <2>2. feedback \in [op : Messages, counter : 0..Cardinality(Workers)]
    BY <2>1 DEF Messages
  <2>3. ctl \in Seq(Workers \X Messages) /\ Len(ctl) <= 1
    OBVIOUS
  <2>4. cmd \in [Workers -> Seq(Messages)] /\ stat \in [Workers -> Seq(Messages)]
    OBVIOUS
  <2> QED
    BY <2>2, <2>3, <2>4 DEF TypeOK, Messages
<1>2. ASSUME NEW w \in Workers PROVE Local(w)
  <2>1. cmd[w] = <<>> /\ stat[w] = <<>> /\ Len(cmd[w]) = 0 /\ Len(stat[w]) = 0
    OBVIOUS
  <2>2. \A m : ~Held(w, m) /\ ~InStat(w, m) /\ ~InPipe(w, m)
    BY <2>1 DEF Held, InStat, InPipe
  <2>3. ~Adding(w) /\ ~Calling
    BY DEF Adding, Calling, Confirmed
  <2>4. Member(w)
    BY <2>1, <2>3 DEF Member
  <2>5. Commands(w) /\ Greetings(w) /\ Once(w)
    BY <2>1, <2>2 DEF Commands, Greetings, Once
  <2>6. Promises(w) /\ Drained(w)
    BY DEF Promises, Drained
  <2> QED
    BY <2>4, <2>5, <2>6 DEF Local
<1>3. OwnerAt /\ Counts
  BY DEF OwnerAt, Counts
<1> QED
  BY <1>1, <1>2, <1>3 DEF CInv

\* ... and is kept by every step.
LEMMA ControllerStep ==
    ASSUME CInv, [Next]_vars
    PROVE  CInv'
<1>1. CASE Next
  <2>1. TypeOK'
    BY <1>1, ControllerTypes DEF CInv
  <2> QED
    BY <1>1, <2>1, Command, Send, Wait, Joined, Add, RemoveTask, Subscribed, Receive,
       AnswerInit, ProcessStats, CountDown, SendInit, NextReady, CheckFinished, Obey, Spin
       DEF Next, Worker, Handle
<1>2. CASE UNCHANGED vars
  <2> USE <1>2 DEF CInv, vars
  <2>1. TypeOK'
    BY DEF TypeOK
  <2>2. \A w \in Workers : Local(w)'
    BY LocalFrame
  <2>3. OwnerAt'
    BY DEF OwnerAt, Calling, Adding
  <2>4. Outstanding' = Outstanding
    BY DEF Outstanding, InCmd, InPipe, Held, InStat, PipeEmpty
  <2>5. Counts'
    BY <2>4 DEF Counts, Calling
  <2> QED
    BY <2>1, <2>2, <2>3, <2>5
<1> QED
  BY <1>1, <1>2

\* CInv is an invariant of the controller.
LEMMA ControllerInvariant == Spec => []CInv
  BY ControllerInit, ControllerStep, PTL DEF Spec

\* Types are kept: in particular the counter of confirmations (controller.hpp:164) never
\* exceeds the number of workers and never falls below zero.
THEOREM ControllerTypeCorrect == Spec => []TypeOK
<1>1. CInv => TypeOK
  BY DEF CInv
<1> QED
  BY <1>1, ControllerInvariant, PTL

\* The control thread sends on the owner's socket (controller.hpp:133) only while the owner
\* waits in add().
THEOREM InitAnsweredInAdd == Spec => []SocketExclusive
<1>1. CInv => SocketExclusive
  <2> SUFFICES ASSUME CInv, ctl # <<>>, ctl[1][2] = "INIT" PROVE owner.pc = "wait" /\ owner.op = "INIT"
    BY DEF SocketExclusive
  <2>1. PICK w \in Workers : InPipe(w, "INIT")
    BY HeldMessage DEF CInv
  <2> QED
    BY <2>1 DEF CInv, Local, Greetings, Adding
<1> QED
  BY <1>1, ControllerInvariant, PTL

\* pause(), resume(), reset() and clear() (controller.cpp:77-98) return when every worker
\* has obeyed and what it sent before has been processed.
THEOREM CallsAreFences == Spec => []Fenced
<1>1. CInv => Fenced
  <2> SUFFICES ASSUME CInv, owner.pc = "idle", NEW w \in m_workers
               PROVE  /\ paused[w] = promised[w].paused
                      /\ promised[w].paused =>
                           /\ stat[w] = <<>>
                           /\ \A i \in 1..Len(ctl) : ctl[i][1] # w
                      /\ promised[w].clean => w \notin spun
    BY DEF Fenced
  <2>1. w \in Workers /\ promised[w].paused \in BOOLEAN /\ promised[w].clean \in BOOLEAN
    BY DEF CInv, TypeOK
  <2>2. Quiet(w)
    BY <2>1, QuietWorkers DEF OwnerQuiet
  <2>3. ASSUME promised[w].paused = TRUE, NEW i \in 1..Len(ctl), ctl[i][1] = w PROVE FALSE
    <3>1. Len(ctl) \in Nat /\ Len(ctl) <= 1 /\ ctl \in Seq(Workers \X Messages)
      BY LenProperties DEF CInv, TypeOK
    <3>2. i = 1 /\ ctl # <<>>
      BY <2>3, <3>1
    <3>3. Held(w, ctl[1][2]) /\ ctl[1][2] \in Messages
      BY <2>3, <3>2, HeldMessage DEF CInv
    <3> QED
      BY <2>2, <2>3, <3>3 DEF Quiet, PipeEmpty
  <2> QED
    BY <2>1, <2>2, <2>3 DEF Quiet, PipeEmpty
<1> QED
  BY <1>1, ControllerInvariant, PTL

-----------------------------------------------------------------------------
(* The clock.                                                              *)

\* Indexes less than n apart have different slots.
LEMMA DistinctSlots ==
    ASSUME NEW n \in Nat \ {0}, NEW a \in Nat, NEW b \in Nat, b < a, a - b < n
    PROVE  a % n # b % n
<1>1. a = n * (a \div n) + (a % n) /\ b = n * (b \div n) + (b % n)
      /\ a \div n \in Nat /\ b \div n \in Nat
  OBVIOUS
<1> DEFINE p == a \div n
           q == b \div n
<1>2. SUFFICES ASSUME a % n = b % n PROVE FALSE
  OBVIOUS
<1>3. a - b = n * p - n * q
  BY <1>1, <1>2
<1>4. p \in Nat /\ q \in Nat
  BY <1>1
<1> HIDE DEF p, q
<1>5. CASE p <= q
  <2>1. n * p <= n * q /\ n * p \in Nat /\ n * q \in Nat
    BY <1>4, <1>5
  <2> QED
    BY <1>3, <2>1
<1>6. CASE p >= q + 1
  <2>1. n * p >= n * (q + 1) /\ n * (q + 1) = n * q + n /\ n * p \in Nat /\ n * q \in Nat
    BY <1>4, <1>6
  <2> QED
    BY <1>3, <2>1
<1> QED
  BY <1>4, <1>5, <1>6

\* A masked index is a slot.
LEMMA SlotOf ==
    ASSUME K!TimeKeeperAssumption, NEW a \in Nat
    PROVE  a % Slots \in K!Slot
BY DEF K!TimeKeeperAssumption, K!Slot

\* The slot that m_now points at was filled last.
KeeperAt == m_idx > 0 /\ m_now = (m_idx - 1) % Slots

\* Only the slot that is being filled holds parts of two syncs.
Whole == \A s \in K!Slot :
            timehands[s].ticks # timehands[s].data => sync = "data" /\ s = m_idx % Slots

\* Its ticks are those of the sync under way.
Filling == sync = "data" => timehands[m_idx % Slots].ticks = m_idx

\* A reader's slot, counted from the syncs since it was read; what the reader has is what
\* the slot holds, until the slot can be filled again.
Reads(r) ==
    reader[r].pc # "start" =>
        /\ reader[r].since < m_idx /\ reader[r].th = (m_idx - 1 - reader[r].since) % Slots
        /\ reader[r].since < Slots - 1 =>
              /\ reader[r].pc = "data" => reader[r].ticks = timehands[reader[r].th].ticks
              /\ reader[r].pc = "done" => reader[r].ticks = reader[r].data

KInv == K!TypeOK /\ KeeperAt /\ Whole /\ Filling /\ \A r \in Readers : Reads(r)

\* The state after setup().
LEMMA KeeperInit ==
    ASSUME K!Init
    PROVE  KInv
<1> USE GeneratorsAssumption DEF K!TimeKeeperAssumption
<1>1. 0 \in K!Slot
  BY DEF K!Slot
<1>2. K!TypeOK
  BY <1>1 DEF K!Init, K!TypeOK, K!Idle
<1>3. KeeperAt
  BY DEF K!Init, KeeperAt
<1>4. Whole /\ Filling
  BY DEF K!Init, Whole, Filling
<1>5. \A r \in Readers : Reads(r)
  BY DEF K!Init, K!Idle, Reads
<1> QED
  BY <1>2, <1>3, <1>4, <1>5 DEF KInv

\* The slot of a reader is not the one that the next sync fills.
LEMMA SlotKept ==
    ASSUME KInv, NEW r \in Readers, reader[r].pc # "start", reader[r].since < Slots - 1
    PROVE  reader[r].th # m_idx % Slots
<1>1. /\ Slots \in Nat \ {0} /\ m_idx \in Nat /\ reader[r].since \in Nat
      /\ reader[r].since < m_idx /\ reader[r].th = (m_idx - 1 - reader[r].since) % Slots
  BY GeneratorsAssumption DEF KInv, K!TypeOK, Reads, K!TimeKeeperAssumption
<1> DEFINE b == m_idx - 1 - reader[r].since
<1>2. b \in Nat /\ b < m_idx /\ m_idx - b < Slots
  BY <1>1
<1> HIDE DEF b
<1>3. m_idx % Slots # b % Slots
  BY <1>1, <1>2, DistinctSlots
<1> QED
  BY <1>1, <1>3 DEF b

\* A step of the thread that syncs.
LEMMA KeeperSync ==
    ASSUME KInv, K!Sync
    PROVE  KInv'
<1> USE GeneratorsAssumption DEF KInv
<1>1. /\ Slots \in Nat \ {0} /\ m_idx \in Nat /\ m_idx % Slots \in K!Slot
      /\ K!next_slot = m_idx % Slots
  BY SlotOf DEF K!TypeOK, K!TimeKeeperAssumption, K!next_slot
<1> DEFINE n == m_idx % Slots
<1>2. ASSUME UNCHANGED <<m_idx, m_now, reader>>, sync' \in {"idle", "ticks", "data", "release", "publish"},
             timehands' \in [K!Slot -> [generation : Nat, ticks : Nat, data : Nat]],
             \A s \in K!Slot : s # n => timehands'[s] = timehands[s],
             timehands'[n].ticks # timehands'[n].data => sync' = "data",
             sync' = "data" => timehands'[n].ticks = m_idx
      PROVE  KInv'
  <2>1. K!TypeOK' /\ KeeperAt' /\ Filling'
    BY <1>2 DEF K!TypeOK, KeeperAt, Filling
  <2>2. Whole'
    <3> SUFFICES ASSUME NEW s \in K!Slot, timehands'[s].ticks # timehands'[s].data, sync' # "data" \/ s # n
                 PROVE  FALSE
      BY <1>2 DEF Whole
    <3>1. s # n
      BY <1>2
    <3>2. timehands'[s] = timehands[s]
      BY <1>2, <3>1
    <3> QED
      BY <3>1, <3>2 DEF Whole
  <2>3. ASSUME NEW r \in Readers PROVE Reads(r)'
    <3>1. Reads(r) /\ reader' = reader /\ m_idx' = m_idx /\ reader[r].th \in K!Slot
      BY <1>2 DEF K!TypeOK
    <3>2. reader[r].pc # "start" /\ reader[r].since < Slots - 1 =>
            timehands'[reader[r].th] = timehands[reader[r].th]
      BY <1>2, <3>1, SlotKept
    <3> QED
      BY <3>1, <3>2 DEF Reads
  <2> QED
    BY <2>1, <2>2, <2>3
<1>3. /\ timehands \in [K!Slot -> [generation : Nat, ticks : Nat, data : Nat]]
      /\ timehands[n] \in [generation : Nat, ticks : Nat, data : Nat] /\ n \in K!Slot
      /\ m_idx \div Slots + 1 \in Nat
  <2>1. m_idx \div Slots \in Nat
    BY <1>1
  <2> QED
    BY <1>1, <2>1 DEF K!TypeOK
<1>4. sync # "data" => timehands[n].ticks = timehands[n].data
  BY <1>1 DEF Whole
<1> HIDE DEF n
<1>5. CASE K!claim
  BY <1>1, <1>2, <1>3, <1>4, <1>5 DEF K!claim, n
<1>6. CASE K!fill_ticks
  BY <1>1, <1>2, <1>3, <1>6 DEF K!fill_ticks, K!fill, n
<1>7. CASE K!fill_data
  <2>1. sync = "data" /\ sync' = "release" /\ UNCHANGED <<m_idx, m_now, reader>>
        /\ timehands' = [timehands EXCEPT ![n].data = m_idx]
    BY <1>1, <1>7 DEF K!fill_data, K!fill, n
  <2>2. timehands[n].ticks = m_idx
    BY <2>1 DEF Filling, n
  <2> QED
    BY <1>1, <1>2, <1>3, <2>1, <2>2 DEF n
<1>8. CASE K!release
  BY <1>1, <1>2, <1>3, <1>4, <1>8 DEF K!release, K!fill, n
<1>9. CASE K!publish
  <2>1. /\ sync = "publish" /\ sync' = "idle" /\ m_now' = n /\ m_idx' = m_idx + 1 /\ timehands' = timehands
        /\ reader' = [r \in Readers |-> IF reader[r].pc = "start" THEN reader[r]
                                        ELSE [reader[r] EXCEPT !.since = @ + 1]]
    BY <1>1, <1>9 DEF K!publish, n
  <2>2. ASSUME NEW r \in Readers
        PROVE  /\ reader[r].pc = "start" => reader'[r] = reader[r]
               /\ reader[r].pc # "start" =>
                     /\ reader'[r] = [reader[r] EXCEPT !.since = @ + 1]
                     /\ reader'[r].since = reader[r].since + 1 /\ reader'[r].pc = reader[r].pc
                     /\ reader'[r].th = reader[r].th /\ reader'[r].ticks = reader[r].ticks
                     /\ reader'[r].data = reader[r].data
    BY <2>1 DEF K!TypeOK
  <2>3. K!TypeOK'
    <3>1. reader' \in [Readers -> [pc : {"start", "gen", "check", "ticks", "data", "done"},
                                   th : K!Slot, gen : Nat, ticks : Nat, data : Nat, since : Nat]]
      BY <2>1, <2>2 DEF K!TypeOK
    <3> QED
      BY <1>1, <1>3, <2>1, <3>1 DEF K!TypeOK
  <2>4. KeeperAt' /\ Whole' /\ Filling'
    BY <1>1, <2>1 DEF KeeperAt, Whole, Filling, n
  <2>5. ASSUME NEW r \in Readers PROVE Reads(r)'
    <3>1. CASE reader[r].pc = "start"
      BY <2>2, <3>1 DEF Reads
    <3>2. CASE reader[r].pc # "start"
      <4>1. /\ Reads(r) /\ reader[r].since \in Nat /\ reader[r].since < m_idx
        BY <3>2 DEF Reads, K!TypeOK
      <4>2. m_idx' = m_idx + 1 /\ reader'[r].since = reader[r].since + 1
        BY <2>1, <2>2, <3>2
      <4>3. m_idx \in Nat /\ Slots \in Nat
        BY <1>1
      <4>4. /\ m_idx' - 1 - reader'[r].since = m_idx - 1 - reader[r].since
            /\ reader'[r].since < m_idx' /\ (reader'[r].since < Slots - 1 => reader[r].since < Slots - 1)
        BY <4>1, <4>2, <4>3
      <4> QED
        BY <2>1, <2>2, <3>2, <4>1, <4>4 DEF Reads
    <3> QED
      BY <3>1, <3>2
  <2> QED
    BY <2>3, <2>4, <2>5
<1> QED
  BY <1>5, <1>6, <1>7, <1>8, <1>9 DEF K!Sync

\* A step of a reader.
LEMMA KeeperRead ==
    ASSUME KInv, NEW r \in Readers, K!Now(r)
    PROVE  KInv'
<1> USE GeneratorsAssumption DEF KInv
<1>1. /\ UNCHANGED <<timehands, m_idx, m_now, sync>>
      /\ \A x \in Readers : x # r => reader'[x] = reader[x]
  BY DEF K!Now, K!timehands_now, K!load_generation, K!check_generation, K!read_ticks, K!read_data,
         K!return, K!step, K!TypeOK
<1>2. /\ reader[r] \in [pc : {"start", "gen", "check", "ticks", "data", "done"},
                        th : K!Slot, gen : Nat, ticks : Nat, data : Nat, since : Nat]
      /\ timehands \in [K!Slot -> [generation : Nat, ticks : Nat, data : Nat]]
      /\ m_now \in K!Slot /\ m_idx \in Nat /\ Slots \in Nat \ {0}
      /\ reader[r].th \in K!Slot /\ Reads(r) /\ KeeperAt /\ 0 \in K!Slot
  BY DEF K!TypeOK, K!TimeKeeperAssumption, K!Slot
<1>3. ASSUME NEW v \in [pc : {"start", "gen", "check", "ticks", "data", "done"},
                        th : K!Slot, gen : Nat, ticks : Nat, data : Nat, since : Nat],
             reader' = [reader EXCEPT ![r] = v],
             v.pc # "start" =>
                /\ v.since < m_idx /\ v.th = (m_idx - 1 - v.since) % Slots
                /\ v.since < Slots - 1 =>
                      /\ v.pc = "data" => v.ticks = timehands[v.th].ticks
                      /\ v.pc = "done" => v.ticks = v.data
      PROVE  KInv'
  <2>1. reader'[r] = v
    BY <1>3 DEF K!TypeOK
  <2>2. K!TypeOK'
    BY <1>1, <1>3 DEF K!TypeOK
  <2>3. KeeperAt' /\ Whole' /\ Filling'
    BY <1>1 DEF KeeperAt, Whole, Filling
  <2>4. \A x \in Readers : Reads(x)'
    BY <1>1, <1>3, <2>1 DEF Reads
  <2> QED
    BY <2>2, <2>3, <2>4
<1>4. CASE K!timehands_now(r)
  <2> DEFINE v == [[K!Idle EXCEPT !.th = m_now] EXCEPT !.pc = "gen"]
  <2>1. reader' = [reader EXCEPT ![r] = v]
    BY <1>4 DEF K!timehands_now, K!step
  <2>2. K!Idle \in [pc : {"start", "gen", "check", "ticks", "data", "done"},
                    th : K!Slot, gen : Nat, ticks : Nat, data : Nat, since : Nat]
        /\ K!Idle.since = 0
    BY <1>2 DEF K!Idle
  <2>3. v \in [pc : {"start", "gen", "check", "ticks", "data", "done"},
               th : K!Slot, gen : Nat, ticks : Nat, data : Nat, since : Nat]
        /\ v.since = 0 /\ v.th = m_now /\ v.pc = "gen"
    BY <1>2, <2>2
  <2> HIDE DEF v
  <2>4. v.since < m_idx /\ v.th = (m_idx - 1 - v.since) % Slots
    BY <1>2, <2>3 DEF KeeperAt
  <2> QED
    BY <1>3, <2>1, <2>3, <2>4
<1>5. CASE K!load_generation(r)
  <2> DEFINE v == [reader[r] EXCEPT !.gen = timehands[reader[r].th].generation, !.pc = "check"]
  <2>1. reader' = [reader EXCEPT ![r] = v] /\ reader[r].pc = "gen"
    BY <1>5 DEF K!load_generation, K!step
  <2>2. v.since = reader[r].since /\ v.th = reader[r].th /\ v.pc = "check"
    BY <1>2
  <2>3. v \in [pc : {"start", "gen", "check", "ticks", "data", "done"},
               th : K!Slot, gen : Nat, ticks : Nat, data : Nat, since : Nat]
    BY <1>2
  <2> HIDE DEF v
  <2> QED
    BY <1>2, <1>3, <2>1, <2>2, <2>3 DEF Reads
<1>6. CASE K!check_generation(r)
  <2> PICK pc \in {"ticks", "start"} :
         reader[r].pc = "check" /\ reader' = [reader EXCEPT ![r] = [reader[r] EXCEPT !.pc = pc]]
    BY <1>6 DEF K!check_generation, K!step
  <2> DEFINE v == [reader[r] EXCEPT !.pc = pc]
  <2>1. v.since = reader[r].since /\ v.th = reader[r].th /\ v.pc = pc
    BY <1>2
  <2>2. v \in [pc : {"start", "gen", "check", "ticks", "data", "done"},
               th : K!Slot, gen : Nat, ticks : Nat, data : Nat, since : Nat]
    BY <1>2
  <2>3. reader' = [reader EXCEPT ![r] = v]
    OBVIOUS
  <2> HIDE DEF v
  <2> QED
    BY <1>2, <1>3, <2>1, <2>2, <2>3 DEF Reads
<1>7. CASE K!read_ticks(r)
  <2> DEFINE v == [reader[r] EXCEPT !.ticks = timehands[reader[r].th].ticks, !.pc = "data"]
  <2>1. reader' = [reader EXCEPT ![r] = v] /\ reader[r].pc = "ticks"
    BY <1>7 DEF K!read_ticks, K!step
  <2>2. v.since = reader[r].since /\ v.th = reader[r].th /\ v.pc = "data"
        /\ v.ticks = timehands[reader[r].th].ticks
    BY <1>2
  <2>3. v \in [pc : {"start", "gen", "check", "ticks", "data", "done"},
               th : K!Slot, gen : Nat, ticks : Nat, data : Nat, since : Nat]
    BY <1>2
  <2> HIDE DEF v
  <2> QED
    BY <1>2, <1>3, <2>1, <2>2, <2>3 DEF Reads
<1>8. CASE K!read_data(r)
  <2> DEFINE v == [reader[r] EXCEPT !.data = timehands[reader[r].th].data, !.pc = "done"]
  <2>1. reader' = [reader EXCEPT ![r] = v] /\ reader[r].pc = "data"
    BY <1>8 DEF K!read_data, K!step
  <2>2. v.since = reader[r].since /\ v.th = reader[r].th /\ v.pc = "done"
        /\ v.ticks = reader[r].ticks /\ v.data = timehands[reader[r].th].data
    BY <1>2
  <2>3. v \in [pc : {"start", "gen", "check", "ticks", "data", "done"},
               th : K!Slot, gen : Nat, ticks : Nat, data : Nat, since : Nat]
    BY <1>2
  <2>4. reader[r].since < Slots - 1 => timehands[reader[r].th].ticks = timehands[reader[r].th].data
    BY <1>2, <2>1, SlotKept DEF Whole
  <2> HIDE DEF v
  <2> QED
    BY <1>2, <1>3, <2>1, <2>2, <2>3, <2>4 DEF Reads
<1>9. CASE K!return(r)
  <2>1. reader' = [reader EXCEPT ![r] = [K!Idle EXCEPT !.pc = "start"]]
    BY <1>9 DEF K!return, K!step
  <2>2. [K!Idle EXCEPT !.pc = "start"] = K!Idle /\ K!Idle.pc = "start"
        /\ K!Idle \in [pc : {"start", "gen", "check", "ticks", "data", "done"},
                       th : K!Slot, gen : Nat, ticks : Nat, data : Nat, since : Nat]
    BY <1>2 DEF K!Idle
  <2> QED
    BY <1>3, <2>1, <2>2
<1> QED
  BY <1>4, <1>5, <1>6, <1>7, <1>8, <1>9 DEF K!Now

\* The steps of the other components leave the clock alone.
LEMMA KeeperStep ==
    ASSUME KInv, [MCNext]_all
    PROVE  KInv'
<1>1. CASE K!Next
  BY <1>1, KeeperSync, KeeperRead DEF K!Next
<1>2. CASE UNCHANGED kvars
  BY <1>2 DEF kvars, KInv, K!TypeOK, KeeperAt, Whole, Filling, Reads
<1> QED
  BY <1>1, <1>2 DEF MCNext, all

\* realtime::now() (chrono.hpp:86) computes the time from the parts of one sync, unless all
\* other timehands were published while it was read, for any number of readers and slots.
THEOREM TimeFromOneSync == MCSpec => []OneSync
<1>1. MCInit => KInv
  BY KeeperInit DEF MCInit
<1>2. KInv => OneSync
  BY DEF KInv, Reads, OneSync, K!OneSync
<1> QED
  BY <1>1, <1>2, KeeperStep, PTL DEF MCSpec

-----------------------------------------------------------------------------
(* The profiles.                                                           *)

\* The records of the schedulers.
Schedulers ==
    [pc : {"none", "begin", "countdown", "entry", "create", "start", "toggle", "delete_new",
           "stats_prev", "delete_prev", "wait", "stop", "stop_stats", "stop_delete", "done"},
     i : 1..Entries + 1, entry : 0..Entries, prev : 0..Entries, res : {"next", "READY", "ERROR"}]

ProfileTypes ==
    /\ state \in [T!Parts -> T!States] /\ sched \in [T!Parts -> Schedulers]
    /\ results \in [T!Parts -> Seq(1..Entries)]
    /\ gens \in [T!Parts -> SUBSET (1..Entries)]
    /\ failed \in [T!Parts -> SUBSET T!Requests]

\* What is stored for an entry is that entry's.
Matched(p) == \A k \in 1..Len(results[p]) : results[p][k] = k

\* Where scheduler p is in its series, and how much it has stored.
Series(p) ==
    /\ sched[p].pc \in {"begin", "countdown"} =>
          Len(results[p]) = 0 /\ sched[p].i = 1 /\ sched[p].entry = 0
    /\ sched[p].pc \in {"entry", "create", "start", "toggle", "delete_new"} =>
          /\ Len(results[p]) = sched[p].i - 1
          /\ sched[p].entry = 0 \/ sched[p].entry = sched[p].i - 1
          /\ sched[p].entry # 0 \/ sched[p].pc # "entry" => sched[p].i <= Entries
    /\ sched[p].pc = "start" => sched[p].entry = 0
    /\ sched[p].pc = "toggle" => sched[p].entry # 0
    /\ sched[p].pc = "stats_prev" =>
          /\ Len(results[p]) = sched[p].prev /\ sched[p].prev # 0
          /\ sched[p].entry = sched[p].i /\ sched[p].prev = sched[p].i - 1
    /\ sched[p].pc = "delete_prev" =>
          /\ Len(results[p]) = sched[p].i
          /\ sched[p].entry = sched[p].i /\ sched[p].prev = sched[p].i - 1
    /\ sched[p].pc = "wait" => Len(results[p]) = sched[p].i /\ sched[p].entry = sched[p].i
    /\ sched[p].pc \in {"stop", "stop_stats", "stop_delete"} =>
          /\ Len(results[p]) = sched[p].entry /\ sched[p].entry # 0
          /\ sched[p].res = "next" => sched[p].entry = sched[p].i

\* Only requests that leave nothing behind have failed.
Excused(p) == failed[p] \subseteq {"create", "start", "toggle"}

\* The generators that it has made and must still delete.
Owned(p) ==
    /\ sched[p].pc \in {"none", "begin", "countdown", "done"} => gens[p] = {}
    /\ sched[p].pc \in {"entry", "create", "wait", "stop", "stop_stats", "stop_delete"} =>
          gens[p] = {sched[p].entry} \ {0}
    /\ sched[p].pc \in {"start", "toggle", "delete_new"} =>
          gens[p] = {sched[p].i} \cup ({sched[p].entry} \ {0})
    /\ sched[p].pc \in {"stats_prev", "delete_prev"} =>
          gens[p] = {sched[p].entry} \cup ({sched[p].prev} \ {0})

Part(p) ==
    /\ Matched(p) /\ Series(p)
    /\ sched[p].pc \notin {"none", "done"} => state[p] \in T!Running
    /\ Excused(p) => Owned(p)

TInv == ProfileTypes /\ \A p \in T!Parts : Part(p)

\* An update of the last result with the statistics of its own entry changes nothing that
\* can be told apart.
LEMMA UpdateMatched ==
    ASSUME TInv, NEW p \in T!Parts, NEW e, Len(results[p]) = e, e # 0
    PROVE  T!UPDATE(p, e) = results[p]
<1>1. results[p] \in Seq(1..Entries) /\ Matched(p) /\ Len(results[p]) \in Nat
  BY LenProperties DEF TInv, ProfileTypes, Part
<1>2. e \in 1..Len(results[p]) /\ results[p][e] = e
  BY <1>1 DEF Matched
<1> DEFINE R == results[p]
<1>3. R \in [1..Len(R) -> 1..Entries]
  BY <1>1, LenProperties
<1> HIDE DEF R
<1>4. [R EXCEPT ![e] = R[e]] = R
  BY <1>3
<1> QED
  BY <1>2, <1>4 DEF R, T!UPDATE

\* The next result is that of the next entry.
LEMMA AppendMatched ==
    ASSUME TInv, NEW p \in T!Parts, NEW e \in 1..Entries, Len(results[p]) = e - 1
    PROVE  /\ Append(results[p], e) \in Seq(1..Entries)
           /\ Len(Append(results[p], e)) = e
           /\ \A k \in 1..Len(Append(results[p], e)) : Append(results[p], e)[k] = k
<1>1. results[p] \in Seq(1..Entries) /\ Matched(p) /\ Len(results[p]) \in Nat
  BY LenProperties DEF TInv, ProfileTypes, Part
<1>2. /\ Append(results[p], e) \in Seq(1..Entries)
      /\ Len(Append(results[p], e)) = Len(results[p]) + 1
      /\ \A k \in 1..Len(results[p]) : Append(results[p], e)[k] = results[p][k]
      /\ Append(results[p], e)[Len(results[p]) + 1] = e
  BY <1>1, AppendProperties
<1>3. Len(Append(results[p], e)) = e
  BY <1>2
<1> QED
  BY <1>1, <1>2, <1>3 DEF Matched

\* A step of the scheduler of part p leaves the others alone.
Aside(p) ==
    /\ state' \in [T!Parts -> T!States] /\ sched' \in [T!Parts -> Schedulers]
    /\ results' \in [T!Parts -> Seq(1..Entries)]
    /\ gens' \in [T!Parts -> SUBSET (1..Entries)]
    /\ failed' \in [T!Parts -> SUBSET T!Requests]
    /\ \A q \in T!Parts : q # p =>
          /\ sched'[q] = sched[q] /\ state'[q] = state[q] /\ results'[q] = results[q]
          /\ gens'[q] = gens[q] /\ failed'[q] = failed[q]

\* It is enough to look at part p.
LEMMA PartStep ==
    ASSUME TInv, NEW p \in T!Parts, Aside(p), Part(p)'
    PROVE  TInv'
<1>1. ProfileTypes'
  BY DEF Aside, ProfileTypes
<1>2. ASSUME NEW q \in T!Parts, q # p PROVE Part(q)'
  <2>1. /\ sched'[q] = sched[q] /\ state'[q] = state[q] /\ results'[q] = results[q]
        /\ gens'[q] = gens[q] /\ failed'[q] = failed[q] /\ Part(q)
    BY <1>2 DEF TInv, Aside
  <2> QED
    BY <2>1 DEF Part, Matched, Series, Owned, Excused
<1> QED
  BY <1>1, <1>2 DEF TInv, T!Parts

\* What is known of a part.
LEMMA PartTypes ==
    ASSUME TInv, NEW p \in T!Parts
    PROVE  /\ Part(p) /\ sched[p] \in Schedulers /\ state[p] \in T!States
           /\ results[p] \in Seq(1..Entries) /\ Len(results[p]) \in Nat
           /\ gens[p] \in SUBSET (1..Entries) /\ failed[p] \in SUBSET T!Requests
           /\ sched[p].i \in 1..Entries + 1 /\ sched[p].entry \in 0..Entries
           /\ sched[p].prev \in 0..Entries /\ Entries \in Nat \ {0}
BY GeneratorsAssumption, LenProperties DEF TInv, ProfileTypes, Schedulers, T!TvlpAssumption

\* One scheduler moves.
LEMMA Moved ==
    ASSUME TInv, NEW p \in T!Parts, NEW s \in Schedulers, sched' = [sched EXCEPT ![p] = s]
    PROVE  /\ sched' \in [T!Parts -> Schedulers] /\ sched'[p] = s
           /\ \A q \in T!Parts : q # p => sched'[q] = sched[q]
BY DEF TInv, ProfileTypes

\* Up to the start time.
LEMMA Begin ==
    ASSUME TInv, NEW p \in T!Parts, T!begin(p) \/ T!countdown(p) \/ T!arrive(p)
    PROVE  TInv'
<1>1. /\ Part(p) /\ sched[p] \in Schedulers
      /\ \E pc \in {"countdown", "entry", "done"}, st \in T!States :
           /\ pc # "done" => st \in T!Running
           /\ sched[p].pc \in {"begin", "countdown"}
           /\ sched' = [sched EXCEPT ![p].pc = pc] /\ state' = [state EXCEPT ![p] = st]
           /\ UNCHANGED <<gens, results, failed>>
  BY PartTypes DEF T!begin, T!countdown, T!arrive, T!return, T!Go, T!keep_results, T!no_fault,
                   T!States, T!Running
<1>2. PICK pc \in {"countdown", "entry", "done"}, st \in T!States :
         /\ pc # "done" => st \in T!Running
         /\ sched[p].pc \in {"begin", "countdown"}
         /\ sched' = [sched EXCEPT ![p].pc = pc] /\ state' = [state EXCEPT ![p] = st]
         /\ UNCHANGED <<gens, results, failed>>
  BY <1>1
<1>3. Aside(p)
  BY <1>2 DEF Aside, TInv, ProfileTypes, Schedulers
<1>4. /\ sched'[p].pc = pc /\ sched'[p].i = sched[p].i /\ sched'[p].entry = sched[p].entry
      /\ state'[p] = st /\ gens'[p] = gens[p] /\ results'[p] = results[p] /\ failed'[p] = failed[p]
  BY <1>2 DEF TInv, ProfileTypes, Schedulers
<1>5. Part(p)'
  BY <1>1, <1>2, <1>4 DEF Part, Matched, Series, Owned, Excused
<1> QED
  BY <1>3, <1>5, PartStep

\* What a step leaves alone, in the form of one that it changes.
LEMMA Unstored ==
    ASSUME ProfileTypes, NEW p \in T!Parts
    PROVE  gens = [gens EXCEPT ![p] = gens[p]] /\ failed = [failed EXCEPT ![p] = failed[p]]
BY DEF ProfileTypes

\* do_entry_stop() if there is an entry, or the end.
LEMMA StopAndReturn ==
    ASSUME TInv, NEW p \in T!Parts, NEW s \in {"READY", "ERROR"}, T!stop_and_return(p, s),
           NEW g \in SUBSET (1..Entries), NEW f \in SUBSET T!Requests, UNCHANGED results,
           gens' = [gens EXCEPT ![p] = g], failed' = [failed EXCEPT ![p] = f],
           f \subseteq {"create", "start", "toggle"} => g = {sched[p].entry} \ {0},
           sched[p].pc \in {"entry", "create", "delete_new"}
    PROVE  TInv'
<1>1. /\ Part(p) /\ sched[p] \in Schedulers
      /\ sched[p].entry \in 0..Entries
  BY PartTypes
<1>2. gens'[p] = g /\ failed'[p] = f /\ results'[p] = results[p]
  BY DEF TInv, ProfileTypes
<1>3. CASE sched[p].entry # 0
  <2>1. sched' = [sched EXCEPT ![p].pc = "stop", ![p].res = s] /\ UNCHANGED state
    BY <1>3 DEF T!stop_and_return
  <2>2. Aside(p)
    <3> DEFINE t == [sched[p] EXCEPT !.pc = "stop", !.res = s]
    <3>1. t \in Schedulers
      BY <2>1, PartTypes DEF Schedulers
    <3>2. sched' = [sched EXCEPT ![p] = t]
      BY <2>1 DEF T!Go
    <3> HIDE DEF t
    <3>3. sched' \in [T!Parts -> Schedulers] /\ \A q \in T!Parts : q # p => sched'[q] = sched[q]
      BY <3>1, <3>2, Moved
    <3> QED
      BY <2>1, <3>3 DEF Aside, TInv, ProfileTypes
  <2>3. sched'[p].pc = "stop" /\ sched'[p].res = s /\ sched'[p].entry = sched[p].entry /\ state'[p] = state[p]
    BY <2>1 DEF TInv, ProfileTypes, Schedulers
  <2>4. Part(p)'
    BY <1>1, <1>2, <1>3, <2>3 DEF Part, Matched, Series, Owned, Excused
  <2> QED
    BY <2>2, <2>4, PartStep
<1>4. CASE sched[p].entry = 0
  <2>1. sched' = [sched EXCEPT ![p].pc = "done"] /\ state' = [state EXCEPT ![p] = s]
    BY <1>4 DEF T!stop_and_return, T!return, T!Go
  <2>2. Aside(p)
    BY <2>1 DEF Aside, TInv, ProfileTypes, Schedulers, T!States
  <2>3. sched'[p].pc = "done" /\ state'[p] = s
    BY <2>1 DEF TInv, ProfileTypes, Schedulers
  <2>4. Part(p)'
    BY <1>1, <1>2, <1>4, <2>3 DEF Part, Matched, Series, Owned, Excused
  <2> QED
    BY <2>2, <2>4, PartStep
<1> QED
  BY <1>3, <1>4

\* The head of the loop.
LEMMA NextEntry ==
    ASSUME TInv, NEW p \in T!Parts, T!next_entry(p)
    PROVE  TInv'
<1>1. /\ Part(p) /\ sched[p] \in Schedulers /\ sched[p].i \in 1..Entries + 1 /\ Entries \in Nat
      /\ gens[p] \in SUBSET (1..Entries) /\ failed[p] \in SUBSET T!Requests
  BY PartTypes
<1>2. sched[p].pc = "entry" /\ UNCHANGED <<gens, results, failed>>
  BY DEF T!next_entry, T!keep_results, T!no_fault
<1>3. CASE sched[p].i > Entries
  <2>1. sched' = [sched EXCEPT ![p].pc = "done"] /\ state' = [state EXCEPT ![p] = "READY"]
    BY <1>3 DEF T!next_entry, T!return, T!Go
  <2>2. Aside(p)
    BY <1>2, <2>1 DEF Aside, TInv, ProfileTypes, Schedulers, T!States
  <2>3. sched'[p].pc = "done"
    BY <2>1 DEF TInv, ProfileTypes, Schedulers
  <2>4. sched[p].entry = 0
    BY <1>1, <1>2, <1>3 DEF Part, Series
  <2>5. Part(p)'
    BY <1>1, <1>2, <2>3, <2>4 DEF Part, Matched, Series, Owned, Excused
  <2> QED
    BY <2>2, <2>5, PartStep
<1>4. CASE sched[p].i <= Entries /\ T!stop_and_return(p, "READY")
  <2>1. Excused(p) => gens[p] = {sched[p].entry} \ {0}
    BY <1>1, <1>2 DEF Part, Owned
  <2>2. gens' = [gens EXCEPT ![p] = gens[p]] /\ failed' = [failed EXCEPT ![p] = failed[p]]
    BY <1>2, Unstored DEF TInv
  <2> QED
    BY <1>1, <1>2, <1>4, <2>1, <2>2, StopAndReturn DEF Excused
<1>5. CASE sched[p].i <= Entries /\ sched' = [sched EXCEPT ![p].pc = "create"] /\ UNCHANGED state
  <2>1. Aside(p)
    BY <1>2, <1>5 DEF Aside, TInv, ProfileTypes, Schedulers
  <2>2. sched'[p].pc = "create" /\ sched'[p].i = sched[p].i /\ sched'[p].entry = sched[p].entry
    BY <1>5 DEF TInv, ProfileTypes, Schedulers
  <2>3. Part(p)'
    BY <1>1, <1>2, <1>5, <2>2 DEF Part, Matched, Series, Owned, Excused
  <2> QED
    BY <2>1, <2>3, PartStep
<1> QED
  BY <1>1, <1>3, <1>4, <1>5 DEF T!next_entry, T!Go

\* A generator is made for the entry.
LEMMA Create ==
    ASSUME TInv, NEW p \in T!Parts, T!create(p)
    PROVE  TInv'
<1>1. /\ Part(p) /\ sched[p] \in Schedulers /\ sched[p].i \in 1..Entries + 1 /\ Entries \in Nat
      /\ gens[p] \in SUBSET (1..Entries) /\ failed[p] \in SUBSET T!Requests
      /\ sched[p].entry \in 0..Entries
  BY PartTypes
<1>2. sched[p].pc = "create" /\ UNCHANGED results
  BY DEF T!create, T!keep_results
<1>3. CASE /\ gens' = [gens EXCEPT ![p] = @ \union {sched[p].i}]
           /\ sched' = T!Go(p, IF sched[p].entry = 0 THEN "start" ELSE "toggle")
           /\ UNCHANGED <<state, failed>>
  <2>1. sched[p].i \in 1..Entries
    BY <1>1, <1>2 DEF Part, Series
  <2>2. Aside(p)
    <3> DEFINE s == [sched[p] EXCEPT !.pc = IF sched[p].entry = 0 THEN "start" ELSE "toggle"]
    <3>1. s \in Schedulers
      BY <1>2, <1>3, <2>1, PartTypes DEF Schedulers
    <3>2. sched' = [sched EXCEPT ![p] = s]
      BY <1>2, <1>3, <2>1 DEF T!Go
    <3> HIDE DEF s
    <3>3. sched' \in [T!Parts -> Schedulers] /\ \A q \in T!Parts : q # p => sched'[q] = sched[q]
      BY <3>1, <3>2, Moved
    <3> QED
      BY <1>2, <1>3, <2>1, <3>3 DEF Aside, TInv, ProfileTypes
  <2>3. /\ sched'[p].pc = (IF sched[p].entry = 0 THEN "start" ELSE "toggle")
        /\ sched'[p].i = sched[p].i /\ sched'[p].entry = sched[p].entry
        /\ gens'[p] = gens[p] \cup {sched[p].i}
    BY <1>3 DEF TInv, ProfileTypes, Schedulers, T!Go
  <2>4. Matched(p)' /\ Series(p)'
    BY <1>1, <1>2, <2>1, <2>3 DEF Part, Matched, Series
  <2>5. Part(p)'
    BY <1>1, <1>2, <1>3, <2>3, <2>4 DEF Part, Owned, Excused
  <2> QED
    BY <2>2, <2>5, PartStep
<1>4. CASE T!fault(p, "create") /\ T!stop_and_return(p, "ERROR") /\ UNCHANGED gens
  <2> DEFINE f == failed[p] \cup {"create"}
  <2>1. failed' = [failed EXCEPT ![p] = f] /\ f \in SUBSET T!Requests
    BY <1>1, <1>4 DEF T!fault, T!Requests
  <2>2. Excused(p) => gens[p] = {sched[p].entry} \ {0}
    BY <1>1, <1>2 DEF Part, Owned
  <2>3. gens' = [gens EXCEPT ![p] = gens[p]]
    BY <1>4, Unstored DEF TInv
  <2>4. f \subseteq {"create", "start", "toggle"} => gens[p] = {sched[p].entry} \ {0}
    BY <2>2 DEF Excused
  <2> HIDE DEF f
  <2> QED
    BY <1>1, <1>2, <1>4, <2>1, <2>3, <2>4, StopAndReturn
<1> QED
  BY <1>3, <1>4 DEF T!create, T!no_fault

\* The generator of the entry is started, or was started by a toggle from the last.
LEMMA Start ==
    ASSUME TInv, NEW p \in T!Parts, T!start(p) \/ T!toggle(p)
    PROVE  TInv'
<1>1. /\ Part(p) /\ sched[p] \in Schedulers /\ sched[p].i \in 1..Entries + 1 /\ Entries \in Nat
      /\ gens[p] \in SUBSET (1..Entries) /\ failed[p] \in SUBSET T!Requests
      /\ sched[p].entry \in 0..Entries /\ results[p] \in Seq(1..Entries)
  BY PartTypes
<1>2. sched[p].pc \in {"start", "toggle"} /\ UNCHANGED <<state, gens>>
  BY DEF T!start, T!toggle
<1>3. sched[p].i \in 1..Entries /\ Len(results[p]) = sched[p].i - 1
  BY <1>1, <1>2 DEF Part, Series
<1>4. CASE /\ sched[p].pc = "start" /\ UNCHANGED failed
           /\ sched' = [sched EXCEPT ![p].pc = "wait", ![p].entry = sched[p].i]
           /\ results' = [results EXCEPT ![p] = Append(results[p], sched[p].i)]
  <2> DEFINE R == Append(results[p], sched[p].i)
  <2>1. R \in Seq(1..Entries) /\ Len(R) = sched[p].i /\ \A k \in 1..Len(R) : R[k] = k
    BY <1>3, AppendMatched
  <2>2. results' = [results EXCEPT ![p] = R]
    BY <1>4
  <2> HIDE DEF R
  <2>3. Aside(p)
    <3> DEFINE s == [sched[p] EXCEPT !.pc = "wait", !.entry = sched[p].i]
    <3>1. s \in Schedulers
      <4>1. sched[p] \in Schedulers /\ sched[p].i \in 0..Entries /\ sched[p].entry \in 0..Entries
        BY <1>1, <1>3
      <4> QED
        BY <4>1 DEF Schedulers
    <3>2. sched' = [sched EXCEPT ![p] = s]
      BY <1>2, <1>3, <1>4, <2>1, <2>2 DEF T!Go
    <3> HIDE DEF s
    <3>3. sched' \in [T!Parts -> Schedulers] /\ \A q \in T!Parts : q # p => sched'[q] = sched[q]
      BY <3>1, <3>2, Moved
    <3> QED
      BY <1>2, <1>3, <1>4, <2>1, <2>2, <3>3 DEF Aside, TInv, ProfileTypes
  <2>4. /\ sched'[p].pc = "wait" /\ sched'[p].i = sched[p].i /\ sched'[p].entry = sched[p].i
        /\ results'[p] = R
    BY <1>4, <2>2 DEF TInv, ProfileTypes, Schedulers
  <2>5. Matched(p)' /\ Series(p)'
    BY <1>1, <2>1, <2>4 DEF Part, Matched, Series
  <2>6. Excused(p)' => Owned(p)'
    <3>1. sched[p].entry = 0 /\ sched[p].i # 0 /\ failed' = failed /\ gens' = gens
      BY <1>1, <1>2, <1>3, <1>4 DEF Part, Series
    <3>2. Excused(p) => gens[p] = {sched[p].i}
      BY <1>1, <1>4, <3>1 DEF Part, Owned
    <3> QED
      BY <2>4, <3>1, <3>2 DEF Owned, Excused
  <2>7. Part(p)'
    BY <1>1, <1>2, <2>5, <2>6 DEF Part
  <2> QED
    BY <2>3, <2>7, PartStep
<1>5. CASE /\ sched[p].pc = "toggle" /\ UNCHANGED <<failed, results>>
           /\ sched' = [sched EXCEPT ![p].pc = "stats_prev", ![p].entry = sched[p].i,
                                     ![p].prev = sched[p].entry]
  <2>1. Aside(p)
    <3> DEFINE s == [sched[p] EXCEPT !.pc = "stats_prev", !.entry = sched[p].i, !.prev = sched[p].entry]
    <3>1. s \in Schedulers
      <4>1. sched[p] \in Schedulers /\ sched[p].i \in 0..Entries /\ sched[p].entry \in 0..Entries
        BY <1>1, <1>3
      <4> QED
        BY <4>1 DEF Schedulers
    <3>2. sched' = [sched EXCEPT ![p] = s]
      BY <1>1, <1>2, <1>3, <1>5 DEF T!Go
    <3> HIDE DEF s
    <3>3. sched' \in [T!Parts -> Schedulers] /\ \A q \in T!Parts : q # p => sched'[q] = sched[q]
      BY <3>1, <3>2, Moved
    <3> QED
      BY <1>1, <1>2, <1>3, <1>5, <3>3 DEF Aside, TInv, ProfileTypes
  <2>2. /\ sched'[p].pc = "stats_prev" /\ sched'[p].i = sched[p].i /\ sched'[p].entry = sched[p].i
        /\ sched'[p].prev = sched[p].entry
    BY <1>5 DEF TInv, ProfileTypes, Schedulers
  <2>3. Matched(p)' /\ Series(p)'
    BY <1>1, <1>3, <1>5, <2>2 DEF Part, Matched, Series
  <2>4. Excused(p)' => Owned(p)'
    BY <1>1, <1>2, <1>5, <2>2 DEF Part, Owned, Excused
  <2>5. Part(p)'
    BY <1>1, <1>2, <2>3, <2>4 DEF Part
  <2> QED
    BY <2>1, <2>5, PartStep
<1>6. ASSUME NEW r \in {"start", "toggle"}, T!fault(p, r), sched' = T!Go(p, "delete_new"), UNCHANGED results
      PROVE  TInv'
  <2>1. failed' = [failed EXCEPT ![p] = @ \cup {r}] /\ sched' = [sched EXCEPT ![p].pc = "delete_new"]
        /\ r \in T!Requests
    BY <1>6 DEF T!fault, T!Go, T!Requests
  <2>2. Aside(p)
    <3> DEFINE s == [sched[p] EXCEPT !.pc = "delete_new"]
    <3>1. s \in Schedulers
      BY <1>2, <1>6, <2>1, PartTypes DEF Schedulers
    <3>2. sched' = [sched EXCEPT ![p] = s]
      BY <1>2, <1>6, <2>1 DEF T!Go
    <3> HIDE DEF s
    <3>3. sched' \in [T!Parts -> Schedulers] /\ \A q \in T!Parts : q # p => sched'[q] = sched[q]
      BY <3>1, <3>2, Moved
    <3> QED
      BY <1>2, <1>6, <2>1, <3>3 DEF Aside, TInv, ProfileTypes
  <2>3. /\ sched'[p].pc = "delete_new" /\ sched'[p].i = sched[p].i /\ sched'[p].entry = sched[p].entry
        /\ failed'[p] = failed[p] \cup {r}
    BY <2>1 DEF TInv, ProfileTypes, Schedulers
  <2>4. Matched(p)' /\ Series(p)'
    BY <1>1, <1>2, <1>6, <2>3 DEF Part, Matched, Series
  <2>5. Excused(p)' => Excused(p)
    BY <2>3 DEF Excused
  <2>6. Excused(p)' => Owned(p)'
    BY <1>1, <1>2, <2>3, <2>5 DEF Part, Owned
  <2>7. Part(p)'
    BY <1>1, <1>2, <2>4, <2>6 DEF Part
  <2> QED
    BY <2>2, <2>7, PartStep
<1> QED
  BY <1>4, <1>5, <1>6
     DEF T!start, T!toggle, T!store_results, T!ADD, T!keep_results, T!no_fault

\* The generator that could not be started is deleted, or is one that is left behind.
LEMMA DeleteNew ==
    ASSUME TInv, NEW p \in T!Parts, T!delete_new(p)
    PROVE  TInv'
<1>1. /\ Part(p) /\ sched[p].i \in 1..Entries + 1 /\ sched[p].entry \in 0..Entries
      /\ gens[p] \in SUBSET (1..Entries) /\ failed[p] \in SUBSET T!Requests
  BY PartTypes
<1>2. sched[p].pc = "delete_new" /\ UNCHANGED results /\ T!stop_and_return(p, "ERROR")
  BY DEF T!delete_new, T!keep_results
<1>3. CASE gens' = [gens EXCEPT ![p] = @ \ {sched[p].i}] /\ UNCHANGED failed
  <2> DEFINE g == gens[p] \ {sched[p].i}
  <2>1. gens' = [gens EXCEPT ![p] = g] /\ g \in SUBSET (1..Entries)
    BY <1>1, <1>3
  <2>2. failed' = [failed EXCEPT ![p] = failed[p]]
    BY <1>3, Unstored DEF TInv
  <2>3. Excused(p) => g = {sched[p].entry} \ {0}
    <3>1. sched[p].entry # sched[p].i
      BY <1>1, <1>2 DEF Part, Series
    <3>2. Excused(p) => gens[p] = {sched[p].i} \cup ({sched[p].entry} \ {0})
      BY <1>1, <1>2 DEF Part, Owned
    <3> QED
      BY <3>1, <3>2
  <2> HIDE DEF g
  <2> QED
    BY <1>1, <1>2, <2>1, <2>2, <2>3, StopAndReturn DEF Excused
<1>4. CASE failed' = [failed EXCEPT ![p] = @ \union {"delete"}] /\ UNCHANGED gens
  <2> DEFINE f == failed[p] \cup {"delete"}
  <2>1. failed' = [failed EXCEPT ![p] = f] /\ f \in SUBSET T!Requests
    BY <1>1, <1>4 DEF T!Requests
  <2>2. gens' = [gens EXCEPT ![p] = gens[p]]
    BY <1>4, Unstored DEF TInv
  <2>3. ~(f \subseteq {"create", "start", "toggle"})
    OBVIOUS
  <2> HIDE DEF f
  <2> QED
    BY <1>1, <1>2, <2>1, <2>2, <2>3, StopAndReturn
<1> QED
  BY <1>3, <1>4 DEF T!delete_new

\* The result of the entry before is brought up to date and that of the new one added.
LEMMA StatsPrev ==
    ASSUME TInv, NEW p \in T!Parts, T!stats_prev(p)
    PROVE  TInv'
<1>1. /\ Part(p) /\ sched[p] \in Schedulers /\ sched[p].i \in 1..Entries + 1 /\ Entries \in Nat
      /\ gens[p] \in SUBSET (1..Entries) /\ failed[p] \in SUBSET T!Requests
      /\ sched[p].entry \in 0..Entries
  BY PartTypes
<1>2. sched[p].pc = "stats_prev" /\ UNCHANGED <<state, gens>>
  BY DEF T!stats_prev
<1>3. /\ sched[p].i \in 1..Entries /\ sched[p].entry = sched[p].i /\ sched[p].prev # 0
      /\ Len(results[p]) = sched[p].i - 1 /\ Len(results[p]) = sched[p].prev
  BY <1>1, <1>2 DEF Part, Series
<1> DEFINE R == Append(results[p], sched[p].i)
<1>4. R \in Seq(1..Entries) /\ Len(R) = sched[p].i /\ \A k \in 1..Len(R) : R[k] = k
  BY <1>3, AppendMatched
<1>5. T!after_toggle(p, TRUE) = R /\ T!after_toggle(p, FALSE) = R
  BY <1>3, UpdateMatched DEF T!after_toggle
<1> HIDE DEF R
<1>6. /\ results' = [results EXCEPT ![p] = R]
      /\ \E r \in {"next", "ERROR"} : sched' = [sched EXCEPT ![p].pc = "delete_prev", ![p].res = r]
      /\ UNCHANGED failed \/ failed' = [failed EXCEPT ![p] = @ \union {"stat"}]
  BY <1>5 DEF T!stats_prev, T!store_results, T!no_fault, T!fault
<1>7. PICK r \in {"next", "ERROR"} : sched' = [sched EXCEPT ![p].pc = "delete_prev", ![p].res = r]
  BY <1>6
<1> DEFINE s == [sched[p] EXCEPT !.pc = "delete_prev", !.res = r]
<1>8. s \in Schedulers /\ sched' = [sched EXCEPT ![p] = s]
      /\ s.pc = "delete_prev" /\ s.i = sched[p].i /\ s.entry = sched[p].entry /\ s.prev = sched[p].prev
  BY <1>1, <1>7 DEF Schedulers
<1> HIDE DEF s
<1>9. /\ sched' \in [T!Parts -> Schedulers] /\ sched'[p] = s
      /\ \A q \in T!Parts : q # p => sched'[q] = sched[q]
  BY <1>8, Moved
<1>10. failed' \in [T!Parts -> SUBSET T!Requests] /\ failed[p] \subseteq failed'[p]
       /\ \A q \in T!Parts : q # p => failed'[q] = failed[q]
  BY <1>6 DEF TInv, ProfileTypes, T!Requests
<1>11. Aside(p) /\ results'[p] = R
  BY <1>2, <1>4, <1>6, <1>9, <1>10 DEF Aside, TInv, ProfileTypes
<1>12. Matched(p)' /\ Series(p)'
  BY <1>1, <1>2, <1>3, <1>4, <1>8, <1>9, <1>11 DEF Part, Matched, Series
<1>13. Excused(p)' => Owned(p)'
  BY <1>1, <1>2, <1>8, <1>9, <1>10 DEF Part, Owned, Excused
<1>14. Part(p)'
  BY <1>1, <1>2, <1>12, <1>13 DEF Part
<1> QED
  BY <1>11, <1>14, PartStep

\* The generator of the entry before is deleted.
LEMMA DeletePrev ==
    ASSUME TInv, NEW p \in T!Parts, T!delete_prev(p)
    PROVE  TInv'
<1>1. /\ Part(p) /\ sched[p] \in Schedulers /\ sched[p].i \in 1..Entries + 1 /\ Entries \in Nat
      /\ gens[p] \in SUBSET (1..Entries) /\ failed[p] \in SUBSET T!Requests
      /\ sched[p].entry \in 0..Entries
  BY PartTypes
<1>2. sched[p].pc = "delete_prev" /\ UNCHANGED <<state, results>>
  BY DEF T!delete_prev, T!keep_results
<1>3. /\ sched[p].entry = sched[p].i /\ sched[p].prev = sched[p].i - 1
      /\ Len(results[p]) = sched[p].i
  BY <1>1, <1>2 DEF Part, Series
<1>4. CASE /\ gens' = [gens EXCEPT ![p] = @ \ {sched[p].prev}] /\ UNCHANGED failed
           /\ sched' = T!Go(p, IF sched[p].res = "next" THEN "wait" ELSE "stop")
  <2> DEFINE s == [sched[p] EXCEPT !.pc = IF sched[p].res = "next" THEN "wait" ELSE "stop"]
  <2>1. s \in Schedulers /\ sched' = [sched EXCEPT ![p] = s]
        /\ s.pc = (IF sched[p].res = "next" THEN "wait" ELSE "stop")
        /\ s.i = sched[p].i /\ s.entry = sched[p].entry /\ s.res = sched[p].res
    BY <1>1, <1>4 DEF Schedulers, T!Go
  <2> HIDE DEF s
  <2>2. /\ sched' \in [T!Parts -> Schedulers] /\ sched'[p] = s
        /\ \A q \in T!Parts : q # p => sched'[q] = sched[q]
    BY <2>1, Moved
  <2>3. Aside(p) /\ gens'[p] = gens[p] \ {sched[p].prev}
    BY <1>2, <1>4, <2>2 DEF Aside, TInv, ProfileTypes
  <2>4. Matched(p)' /\ Series(p)'
    BY <1>1, <1>2, <1>3, <2>1, <2>2 DEF Part, Matched, Series
  <2>5. Excused(p)' => Owned(p)'
    <3>1. Excused(p) => gens[p] = {sched[p].entry} \cup ({sched[p].prev} \ {0})
      BY <1>1, <1>2 DEF Part, Owned
    <3>2. Excused(p) => gens'[p] = {sched[p].entry} \ {0}
      BY <1>1, <1>3, <2>3, <3>1
    <3> QED
      BY <1>4, <2>1, <2>2, <3>2 DEF Owned, Excused
  <2>6. Part(p)'
    BY <1>1, <1>2, <2>4, <2>5 DEF Part
  <2> QED
    BY <2>3, <2>6, PartStep
<1>5. CASE /\ T!fault(p, "delete") /\ UNCHANGED gens
           /\ sched' = [sched EXCEPT ![p].pc = "stop", ![p].res = "ERROR"]
  <2> DEFINE s == [sched[p] EXCEPT !.pc = "stop", !.res = "ERROR"]
  <2>1. s \in Schedulers /\ sched' = [sched EXCEPT ![p] = s]
        /\ s.pc = "stop" /\ s.i = sched[p].i /\ s.entry = sched[p].entry /\ s.res = "ERROR"
    BY <1>1, <1>5 DEF Schedulers
  <2> HIDE DEF s
  <2>2. /\ sched' \in [T!Parts -> Schedulers] /\ sched'[p] = s
        /\ \A q \in T!Parts : q # p => sched'[q] = sched[q]
    BY <2>1, Moved
  <2>3. failed' \in [T!Parts -> SUBSET T!Requests] /\ ~Excused(p)'
        /\ \A q \in T!Parts : q # p => failed'[q] = failed[q]
    BY <1>5 DEF TInv, ProfileTypes, T!Requests, T!fault, Excused
  <2>4. Aside(p)
    BY <1>2, <1>5, <2>2, <2>3 DEF Aside, TInv, ProfileTypes
  <2>5. Matched(p)' /\ Series(p)'
    BY <1>1, <1>2, <1>3, <2>1, <2>2 DEF Part, Matched, Series
  <2>6. Part(p)'
    BY <1>1, <1>2, <2>3, <2>5 DEF Part
  <2> QED
    BY <2>4, <2>6, PartStep
<1> QED
  BY <1>4, <1>5 DEF T!delete_prev, T!no_fault

\* The steps towards and through do_entry_stop(), up to its last request.
LEMMA Stopping ==
    ASSUME TInv, NEW p \in T!Parts, sched[p].pc \in {"wait", "stop", "stop_stats"},
           NEW s \in Schedulers, sched' = [sched EXCEPT ![p] = s],
           s.pc \in {"stop", "stop_stats", "stop_delete"}, s.i = sched[p].i, s.entry = sched[p].entry,
           s.res = "next" => sched[p].pc = "wait" \/ sched[p].res = "next",
           UNCHANGED <<state, gens, results>>,
           UNCHANGED failed \/ \E r \in T!Requests : failed' = [failed EXCEPT ![p] = @ \union {r}]
    PROVE  TInv'
<1>1. /\ Part(p) /\ sched[p].i \in 1..Entries + 1
  BY PartTypes
<1>2. /\ sched' \in [T!Parts -> Schedulers] /\ sched'[p] = s
      /\ \A q \in T!Parts : q # p => sched'[q] = sched[q]
  BY Moved
<1>3. failed' \in [T!Parts -> SUBSET T!Requests] /\ failed[p] \subseteq failed'[p]
      /\ \A q \in T!Parts : q # p => failed'[q] = failed[q]
  BY DEF TInv, ProfileTypes
<1>4. Aside(p)
  BY <1>2, <1>3 DEF Aside, TInv, ProfileTypes
<1>5. Matched(p)' /\ Series(p)'
  BY <1>1, <1>2 DEF Part, Matched, Series
<1>6. Excused(p)' => Owned(p)'
  BY <1>1, <1>2, <1>3 DEF Part, Owned, Excused
<1>7. Part(p)'
  BY <1>1, <1>5, <1>6 DEF Part
<1> QED
  BY <1>4, <1>7, PartStep

\* A request of do_entry_stop() has failed.
LEMMA StopFails ==
    ASSUME TInv, NEW p \in T!Parts, NEW r \in {"stop", "stat", "delete"}, T!stop_fails(p, r)
    PROVE  TInv'
<1> DEFINE s == [sched[p] EXCEPT !.pc = "done"]
<1>1. sched[p] \in Schedulers /\ Part(p)
  BY PartTypes
<1>2. PICK st \in {"READY", "ERROR"} :
        /\ failed' = [failed EXCEPT ![p] = @ \union {r}] /\ UNCHANGED <<gens, results>>
        /\ sched' = [sched EXCEPT ![p] = s] /\ state' = [state EXCEPT ![p] = st]
  BY DEF T!stop_fails, T!fault, T!return, T!Go, T!keep_results
<1>3. s \in Schedulers /\ s.pc = "done"
  BY <1>1 DEF Schedulers
<1> HIDE DEF s
<1>4. /\ sched' \in [T!Parts -> Schedulers] /\ sched'[p] = s
      /\ \A q \in T!Parts : q # p => sched'[q] = sched[q]
  BY <1>2, <1>3, Moved
<1>5. failed' \in [T!Parts -> SUBSET T!Requests] /\ ~Excused(p)'
      /\ \A q \in T!Parts : q # p => failed'[q] = failed[q]
  BY <1>2 DEF TInv, ProfileTypes, T!Requests, Excused
<1>6. Aside(p)
  BY <1>2, <1>4, <1>5 DEF Aside, TInv, ProfileTypes, T!States
<1>7. Matched(p)' /\ Series(p)'
  BY <1>1, <1>2, <1>3, <1>4 DEF Part, Matched, Series
<1>8. Part(p)'
  BY <1>3, <1>4, <1>5, <1>7 DEF Part
<1> QED
  BY <1>6, <1>8, PartStep

\* A store of the running entry's statistics over its own.
LEMMA StoredSame ==
    ASSUME TInv, NEW p \in T!Parts, sched[p].pc \in {"wait", "stop_stats"},
           T!store_results(p, T!UPDATE(p, sched[p].entry))
    PROVE  UNCHANGED results
<1>1. Len(results[p]) = sched[p].entry /\ sched[p].entry # 0
  BY PartTypes DEF Part, Series
<1>2. results' = [results EXCEPT ![p] = results[p]]
  BY <1>1, UpdateMatched DEF T!store_results
<1> QED
  BY <1>2 DEF TInv, ProfileTypes

\* Steps that touch none of it.
LEMMA TUnchanged ==
    ASSUME TInv, UNCHANGED <<state, sched, results, gens, failed>>
    PROVE  TInv'
BY DEF TInv, ProfileTypes, Part, Matched, Series, Owned, Excused

\* While the entry lasts.
LEMMA Poll ==
    ASSUME TInv, NEW p \in T!Parts, T!poll(p)
    PROVE  TInv'
<1>1. sched[p] \in Schedulers /\ sched[p].pc = "wait" /\ UNCHANGED <<state, gens>>
  BY PartTypes DEF T!poll
<1>2. ASSUME NEW r \in {"READY", "ERROR"}, sched' = [sched EXCEPT ![p].pc = "stop", ![p].res = r],
             UNCHANGED results, UNCHANGED failed \/ T!fault(p, "stat")
      PROVE  TInv'
  <2> DEFINE s == [sched[p] EXCEPT !.pc = "stop", !.res = r]
  <2>1. s \in Schedulers /\ sched' = [sched EXCEPT ![p] = s]
        /\ s.pc = "stop" /\ s.i = sched[p].i /\ s.entry = sched[p].entry /\ s.res = r
    BY <1>1, <1>2 DEF Schedulers
  <2>2. UNCHANGED failed \/ \E x \in T!Requests : failed' = [failed EXCEPT ![p] = @ \union {x}]
    BY <1>2 DEF T!fault, T!Requests
  <2> HIDE DEF s
  <2> QED
    BY <1>1, <1>2, <2>1, <2>2, Stopping
<1>3. CASE T!store_results(p, T!UPDATE(p, sched[p].entry)) /\ UNCHANGED <<sched, failed>>
  BY <1>1, <1>3, StoredSame, TUnchanged
<1> QED
  BY <1>2, <1>3 DEF T!poll, T!keep_results, T!no_fault

\* The entry has lasted long enough.
LEMMA Finish ==
    ASSUME TInv, NEW p \in T!Parts, T!finish(p)
    PROVE  TInv'
<1>1. /\ sched[p] \in Schedulers /\ sched[p].pc = "wait" /\ Part(p) /\ Entries \in Nat
      /\ sched[p].i \in 1..Entries + 1 /\ sched[p].entry \in 0..Entries
      /\ UNCHANGED <<state, gens, results, failed>>
  BY PartTypes DEF T!finish, T!keep_results, T!no_fault
<1>2. CASE sched' = [sched EXCEPT ![p].pc = "stop", ![p].res = "next"]
  <2> DEFINE s == [sched[p] EXCEPT !.pc = "stop", !.res = "next"]
  <2>1. s \in Schedulers /\ sched' = [sched EXCEPT ![p] = s]
        /\ s.pc = "stop" /\ s.i = sched[p].i /\ s.entry = sched[p].entry /\ s.res = "next"
    BY <1>1, <1>2 DEF Schedulers
  <2> HIDE DEF s
  <2> QED
    BY <1>1, <2>1, Stopping
<1>3. CASE sched[p].i < Entries /\ sched' = [sched EXCEPT ![p].pc = "entry", ![p].i = @ + 1]
  <2> DEFINE s == [sched[p] EXCEPT !.pc = "entry", !.i = sched[p].i + 1]
  <2>1. sched[p].i + 1 \in 1..Entries + 1
    BY <1>1, <1>3
  <2>2. s \in Schedulers /\ s.pc = "entry" /\ s.i = sched[p].i + 1 /\ s.entry = sched[p].entry
    BY <1>1, <2>1 DEF Schedulers
  <2>3. sched' = [sched EXCEPT ![p] = s]
    BY <1>3 DEF TInv, ProfileTypes, Schedulers
  <2> HIDE DEF s
  <2>4. /\ sched' \in [T!Parts -> Schedulers] /\ sched'[p] = s
        /\ \A q \in T!Parts : q # p => sched'[q] = sched[q]
    BY <2>2, <2>3, Moved
  <2>5. Aside(p)
    BY <1>1, <2>4 DEF Aside, TInv, ProfileTypes
  <2>6. Matched(p)' /\ Series(p)'
    BY <1>1, <1>3, <2>2, <2>4 DEF Part, Matched, Series
  <2>7. Excused(p)' => Owned(p)'
    BY <1>1, <2>2, <2>4 DEF Part, Owned, Excused
  <2>8. Part(p)'
    BY <1>1, <2>6, <2>7 DEF Part
  <2> QED
    BY <2>5, <2>8, PartStep
<1> QED
  BY <1>2, <1>3 DEF T!finish

\* The first two requests of do_entry_stop().
LEMMA SendStop ==
    ASSUME TInv, NEW p \in T!Parts, T!send_stop(p) \/ T!stop_stats(p)
    PROVE  TInv'
<1>1. sched[p] \in Schedulers /\ sched[p].pc \in {"stop", "stop_stats"}
  BY PartTypes DEF T!send_stop, T!stop_stats
<1>2. ASSUME NEW pc \in {"stop_stats", "stop_delete"}, sched' = T!Go(p, pc),
             UNCHANGED <<state, gens, results, failed>>
      PROVE  TInv'
  <2> DEFINE s == [sched[p] EXCEPT !.pc = pc]
  <2>1. s \in Schedulers /\ sched' = [sched EXCEPT ![p] = s]
        /\ s.pc = pc /\ s.i = sched[p].i /\ s.entry = sched[p].entry /\ s.res = sched[p].res
    BY <1>1, <1>2 DEF Schedulers, T!Go
  <2> HIDE DEF s
  <2> QED
    BY <1>1, <1>2, <2>1, Stopping
<1>3. CASE T!send_stop(p)
  BY <1>2, <1>3, StopFails DEF T!send_stop, T!keep_results, T!no_fault
<1>4. CASE T!stop_stats(p)
  BY <1>1, <1>2, <1>4, StopFails, StoredSame DEF T!stop_stats, T!no_fault
<1> QED
  BY <1>3, <1>4

\* The last request of do_entry_stop(), and what follows.
LEMMA StopDelete ==
    ASSUME TInv, NEW p \in T!Parts, T!stop_delete(p)
    PROVE  TInv'
<1>1. /\ sched[p] \in Schedulers /\ sched[p].pc = "stop_delete" /\ Part(p) /\ Entries \in Nat
      /\ sched[p].i \in 1..Entries + 1 /\ sched[p].entry \in 0..Entries
      /\ sched[p].res \in {"next", "READY", "ERROR"}
  BY PartTypes DEF T!stop_delete, Schedulers
<1>2. CASE T!stop_fails(p, "delete")
  BY <1>2, StopFails
<1>3. CASE /\ gens' = [gens EXCEPT ![p] = @ \ {sched[p].entry}] /\ UNCHANGED <<results, failed>>
           /\ IF sched[p].res = "next" THEN T!restart(p) ELSE T!return(p, sched[p].res)
  <2>1. gens' \in [T!Parts -> SUBSET (1..Entries)] /\ (\A q \in T!Parts : q # p => gens'[q] = gens[q])
        /\ gens'[p] = gens[p] \ {sched[p].entry}
    BY <1>3 DEF TInv, ProfileTypes
  <2>2. Excused(p)' => gens'[p] = {}
    BY <1>1, <1>3, <2>1 DEF Part, Owned, Excused
  <2>3. CASE sched[p].res = "next"
    <3> DEFINE s == [sched[p] EXCEPT !.pc = "entry", !.i = sched[p].i + 1, !.entry = 0]
    <3>1. sched[p].i + 1 \in 1..Entries + 1 /\ Len(results[p]) = sched[p].i
      BY <1>1, <2>3 DEF Part, Series
    <3>2. s \in Schedulers /\ s.pc = "entry" /\ s.i = sched[p].i + 1 /\ s.entry = 0
      <4>1. sched[p] \in Schedulers /\ 0 \in 0..Entries
        BY <1>1
      <4> QED
        BY <3>1, <4>1 DEF Schedulers
    <3>3. sched' = [sched EXCEPT ![p] = s] /\ UNCHANGED state
      BY <1>3, <2>3 DEF T!restart, TInv, ProfileTypes, Schedulers
    <3> HIDE DEF s
    <3>4. /\ sched' \in [T!Parts -> Schedulers] /\ sched'[p] = s
          /\ \A q \in T!Parts : q # p => sched'[q] = sched[q]
      BY <3>2, <3>3, Moved
    <3>5. Aside(p)
      BY <1>3, <2>1, <3>3, <3>4 DEF Aside, TInv, ProfileTypes
    <3>6. Matched(p)' /\ Series(p)'
      BY <1>1, <1>3, <3>1, <3>2, <3>4 DEF Part, Matched, Series
    <3>7. Excused(p)' => Owned(p)'
      BY <2>2, <3>2, <3>4 DEF Owned
    <3>8. Part(p)'
      BY <1>1, <3>3, <3>6, <3>7 DEF Part
    <3> QED
      BY <3>5, <3>8, PartStep
  <2>4. CASE sched[p].res # "next"
    <3> DEFINE s == [sched[p] EXCEPT !.pc = "done"]
    <3>1. s \in Schedulers /\ s.pc = "done"
      BY <1>1 DEF Schedulers
    <3>2. sched' = [sched EXCEPT ![p] = s] /\ state' = [state EXCEPT ![p] = sched[p].res]
          /\ sched[p].res \in T!States
      BY <1>1, <1>3, <2>4 DEF T!return, T!Go, T!States
    <3> HIDE DEF s
    <3>3. /\ sched' \in [T!Parts -> Schedulers] /\ sched'[p] = s
          /\ \A q \in T!Parts : q # p => sched'[q] = sched[q]
      BY <3>1, <3>2, Moved
    <3>4. Aside(p)
      BY <1>3, <2>1, <3>2, <3>3 DEF Aside, TInv, ProfileTypes
    <3>5. Matched(p)' /\ Series(p)'
      BY <1>1, <1>3, <3>1, <3>3 DEF Part, Matched, Series
    <3>6. Excused(p)' => Owned(p)'
      BY <2>2, <3>1, <3>3 DEF Owned
    <3>7. Part(p)'
      BY <3>1, <3>3, <3>5, <3>6 DEF Part
    <3> QED
      BY <3>4, <3>7, PartStep
  <2> QED
    BY <2>3, <2>4
<1> QED
  BY <1>2, <1>3 DEF T!stop_delete, T!keep_results, T!no_fault

\* A part that is started again starts with nothing.
LEMMA StartPart ==
    ASSUME TInv, T!start_part
    PROVE  TInv'
<1> DEFINE p == server.at
<1>1. CASE UNCHANGED T!wvars
  BY <1>1, TUnchanged DEF T!wvars
<1>2. ASSUME NEW st \in T!Running, state' = [state EXCEPT ![p] = st], results' = [results EXCEPT ![p] = <<>>],
             sched' = [sched EXCEPT ![p] = [T!NoThread EXCEPT !.pc = "begin"]],
             gens' = [gens EXCEPT ![p] = {}], failed' = [failed EXCEPT ![p] = {}]
      PROVE  TInv'
  <2> DEFINE s == [T!NoThread EXCEPT !.pc = "begin"]
  <2>1. s \in Schedulers /\ s.pc = "begin" /\ s.i = 1 /\ s.entry = 0
    BY GeneratorsAssumption DEF Schedulers, T!NoThread, T!TvlpAssumption
  <2>2. sched' = [sched EXCEPT ![p] = s] /\ st \in T!States
    BY <1>2 DEF T!Running, T!States
  <2> HIDE DEF s
  <2>3. ProfileTypes'
    <3>1. state' \in [T!Parts -> T!States] /\ sched' \in [T!Parts -> Schedulers]
      BY <1>2, <2>1, <2>2 DEF TInv, ProfileTypes
    <3>2. results' \in [T!Parts -> Seq(1..Entries)]
      <4>1. ASSUME NEW S, NEW f \in [T!Parts -> S], NEW e \in S PROVE [f EXCEPT ![p] = e] \in [T!Parts -> S]
        BY <4>1
      <4>2. <<>> \in Seq(1..Entries) /\ results \in [T!Parts -> Seq(1..Entries)]
        BY DEF TInv, ProfileTypes
      <4> QED
        BY <1>2, <4>1, <4>2
    <3>3. gens' \in [T!Parts -> SUBSET (1..Entries)] /\ failed' \in [T!Parts -> SUBSET T!Requests]
      BY <1>2 DEF TInv, ProfileTypes
    <3> QED
      BY <3>1, <3>2, <3>3 DEF ProfileTypes
  <2>4. ASSUME NEW q \in T!Parts PROVE Part(q)'
    <3>1. CASE q = p
      <4>1. sched'[q] = s /\ state'[q] = st /\ results'[q] = <<>> /\ gens'[q] = {} /\ Len(results'[q]) = 0
        BY <1>2, <2>2, <3>1 DEF TInv, ProfileTypes
      <4>2. Matched(q)' /\ Series(q)' /\ Owned(q)'
        BY <2>1, <4>1 DEF Matched, Series, Owned
      <4> QED
        BY <1>2, <4>1, <4>2 DEF Part
    <3>2. CASE q # p
      <4>1. /\ sched'[q] = sched[q] /\ state'[q] = state[q] /\ results'[q] = results[q]
            /\ gens'[q] = gens[q] /\ failed'[q] = failed[q] /\ Part(q)
        BY <1>2, <2>2, <3>2 DEF TInv, ProfileTypes
      <4> QED
        BY <4>1 DEF Part, Matched, Series, Owned, Excused
    <3> QED
      BY <3>1, <3>2
  <2> QED
    BY <2>3, <2>4 DEF TInv, T!Parts
<1> QED
  BY <1>1, <1>2 DEF T!start_part

\* A scheduler that has ended is joined.
LEMMA JoinPart ==
    ASSUME TInv, T!join_part
    PROVE  TInv'
<1>1. /\ sched[server.at].pc \in {"none", "done"} /\ state' = [state EXCEPT ![server.at] = "READY"]
      /\ UNCHANGED <<sched, results, gens, failed>>
  BY DEF T!join_part
<1>2. ProfileTypes'
  BY <1>1 DEF TInv, ProfileTypes, T!States
<1>3. ASSUME NEW q \in T!Parts PROVE Part(q)'
  <2>1. Part(q) /\ (q # server.at => state'[q] = state[q])
    BY <1>1 DEF TInv, ProfileTypes
  <2> QED
    BY <1>1, <2>1 DEF Part, Matched, Series, Owned, Excused
<1> QED
  BY <1>2, <1>3 DEF TInv, T!Parts

\* A new configuration.
LEMMA Fresh ==
    ASSUME state \in [T!Parts -> T!States], sched = [p \in T!Parts |-> T!NoThread],
           results = [p \in T!Parts |-> <<>>], gens = [p \in T!Parts |-> {}],
           failed = [p \in T!Parts |-> {}]
    PROVE  TInv
<1>1. T!NoThread \in Schedulers /\ T!NoThread.pc = "none"
  BY GeneratorsAssumption DEF Schedulers, T!NoThread, T!TvlpAssumption
<1>2. ProfileTypes
  BY <1>1 DEF ProfileTypes
<1>3. ASSUME NEW p \in T!Parts PROVE Part(p)
  <2>1. sched[p].pc = "none" /\ Len(results[p]) = 0 /\ gens[p] = {}
    BY <1>1
  <2> QED
    BY <2>1 DEF Part, Matched, Series, Owned
<1> QED
  BY <1>2, <1>3 DEF TInv

\* An erased configuration is followed by a new one.
LEMMA StopDone ==
    ASSUME TInv, T!stop_done
    PROVE  TInv'
<1>1. CASE UNCHANGED <<sched, results, gens, failed, state>>
  BY <1>1, TUnchanged
<1>2. CASE /\ sched' = [p \in T!Parts |-> T!NoThread] /\ results' = [p \in T!Parts |-> <<>>]
           /\ gens' = [p \in T!Parts |-> {}] /\ failed' = [p \in T!Parts |-> {}] /\ UNCHANGED state
  <2>1. T!NoThread \in Schedulers /\ T!NoThread.pc = "none"
    BY GeneratorsAssumption DEF Schedulers, T!NoThread, T!TvlpAssumption
  <2>2. ProfileTypes'
    BY <1>2, <2>1 DEF TInv, ProfileTypes
  <2>3. ASSUME NEW p \in T!Parts PROVE Part(p)'
    <3>1. sched'[p].pc = "none" /\ Len(results'[p]) = 0 /\ gens'[p] = {}
      BY <1>2, <2>1
    <3> QED
      BY <3>1 DEF Part, Matched, Series, Owned
  <2> QED
    BY <2>2, <2>3 DEF TInv, T!Parts
<1> QED
  BY <1>1, <1>2 DEF T!stop_done

\* The steps of the other components leave the profile alone.
LEMMA TvlpStep ==
    ASSUME TInv, [MCNext]_all
    PROVE  TInv'
<1>1. CASE UNCHANGED tvars
  BY <1>1, TUnchanged DEF tvars
<1>2. CASE T!Next
  <2>1. ASSUME NEW p \in T!Parts, T!Schedule(p) \/ T!Elapse(p) PROVE TInv'
    BY <2>1, Begin, NextEntry, Create, Start, DeleteNew, StatsPrev, DeletePrev, Poll, Finish,
       SendStop, StopDelete DEF T!Schedule, T!Elapse
  <2>2. ASSUME NEW op \in {"get", "start", "stop", "erase"}, T!request(op) PROVE TInv'
    BY <2>2, TUnchanged DEF T!request, T!wvars
  <2>3. CASE T!update \/ T!copied \/ T!updated \/ T!started
    BY <2>3, TUnchanged DEF T!update, T!copied, T!updated, T!started, T!wvars
  <2>4. CASE T!stop_part
    BY <2>4, TUnchanged DEF T!stop_part
  <2> QED
    BY <1>2, <2>1, <2>2, <2>3, <2>4, StartPart, JoinPart, StopDone DEF T!Next, T!Serve
<1> QED
  BY <1>1, <1>2 DEF MCNext, all, tvars

\* What is stored for an entry of a profile is that of its own generator (tvlp/worker.cpp:98),
\* and a worker that says READY or ERROR has ended and deleted what it made unless a request
\* to stop, poll or delete failed, for any number of parts and entries and any faults.
THEOREM ProfilesEnd == MCSpec => []ProfilesSettle
<1>1. MCInit => TInv
  <2> SUFFICES ASSUME MCInit PROVE TInv
    OBVIOUS
  <2>1. state \in [T!Parts -> T!States]
    BY DEF MCInit, T!Init, T!States
  <2> QED
    BY <2>1, Fresh DEF MCInit, T!Init
<1>2. TInv => ProfilesSettle
  <2> SUFFICES ASSUME TInv PROVE T!ResultsMatch /\ T!Settled
    BY DEF ProfilesSettle
  <2>1. T!ResultsMatch
    BY DEF TInv, Part, Matched, T!ResultsMatch
  <2>2. T!Settled
    BY DEF TInv, Part, Owned, Excused, T!Settled, T!Running
  <2> QED
    BY <2>1, <2>2
<1> QED
  BY <1>1, <1>2, TvlpStep, PTL DEF MCSpec
=============================================================================
