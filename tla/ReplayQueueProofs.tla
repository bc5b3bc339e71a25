-------------------------- MODULE ReplayQueueProofs -------------------------
(***************************************************************************)
(* The safety properties of ReplayQueue, proved for every set of jobs and  *)
(* every number of boots.                                                  *)
(***************************************************************************)
EXTENDS ReplayQueue, TLAPS

\* A job that was accepted is known, so that it is not accepted twice.
KnownOnce ==
    /\ \A i \in DOMAIN submitted : status[submitted[i]] # "unknown"
    /\ \A i, k \in DOMAIN submitted : submitted[i] = submitted[k] => i = k

IInv == TypeOK /\ OneAtATime /\ NoLostWakeup

LEMMA NoJobs == <<>> \in Seq(Jobs)
  OBVIOUS

LEMMA InitIInv == Init => IInv
<1> SUFFICES ASSUME Init PROVE IInv
  OBVIOUS
<1>1. queue \in Seq(Jobs) /\ submitted \in Seq(Jobs) /\ started \in Seq(Jobs)
  BY NoJobs DEF Init
<1>2. boots \in 1 .. MaxBoots
  BY QueueAssumption DEF Init
<1>3. TypeOK
  BY <1>1, <1>2 DEF Init, TypeOK, Statuses, Places, Engine
<1>4. OneAtATime /\ NoLostWakeup
  BY DEF Init, OneAtATime, NoLostWakeup, Engine
<1>5. QED
  BY <1>3, <1>4 DEF IInv

LEMMA TypeStep == TypeOK /\ [Next]_vars => TypeOK'
<1> SUFFICES ASSUME TypeOK, [Next]_vars PROVE TypeOK'
  OBVIOUS
<1> USE QueueAssumption, NoJobs DEF TypeOK, Statuses, Places, Engine
<1>1. ASSUME NEW j \in Jobs, Submit(j) PROVE TypeOK'
  BY <1>1 DEF Submit
<1>2. CASE Start
  BY <1>2 DEF Start
<1>3. CASE Stop
  BY <1>3 DEF Stop
<1>4. CASE Stopped
  BY <1>4 DEF Stopped
<1>5. CASE Loop
  <2>1. CASE stop \/ queue = <<>>
    BY <1>5, <2>1 DEF Loop
  <2>2. CASE ~stop /\ queue # <<>>
    <3>1. Head(queue) \in Jobs /\ Tail(queue) \in Seq(Jobs)
      BY <2>2
    <3>2. Append(started, Head(queue)) \in Seq(Jobs)
      BY <3>1
    <3>3. queue' \in Seq(Jobs) /\ started' \in Seq(Jobs) /\ submitted' \in Seq(Jobs)
      BY <1>5, <2>2, <3>1, <3>2 DEF Loop
    <3>4. status' \in [Jobs -> Statuses] /\ current' \in Jobs
      BY <1>5, <2>2, <3>1 DEF Loop
    <3>5. UNCHANGED <<notify, stop, row, forgotten, unsaved, boots>> /\ worker' = "header"
      BY <1>5, <2>2 DEF Loop
    <3>6. QED
      BY <3>3, <3>4, <3>5
  <2>3. QED
    BY <2>1, <2>2
<1>6. CASE Woken \/ TimedOut
  BY <1>6 DEF Woken, TimedOut
<1>7. ASSUME worker \in Engine PROVE current \in Jobs
  BY <1>7
<1>8. CASE Header \/ Close
  <2>1. CASE Header
    BY <1>7, <2>1 DEF Header
  <2>2. CASE Close
    BY <1>7, <2>2 DEF Close
  <2>3. QED
    BY <1>8, <2>1, <2>2
<1>9. CASE Complete
  BY <1>7, <1>9 DEF Complete, Finished
<1>10. CASE Fail
  BY <1>7, <1>10 DEF Fail, Finished
<1>11. CASE Reboot
  <2>1. queue' \in Seq(Jobs) /\ submitted' \in Seq(Jobs) /\ started' \in Seq(Jobs)
    BY <1>11 DEF Reboot
  <2>2. boots' \in 1 .. MaxBoots
    BY <1>11 DEF Reboot
  <2>3. forgotten' \subseteq Jobs /\ status' \in [Jobs -> Statuses]
    BY <1>11 DEF Reboot
  <2>4. QED
    BY <1>11, <2>1, <2>2, <2>3 DEF Reboot
<1>12. CASE UNCHANGED vars
  BY <1>12 DEF vars
<1>13. QED
  BY <1>1, <1>2, <1>3, <1>4, <1>5, <1>6, <1>8, <1>9, <1>10, <1>11, <1>12 DEF Next, Worker

LEMMA OneJobStep == TypeOK /\ OneAtATime /\ [Next]_vars => OneAtATime'
<1> SUFFICES ASSUME TypeOK, OneAtATime, [Next]_vars PROVE OneAtATime'
  OBVIOUS
<1> USE QueueAssumption DEF TypeOK, OneAtATime, Statuses, Places, Engine
<1>1. ASSUME NEW j \in Jobs, Submit(j) PROVE OneAtATime'
  BY <1>1 DEF Submit
<1>2. CASE Start \/ Stop \/ Stopped \/ Woken \/ TimedOut
  BY <1>2 DEF Start, Stop, Stopped, Woken, TimedOut
<1>3. CASE Loop
  <2>1. CASE stop \/ queue = <<>>
    BY <1>3, <2>1 DEF Loop
  <2>2. CASE ~stop /\ queue # <<>>
    <3>1. Head(queue) \in Jobs
      BY <2>2
    <3>2. QED
      BY <1>3, <2>2, <3>1 DEF Loop
  <2>3. QED
    BY <2>1, <2>2
<1>4. CASE Header \/ Close
  BY <1>4 DEF Header, Close
<1>5. CASE Complete \/ Fail
  <2>1. PICK j \in Jobs : current = j
    BY <1>5 DEF Complete, Fail
  <2>2. \A i \in Jobs : status'[i] = "running" => FALSE
    BY <1>5, <2>1 DEF Complete, Fail, Finished
  <2>3. QED
    BY <1>5, <2>2 DEF Complete, Fail, Finished
<1>6. CASE Reboot
  BY <1>6 DEF Reboot
<1>7. CASE UNCHANGED vars
  BY <1>7 DEF vars
<1>8. QED
  BY <1>1, <1>2, <1>3, <1>4, <1>5, <1>6, <1>7 DEF Next, Worker

LEMMA WakeupStep == TypeOK /\ NoLostWakeup /\ [Next]_vars => NoLostWakeup'
<1> SUFFICES ASSUME TypeOK, NoLostWakeup, [Next]_vars PROVE NoLostWakeup'
  OBVIOUS
<1> USE DEF NoLostWakeup
<1>1. ASSUME NEW j \in Jobs, Submit(j) PROVE NoLostWakeup'
  BY <1>1 DEF Submit
<1>2. CASE Start \/ Stop \/ Stopped \/ Woken \/ TimedOut \/ Header \/ Close
  BY <1>2 DEF Start, Stop, Stopped, Woken, TimedOut, Header, Close
<1>3. CASE Loop
  BY <1>3 DEF Loop
<1>4. CASE Complete \/ Fail
  BY <1>4 DEF Complete, Fail, Finished
<1>5. CASE Reboot
  BY <1>5 DEF Reboot
<1>6. CASE UNCHANGED vars
  BY <1>6 DEF vars
<1>7. QED
  BY <1>1, <1>2, <1>3, <1>4, <1>5, <1>6 DEF Next, Worker

LEMMA Inductive == Spec => []IInv
<1>1. IInv /\ [Next]_vars => IInv'
  BY TypeStep, OneJobStep, WakeupStep DEF IInv
<1>2. QED
  BY <1>1, InitIInv, PTL DEF Spec

\* The types of the queue's variables, and that the worker is in the engine
\* exactly while it holds a job.
THEOREM TypeCorrect == Spec => []TypeOK
  BY Inductive, PTL DEF IInv

\* At most one job is marked running, and it is the one the worker is at,
\* through stops, starts, failures and reboots.
THEOREM SingleWorker == Spec => []OneAtATime
  BY Inductive, PTL DEF IInv

\* The worker never waits without a notification while a job is queued or a
\* stop has been requested: clearing the event and looking at the queue are
\* one step, and whatever fills the queue sets the event.
THEOREM WakeupsAreKept == Spec => []NoLostWakeup
  BY Inductive, PTL DEF IInv

-----------------------------------------------------------------------------
(* Order: what was started and what waits are what was submitted. *)

LEMMA SubmitKeepsOrder ==
    ASSUME NEW s \in Seq(Jobs), NEW q \in Seq(Jobs), NEW j \in Jobs
    PROVE  s \o Append(q, j) = Append(s \o q, j)
  OBVIOUS

LEMMA PopKeepsOrder ==
    ASSUME NEW s \in Seq(Jobs), NEW q \in Seq(Jobs), q # <<>>
    PROVE  Append(s, Head(q)) \o Tail(q) = s \o q
  OBVIOUS

OrderInv == KnownOnce /\ started \o queue = submitted

LEMMA OrderStep == TypeOK /\ OrderInv /\ [Next]_vars => OrderInv'
<1> SUFFICES ASSUME TypeOK, OrderInv, [Next]_vars PROVE OrderInv'
  OBVIOUS
<1> USE DEF OrderInv
<1>t. /\ started \in Seq(Jobs) /\ queue \in Seq(Jobs) /\ submitted \in Seq(Jobs)
      /\ status \in [Jobs -> Statuses]
  BY DEF TypeOK
<1>1. ASSUME NEW j \in Jobs, Submit(j) PROVE OrderInv'
  <2>1. started \o Append(queue, j) = Append(submitted, j)
    BY SubmitKeepsOrder, <1>t
  <2>2. \A i \in DOMAIN submitted : submitted[i] # j
    BY <1>1 DEF Submit, KnownOnce
  <2>3. KnownOnce'
    BY <1>1, <2>2, <1>t DEF Submit, KnownOnce, Statuses
  <2>4. QED
    BY <1>1, <2>1, <2>3 DEF Submit
<1>2. CASE Start \/ Stop \/ Stopped \/ Woken \/ TimedOut \/ Header \/ Close
  BY <1>2 DEF Start, Stop, Stopped, Woken, TimedOut, Header, Close, KnownOnce
<1>3. CASE Loop
  <2>1. CASE stop \/ queue = <<>>
    BY <1>3, <2>1 DEF Loop, KnownOnce
  <2>2. CASE ~stop /\ queue # <<>>
    <3>1. Append(started, Head(queue)) \o Tail(queue) = submitted
      BY PopKeepsOrder, <1>t, <2>2
    <3>2. KnownOnce'
      BY <1>3, <2>2, <1>t DEF Loop, KnownOnce
    <3>3. QED
      BY <1>3, <2>2, <3>1, <3>2 DEF Loop
  <2>3. QED
    BY <2>1, <2>2
<1>4. CASE Complete \/ Fail
  <2>1. UNCHANGED <<started, queue, submitted>>
    BY <1>4 DEF Complete, Fail, Finished
  <2>2. \A j \in Jobs : status[j] # "unknown" => status'[j] # "unknown"
    BY <1>4, <1>t DEF Complete, Fail, Finished
  <2>3. \A i \in DOMAIN submitted : submitted[i] \in Jobs
    BY <1>t
  <2>4. QED
    BY <2>1, <2>2, <2>3 DEF KnownOnce
<1>5. CASE Reboot
  BY <1>5 DEF Reboot, KnownOnce
<1>6. CASE UNCHANGED vars
  BY <1>6 DEF vars, KnownOnce
<1>7. QED
  BY <1>1, <1>2, <1>3, <1>4, <1>5, <1>6 DEF Next, Worker

\* Every accepted job is popped at most once and in the order of acceptance.
THEOREM FirstInFirstOut == Spec => []InOrderOnce
<1>1. Init => OrderInv
  BY DEF Init, OrderInv, KnownOnce
<1>2. IInv /\ OrderInv /\ [Next]_vars => OrderInv'
  BY OrderStep DEF IInv
<1>3. OrderInv => InOrderOnce
  BY DEF OrderInv, KnownOnce, InOrderOnce, IsInjective
<1>4. QED
  BY <1>1, <1>2, <1>3, Inductive, PTL DEF Spec
-----------------------------------------------------------------------------
(* The rows against the queue. *)

\* What is in the queue is queued and nothing else: a popped or finished job
\* is not there, because a job is accepted once.
OnlyQueuedWait == \A i \in DOMAIN queue : status[queue[i]] = "queued"

\* What the row of the job in the engine says, unless a statement has failed.
RunningRow ==
    /\ worker = "header" => row[current] = "none"
    /\ worker = "replaying" => row[current] = "running" \/ current \in unsaved
    /\ worker = "closing" => row[current] = "completed" \/ current \in unsaved

\* A job that nobody has submitted has no row.
NoRowYet == \A j \in Jobs : status[j] = "unknown" => row[j] = "none" \/ j \in forgotten

RowsInv == RowsTellTheTruth /\ OnlyQueuedWait /\ RunningRow /\ NoRowYet

LEMMA TailsAreDistinct ==
    ASSUME NEW s \in Seq(Jobs), NEW q \in Seq(Jobs), q # <<>>,
           \A i, k \in DOMAIN (s \o q) : (s \o q)[i] = (s \o q)[k] => i = k
    PROVE  \A i \in DOMAIN Tail(q) : Tail(q)[i] # Head(q) /\ i + 1 \in DOMAIN q /\ Tail(q)[i] = q[i + 1]
<1> SUFFICES ASSUME NEW i \in DOMAIN Tail(q)
             PROVE  Tail(q)[i] # Head(q) /\ i + 1 \in DOMAIN q /\ Tail(q)[i] = q[i + 1]
  OBVIOUS
<1>1. i \in Nat /\ i + 1 \in DOMAIN q /\ 1 \in DOMAIN q /\ i + 1 # 1
  OBVIOUS
<1>2. Tail(q)[i] = q[i + 1] /\ Head(q) = q[1]
  OBVIOUS
<1>3. \A k \in DOMAIN q : Len(s) + k \in DOMAIN (s \o q) /\ (s \o q)[Len(s) + k] = q[k]
  OBVIOUS
<1>4. q[i + 1] # q[1]
  <2>1. Len(s) + (i + 1) # Len(s) + 1
    BY <1>1
  <2> DEFINE m == Len(s) + (i + 1)
             n == Len(s) + 1
  <2>2. /\ m \in DOMAIN (s \o q) /\ (s \o q)[m] = q[i + 1]
        /\ n \in DOMAIN (s \o q) /\ (s \o q)[n] = q[1]
    BY <1>1, <1>3
  <2> HIDE DEF m, n
  <2>3. m = n \/ (s \o q)[m] # (s \o q)[n]
    BY <2>2
  <2>4. QED
    BY <2>1, <2>2, <2>3 DEF m, n
<1>5. QED
  BY <1>1, <1>2, <1>4

\* The part of RowsInv that is about one job.
RowOf(j) ==
    /\ row[j] = "completed" => status[j] = "completed" \/ Closing(j) \/ j \in forgotten
    /\ status[j] = "completed" => row[j] = "completed" \/ j \in unsaved
    /\ status[j] = "queued" => row[j] = "none"
    /\ status[j] = "unknown" => row[j] = "none" \/ j \in forgotten

LEMMA RowsByJob ==
    RowsInv <=> (\A j \in Jobs : RowOf(j)) /\ OnlyQueuedWait /\ RunningRow
BY DEF RowsInv, RowsTellTheTruth, NoRowYet, RowOf

LEMMA RowsStep == TypeOK /\ OneAtATime /\ OrderInv /\ RowsInv /\ [Next]_vars => RowsInv'
<1> SUFFICES ASSUME TypeOK, OneAtATime, OrderInv, RowsInv, [Next]_vars
             PROVE  (\A j \in Jobs : RowOf(j)') /\ OnlyQueuedWait' /\ RunningRow'
  BY RowsByJob DEF RowsInv, RowsTellTheTruth, NoRowYet, RowOf
<1> DEFINE Goal == (\A j \in Jobs : RowOf(j)') /\ OnlyQueuedWait' /\ RunningRow'
<1>t. /\ started \in Seq(Jobs) /\ queue \in Seq(Jobs) /\ forgotten \subseteq Jobs
      /\ status \in [Jobs -> Statuses] /\ row \in [Jobs -> {"none", "running", "completed"}]
  BY DEF TypeOK
<1>q. \A i \in DOMAIN queue : queue[i] \in Jobs
  BY <1>t
<1>c. worker \in Engine => current \in Jobs /\ status[current] = "running"
  BY DEF TypeOK, OneAtATime, Engine
<1>i. (\A j \in Jobs : RowOf(j)) /\ OnlyQueuedWait /\ RunningRow
  BY RowsByJob
<1>1. ASSUME NEW j \in Jobs, Submit(j) PROVE Goal
  <2>1. /\ status' = [status EXCEPT ![j] = "queued"] /\ status[j] = "unknown" /\ j \notin forgotten
        /\ queue' = Append(queue, j)
        /\ UNCHANGED <<row, forgotten, unsaved, worker, current>>
    BY <1>1 DEF Submit
  <2>2. \A i \in DOMAIN queue' : (queue'[i] = j) \/ (i \in DOMAIN queue /\ queue'[i] = queue[i])
    BY <2>1, <1>t
  <2>3. status'[j] = "queued" /\ \A k \in Jobs : k # j => status'[k] = status[k]
    BY <2>1, <1>t
  <2>4. row[j] = "none"
    BY <1>i, <2>1 DEF RowOf
  <2>5. OnlyQueuedWait'
    BY <1>i, <2>2, <2>3, <1>q DEF OnlyQueuedWait
  <2>6. \A k \in Jobs : RowOf(k)'
    BY <1>i, <2>1, <2>3, <2>4 DEF RowOf, Closing
  <2>7. QED
    BY <1>i, <2>1, <2>5, <2>6 DEF RunningRow
<1>2. CASE Start \/ Stop \/ Stopped \/ Woken \/ TimedOut
  <2>1. /\ UNCHANGED <<status, queue, row, forgotten, unsaved, current>>
        /\ worker' # worker => worker' \notin Engine /\ worker \notin Engine
    BY <1>2 DEF Start, Stop, Stopped, Woken, TimedOut, Engine
  <2>2. QED
    BY <1>i, <2>1 DEF RowOf, Closing, OnlyQueuedWait, RunningRow, Engine
<1>3. CASE Loop
  <2>0. UNCHANGED <<row, forgotten, unsaved>> /\ worker = "loop"
    BY <1>3 DEF Loop
  <2>1. CASE stop \/ queue = <<>>
    <3>1. UNCHANGED <<status, queue, current>> /\ worker' \notin Engine
      BY <1>3, <2>1 DEF Loop, Engine
    <3>2. QED
      BY <1>i, <2>0, <3>1 DEF RowOf, Closing, OnlyQueuedWait, RunningRow, Engine
  <2>2. CASE ~stop /\ queue # <<>>
    <3>1. /\ status' = [status EXCEPT ![Head(queue)] = "running"] /\ queue' = Tail(queue)
          /\ current' = Head(queue) /\ worker' = "header"
      BY <1>3, <2>2 DEF Loop
    <3>2. \A i \in DOMAIN queue' : queue'[i] # Head(queue) /\ i + 1 \in DOMAIN queue
                                   /\ queue'[i] = queue[i + 1]
      BY <3>1, <2>2, <1>t, TailsAreDistinct DEF OrderInv, KnownOnce
    <3>3. Head(queue) \in Jobs /\ status[Head(queue)] = "queued"
      BY <1>i, <2>2, <1>t DEF OnlyQueuedWait
    <3>4. /\ status'[Head(queue)] = "running"
          /\ \A k \in Jobs : k # Head(queue) => status'[k] = status[k]
      BY <3>1, <3>3, <1>t
    <3>5. row[Head(queue)] = "none"
      BY <1>i, <3>3 DEF RowOf
    <3>6. OnlyQueuedWait'
      BY <1>i, <3>2, <3>4, <1>q DEF OnlyQueuedWait
    <3>7. \A k \in Jobs : RowOf(k)'
      BY <1>i, <2>0, <3>1, <3>4, <3>5 DEF RowOf, Closing
    <3>8. QED
      BY <2>0, <3>1, <3>5, <3>6, <3>7 DEF RunningRow
  <2>3. QED
    BY <2>1, <2>2
<1>4. CASE Header \/ Close
  <2>1. /\ UNCHANGED <<status, queue, forgotten, current>> /\ unsaved \subseteq unsaved'
        /\ worker \in Engine /\ worker # "closing"
        /\ current \in Jobs /\ status[current] = "running"
    BY <1>4, <1>c DEF Header, Close, Engine
  <2>2. /\ \A k \in Jobs : k # current => row'[k] = row[k]
        /\ row'[current] = "completed" => row[current] = "completed" \/ worker' = "closing"
    BY <1>4, <1>t, <2>1 DEF Header, Close
  <2>3. RunningRow'
    <3>1. CASE Header
      <4>1. worker' = "replaying" /\ (row'[current] = "running" \/ current \in unsaved')
        BY <3>1, <2>1, <1>t DEF Header
      <4>2. QED
        BY <2>1, <4>1 DEF RunningRow
    <3>2. CASE Close
      <4>1. row[current] = "running" \/ current \in unsaved
        BY <1>i, <3>2 DEF Close, RunningRow
      <4>2. worker' = "closing" /\ (row'[current] = "completed" \/ current \in unsaved')
        BY <3>2, <4>1, <2>1, <1>t DEF Close
      <4>3. QED
        BY <2>1, <4>2 DEF RunningRow
    <3>3. QED
      BY <1>4, <3>1, <3>2
  <2>4. RowOf(current)'
    <3>1. row'[current] = "completed" => Closing(current)' \/ current \in forgotten'
      BY <1>i, <2>1, <2>2 DEF RowOf, Closing
    <3>2. QED
      BY <2>1, <3>1 DEF RowOf
  <2>5. \A k \in Jobs : RowOf(k)'
    BY <1>i, <2>1, <2>2, <2>4 DEF RowOf, Closing
  <2>6. QED
    BY <1>i, <2>1, <2>3, <2>5 DEF OnlyQueuedWait
<1>5. CASE Complete \/ Fail
  <2>1. worker \in Engine /\ current \in Jobs /\ status[current] = "running"
    BY <1>5, <1>c DEF Complete, Fail, Engine
  <2>0. PICK j \in Jobs : j = current
    BY <2>1
  <2>2. /\ UNCHANGED <<queue, forgotten, row, unsaved>> /\ worker' = "loop"
        /\ \A k \in Jobs : k # current => status'[k] = status[k]
    BY <1>5, <2>1, <1>t DEF Complete, Fail, Finished
  <2>3. OnlyQueuedWait'
    BY <1>i, <2>1, <2>2, <1>q DEF OnlyQueuedWait
  <2>4. \A k \in Jobs : k # j => RowOf(k)'
    BY <1>i, <2>0, <2>2 DEF RowOf, Closing
  <2>5. RowOf(j)'
    <3>1. CASE Complete
      <4>1. status'[j] = "completed"
        BY <2>0, <2>1, <3>1, <1>t DEF Complete, Finished
      <4>2. row[j] = "completed" \/ j \in unsaved
        BY <1>i, <2>0, <3>1 DEF Complete, RunningRow
      <4>3. QED
        BY <2>2, <4>1, <4>2 DEF RowOf
    <3>2. CASE Fail
      <4>1. status'[j] = "failed" /\ worker # "closing"
        BY <2>0, <2>1, <3>2, <1>t DEF Fail, Finished
      <4>2. row[j] = "completed" => j \in forgotten
        BY <1>i, <2>0, <2>1, <4>1 DEF RowOf, Closing
      <4>3. QED
        BY <2>2, <4>1, <4>2 DEF RowOf
    <3>3. QED
      BY <1>5, <3>1, <3>2
  <2>6. QED
    BY <2>2, <2>3, <2>4, <2>5 DEF RunningRow
<1>6. CASE Reboot
  <2>1. /\ queue' = <<>> /\ UNCHANGED <<row, unsaved>> /\ worker' = "absent"
        /\ forgotten' = forgotten \cup {j \in Jobs : status[j] # "unknown"}
        /\ status' = [j \in Jobs |-> "unknown"]
    BY <1>6 DEF Reboot
  <2>2. \A k \in Jobs : row[k] # "none" => k \in forgotten'
    BY <1>i, <2>1 DEF RowOf
  <2>3. \A k \in Jobs : RowOf(k)'
    BY <1>t, <2>1, <2>2 DEF RowOf
  <2>4. QED
    BY <2>1, <2>3 DEF OnlyQueuedWait, RunningRow
<1>7. CASE UNCHANGED vars
  BY <1>7, <1>i DEF vars, RowOf, Closing, OnlyQueuedWait, RunningRow
<1>8. QED
  BY <1>1, <1>2, <1>3, <1>4, <1>5, <1>6, <1>7 DEF Next, Worker

\* The replay_runs table and the queue agree, for any number of jobs and boots,
\* however header inserts and updates fail: a row says completed only if its
\* job did, is about to, or was in memory when the process died, and a job is
\* completed without its row only if a statement of its run has failed.
THEOREM RowsAreHonest == Spec => []RowsTellTheTruth
<1>1. Init => OrderInv /\ RowsInv
  BY DEF Init, OrderInv, KnownOnce, RowsInv, RowsTellTheTruth, OnlyQueuedWait, RunningRow,
         NoRowYet, Closing
<1>2. IInv /\ OrderInv /\ RowsInv /\ [Next]_vars => OrderInv' /\ RowsInv'
  BY OrderStep, RowsStep DEF IInv
<1>3. RowsInv => RowsTellTheTruth
  BY DEF RowsInv
<1>4. QED
  BY <1>1, <1>2, <1>3, Inductive, PTL DEF Spec
=============================================================================
