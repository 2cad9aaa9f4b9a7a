--------------------------- MODULE JobQueueProofs ---------------------------
(***************************************************************************)
(* Proofs about JobQueue for every set of jobs, every number of slots and  *)
(* operator calls, and every bound on stops, faults, controls and delays.  *)
(***************************************************************************)
EXTENDS JobQueue, FiniteSetTheorems, TLAPS

\* A worker has the job.
WorksOn(s, j) == worker[s] # Free /\ worker[s].job = j

\* No job has two holders, and the polling goroutine has claimed at most one.
OneHolder ==
    /\ \A i, j \in poll.claimed : i = j
    /\ \A j \in Jobs : \A s, u \in Slots : WorksOn(s, j) /\ WorksOn(u, j) => s = u
    /\ \A j \in poll.claimed, s \in Slots : ~WorksOn(s, j)

\* What a worker or a claim has is marked running for as long as the process lives.
\* Until it begins to drain, when workers leave their rows as they are, what is marked
\* running is held or was stranded by a failed statement, and not both.
HoldersMarked ==
    /\ daemon # "down" => \A j \in Jobs : Held(j) => job[j].state = "running"
    /\ daemon = "up" => \A j \in Jobs : job[j].state = "running" => Held(j) \/ j \in stranded
    /\ daemon = "up" => \A j \in stranded : job[j].state = "running" /\ ~Held(j)

\* A stopped process holds nothing.
DownHoldsNothing == daemon = "down" => poll = NoPoll /\ \A s \in Slots : worker[s] = Free

\* The inductive invariant: until the first control the rows and the holders agree.
HolderInv ==
    controls = 0 =>
        /\ \A c \in Controllers : control[c] = Free
        /\ OneHolder
        /\ HoldersMarked
        /\ DownHoldsNothing

-----------------------------------------------------------------------------
\* The delays a failing job can be given: the first is the base, the second twice the
\* base or the cap, so neither exceeds the cap.
LEMMA BackoffBounded ==
    ASSUME NEW retry \in 1 .. 2
    PROVE  Backoff(retry) \in 0 .. MaxBackoff
  <1> USE BackoffAssumption
  <1> DEFINE Doubled(d) == IF d >= MaxBackoff \div 2 THEN MaxBackoff ELSE 2 * d
             Rec(f) == [i \in 1 .. retry |-> IF i = 1 THEN RetryBase ELSE Doubled(f[i - 1])]
             delay == CHOOSE f : f = Rec(f)
             closed == [i \in 1 .. retry |-> IF i = 1 THEN RetryBase ELSE Doubled(RetryBase)]
  <1>1. closed = Rec(closed)
    <2> HIDE DEF Doubled
    <2> QED OBVIOUS
  <1>2. delay = Rec(delay)
    <2> HIDE DEF Rec, closed
    <2> QED BY <1>1, Zenon
  <1>3. delay[1] = RetryBase
    <2> HIDE DEF delay, Doubled
    <2> QED BY <1>2
  <1>4. retry = 2 => delay[2] = Doubled(RetryBase)
    <2> HIDE DEF delay, Doubled
    <2> QED BY <1>2, <1>3
  <1>5. RetryBase \in 0 .. MaxBackoff /\ Doubled(RetryBase) \in 0 .. MaxBackoff
    OBVIOUS
  <1>6. Backoff(retry) = delay[retry]
    BY Zenon DEF Backoff
  <1>7. retry = 1 \/ retry = 2
    OBVIOUS
  <1> HIDE DEF delay, Doubled
  <1> QED BY <1>3, <1>4, <1>5, <1>6, <1>7, Zenon

\* The row that a worker writes after a failure is well formed and not running.
LEMMA FailedRowTyped ==
    ASSUME NEW retry \in Nat
    PROVE  FailedRow(retry) \in Row /\ FailedRow(retry).state # "running"
  <1>1. CASE retry + 1 < 3
    <2>1. Backoff(retry + 1) \in 0 .. MaxBackoff
      BY <1>1, BackoffBounded
    <2> QED BY <1>1, <2>1 DEF FailedRow, Row, States
  <1>2. CASE ~(retry + 1 < 3)
    BY <1>2, BackoffAssumption DEF FailedRow, Row, States
  <1> QED BY <1>1, <1>2, Zenon

\* A slot that is not free has the copy of a row.
LEMMA BusyWorker ==
    ASSUME TypeOK, NEW s \in Slots, worker[s] # Free
    PROVE  worker[s].job \in Jobs /\ worker[s].retry \in Nat
  BY Zenon DEF TypeOK

\* What a finishing worker writes.
LEMMA FinishedRow ==
    ASSUME TypeOK, NEW s \in Slots, FinishJob(s)
    PROVE  \/ job' = job /\ stranded' = stranded /\ daemon # "up"
           \/ /\ daemon = "up" /\ stranded' = stranded \ {worker[s].job}
              /\ \E row \in Row : row.state # "running" /\ job' = [job EXCEPT ![worker[s].job] = row]
  <1> DEFINE j == worker[s].job
             done == [state |-> "completed", retry |-> worker[s].retry, wait |-> 0]
  <1>1. worker[s].retry \in Nat
    BY BusyWorker, Zenon DEF FinishJob
  <1>2. done \in Row /\ done.state # "running"
    BY <1>1, BackoffAssumption DEF Row, States
  <1>3. FailedRow(worker[s].retry) \in Row /\ FailedRow(worker[s].retry).state # "running"
    BY <1>1, FailedRowTyped, Zenon
  <1>4. IF daemon = "up"
        THEN /\ job' \in {[job EXCEPT ![j] = done], [job EXCEPT ![j] = FailedRow(worker[s].retry)]}
             /\ stranded' = stranded \ {j}
        ELSE job' = job /\ stranded' = stranded
    BY Zenon DEF FinishJob
  <1> HIDE DEF done
  <1> QED BY <1>2, <1>3, <1>4, Zenon

\* The daemon begins with rows, counts and copies of their types.
LEMMA TypeInit == Init => TypeOK
  BY BackoffAssumption, BoundsAssumption DEF Init, TypeOK, Row, Absent, NoPoll

\* Every row stays a row: no copy a worker or a control writes back is malformed.
LEMMA TypeNext == TypeOK /\ [Next]_vars => TypeOK'
  <1> SUFFICES ASSUME TypeOK, [Next]_vars PROVE TypeOK'
    BY Zenon
  <1> USE BackoffAssumption, BoundsAssumption
  <1>1. CASE ListRunnableOneWayJobs
    BY <1>1, Zenon DEF TypeOK, ListRunnableOneWayJobs
  <1>2. CASE PoolExhausted
    BY <1>2, Zenon DEF TypeOK, PoolExhausted, NoPoll
  <1>3. ASSUME NEW j \in Jobs, ClaimOneWayJob(j) PROVE TypeOK'
    <2>1. poll' \in [todo : SUBSET Jobs, claimed : SUBSET Jobs]
      BY <1>3 DEF TypeOK, ClaimOneWayJob
    <2>2. job' \in [Jobs -> Row]
      BY <1>3 DEF TypeOK, ClaimOneWayJob, Row, States
    <2> QED BY <1>3, <2>1, <2>2, Zenon DEF TypeOK, ClaimOneWayJob
  <1>4. ASSUME NEW j \in Jobs, NEW s \in Slots, StartWorker(j, s) PROVE TypeOK'
    BY <1>4, Zenon DEF TypeOK, StartWorker, Row
  <1>16. ASSUME NEW j \in Jobs, ClaimFails(j) \/ ReadBackFails(j) PROVE TypeOK'
    <2>1. poll' \in [todo : SUBSET Jobs, claimed : SUBSET Jobs]
      BY <1>16 DEF TypeOK, ClaimFails, ReadBackFails
    <2>2. faults' \in 0 .. MaxFaults /\ stranded' \subseteq Jobs
      BY <1>16 DEF TypeOK, ClaimFails, ReadBackFails, Fault
    <2> QED BY <1>16, <2>1, <2>2, Zenon DEF TypeOK, ClaimFails, ReadBackFails
  <1>17. ASSUME NEW s \in Slots, UpdateFails(s) PROVE TypeOK'
    <2>1. worker[s].job \in Jobs
      BY <1>17, BusyWorker, Zenon DEF UpdateFails
    <2>2. faults' \in 0 .. MaxFaults /\ stranded' \subseteq Jobs
      BY <1>17, <2>1 DEF TypeOK, UpdateFails, Fault
    <2> QED BY <1>17, <2>2, Zenon DEF TypeOK, UpdateFails
  <1>5. CASE Tick
    <2>1. \A j \in Jobs : [job[j] EXCEPT !.wait = IF @ > 0 THEN @ - 1 ELSE 0] \in Row
      BY DEF TypeOK, Row
    <2> QED BY <1>5, <2>1, Zenon DEF TypeOK, Tick
  <1>6. CASE Start
    <2>1. \A j \in Jobs : [job[j] EXCEPT !.state = "queued", !.wait = 0] \in Row
      <3>1. 0 \in 0 .. MaxBackoff
        OBVIOUS
      <3>2. \A row \in Row : [row EXCEPT !.state = "queued", !.wait = 0] \in Row
        BY <3>1, Zenon DEF Row, States
      <3> QED BY <3>2, Zenon DEF TypeOK
    <2>2. job' \in [Jobs -> Row]
      BY <1>6, <2>1, Zenon DEF TypeOK, Start, RecoverRunningOneWayJobs
    <2> QED BY <1>6, <2>2, Zenon DEF TypeOK, Start
  <1>7. CASE Shutdown
    <2>1. stops' \in 0 .. MaxStops
      BY <1>7 DEF TypeOK, Shutdown
    <2> QED BY <1>7, <2>1, Zenon DEF TypeOK, Shutdown
  <1>8. CASE Drained
    BY <1>8, Zenon DEF TypeOK, Drained
  <1>9. CASE Crash
    BY <1>9 DEF TypeOK, Crash, NoPoll
  <1>10. ASSUME NEW j \in Jobs, Create(j) PROVE TypeOK'
    <2>1. [job[j] EXCEPT !.state = "queued"] \in Row
      BY DEF TypeOK, Row, States
    <2>2. job' \in [Jobs -> Row]
      BY <1>10, <2>1, Zenon DEF TypeOK, Create
    <2> QED BY <1>10, <2>2, Zenon DEF TypeOK, Create
  <1>11. ASSUME NEW s \in Slots, FinishJob(s) PROVE TypeOK'
    <2>1. job' \in [Jobs -> Row]
      BY <1>11, BusyWorker, FinishedRow, Zenon DEF TypeOK, FinishJob
    <2>2. stranded' \subseteq Jobs
      BY <1>11, FinishedRow, Zenon DEF TypeOK
    <2> QED BY <1>11, <2>1, <2>2, Zenon DEF TypeOK, FinishJob
  <1>12. ASSUME NEW c \in Controllers, WriteControl(c) PROVE TypeOK'
    <2>1. control[c].job \in Jobs /\ control[c].row \in Row
      BY <1>12, Zenon DEF TypeOK, WriteControl
    <2> QED BY <1>12, <2>1, Zenon DEF TypeOK, WriteControl
  <1>13. ASSUME NEW c \in Controllers, AbandonControl(c) PROVE TypeOK'
    BY <1>13, Zenon DEF TypeOK, AbandonControl
  <1>14. ASSUME NEW c \in Controllers, NEW name \in {"pause", "resume", "retry"}, NEW j \in Jobs,
                ReadControl(c, name, j)
         PROVE  TypeOK'
    <2>1. ControlledRow(name, job[j]) \in Row
      BY DEF TypeOK, ControlledRow, Row, States
    <2>2. controls' \in 0 .. MaxControls
      BY <1>14 DEF TypeOK, ReadControl
    <2>3. [on |-> TRUE, name |-> name, job |-> j, row |-> ControlledRow(name, job[j])]
            \in [on : {TRUE}, name : {"pause", "resume", "retry"}, job : Jobs, row : Row]
      BY <2>1, Zenon
    <2> QED BY <1>14, <2>2, <2>3, Zenon DEF TypeOK, ReadControl
  <1>15. CASE UNCHANGED vars
    BY <1>15, Zenon DEF TypeOK, vars
  <1> QED BY <1>1, <1>2, <1>3, <1>4, <1>5, <1>6, <1>7, <1>8, <1>9, <1>10, <1>11, <1>12, <1>13,
             <1>14, <1>15, <1>16, <1>17, Zenon DEF Next, Poll

-----------------------------------------------------------------------------
\* A stopped daemon with an empty queue holds nothing.
LEMMA HolderInit == Init => HolderInv
  BY DEF Init, HolderInv, OneHolder, HoldersMarked, DownHoldsNothing, NoPoll, WorksOn, Free

\* Held, in terms of the workers.
LEMMA HeldBy ==
    ASSUME NEW j
    PROVE  Held(j) <=> j \in poll.claimed \/ \E s \in Slots : WorksOn(s, j)
  BY Zenon DEF Held, WorkersOn, WorksOn

\* Only the read half of a control changes the count or leaves a control in flight.
LEMMA OnlyReadControl ==
    ASSUME TypeOK, [Next]_vars
    PROVE  \/ controls' = controls /\ \A c \in Controllers : control[c] = Free => control'[c] = Free
           \/ \E c \in Controllers, name \in {"pause", "resume", "retry"}, j \in Jobs : ReadControl(c, name, j)
  <1> DEFINE Quiet == controls' = controls /\ \A c \in Controllers : control[c] = Free => control'[c] = Free
  <1>1. ListRunnableOneWayJobs \/ PoolExhausted \/ Tick \/ Start \/ Shutdown => Quiet
    BY Zenon DEF ListRunnableOneWayJobs, PoolExhausted, Tick, Start, Shutdown
  <1>2. Drained \/ Crash \/ UNCHANGED vars => Quiet
    BY Zenon DEF Drained, Crash, vars
  <1>3. \A j \in Jobs, s \in Slots : ClaimOneWayJob(j) \/ StartWorker(j, s) \/ Create(j) \/ FinishJob(s) => Quiet
    BY Zenon DEF ClaimOneWayJob, StartWorker, Create, FinishJob
  <1>4. \A j \in Jobs : ClaimOneWayJob(j) \/ Create(j) => Quiet
    BY Zenon DEF ClaimOneWayJob, Create
  <1>5. \A s \in Slots : FinishJob(s) => Quiet
    BY Zenon DEF FinishJob
  <1>8. \A j \in Jobs : ClaimFails(j) \/ ReadBackFails(j) => Quiet
    BY Zenon DEF ClaimFails, ReadBackFails
  <1>9. \A s \in Slots : UpdateFails(s) => Quiet
    BY Zenon DEF UpdateFails
  <1>6. \A c \in Controllers : WriteControl(c) \/ AbandonControl(c) => Quiet
    BY Zenon DEF TypeOK, WriteControl, AbandonControl
  <1> HIDE DEF Quiet
  <1>7. Quiet \/ \E c \in Controllers, name \in {"pause", "resume", "retry"}, j \in Jobs : ReadControl(c, name, j)
    BY <1>1, <1>2, <1>3, <1>4, <1>5, <1>6, <1>8, <1>9, ZenonT(30) DEF Next, Poll
  <1> QED BY <1>7, Zenon DEF Quiet

\* Claim, hand-over, execution, shutdown, crash and restart keep the rows and their
\* holders in agreement.
LEMMA HolderNext == TypeOK /\ HolderInv /\ [Next]_vars => HolderInv'
  <1> SUFFICES ASSUME TypeOK, HolderInv, [Next]_vars, controls' = 0 PROVE HolderInv'
    BY Zenon DEF HolderInv
  <1> DEFINE Goal == OneHolder' /\ HoldersMarked' /\ DownHoldsNothing'
  <1>0. controls = 0 /\ \A c \in Controllers : control[c] = Free => control'[c] = Free
    <2>1. \A c, name, j : ~ReadControl(c, name, j)
      BY DEF ReadControl, TypeOK
    <2> QED BY <2>1, OnlyReadControl, Zenon
  <1>I. /\ \A c \in Controllers : control[c] = Free
        /\ OneHolder /\ HoldersMarked /\ DownHoldsNothing
    BY <1>0, Zenon DEF HolderInv
  <1>J. SUFFICES Goal
    BY <1>0, <1>I, Zenon DEF HolderInv
  <1>H. \A j \in Jobs : Held(j) <=> j \in poll.claimed \/ \E s \in Slots : WorksOn(s, j)
    BY HeldBy, Zenon
  <1>H1. \A j \in Jobs : Held(j)' <=> j \in poll'.claimed \/ \E s \in Slots : WorksOn(s, j)'
    BY Zenon DEF Held, WorkersOn, WorksOn
  \* The goal when nothing changes hands.
  <1>K. ASSUME poll'.claimed = poll.claimed, worker' = worker, stranded' = stranded,
               daemon' = daemon \/ (daemon = "up" /\ daemon' = "draining"),
               daemon' = "down" => poll' = poll,
               \A j \in Jobs : job'[j].state = "running" <=> job[j].state = "running"
        PROVE  Goal
    <2>1. \A s, j : WorksOn(s, j)' <=> WorksOn(s, j)
      BY <1>K, Zenon DEF WorksOn
    <2>2. \A j \in Jobs : Held(j)' <=> Held(j)
      BY <1>K, <1>H, <1>H1, <2>1, Zenon
    <2>3. OneHolder'
      BY <1>I, <1>K, <2>1, Zenon DEF OneHolder
    <2>5. HoldersMarked'
      <3>1. daemon' # "down" => daemon # "down"
        BY <1>K, Zenon
      <3>2. daemon' = "up" => daemon = "up"
        BY <1>K, Zenon
      <3>3. stranded \subseteq Jobs
        BY Zenon DEF TypeOK
      <3> QED BY <1>I, <1>K, <2>2, <3>1, <3>2, <3>3, Zenon DEF HoldersMarked
    <2>6. DownHoldsNothing'
      BY <1>I, <1>K, Zenon DEF DownHoldsNothing
    <2> QED BY <2>3, <2>5, <2>6, Zenon
  <1> HIDE DEF Goal
  <1>1. CASE ListRunnableOneWayJobs
    BY <1>1, <1>K, Zenon DEF ListRunnableOneWayJobs, TypeOK
  <1>2. CASE PoolExhausted
    <2>1. daemon # "down"
      BY <1>2, <1>I DEF PoolExhausted, DownHoldsNothing, NoPoll
    <2> QED BY <1>2, <1>K, <2>1, Zenon DEF PoolExhausted, TypeOK, NoPoll
  <1>3. ASSUME NEW j \in Jobs, ClaimOneWayJob(j) PROVE Goal
    <2>0. daemon # "down"
      BY <1>3, <1>I DEF ClaimOneWayJob, DownHoldsNothing, NoPoll
    <2>1. CASE daemon = "up" /\ Runnable(job[j])
      <3>1. /\ poll.claimed = {} /\ poll'.claimed = {j}
            /\ \A i \in Jobs : job'[i].state = IF i = j THEN "running" ELSE job[i].state
        BY <1>3, <2>1 DEF ClaimOneWayJob, TypeOK, Row
      <3>2. \A s, i : WorksOn(s, i)' <=> WorksOn(s, i)
        BY <1>3, Zenon DEF WorksOn, ClaimOneWayJob
      <3>3. ~Held(j)
        BY <1>I, <2>1, Zenon DEF HoldersMarked, Runnable
      <3>4. OneHolder'
        BY <1>I, <1>H, <3>1, <3>2, <3>3, Zenon DEF OneHolder
      <3>5. \A i \in Jobs : Held(i)' <=> Held(i) \/ i = j
        BY <1>H, <1>H1, <3>1, <3>2, Zenon
      <3>8. stranded' = stranded /\ stranded \subseteq Jobs /\ j \notin stranded /\ daemon' = daemon
        BY <1>I, <1>3, <2>1, Zenon DEF ClaimOneWayJob, HoldersMarked, Runnable, TypeOK
      <3>6. HoldersMarked'
        BY <1>I, <2>1, <3>1, <3>5, <3>8, Zenon DEF HoldersMarked
      <3>7. DownHoldsNothing'
        BY <1>3, <2>1, Zenon DEF ClaimOneWayJob, DownHoldsNothing
      <3> QED BY <3>4, <3>6, <3>7, Zenon DEF Goal
    <2>2. CASE ~(daemon = "up" /\ Runnable(job[j]))
      BY <1>3, <1>K, <2>0, <2>2, Zenon DEF ClaimOneWayJob, TypeOK
    <2> QED BY <2>1, <2>2, Zenon
  <1>4. ASSUME NEW j \in Jobs, NEW s \in Slots, StartWorker(j, s) PROVE Goal
    <2>1. /\ poll'.claimed = {} /\ job' = job /\ daemon' = daemon /\ daemon = "up" /\ stranded' = stranded
          /\ j \in poll.claimed /\ worker[s] = Free
      BY <1>4 DEF StartWorker, FreeSlots, TypeOK
    <2>2. poll.claimed = {j}
      BY <1>I, <2>1, Zenon DEF OneHolder
    <2>3. worker' = [worker EXCEPT ![s] = [on |-> TRUE, job |-> j, retry |-> job[j].retry]]
      BY <1>4, Zenon DEF StartWorker
    <2>4. \A u \in Slots, i \in Jobs : WorksOn(u, i)' <=> WorksOn(u, i) \/ (u = s /\ i = j)
      BY <2>1, <2>3, Zenon DEF WorksOn, Free, TypeOK
    <2>5. OneHolder'
      BY <1>I, <2>1, <2>4 DEF OneHolder
    <2>6. \A i \in Jobs : Held(i)' <=> Held(i)
      BY <1>H, <1>H1, <2>1, <2>2, <2>4, Zenon
    <2>7. stranded \subseteq Jobs
      BY Zenon DEF TypeOK
    <2> QED BY <1>I, <2>1, <2>5, <2>6, <2>7, Zenon DEF Goal, HoldersMarked, DownHoldsNothing
  <1>16. ASSUME NEW j \in Jobs, ClaimFails(j) PROVE Goal
    BY <1>16, <1>K, Zenon DEF ClaimFails, Fault, TypeOK
  <1>17. ASSUME NEW j \in Jobs, ReadBackFails(j) PROVE Goal
    <2>1. /\ poll'.claimed = {} /\ job' = job /\ worker' = worker /\ daemon' = daemon /\ daemon # "down"
          /\ j \in poll.claimed
      BY <1>17 DEF ReadBackFails, Fault, TypeOK
    <2>2. poll.claimed = {j}
      BY <1>I, <2>1, Zenon DEF OneHolder
    <2>3. \A u, i : WorksOn(u, i)' <=> WorksOn(u, i)
      BY <2>1, Zenon DEF WorksOn
    <2>4. OneHolder'
      BY <1>I, <2>1, <2>3, Zenon DEF OneHolder
    <2>5. \A i \in Jobs : Held(i)' <=> Held(i) /\ i # j
      BY <1>H, <1>H1, <1>I, <2>1, <2>2, <2>3, Zenon DEF OneHolder
    <2>6. daemon = "up" => stranded' = stranded \cup {j}
      BY <1>17, Zenon DEF ReadBackFails, Fault
    <2>7. stranded \subseteq Jobs /\ Held(j)
      BY <1>H, <2>1, Zenon DEF TypeOK
    <2>8. HoldersMarked'
      BY <1>I, <2>1, <2>5, <2>6, <2>7, Zenon DEF HoldersMarked
    <2> QED BY <2>1, <2>4, <2>8, Zenon DEF Goal, DownHoldsNothing
  <1>5. CASE Tick
    BY <1>5, <1>K DEF Tick, TypeOK, Row
  <1>6. CASE Start
    <2>1. /\ poll' = NoPoll /\ worker' = worker /\ daemon' = "up" /\ stranded' = {}
          /\ \A s \in Slots : worker[s] = Free
          /\ \A j \in Jobs : job'[j].state # "running"
      BY <1>6, <1>I, Zenon DEF Start, RecoverRunningOneWayJobs, DownHoldsNothing, TypeOK, Row
    <2>2. \A s \in Slots, j \in Jobs : ~WorksOn(s, j)'
      BY <2>1, Zenon DEF WorksOn
    <2>3. \A j \in Jobs : ~Held(j)'
      BY <1>H1, <2>1, <2>2, Zenon DEF NoPoll
    <2> QED BY <2>1, <2>2, <2>3, Zenon DEF Goal, OneHolder, HoldersMarked, DownHoldsNothing, NoPoll
  <1>7. CASE Shutdown
    BY <1>7, <1>K, Zenon DEF Shutdown
  <1>8. CASE Drained \/ Crash
    <2>1. /\ poll' = NoPoll /\ daemon' = "down"
          /\ \A s \in Slots : worker'[s] = Free
      BY <1>8, Zenon DEF Drained, Crash, FreeSlots
    <2>2. \A s \in Slots, j \in Jobs : ~WorksOn(s, j)'
      BY <2>1, Zenon DEF WorksOn
    <2> QED BY <2>1, <2>2, Zenon DEF Goal, OneHolder, HoldersMarked, DownHoldsNothing, NoPoll
  <1>10. ASSUME NEW j \in Jobs, Create(j) PROVE Goal
    BY <1>10, <1>K DEF Create, TypeOK, Row
  <1>11. ASSUME NEW s \in Slots, FinishJob(s) PROVE Goal
    <2> DEFINE j == worker[s].job
    <2>1. /\ poll' = poll /\ daemon' = daemon /\ daemon # "down" /\ WorksOn(s, j) /\ j \in Jobs
          /\ worker' = [worker EXCEPT ![s] = Free]
      BY <1>11, <1>I, BusyWorker, Zenon DEF FinishJob, DownHoldsNothing, WorksOn
    <2>2. \A u \in Slots, i \in Jobs : WorksOn(u, i)' <=> WorksOn(u, i) /\ u # s
      BY <2>1, Zenon DEF WorksOn, TypeOK
    <2>3. OneHolder'
      BY <1>I, <2>1, <2>2, Zenon DEF OneHolder, TypeOK
    <2>4. \A i \in Jobs : Held(i)' <=> Held(i) /\ i # j
      <3>1. \A u \in Slots, i \in Jobs : WorksOn(u, i) /\ u # s => i # j
        BY <1>I, <2>1, Zenon DEF OneHolder
      <3>2. j \notin poll.claimed
        BY <1>I, <2>1, Zenon DEF OneHolder
      <3>3. \A i \in Jobs : WorksOn(s, i) => i = j
        BY Zenon DEF WorksOn
      <3> QED BY <1>H, <1>H1, <2>1, <2>2, <3>1, <3>2, <3>3, Zenon
    <2>5. CASE daemon # "up" /\ job' = job
      BY <1>I, <2>1, <2>3, <2>4, <2>5, Zenon DEF Goal, HoldersMarked, DownHoldsNothing
    <2>6. CASE daemon = "up" /\ stranded' = stranded \ {j} /\ \E row \in Row : row.state # "running" /\ job' = [job EXCEPT ![j] = row]
      <3>1. \A i \in Jobs : job'[i].state = "running" <=> job[i].state = "running" /\ i # j
        BY <2>1, <2>6, Zenon DEF TypeOK
      <3>2. stranded \subseteq Jobs
        BY Zenon DEF TypeOK
      <3>3. HoldersMarked'
        BY <1>I, <2>1, <2>4, <2>6, <3>1, <3>2, Zenon DEF HoldersMarked
      <3> QED BY <2>1, <2>3, <3>3, Zenon DEF Goal, DownHoldsNothing
    <2> QED BY <1>11, <2>5, <2>6, FinishedRow, Zenon
  <1>18. ASSUME NEW s \in Slots, UpdateFails(s) PROVE Goal
    <2> DEFINE j == worker[s].job
    <2>1. /\ poll' = poll /\ daemon' = daemon /\ daemon = "up" /\ WorksOn(s, j) /\ j \in Jobs /\ job' = job
          /\ worker' = [worker EXCEPT ![s] = Free] /\ stranded' = stranded \cup {j}
      BY <1>18, BusyWorker, Zenon DEF UpdateFails, Fault, WorksOn
    <2>2. \A u \in Slots, i \in Jobs : WorksOn(u, i)' <=> WorksOn(u, i) /\ u # s
      BY <2>1, Zenon DEF WorksOn, TypeOK
    <2>3. OneHolder'
      BY <1>I, <2>1, <2>2, Zenon DEF OneHolder, TypeOK
    <2>4. \A i \in Jobs : Held(i)' <=> Held(i) /\ i # j
      <3>1. \A u \in Slots, i \in Jobs : WorksOn(u, i) /\ u # s => i # j
        BY <1>I, <2>1, Zenon DEF OneHolder
      <3>2. j \notin poll.claimed
        BY <1>I, <2>1, Zenon DEF OneHolder
      <3>3. \A i \in Jobs : WorksOn(s, i) => i = j
        BY Zenon DEF WorksOn
      <3> QED BY <1>H, <1>H1, <2>1, <2>2, <3>1, <3>2, <3>3, Zenon
    <2>5. stranded \subseteq Jobs /\ Held(j)
      BY <1>H, <2>1, Zenon DEF TypeOK
    <2>6. HoldersMarked'
      BY <1>I, <2>1, <2>4, <2>5, Zenon DEF HoldersMarked
    <2> QED BY <2>1, <2>3, <2>6, Zenon DEF Goal, DownHoldsNothing
  <1>12. ASSUME NEW c \in Controllers, WriteControl(c) \/ AbandonControl(c) PROVE Goal
    BY <1>12, <1>I, Zenon DEF WriteControl, AbandonControl
  <1>14. \A c, name, j : ~ReadControl(c, name, j)
    BY <1>0 DEF ReadControl, TypeOK
  <1>15. CASE UNCHANGED vars
    BY <1>15, <1>K, Zenon DEF vars
  <1> QED BY <1>1, <1>2, <1>3, <1>4, <1>5, <1>6, <1>7, <1>8, <1>10, <1>11, <1>12, <1>14, <1>15, <1>16, <1>17, <1>18,
             Zenon DEF Next, Poll

-----------------------------------------------------------------------------
\* At most one holder in the words of the queue: the workers of a job and the claim
\* about to start one count to one at most.
LEMMA HolderCount ==
    ASSUME TypeOK, OneHolder, NEW j \in Jobs
    PROVE  Cardinality(WorkersOn(j)) + Cardinality(poll.claimed \cap {j}) <= 1
  <1>1. WorkersOn(j) = {} \/ \E s \in Slots : WorkersOn(j) = {s}
    BY DEF OneHolder, WorksOn, WorkersOn
  <1>2. poll.claimed \cap {j} = {} \/ poll.claimed \cap {j} = {j}
    BY Zenon
  <1>3. j \in poll.claimed => WorkersOn(j) = {}
    BY Zenon DEF OneHolder, WorksOn, WorkersOn
  <1>4. Cardinality(WorkersOn(j)) \in {0, 1} /\ (WorkersOn(j) = {} => Cardinality(WorkersOn(j)) = 0)
    BY <1>1, FS_EmptySet, FS_Singleton, Zenon
  <1>5. CASE poll.claimed \cap {j} = {}
    <2>1. Cardinality(poll.claimed \cap {j}) = 0
      BY <1>5, FS_EmptySet, Zenon
    <2> QED BY <1>4, <2>1
  <1>6. CASE poll.claimed \cap {j} = {j}
    <2>1. Cardinality(poll.claimed \cap {j}) = 1
      BY <1>6, FS_Singleton, Zenon
    <2>2. Cardinality(WorkersOn(j)) = 0
      BY <1>3, <1>4, <1>6, Zenon
    <2> QED BY <2>1, <2>2
  <1> QED BY <1>2, <1>5, <1>6, Zenon

\* Types and the holders' invariant hold of every reachable state.
LEMMA QueueInductive == Spec => [](TypeOK /\ HolderInv)
  BY TypeInit, TypeNext, HolderInit, HolderNext, PTL DEF Spec

\* Across the gap between claim and read, shutdowns, crashes and restarts, and as long
\* as no operator has intervened: rows are well formed with bounded delays, no job has
\* two workers, and a job is marked running exactly when the process holds it or a
\* statement that failed left its row behind, until the next start recovers the row.
THEOREM QueueSafety == Spec => []QueueInv
  <1>1. TypeOK /\ HolderInv => QueueInv
    <2> SUFFICES ASSUME TypeOK, HolderInv PROVE OneWorkerPerJob /\ RunningMeansHeld
      BY Zenon DEF QueueInv
    <2>1. OneWorkerPerJob
      BY HolderCount, Zenon DEF HolderInv, OneWorkerPerJob
    <2>2. RunningMeansHeld
      BY Zenon DEF HolderInv, HoldersMarked, RunningMeansHeld
    <2> QED BY <2>1, <2>2, Zenon
  <1> QED BY <1>1, QueueInductive, PTL

\* As long as no operator has intervened, nothing takes a finished job out of completed.
THEOREM CompletedSafety == Spec => CompletedIsFinal
  <1> DEFINE Final == \A j \in Jobs : controls = 0 /\ job[j].state = "completed" => job'[j].state = "completed"
  <1>1. TypeOK /\ HolderInv /\ [Next]_vars => [Final]_vars
    <2> SUFFICES ASSUME TypeOK, HolderInv, [Next]_vars, NEW j \in Jobs, controls = 0, job[j].state = "completed"
                 PROVE  job'[j].state = "completed"
      BY Zenon
    <2>I. /\ \A c \in Controllers : control[c] = Free
          /\ HoldersMarked /\ DownHoldsNothing
      BY Zenon DEF HolderInv
    <2>1. ASSUME NEW i \in Jobs, ClaimOneWayJob(i) PROVE job'[j].state = "completed"
      BY <2>1, Zenon DEF ClaimOneWayJob, Runnable, TypeOK
    <2>2. CASE Tick \/ Start
      <3>1. CASE Tick
        BY <3>1, Zenon DEF Tick, TypeOK, Row
      <3>2. CASE Start
        BY <3>2, Zenon DEF Start, RecoverRunningOneWayJobs, TypeOK
      <3> QED BY <2>2, <3>1, <3>2, Zenon
    <2>3. ASSUME NEW i \in Jobs, Create(i) PROVE job'[j].state = "completed"
      BY <2>3, Zenon DEF Create, TypeOK
    <2>4. ASSUME NEW s \in Slots, FinishJob(s) PROVE job'[j].state = "completed"
      <3>1. worker[s] # Free /\ daemon # "down" /\ worker[s].job \in Jobs
        BY <2>I, <2>4, BusyWorker, Zenon DEF FinishJob, DownHoldsNothing
      <3>2. Held(worker[s].job)
        BY <3>1, Zenon DEF Held, WorkersOn
      <3>3. worker[s].job # j
        BY <2>I, <3>1, <3>2, Zenon DEF HoldersMarked
      <3> QED BY <2>4, <3>1, <3>3, FinishedRow, ZenonT(30) DEF TypeOK
    <2>5. \A c \in Controllers : ~WriteControl(c) /\ ~AbandonControl(c)
      BY <2>I, Zenon DEF WriteControl, AbandonControl
    <2>6. CASE UNCHANGED job
      BY <2>6, Zenon
    <2>7. /\ ListRunnableOneWayJobs \/ PoolExhausted \/ Shutdown \/ Drained \/ Crash \/ UNCHANGED vars => UNCHANGED job
          /\ \A i \in Jobs : ClaimFails(i) \/ ReadBackFails(i) => UNCHANGED job
          /\ \A s \in Slots : UpdateFails(s) => UNCHANGED job
          /\ \A i \in Jobs, s \in Slots : StartWorker(i, s) => UNCHANGED job
          /\ \A c, name, i : ReadControl(c, name, i) => UNCHANGED job
      BY Zenon DEF ListRunnableOneWayJobs, PoolExhausted, Shutdown, Drained, Crash, vars, StartWorker, ReadControl,
                   ClaimFails, ReadBackFails, UpdateFails
    <2> QED BY <2>1, <2>2, <2>3, <2>4, <2>5, <2>6, <2>7, Zenon DEF Next, Poll
  <1> HIDE DEF Final
  <1>2. Spec => [][Final]_vars
    BY <1>1, QueueInductive, PTL DEF Spec
  <1> QED BY <1>2, Zenon DEF CompletedIsFinal, Final

\* Whatever the queue does, it takes a paused job that no worker has out of paused only
\* through an operator's write.
THEOREM PauseSafety == Spec => IdlePauseHolds
  <1> DEFINE Holds == \A j \in Jobs : (job[j].state = "paused" /\ ~Held(j)) =>
                        job'[j].state = "paused" \/ Controlled(j)
  <1>1. TypeOK /\ [Next]_vars => [Holds]_vars
    <2> SUFFICES ASSUME TypeOK, [Next]_vars, NEW j \in Jobs, job[j].state = "paused", ~Held(j)
                 PROVE  job'[j].state = "paused" \/ Controlled(j)
      BY Zenon
    <2>1. ASSUME NEW i \in Jobs, ClaimOneWayJob(i) PROVE job'[j].state = "paused"
      BY <2>1, Zenon DEF ClaimOneWayJob, Runnable, TypeOK
    <2>2. CASE Tick \/ Start
      <3>1. CASE Tick
        BY <3>1, Zenon DEF Tick, TypeOK, Row
      <3>2. CASE Start
        BY <3>2, Zenon DEF Start, RecoverRunningOneWayJobs, TypeOK
      <3> QED BY <2>2, <3>1, <3>2, Zenon
    <2>3. ASSUME NEW i \in Jobs, Create(i) PROVE job'[j].state = "paused"
      BY <2>3, Zenon DEF Create, TypeOK
    <2>4. ASSUME NEW s \in Slots, FinishJob(s) PROVE job'[j].state = "paused"
      <3>1. worker[s] # Free /\ worker[s].job # j /\ worker[s].job \in Jobs
        BY <2>4, BusyWorker, Zenon DEF FinishJob, Held, WorkersOn
      <3> QED BY <2>4, <3>1, FinishedRow, ZenonT(30) DEF TypeOK
    <2>5. ASSUME NEW c \in Controllers, WriteControl(c) PROVE job'[j].state = "paused" \/ Controlled(j)
      <3>1. CASE control[c].job = j
        BY <2>5, <3>1, Zenon DEF WriteControl, Controlled, TypeOK
      <3>2. CASE control[c].job # j
        BY <2>5, <3>2, Zenon DEF WriteControl, TypeOK
      <3> QED BY <3>1, <3>2, Zenon
    <2>6. CASE UNCHANGED job
      BY <2>6, Zenon
    <2>7. /\ ListRunnableOneWayJobs \/ PoolExhausted \/ Shutdown \/ Drained \/ Crash \/ UNCHANGED vars => UNCHANGED job
          /\ \A i \in Jobs : ClaimFails(i) \/ ReadBackFails(i) => UNCHANGED job
          /\ \A s \in Slots : UpdateFails(s) => UNCHANGED job
          /\ \A i \in Jobs, s \in Slots : StartWorker(i, s) => UNCHANGED job
          /\ \A c, name, i : ReadControl(c, name, i) \/ AbandonControl(c) => UNCHANGED job
      BY Zenon DEF ListRunnableOneWayJobs, PoolExhausted, Shutdown, Drained, Crash, vars, StartWorker, ReadControl,
             AbandonControl, ClaimFails, ReadBackFails, UpdateFails
    <2> QED BY <2>1, <2>2, <2>3, <2>4, <2>5, <2>6, <2>7, Zenon DEF Next, Poll
  <1> HIDE DEF Holds
  <1>2. Spec => [][Holds]_vars
    BY <1>1, QueueInductive, PTL DEF Spec
  <1> QED BY <1>2, Zenon DEF IdlePauseHolds, Holds
=============================================================================
