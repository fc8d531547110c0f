--------------------------- MODULE BenchmarkProofs ---------------------------
(***************************************************************************)
(* Proofs about the benchmark, for any number of workers, operations,      *)
(* measurements and failing system calls: the barrier, the types, what a   *)
(* socket cache leaves behind, the results, the failures, the exit code,   *)
(* and that nobody waits for what will not come.                           *)
(***************************************************************************)
EXTENDS Benchmark, FiniteSetTheorems, SequenceTheorems, TLAPS

\* Only the workers of this measurement have begun.
BegunInv ==
    /\ worker \in [Clients -> WorkerPlaces]
    /\ step \in Nat /\ threads \in Int
    /\ window \in {"before", "open", "closed"}
    /\ \A w \in Clients : worker[w] # "none" => w \in Workers

\* Where main is decides the window, and `start' is set inside it.
WindowInv ==
    /\ main \in {"connect", "single", "await", "spawn", "gather", "blocked", "begin"}
          => window = "before"
    /\ main \in {"start", "notify", "join"} => window = "open"
    /\ window = "open" => main \in {"start", "notify", "join", "killed"}
    /\ start => window # "before"

BarrierInv == BegunInv /\ WindowInv /\ TimedInWindow

-----------------------------------------------------------------------------
\* main begins with no worker and the window before it.
LEMMA BarrierInit == Init => BarrierInv
BY DEF Init, BarrierInv, BegunInv, WindowInv, TimedInWindow, WorkerPlaces

\* No step of main, of a worker or of a server breaks the barrier.
LEMMA BarrierStep == BarrierInv /\ [Next]_vars => BarrierInv'
<1> SUFFICES ASSUME BarrierInv, [Next]_vars PROVE BarrierInv'
  OBVIOUS
<1> USE DEF BarrierInv, BegunInv, WindowInv, TimedInWindow, WorkerPlaces, Workers, MainTo
\* Steps of main that touch neither the workers nor the barrier.
<1>a. ASSUME UNCHANGED <<worker, threads, window, start>>, step' \in Nat,
             main' \in {"connect", "single", "await", "spawn", "gather", "blocked", "begin"}
                => window = "before",
             main' \notin {"start", "notify", "join"},
             main \notin {"start", "notify", "join", "killed"} \/ main' = "killed"
      PROVE  BarrierInv'
  BY <1>a
<1>m1. ASSUME OpenCache
      PROVE  BarrierInv'
  BY <1>m1, <1>a DEF OpenCache, MainJobDone, roundVars, workerVars, barrierVars
<1>m2. ASSUME OpenCacheFails
      PROVE  BarrierInv'
  BY <1>m2, <1>a DEF OpenCacheFails, MainJobDone, roundVars, workerVars, barrierVars
<1>m3. ASSUME Exit
      PROVE  BarrierInv'
  BY <1>m3, <1>a DEF Exit, MainJobDone, roundVars, workerVars, barrierVars
<1>m4. ASSUME UnlinkFails
      PROVE  BarrierInv'
  BY <1>m4, <1>a DEF UnlinkFails, MainJobDone, roundVars, workerVars, barrierVars
<1>m5. ASSUME ConnectClient
      PROVE  BarrierInv'
  BY <1>m5, <1>a DEF ConnectClient, MainJobDone, roundVars, workerVars, barrierVars
<1>m6. ASSUME ConnectFails
      PROVE  BarrierInv'
  BY <1>m6, <1>a DEF ConnectFails, MainJobDone, roundVars, workerVars, barrierVars
<1>m7. ASSUME Report
      PROVE  BarrierInv'
  BY <1>m7, <1>a DEF Report, MainJobDone, roundVars, workerVars, barrierVars
<1>m8. ASSUME SayQuit
      PROVE  BarrierInv'
  BY <1>m8, <1>a DEF SayQuit, ToHangUp, MainJobDone, roundVars, workerVars, barrierVars
<1>m9. ASSUME SayQuitFails
      PROVE  BarrierInv'
  BY <1>m9, <1>a DEF SayQuitFails, ToHangUp, MainJobDone, roundVars, workerVars, barrierVars
<1>m10. ASSUME CloseClient
      PROVE  BarrierInv'
  BY <1>m10, <1>a DEF CloseClient, MainJobDone, roundVars, workerVars, barrierVars
<1>m11. ASSUME Destroy
      PROVE  BarrierInv'
  BY <1>m11, <1>a DEF Destroy, MainJobDone, roundVars, workerVars, barrierVars
<1>m12. ASSUME MainShared
      PROVE  BarrierInv'
  BY <1>m12, <1>a DEF MainShared, MainJobDone, roundVars, workerVars, barrierVars
<1>m13. ASSUME MainLockFails
      PROVE  BarrierInv'
  BY <1>m13, <1>a DEF MainLockFails, MainJobDone, roundVars, workerVars, barrierVars
<1>m14. ASSUME MainSend
      PROVE  BarrierInv'
  BY <1>m14, <1>a DEF MainSend, MainJobDone, roundVars, workerVars, barrierVars
<1>m15. ASSUME MainSendFails
      PROVE  BarrierInv'
  BY <1>m15, <1>a DEF MainSendFails, MainJobDone, roundVars, workerVars, barrierVars
<1>m16. ASSUME MainReceive
      PROVE  BarrierInv'
  BY <1>m16, <1>a DEF MainReceive, MainJobDone, roundVars, workerVars, barrierVars
<1>m17. ASSUME MainReceiveFails
      PROVE  BarrierInv'
  BY <1>m17, <1>a DEF MainReceiveFails, MainJobDone, roundVars, workerVars, barrierVars
<1>m18. ASSUME MainBrokenPipe
      PROVE  BarrierInv'
  BY <1>m18, <1>a DEF MainBrokenPipe, ToHangUp, MainJobDone, roundVars, workerVars, barrierVars
<1>m19. ASSUME SpawnFails
      PROVE  BarrierInv'
  BY <1>m19, <1>a DEF SpawnFails, MainJobDone, roundVars, workerVars, barrierVars
<1>12. ASSUME Gather
      PROVE  BarrierInv'
  BY <1>12, <1>a DEF Gather, MainJobDone, roundVars, workerVars, barrierVars
<1>13. ASSUME NextMeasurement
      PROVE  BarrierInv'
  <2>1. /\ worker' = [w \in Clients |-> "none"] /\ window' = "before" /\ start' = FALSE
        /\ main' \in {"connect", "single"} /\ step' \in {0, 1}
        /\ (threads' = threads \/ threads' \in ThreadCounts)
    BY <1>13 DEF NextMeasurement
  <2>2. threads' \in Int
    <3>1. ThreadCounts \subseteq Int
      BY ThreadsAssumption
    <3>2. threads \in Int
      OBVIOUS
    <3> QED
      BY <2>1, <3>1, <3>2
  <2> QED
    BY <2>1, <2>2
<1>14. ASSUME Spawn
      PROVE  BarrierInv'
  <2>1. /\ main = "spawn" /\ window = "before"
        /\ UNCHANGED <<threads, window, start>>
    BY <1>14 DEF Spawn, roundVars, barrierVars
  <2>2. CASE step < threads
    <3>1. worker' = [worker EXCEPT ![step] = "created"] /\ main' = "spawn" /\ step' = step + 1
      BY <1>14, <2>2 DEF Spawn
    <3>2. step \in Workers
      BY <2>2
    <3>3. \A v \in Clients : worker'[v] = IF v = step THEN "created" ELSE worker[v]
      BY <3>1
    <3>4. BegunInv'
      <4>1. worker' \in [Clients -> WorkerPlaces]
        BY <3>1
      <4>2. Workers' = Workers
        BY <2>1
      <4>3. \A v \in Clients : worker'[v] # "none" => v \in Workers
        BY <3>2, <3>3
      <4> QED
        BY <2>1, <3>1, <4>1, <4>2, <4>3
    <3>5. WindowInv' /\ TimedInWindow'
      BY <2>1, <3>1, <3>3
    <3> QED
      BY <3>4, <3>5
  <2>3. CASE ~(step < threads)
    BY <1>14, <2>1, <2>3 DEF Spawn
  <2> QED
    BY <2>2, <2>3
<1>15. ASSUME TakeBegin
      PROVE  BarrierInv'
  BY <1>15 DEF TakeBegin, Notified, roundVars, workerVars, barrierVars
<1>16. ASSUME SetStart
      PROVE  BarrierInv'
  BY <1>16 DEF SetStart, Notified, roundVars, workerVars, barrierVars
<1>17. ASSUME NotifyWorkers
      PROVE  BarrierInv'
  BY <1>17 DEF NotifyWorkers, Notified, roundVars, workerVars, barrierVars
<1>18. ASSUME JoinWorkers
      PROVE  BarrierInv'
  BY <1>18 DEF JoinWorkers, Notified, roundVars, workerVars, barrierVars
<1>29. ASSUME Tally
      PROVE  BarrierInv'
  BY <1>29 DEF Tally, roundVars, workerVars, barrierVars
<1>19. ASSUME NEW w \in Clients, Arrive(w)
      PROVE  BarrierInv'
  <2> DEFINE others == [v \in Clients |-> Notified(worker[v])]
  <2>1. /\ worker[w] = "created" /\ main' = (IF main = "blocked" THEN "gather" ELSE main)
        /\ UNCHANGED <<step, threads, window, start>>
        /\ worker' = [others EXCEPT ![w] = IF start THEN "timed" ELSE "parking"]
    BY <1>19 DEF Arrive, Test, roundVars
  <2>2. \A v \in Clients : /\ others[v] \in WorkerPlaces
                          /\ \/ others[v] \in {"timed", "await", "ended", "none"}
                             \/ worker[v] \in {"timed", "await", "ended", "none"}
                             => others[v] = worker[v]
    BY DEF Notified
  <2>3. others \in [Clients -> WorkerPlaces]
    BY <2>2 DEF Notified
  <2>4. start => window = "open"
    BY <2>1
  <2> HIDE DEF others
  <2>5. \A v \in Clients : worker'[v] = IF v = w THEN IF start THEN "timed" ELSE "parking"
                                        ELSE others[v]
    BY <2>1, <2>3
  <2>6. BegunInv'
    BY <2>1, <2>2, <2>3, <2>5
  <2>7. WindowInv'
    BY <2>1
  <2>8. TimedInWindow'
    <3>1. window # "closed"
      BY <2>1
    <3> QED
      BY <2>1, <2>2, <2>4, <2>5, <3>1
  <2> QED
    BY <2>6, <2>7, <2>8
<1>20. ASSUME NEW w \in Clients, Park(w)
      PROVE  BarrierInv'
  BY <1>20
    DEF Park, Test, Notified, WorkerJobDone, mainVars, roundVars, workerVars,
        barrierVars
<1>21. ASSUME NEW w \in Clients, Recheck(w)
      PROVE  BarrierInv'
  <2> DEFINE others == worker
  <2>1. /\ worker[w] = "woken" /\ main' = main
        /\ UNCHANGED <<step, threads, window, start>>
        /\ worker' = [others EXCEPT ![w] = IF start THEN "timed" ELSE "parking"]
    BY <1>21 DEF Recheck, Test, mainVars, roundVars
  <2>2. \A v \in Clients : /\ others[v] \in WorkerPlaces
                          /\ \/ others[v] \in {"timed", "await", "ended", "none"}
                             \/ worker[v] \in {"timed", "await", "ended", "none"}
                             => others[v] = worker[v]
    BY DEF Notified
  <2>3. others \in [Clients -> WorkerPlaces]
    BY <2>2 DEF Notified
  <2>4. start => window = "open"
    BY <2>1
  <2> HIDE DEF others
  <2>5. \A v \in Clients : worker'[v] = IF v = w THEN IF start THEN "timed" ELSE "parking"
                                        ELSE others[v]
    BY <2>1, <2>3
  <2>6. BegunInv'
    BY <2>1, <2>2, <2>3, <2>5
  <2>7. WindowInv'
    BY <2>1
  <2>8. TimedInWindow'
    <3>1. window # "closed"
      BY <2>1
    <3> QED
      BY <2>1, <2>2, <2>4, <2>5, <3>1
  <2> QED
    BY <2>6, <2>7, <2>8
<1>22. ASSUME NEW w \in Clients, WorkerShared(w)
      PROVE  BarrierInv'
  BY <1>22
    DEF WorkerShared, Test, Notified, WorkerJobDone, mainVars, roundVars,
        workerVars, barrierVars
<1>23. ASSUME NEW w \in Clients, WorkerSend(w)
      PROVE  BarrierInv'
  BY <1>23
    DEF WorkerSend, Test, Notified, WorkerJobDone, mainVars, roundVars,
        workerVars, barrierVars
<1>24. ASSUME NEW w \in Clients, WorkerSendFails(w)
      PROVE  BarrierInv'
  BY <1>24
    DEF WorkerSendFails, Test, Notified, WorkerJobDone, mainVars, roundVars,
        workerVars, barrierVars
<1>25. ASSUME NEW w \in Clients, WorkerReceive(w)
      PROVE  BarrierInv'
  BY <1>25
    DEF WorkerReceive, Test, Notified, WorkerJobDone, mainVars, roundVars,
        workerVars, barrierVars
<1>26. ASSUME NEW w \in Clients, WorkerBrokenPipe(w)
      PROVE  BarrierInv'
  BY <1>26
    DEF WorkerBrokenPipe, Test, Notified, WorkerJobDone, mainVars, roundVars,
        workerVars, barrierVars
<1>27. ASSUME NEW c \in Clients, Serve(c) \/ ServeFails(c)
      PROVE  BarrierInv'
  <2>1. UNCHANGED <<mainVars, roundVars, workerVars, barrierVars>>
    BY <1>27 DEF Serve, ServeFails
  <2> QED
    BY <2>1 DEF mainVars, roundVars, workerVars, barrierVars
<1>30. ASSUME NEW c \in Clients, ServerBrokenPipe(c)
      PROVE  BarrierInv'
  BY <1>30, <1>a DEF ServerBrokenPipe, roundVars, workerVars, barrierVars
<1>31. ASSUME NEW w \in Clients, WorkerLockFails(w)
      PROVE  BarrierInv'
  BY <1>31
    DEF WorkerLockFails, Test, Notified, WorkerJobDone, mainVars, roundVars,
        workerVars, barrierVars
<1>32. ASSUME NEW w \in Clients, WorkerReceiveFails(w)
      PROVE  BarrierInv'
  BY <1>32
    DEF WorkerReceiveFails, Test, Notified, WorkerJobDone, mainVars, roundVars,
        workerVars, barrierVars
<1>33. ASSUME WakeUp
      PROVE  BarrierInv'
  BY <1>33 DEF WakeUp, mainVars, roundVars
<1>28. CASE UNCHANGED vars
  BY <1>28 DEF vars, mainVars, roundVars, workerVars, barrierVars
<1> QED
  BY <1>m1, <1>m2, <1>m3, <1>m4, <1>m5, <1>m6, <1>m7, <1>m8, <1>m9, <1>m10,
     <1>m11, <1>m12, <1>m13, <1>m14, <1>m15, <1>m16, <1>m17, <1>m18, <1>m19,
     <1>12, <1>13, <1>14, <1>15, <1>16, <1>17, <1>18, <1>19, <1>20, <1>21, <1>22, <1>23,
     <1>24, <1>25, <1>26, <1>27, <1>28, <1>29, <1>30, <1>31, <1>32, <1>33
  DEF Next, ThreadStep, MainStep, WorkerStep, ServerThread, Failure

\* Every timed operation runs between the two readings of the clock: no worker
\* sets off before `start', whatever wakes it from the condition variable it
\* shares with the main thread, and none is running when the time is taken.
THEOREM OperationsAreTimed == Spec => []TimedInWindow
<1>1. BarrierInv => TimedInWindow
  BY DEF BarrierInv
<1> QED
  BY <1>1, BarrierInit, BarrierStep, PTL DEF Spec

USE DEF WorkerPlaces, MainPlaces

-----------------------------------------------------------------------------
\* Operations and types.

Jobs == {[op |-> "G", key |-> "hit"], [op |-> "G", key |-> "miss"],
         [op |-> "P", key |-> "put"], [op |-> "U", key |-> "update"],
         [op |-> "P", key |-> "hit"], [op |-> "P", key |-> "update"]}

\* expected_result: every operation of a workload is one of these, and none
\* writes the key that all read.
LEMMA PlannedIsJob ==
  ASSUME workload \in Workloads, NEW i \in Nat
  PROVE  Planned(i) \in Jobs /\ (Planned(i).key = "hit" => Planned(i).op = "G")
<1>1. i % 2 \in 0 .. 1 /\ i % 4 \in 0 .. 3
  OBVIOUS
<1> DEFINE Timed == {[op |-> "G", key |-> "hit"], [op |-> "G", key |-> "miss"],
                     [op |-> "P", key |-> "put"], [op |-> "U", key |-> "update"]}
<1>2. /\ workload = "get_hit" => Planned(i) = [op |-> "G", key |-> "hit"]
      /\ workload = "get_miss" => Planned(i) = [op |-> "G", key |-> "miss"]
      /\ workload = "put_update" => Planned(i) \in Timed
      /\ workload = "mixed" => Planned(i) \in Timed
  BY <1>1 DEF Planned
<1>3. Planned(i) \in Timed
  BY <1>2, WorkloadsAssumption
<1> QED
  BY <1>3 DEF Jobs

\* The arithmetic of the warm-up: operation i is for one of the workers.
LEMMA MainClientIsWorker ==
  ASSUME NEW n \in Nat \ {0}, NEW i \in 3 .. 2 + n * WarmUp
  PROVE  /\ (i - 3) \div WarmUp \in 0 .. n - 1
         /\ (i - 3) % WarmUp \in Nat
<1> DEFINE W == WarmUp
           d == (i - 3) \div W
<1>1. W \in Nat \ {0} /\ i - 3 \in Nat
  BY CountsAssumption
<1>2. i - 3 = W * d + ((i - 3) % W) /\ (i - 3) % W \in 0 .. W - 1 /\ d \in Int
  BY <1>1
<1> HIDE DEF d, W
<1>3. ASSUME d >= n PROVE FALSE
  <2>1. W * (d - n) >= 0
    BY <1>1, <1>2, <1>3
  <2>2. W * (d - n) = W * d - n * W
    BY <1>1, <1>2
  <2>3. i - 3 < n * W
    BY <1>1 DEF W
  <2>4. n * W \in Int /\ W * d \in Int
    BY <1>1, <1>2
  <2> QED
    BY <1>1, <1>2, <2>1, <2>2, <2>3, <2>4
<1>4. ASSUME d < 0 PROVE FALSE
  <2>1. W * (-d - 1) >= 0
    BY <1>1, <1>2, <1>4
  <2>2. W * (-d - 1) = -(W * d) - W
    BY <1>1, <1>2
  <2>3. W * d \in Int
    BY <1>1, <1>2
  <2> QED
    BY <1>1, <1>2, <2>1, <2>2, <2>3
<1> QED
  BY <1>1, <1>2, <1>3, <1>4 DEF d, W

\* Operation i of the preparation and the warm-up, and whose client it uses.
LEMMA MainJobIsJob ==
  ASSUME workload \in Workloads, threads \in 1 .. MaxThreads, NEW i \in 1 .. MainJobs
  PROVE  /\ MainJob(i) \in Jobs /\ MainClient(i) \in Workers /\ MainClient(i) \in Clients
         /\ i = 1 => MainClient(i) = 0 /\ MainJob(i) = [op |-> "P", key |-> "hit"]
         /\ i = 2 => MainClient(i) = 0 /\ MainJob(i) = [op |-> "P", key |-> "update"]
<1>1. CASE i = 1
  BY <1>1, ClientsAssumption, ThreadsAssumption DEF MainJob, MainClient, Preparation, Jobs, Workers
<1>2. CASE i = 2
  BY <1>2, ClientsAssumption, ThreadsAssumption DEF MainJob, MainClient, Preparation, Jobs, Workers
<1>3. CASE i > 2
  <2>1. i \in 3 .. 2 + threads * WarmUp /\ threads \in Nat \ {0}
    BY <1>3, ThreadsAssumption, CountsAssumption DEF MainJobs
  <2>2. MainClient(i) \in 0 .. threads - 1 /\ (i - 3) % WarmUp \in Nat
    BY <1>3, <2>1, MainClientIsWorker DEF MainClient
  <2>3. ((i - 3) % WarmUp) + MainClient(i) \in Nat
    BY <2>1, <2>2
  <2>4. MainJob(i) \in Jobs
    BY <1>3, <2>3, PlannedIsJob DEF MainJob
  <2> QED
    BY <1>3, <2>1, <2>2, <2>4, ClientsAssumption, ThreadsAssumption DEF Workers
<1> QED
  BY <1>1, <1>2, <1>3

\* What a client asks for an operation.
LEMMA RequestTypes ==
  ASSUME NEW job \in Jobs, payload \in Values
  PROVE  /\ RequestOf(job) \in Requests
         /\ RequestOf(job).op = job.op /\ RequestOf(job).key = job.key
         /\ RequestOf(job).value = payload
         /\ job.key \in Keys /\ job.op \in Operations
  BY WorkloadsAssumption DEF Jobs, RequestOf, Requests, Operations

\* The kinds of messages are apart.
LEMMA MessagesApart ==
  /\ Quit \notin Requests /\ None \notin Requests /\ Quit # None /\ None \notin Responses
  /\ Junk \notin Requests /\ Junk # Quit /\ Junk # None
<1>1. \A r \in Requests : r.op # "Q"
  BY DEF Requests, Operations
<1> QED
  BY <1>1, MessagesAssumption DEF Quit, Messages

\* What serve answers, and the map after it.
LEMMA AnswerTypes ==
  ASSUME NEW m \in [Keys -> Values \cup {Absent}], NEW r \in Requests \cup {Junk}
  PROVE  /\ AnswerTo(m, r) \in Responses
         /\ MapAfter(m, r) \in [Keys -> Values \cup {Absent}]
<1>1. r # Junk => r.op \in Operations /\ r.key \in Keys /\ r.value \in Values
  BY DEF Requests
<1> QED
  BY <1>1 DEF AnswerTo, MapAfter, Responses, Answered
-----------------------------------------------------------------------------
\* Types.

\* The workers that have counted themselves.
Arrived == {w \in Workers : worker[w] \notin {"none", "created"}}

\* How far main and the workers are.
OrderInv ==
    /\ main \in {"connect", "single", "await"} => \A w \in Clients : worker[w] = "none"
    /\ main = "spawn" => \A w \in Clients : w >= step => worker[w] = "none"
    /\ main \in {"single", "await"} => step \in 1 .. MainJobs
    /\ \A w \in Clients :
          /\ worker[w] \in {"none", "created", "parking", "blocked", "woken"} => index[w] = 0
          /\ worker[w] \in {"timed", "await"} => index[w] < OpsPerThread
          /\ failures[w] <= index[w]
    /\ ready_count = Cardinality(Arrived)

\* A server has something to send.
SendingInv == \A c \in Clients : server[c] = "sending" => answer[c] \in Responses

TypeInv == TypeOK /\ SendingInv /\ OrderInv /\ BarrierInv

\* Any set of the first n workers is finite, and they are clients.
LEMMA SomeWorkers ==
  ASSUME NEW n \in 1 .. MaxThreads, NEW S \in SUBSET (0 .. n - 1)
  PROVE  /\ IsFiniteSet(S) /\ Cardinality(S) \in 0 .. n
         /\ 0 .. n - 1 \subseteq Clients
<1>1. n \in Nat \ {0} /\ n <= MaxThreads /\ MaxThreads \in Nat
  BY ThreadsAssumption
<1>2. IsFiniteSet(0 .. n - 1) /\ Cardinality(0 .. n - 1) = n
  BY <1>1, FS_Interval
<1>3. IsFiniteSet(S) /\ Cardinality(S) <= n
  BY <1>2, FS_Subset
<1>4. Cardinality(S) \in Nat
  BY <1>3, FS_CardinalityType
<1>5. 0 .. n - 1 \subseteq Clients
  BY <1>1, ClientsAssumption
<1> QED
  BY <1>1, <1>3, <1>4, <1>5

\* ready_count counts a finite set of workers.
LEMMA ArrivedIsFinite ==
  ASSUME threads \in 1 .. MaxThreads
  PROVE  /\ IsFiniteSet(Arrived) /\ Cardinality(Arrived) \in 0 .. threads
         /\ Workers \subseteq Clients
  BY SomeWorkers DEF Arrived, Workers

\* Before the first socket cache.
LEMMA SocketInitTypes == NoCache => SocketTypeOK /\ SendingInv
BY DEF NoCache, SocketTypeOK, SendingInv

\* The steps of the socket cache that main, the workers and the servers take.
SocketMove ==
    \/ UNCHANGED socketVars \/ Construct \/ Connect(step) \/ ConnectWithoutThread(step)
    \/ HangUp(step) \/ Join
    \/ \E c \in Clients, m \in Messages : Write(c, m) \/ WriteFails(c, m)
    \/ \E c \in Clients : \/ Receive(c) \/ ReceiveEnd(c) \/ ReceiveFails(c)
                         \/ ServerStep(c) \/ RespondFails(c) \/ ServeReadFails(c)

\* A worker's timed operation is one of the operations.
LEMMA WorkerJobIsJob ==
  ASSUME TypeOK, NEW w \in Clients
  PROVE  WorkerJob(w) \in Jobs /\ (WorkerJob(w).key = "hit" => WorkerJob(w).op = "G")
<1>1. index[w] + w \in Nat
  BY ClientsAssumption, ThreadsAssumption, CountsAssumption DEF TypeOK
<1> QED
  BY <1>1, PlannedIsJob DEF TypeOK, WorkerJob

\* Every step of the benchmark is a SocketMove.
LEMMA SocketMoves == TypeInv /\ [Next]_vars => SocketMove
<1> SUFFICES ASSUME TypeInv, [Next]_vars PROVE SocketMove
  OBVIOUS
<1> USE DEF SocketMove
<1>a. Quit \in Messages /\ Requests \subseteq Messages
  BY DEF Messages
<1>1. ASSUME MainSend \/ MainSendFails PROVE SocketMove
  <2> DEFINE r == RequestOf(MainJob(step))
  <2>1. (Write(MainClient(step), r) \/ WriteFails(MainClient(step), r)) /\ main = "single"
    BY <1>1 DEF MainSend, MainSendFails
  <2>2. MainClient(step) \in Clients /\ MainJob(step) \in Jobs
    BY <2>1, MainJobIsJob DEF TypeInv, TypeOK, OrderInv
  <2>3. r \in Requests
    BY <2>2, RequestTypes DEF TypeInv, TypeOK
  <2> HIDE DEF r
  <2> QED
    BY <1>a, <2>1, <2>2, <2>3
<1>2. ASSUME MainReceive \/ MainReceiveFails PROVE SocketMove
  <2>1. MainClient(step) \in Clients
    BY <1>2, MainJobIsJob DEF MainReceive, MainReceiveFails, TypeInv, TypeOK, OrderInv
  <2> QED
    BY <1>2, <2>1 DEF MainReceive, MainReceiveFails
<1>3. ASSUME NEW w \in Clients, WorkerSend(w) \/ WorkerSendFails(w) PROVE SocketMove
  <2> DEFINE r == RequestOf(WorkerJob(w))
  <2>1. r \in Requests
    BY WorkerJobIsJob, RequestTypes DEF TypeInv, TypeOK
  <2>2. Write(w, r) \/ WriteFails(w, r)
    BY <1>3 DEF WorkerSend, WorkerSendFails
  <2> HIDE DEF r
  <2> QED
    BY <1>a, <2>1, <2>2
<1>4. ASSUME NEW w \in Clients, WorkerReceive(w) \/ WorkerReceiveFails(w) PROVE SocketMove
  BY <1>4 DEF WorkerReceive, WorkerReceiveFails
<1>5. ASSUME NEW c \in Clients, Serve(c) \/ ServeFails(c) PROVE SocketMove
  BY <1>5 DEF Serve, ServeFails
<1>6. ASSUME NextMeasurement PROVE SocketMove
  BY <1>6 DEF NextMeasurement
<1>7. ASSUME ConnectClient PROVE SocketMove
  BY <1>7 DEF ConnectClient
<1>8. ASSUME ConnectFails PROVE SocketMove
  BY <1>8 DEF ConnectFails
<1>9. ASSUME SayQuit \/ SayQuitFails \/ CloseClient \/ Destroy PROVE SocketMove
  BY <1>9, <1>a DEF SayQuit, SayQuitFails, ToHangUp, CloseClient, Destroy
<1>10. ASSUME UNCHANGED socketVars PROVE SocketMove
  BY <1>10
<1>11. OpenCache \/ Exit \/ Report \/ MainShared \/ MainBrokenPipe \/ Spawn \/ Gather \/ TakeBegin
       \/ SetStart \/ NotifyWorkers \/ JoinWorkers \/ Tally \/ SpawnFails \/ OpenCacheFails
       \/ UnlinkFails \/ MainLockFails \/ WakeUp
       => UNCHANGED socketVars
  BY DEF OpenCache, Exit, Report, MainShared, MainBrokenPipe, Spawn, Gather, TakeBegin, SetStart,
         NotifyWorkers, JoinWorkers, Tally, SpawnFails, OpenCacheFails, UnlinkFails,
         MainLockFails, WakeUp
<1>12. \A w \in Clients : Arrive(w) \/ Park(w) \/ Recheck(w) \/ WorkerShared(w)
                          \/ WorkerBrokenPipe(w) \/ WorkerLockFails(w) \/ ServerBrokenPipe(w)
                          => UNCHANGED socketVars
  BY DEF Arrive, Park, Recheck, WorkerShared, WorkerBrokenPipe, WorkerLockFails, ServerBrokenPipe
<1>13. CASE UNCHANGED vars
  BY <1>13 DEF vars
<1>14. CASE MainStep
  BY <1>14, <1>1, <1>2, <1>6, <1>7, <1>9, <1>10, <1>11 DEF MainStep
<1>15. CASE \E w \in Clients : WorkerStep(w) \/ ServerThread(w)
  BY <1>15, <1>3, <1>4, <1>5, <1>10, <1>12 DEF WorkerStep, ServerThread
<1>16. CASE Failure
  BY <1>16, <1>1, <1>2, <1>3, <1>4, <1>5, <1>8, <1>9, <1>10, <1>11, <1>12 DEF Failure
<1> QED
  BY <1>10, <1>11, <1>13, <1>14, <1>15, <1>16 DEF Next, ThreadStep

\* What is left of a sequence after one or two reads.
LEMMA HeadAndTail ==
  ASSUME NEW M, NEW s \in Seq(M), s # <<>>
  PROVE  /\ Head(s) \in M /\ Tail(s) \in Seq(M)
         /\ Len(s) \in Nat /\ Len(s) > 0 /\ Len(Tail(s)) = Len(s) - 1
<1>1. Len(s) \in Nat /\ Len(s) # 0
  BY LenProperties, EmptySeq
<1> QED
  BY <1>1, HeadTailProperties

LEMMA TailOfTail ==
  ASSUME NEW M, NEW s \in Seq(M), Len(s) > 1
  PROVE  /\ s # <<>> /\ Tail(s) # <<>>
         /\ Tail(Tail(s)) \in Seq(M) /\ Len(Tail(Tail(s))) = Len(s) - 2
<1>1. s # <<>>
  BY EmptySeq
<1>2. Tail(s) \in Seq(M) /\ Len(Tail(s)) = Len(s) - 1 /\ Len(s) \in Nat
  BY <1>1, HeadAndTail
<1>3. Tail(s) # <<>>
  <2>1. Len(Tail(s)) # 0
    BY <1>2
  <2> QED
    BY <2>1, EmptySeq
<1>4. Tail(Tail(s)) \in Seq(M) /\ Len(Tail(Tail(s))) = Len(Tail(s)) - 1
  BY <1>2, <1>3, HeadAndTail
<1> QED
  BY <1>1, <1>2, <1>3, <1>4

\* A write to a stream.
LEMMA StreamGrows ==
  ASSUME NEW M, NEW s \in [Clients -> Seq(M)], NEW c \in Clients, NEW m \in M
  PROVE  Appended(s, c, m) \in [Clients -> Seq(M)]
BY DEF Appended

\* What the client's mangled message is.
LEMMA MangledTypes ==
  ASSUME NEW m \in Messages
  PROVE  Mangled(m) \subseteq Messages
BY DEF Mangled, Messages

\* A SocketMove keeps the types of the socket cache.
LEMMA SocketTypes ==
  SocketTypeOK /\ SendingInv /\ SocketMove => SocketTypeOK' /\ SendingInv'
<1> DEFINE Kept == SocketTypeOK' /\ SendingInv'
<1> SUFFICES ASSUME SocketTypeOK, SendingInv, SocketMove PROVE Kept
  OBVIOUS
<1> USE DEF SocketTypeOK, SendingInv
<1>a. Junk \in Messages /\ Rest \in Responses \cup {Rest}
  BY DEF Messages
<1>1. CASE UNCHANGED socketVars
  BY <1>1 DEF socketVars, requestVars
<1>2. CASE Construct
  BY <1>2 DEF Construct, requestVars
<1>3. CASE Connect(step) \/ ConnectWithoutThread(step) \/ HangUp(step)
  BY <1>3 DEF Connect, ConnectWithoutThread, HangUp, requestVars
<1>4. CASE Join
  BY <1>4 DEF Join, Freed
<1>5. ASSUME NEW c \in Clients, NEW m \in Messages, Write(c, m) PROVE Kept
  <2>1. PICK r \in IF torn[c] = None THEN {m} ELSE Mangled(torn[c]) : request' = Appended(request, c, r)
    BY <1>5 DEF Write
  <2>2. r \in Messages
    BY <2>1, MangledTypes
  <2>3. request' \in [Clients -> Seq(Messages)]
    <3>1. Appended(request, c, r) \in [Clients -> Seq(Messages)]
      BY <2>2, StreamGrows
    <3> QED
      BY <2>1, <3>1
  <2>4. torn' \in [Clients -> Messages \cup {None}]
    BY <1>5, <1>a DEF Write
  <2> QED
    BY <1>5, <2>3, <2>4 DEF Write
<1>6. ASSUME NEW c \in Clients, NEW m \in Messages, WriteFails(c, m) PROVE Kept
  <2>1. request' = request \/ \E r \in Messages : request' = Appended(request, c, r)
    <3>1. torn[c] # None => Mangled(torn[c]) \subseteq Messages
      BY MangledTypes
    <3> QED
      BY <1>6, <3>1 DEF WriteFails, requestVars
  <2>2. request' \in [Clients -> Seq(Messages)]
    <3>1. ASSUME NEW r \in Messages, request' = Appended(request, c, r)
          PROVE  request' \in [Clients -> Seq(Messages)]
      <4>1. Appended(request, c, r) \in [Clients -> Seq(Messages)]
        BY StreamGrows
      <4> QED
        BY <3>1, <4>1
    <3> QED
      BY <2>1, <3>1
  <2>3. torn' \in [Clients -> Messages \cup {None}]
    BY <1>6, <1>a DEF WriteFails, requestVars
  <2> QED
    BY <1>6, <2>2, <2>3 DEF WriteFails
<1>7. ASSUME NEW c \in Clients, Receive(c) \/ ReceiveEnd(c) \/ ReceiveFails(c) PROVE Kept
  <2> DEFINE R == Responses \cup {Rest}
  <2>1. response \in [Clients -> Seq(R)] /\ response[c] \in Seq(R) /\ <<Rest>> \in Seq(R)
    BY <1>a
  <2> HIDE DEF R
  <2>2. /\ <<>> \in Seq(R)
        /\ response[c] # <<>> => Tail(response[c]) \in Seq(R) /\ <<Rest>> \o Tail(response[c]) \in Seq(R)
    <3>1. response[c] # <<>> => Tail(response[c]) \in Seq(R)
      BY <2>1, HeadAndTail
    <3> QED
      BY <2>1, <3>1
  <2>3. HasResponse(c) => AfterRead(c) \in Seq(R)
    <3>1. HasResponse(c) => response[c] # <<>> /\ (Misaligned(c) => Len(response[c]) > 1)
      BY <2>1, EmptySeq, LenProperties DEF HasResponse
    <3>2. HasResponse(c) /\ Misaligned(c) => Tail(Tail(response[c])) \in Seq(R)
      BY <2>1, <3>1, TailOfTail
    <3>3. HasResponse(c) /\ Misaligned(c) => <<Rest>> \o Tail(Tail(response[c])) \in Seq(R)
      BY <2>1, <3>2
    <3> QED
      BY <2>2, <3>1, <3>3 DEF AfterRead
  <2>4. PICK q \in Seq(R) : response' = [response EXCEPT ![c] = q]
    <3>1. response = [response EXCEPT ![c] = response[c]]
      BY <2>1
    <3>2. CASE Receive(c)
      BY <3>2, <2>3 DEF Receive
    <3>3. CASE ReceiveEnd(c)
      BY <3>3, <2>2 DEF ReceiveEnd
    <3>4. CASE ReceiveFails(c)
      BY <3>1, <3>4, <2>1, <2>2, <2>3 DEF ReceiveFails, Misaligned
    <3> QED
      BY <1>7, <3>2, <3>3, <3>4
  <2>5. response' \in [Clients -> Seq(Responses \cup {Rest})]
    <3>1. response' \in [Clients -> Seq(R)]
      BY <2>1, <2>4
    <3> QED
      BY <3>1 DEF R
  <2>6. UNCHANGED <<values, mutex, client, server, requestVars, answer>>
    BY <1>7 DEF Receive, ReceiveEnd, ReceiveFails
  <2> QED
    BY <2>5, <2>6 DEF requestVars
<1>8. ASSUME NEW c \in Clients, Handle(c) PROVE Kept
  <2> DEFINE r == Head(request[c])
  <2>1. r \in Requests \cup {Junk} /\ Tail(request[c]) \in Seq(Messages)
    <3>1. request[c] \in Seq(Messages) /\ request[c] # <<>> /\ r # Quit
      BY <1>8 DEF Handle
    <3>2. r \in Messages /\ Tail(request[c]) \in Seq(Messages)
      BY <3>1, HeadAndTail
    <3> QED
      BY <3>1, <3>2 DEF Messages
  <2>2. /\ values' = MapAfter(values, r)
        /\ answer' = [answer EXCEPT ![c] = AnswerTo(values, r)]
        /\ request' = [request EXCEPT ![c] = Tail(request[c])]
    BY <1>8 DEF Handle
  <2>3. /\ values' \in [Keys -> Values \cup {Absent}]
        /\ AnswerTo(values, r) \in Responses
    BY <2>1, <2>2, AnswerTypes
  <2>4. answer' \in [Clients -> Responses \cup {None}] /\ request' \in [Clients -> Seq(Messages)]
    BY <2>1, <2>2, <2>3
  <2> QED
    BY <1>8, <2>3, <2>4 DEF Handle
<1>9. ASSUME NEW c \in Clients, Respond(c) \/ RespondFails(c) PROVE Kept
  <2>1. /\ response' \in {response, Appended(response, c, answer[c]), Appended(response, c, Rest)}
        /\ answer[c] \in Responses
    BY <1>9 DEF Respond, RespondFails
  <2>2. response' \in [Clients -> Seq(Responses \cup {Rest})]
    <3> DEFINE R == Responses \cup {Rest}
    <3>1. response \in [Clients -> Seq(R)] /\ answer[c] \in R /\ Rest \in R
      BY <2>1
    <3> HIDE DEF R
    <3>2. Appended(response, c, answer[c]) \in [Clients -> Seq(R)]
          /\ Appended(response, c, Rest) \in [Clients -> Seq(R)]
      BY <3>1, StreamGrows
    <3>3. response' \in [Clients -> Seq(R)]
      BY <2>1, <3>1, <3>2
    <3> QED
      BY <3>3 DEF R
  <2> QED
    BY <1>9, <2>2 DEF Respond, RespondFails, requestVars
<1>10. ASSUME NEW c \in Clients, EndServing(c) \/ ServeReadFails(c) PROVE Kept
  BY <1>10 DEF EndServing, ServeReadFails, requestVars
<1> QED
  BY <1>1, <1>2, <1>3, <1>4, <1>5, <1>6, <1>7, <1>8, <1>9, <1>10 DEF SocketMove, ServerStep

\* The types but the socket cache's: of the measurement, of the workers, and
\* of what has failed.
RoundTypes ==
    /\ main \in MainPlaces /\ step \in Nat /\ rounds \in 0 .. Rounds
    /\ shared \in BOOLEAN /\ workload \in Workloads /\ payload \in Values
    /\ threads \in 1 .. MaxThreads
    /\ engine \in [Keys -> Values \cup {Absent}]
    /\ reported \in Nat /\ failed \in BOOLEAN

WorkerTypes ==
    /\ worker \in [Clients -> WorkerPlaces]
    /\ index \in [Clients -> 0 .. OpsPerThread]
    /\ failures \in [Clients -> 0 .. OpsPerThread]
    /\ ready_mutex \in Clients \cup {NoThread} /\ ready_count \in Nat
    /\ start \in BOOLEAN /\ window \in {"before", "open", "closed"}

FaultTypes ==
    /\ faults \in Nat /\ wakeups \in Nat /\ faults + wakeups <= MaxUpsets
    /\ trouble \in BOOLEAN
    /\ spoilt \in [Clients -> BOOLEAN] /\ hurt \in [Clients -> Nat]

\* TypeInv in the parts that the actions are looked at for ...
LEMMA TypeParts == TypeInv <=> /\ SocketTypeOK /\ SendingInv /\ RoundTypes /\ WorkerTypes
                               /\ FaultTypes /\ OrderInv /\ BarrierInv
<1>1. ASSUME SocketTypeOK, RoundTypes, WorkerTypes, FaultTypes, OrderInv PROVE TypeOK
  <2>1. ready_count \in 0 .. threads
    BY <1>1, ArrivedIsFinite DEF OrderInv, RoundTypes
  <2> QED
    BY <1>1, <2>1 DEF TypeOK, RoundTypes, WorkerTypes, FaultTypes
<1>2. ASSUME TypeOK PROVE SocketTypeOK /\ RoundTypes /\ WorkerTypes /\ FaultTypes
  BY <1>2, ThreadsAssumption DEF TypeOK, RoundTypes, WorkerTypes, FaultTypes
<1> QED
  BY <1>1, <1>2 DEF TypeInv

\* ... and in the next state.
LEMMA TypePartsNext ==
  SocketTypeOK' /\ SendingInv' /\ RoundTypes' /\ WorkerTypes' /\ FaultTypes' /\ OrderInv'
  /\ BarrierInv' => TypeInv'
<1>1. ASSUME SocketTypeOK', RoundTypes', WorkerTypes', FaultTypes', OrderInv' PROVE TypeOK'
  <2>1. Arrived' \in SUBSET (0 .. threads' - 1) /\ threads' \in 1 .. MaxThreads
    BY <1>1 DEF Arrived, Workers, RoundTypes
  <2>2. Cardinality(Arrived') \in 0 .. threads'
    BY <2>1, SomeWorkers
  <2>3. ready_count' \in 0 .. threads'
    BY <1>1, <2>2 DEF OrderInv
  <2> QED
    BY <1>1, <2>3 DEF TypeOK, RoundTypes, WorkerTypes, FaultTypes
<1> QED
  BY <1>1 DEF TypeInv

\* main starts with everything at rest.
LEMMA TypeInit == Init => TypeInv
<1> SUFFICES ASSUME Init PROVE TypeInv
  OBVIOUS
<1>1. BarrierInv
  BY BarrierInit
<1>2. SocketTypeOK /\ SendingInv
  BY SocketInitTypes DEF Init
<1>3. RoundTypes
  <2>1. workload \in Workloads /\ payload \in Values
    BY WorkloadsAssumption DEF Init
  <2>2. threads = 1 /\ 1 \in 1 .. MaxThreads
    BY ThreadsAssumption DEF Init
  <2>3. /\ main = "open" /\ step = 0 /\ rounds = 0 /\ shared = FALSE
        /\ engine = [k \in Keys |-> Absent] /\ reported = 0 /\ failed = FALSE
    BY DEF Init
  <2>4. 0 \in 0 .. Rounds /\ 0 \in Nat /\ "open" \in MainPlaces
    BY CountsAssumption DEF MainPlaces
  <2>5. threads \in 1 .. MaxThreads
    BY <2>2
  <2>6. engine \in [Keys -> Values \cup {Absent}]
    BY <2>3
  <2> QED
    BY <2>1, <2>3, <2>4, <2>5, <2>6 DEF RoundTypes
<1>a. /\ worker = [w \in Clients |-> "none"] /\ index = [w \in Clients |-> 0]
      /\ failures = [w \in Clients |-> 0] /\ ready_mutex = NoThread
      /\ ready_count = 0 /\ start = FALSE /\ window = "before" /\ main = "open"
  BY DEF Init
<1>b. OpsPerThread \in Nat \ {0} /\ 0 \in 0 .. OpsPerThread
  BY CountsAssumption
<1>4. WorkerTypes
  BY <1>a, <1>b DEF WorkerTypes, WorkerPlaces
<1>5. OrderInv
  <2>1. Arrived = {}
    <3>1. Workers \subseteq Clients
      BY <1>3, ArrivedIsFinite DEF RoundTypes
    <3> QED
      BY <1>a, <3>1 DEF Arrived
  <2> QED
    BY <1>a, <1>b, <2>1, FS_EmptySet DEF OrderInv
<1>6. FaultTypes
  <2>1. /\ faults = 0 /\ wakeups = 0 /\ trouble = FALSE
        /\ spoilt = [c \in Clients |-> FALSE] /\ hurt = [c \in Clients |-> 0]
    BY DEF Init
  <2>2. 0 + 0 <= MaxUpsets
    BY CountsAssumption
  <2> QED
    BY <2>1, <2>2 DEF FaultTypes
<1> QED
  BY <1>1, <1>2, <1>3, <1>4, <1>5, <1>6, TypeParts

\* What a step does to the count of failures.
FaultMove ==
    \/ UNCHANGED <<faultVars, wakeups>>
    \/ SetUpFault /\ UNCHANGED wakeups
    \/ \E c \in Clients, loses \in BOOLEAN : OperationFault(c, loses) /\ UNCHANGED wakeups
    \/ /\ spoilt' = [c \in Clients |-> FALSE] /\ hurt' = [c \in Clients |-> 0]
       /\ UNCHANGED <<faults, trouble, wakeups>>
    \/ Upsettable /\ wakeups' = wakeups + 1 /\ UNCHANGED faultVars

LEMMA FaultMoves == TypeInv /\ [Next]_vars => FaultMove
<1> SUFFICES ASSUME TypeInv, [Next]_vars PROVE FaultMove
  OBVIOUS
<1> USE DEF FaultMove
<1>1. NextMeasurement => FaultMove
  BY DEF NextMeasurement
<1>2. WakeUp => FaultMove
  BY DEF WakeUp
<1>3. /\ OpenCache \/ Exit \/ Report \/ MainShared \/ MainSend \/ MainReceive \/ MainBrokenPipe
         => UNCHANGED <<faultVars, wakeups>>
      /\ ConnectClient \/ SayQuit \/ CloseClient \/ Destroy \/ Spawn \/ Gather \/ TakeBegin
         => UNCHANGED <<faultVars, wakeups>>
      /\ SetStart \/ NotifyWorkers \/ JoinWorkers \/ Tally => UNCHANGED <<faultVars, wakeups>>
  BY DEF OpenCache, Exit, ConnectClient, Report, SayQuit, CloseClient, Destroy, MainShared,
         MainSend, MainReceive, MainBrokenPipe, Spawn, Gather, TakeBegin, SetStart, NotifyWorkers,
         JoinWorkers, Tally, barrierVars
<1>4. \A w \in Clients : WorkerStep(w) \/ ServerThread(w) => UNCHANGED <<faultVars, wakeups>>
  BY DEF WorkerStep, ServerThread, Arrive, Park, Recheck, WorkerShared, WorkerSend, WorkerReceive,
         WorkerBrokenPipe, Serve, ServerBrokenPipe, barrierVars
<1>5. OpenCacheFails \/ UnlinkFails \/ ConnectFails \/ SpawnFails => SetUpFault /\ UNCHANGED wakeups
  BY DEF OpenCacheFails, UnlinkFails, ConnectFails, SpawnFails, barrierVars
<1>6. main \in {"single", "await"} => MainClient(step) \in Clients
  BY MainJobIsJob DEF TypeInv, TypeOK, OrderInv
<1>7. ASSUME MainSendFails \/ MainReceiveFails PROVE FaultMove
  BY <1>6, <1>7 DEF MainSendFails, MainReceiveFails, barrierVars
<1>8. ASSUME MainLockFails PROVE FaultMove
  <2> DEFINE ok == Correct(MainJob(step), Answered(0))
  <2>1. OperationFault(MainClient(step), ~ok) /\ UNCHANGED wakeups /\ (~ok) \in BOOLEAN
    BY <1>8 DEF MainLockFails, barrierVars
  <2> HIDE DEF ok
  <2> QED
    BY <1>6, <1>8, <2>1 DEF MainLockFails
<1>9. ASSUME SayQuitFails PROVE FaultMove
  BY <1>9 DEF SayQuitFails, ToHangUp, barrierVars
<1>10. ASSUME NEW w \in Clients, WorkerLockFails(w) PROVE FaultMove
  <2> DEFINE ok == Correct(WorkerJob(w), Answered(0))
  <2>1. OperationFault(w, ~ok) /\ UNCHANGED wakeups /\ (~ok) \in BOOLEAN
    BY <1>10 DEF WorkerLockFails, barrierVars
  <2> HIDE DEF ok
  <2> QED
    BY <2>1
<1>11. ASSUME NEW w \in Clients, WorkerSendFails(w) \/ WorkerReceiveFails(w) \/ ServeFails(w)
       PROVE  FaultMove
  BY <1>11 DEF WorkerSendFails, WorkerReceiveFails, ServeFails, barrierVars
<1>12. CASE UNCHANGED vars
  BY <1>12 DEF vars, barrierVars
<1>13. CASE MainStep
  BY <1>13, <1>1, <1>3 DEF MainStep
<1>14. CASE Failure
  BY <1>14, <1>5, <1>7, <1>8, <1>9, <1>10, <1>11 DEF Failure
<1>15. CASE \E w \in Clients : WorkerStep(w) \/ ServerThread(w)
  BY <1>15, <1>4
<1> QED
  BY <1>2, <1>12, <1>13, <1>14, <1>15 DEF Next, ThreadStep

\* What has failed keeps its types.
LEMMA FaultTypesStep == FaultTypes /\ FaultMove => FaultTypes'
<1> SUFFICES ASSUME FaultTypes, FaultMove PROVE FaultTypes'
  OBVIOUS
<1> USE CountsAssumption
<1>1. CASE UNCHANGED <<faultVars, wakeups>>
  BY <1>1 DEF FaultTypes, faultVars
<1>2. CASE SetUpFault /\ UNCHANGED wakeups
  BY <1>2 DEF FaultTypes, SetUpFault, Fault, Upsettable
<1>3. ASSUME NEW c \in Clients, NEW loses \in BOOLEAN, OperationFault(c, loses), UNCHANGED wakeups
      PROVE  FaultTypes'
  <2>1. faults' = faults + 1 /\ faults + wakeups < MaxUpsets /\ wakeups' = wakeups
    BY <1>3 DEF OperationFault, Fault, Upsettable
  <2>2. faults' \in Nat /\ wakeups' \in Nat /\ faults' + wakeups' <= MaxUpsets
    BY <2>1 DEF FaultTypes
  <2>3. hurt[c] \in Nat /\ hurt[c] + 1 \in Nat
    BY DEF FaultTypes
  <2>4. hurt' \in [Clients -> Nat]
    BY <1>3, <2>3 DEF OperationFault, FaultTypes
  <2> QED
    BY <1>3, <2>2, <2>4 DEF OperationFault, FaultTypes
<1>4. CASE /\ spoilt' = [c \in Clients |-> FALSE] /\ hurt' = [c \in Clients |-> 0]
           /\ UNCHANGED <<faults, trouble, wakeups>>
  BY <1>4 DEF FaultTypes
<1>5. CASE Upsettable /\ wakeups' = wakeups + 1 /\ UNCHANGED faultVars
  BY <1>5 DEF FaultTypes, Upsettable, faultVars
<1> QED
  BY <1>1, <1>2, <1>3, <1>4, <1>5 DEF FaultMove

\* An operation of a worker has ended.
LEMMA WorkerJobDoneTypes ==
  ASSUME TypeInv, NEW w \in Clients, NEW ok \in BOOLEAN, WorkerJobDone(w, ok),
         worker[w] \in {"timed", "await"},
         UNCHANGED <<main, step, threads, ready_mutex, ready_count, start, window>>
  PROVE  WorkerTypes' /\ OrderInv'
<1>1. /\ index' = [index EXCEPT ![w] = index[w] + 1]
      /\ worker'[w] \in {"timed", "ended"}
      /\ worker'[w] = "timed" => index[w] + 1 < OpsPerThread
      /\ worker' = [worker EXCEPT ![w] = worker'[w]]
      /\ \/ failures' = failures
         \/ failures' = [failures EXCEPT ![w] = failures[w] + 1]
  BY DEF WorkerJobDone, TypeInv, TypeOK
<1>2. WorkerTypes /\ OrderInv /\ index[w] \in Nat /\ failures[w] \in Nat
      /\ OpsPerThread \in Nat /\ index[w] < OpsPerThread /\ failures[w] <= index[w]
  BY TypeParts, CountsAssumption DEF OrderInv, WorkerTypes
<1>3. WorkerTypes'
  BY <1>1, <1>2 DEF WorkerTypes
<1>4. /\ \A v \in Clients : v # w => /\ worker'[v] = worker[v] /\ index'[v] = index[v]
                                     /\ failures'[v] = failures[v]
      /\ index'[w] = index[w] + 1 /\ failures'[w] \in {failures[w], failures[w] + 1}
  BY <1>1, <1>2 DEF WorkerTypes
<1>5. Arrived' = Arrived
  <2>1. Workers' = Workers /\ Workers \subseteq Clients
    BY ArrivedIsFinite DEF Workers, TypeInv, TypeOK
  <2> QED
    BY <1>1, <1>4, <2>1 DEF Arrived
<1>6. main \notin {"connect", "single", "await"}
  BY DEF OrderInv, TypeInv
<1>7. main # "spawn"
  BY DEF TypeInv, BarrierInv, WindowInv, TimedInWindow
<1> QED
  BY <1>1, <1>2, <1>3, <1>4, <1>5, <1>6, <1>7 DEF OrderInv, WorkerTypes

\* Main moves, and no worker does.
LEMMA MainMoveTypes ==
  ASSUME TypeInv, UNCHANGED <<workerVars, threads, ready_mutex, ready_count>>,
         start' \in BOOLEAN, window' \in {"before", "open", "closed"},
         main' \in {"connect", "single", "await"} => \A w \in Clients : worker[w] = "none",
         main' = "spawn" => \A w \in Clients : w >= step' => worker[w] = "none",
         main' \in {"single", "await"} => step' \in 1 .. MainJobs
  PROVE  WorkerTypes' /\ OrderInv'
<1>1. WorkerTypes /\ OrderInv
  BY TypeParts
<1>2. Arrived' = Arrived /\ MainJobs' = MainJobs
  BY DEF Arrived, Workers, MainJobs, workerVars
<1> QED
  BY <1>1, <1>2 DEF WorkerTypes, OrderInv, workerVars

\* An operation of the main thread has ended.
LEMMA MainJobDoneTypes ==
  ASSUME TypeInv, NEW ok, MainJobDone(ok), main \in {"single", "await"},
         UNCHANGED <<workerVars, threads, barrierVars>>
  PROVE  /\ WorkerTypes' /\ OrderInv'
         /\ main' \in {"single", "spawn", "report"} /\ step' \in Nat /\ reported' \in Nat
<1>1. /\ step \in 1 .. MainJobs /\ MainJobs \in Nat
      /\ \A w \in Clients : worker[w] = "none"
      /\ reported \in Nat
  <2>1. threads * WarmUp \in Nat
    BY ThreadsAssumption, CountsAssumption DEF TypeInv, TypeOK
  <2> QED
    BY <2>1 DEF MainJobs, TypeInv, TypeOK, OrderInv
<1>2. \/ main' = "single" /\ step' = step + 1 /\ step < MainJobs /\ reported' = reported
      \/ main' = "spawn" /\ step' = 0 /\ reported' = reported
      \/ main' = "report" /\ step' = 0 /\ reported' = 1
  BY DEF MainJobDone, MainTo
<1>3. start \in BOOLEAN /\ window \in {"before", "open", "closed"}
  BY DEF TypeInv, TypeOK
<1>4. /\ main' \in {"single", "spawn", "report"} /\ step' \in Nat /\ reported' \in Nat
      /\ main' = "single" => step' \in 1 .. MainJobs
  BY <1>1, <1>2
<1>5. WorkerTypes' /\ OrderInv'
  BY <1>1, <1>3, <1>4, MainMoveTypes DEF barrierVars
<1> QED
  BY <1>4, <1>5

\* The main thread keeps the types, and the order of what it does.
LEMMA MainStepTypes == TypeInv /\ MainStep => RoundTypes' /\ WorkerTypes' /\ OrderInv'
<1> DEFINE Kept == RoundTypes' /\ WorkerTypes' /\ OrderInv'
<1> SUFFICES ASSUME TypeInv, MainStep PROVE Kept
  OBVIOUS
<1>a. RoundTypes /\ WorkerTypes /\ OrderInv /\ step + 1 \in Nat
  BY TypeParts DEF RoundTypes
<1>b. start \in BOOLEAN /\ window \in {"before", "open", "closed"}
  BY DEF TypeInv, TypeOK
<1>1. ASSUME NextMeasurement PROVE Kept
  <2>1. /\ rounds < Rounds /\ rounds' = rounds + 1 /\ shared' = ~shared /\ main' \in {"connect", "single"}
        /\ main' = "connect" => step' = 0
        /\ main' = "single" => step' = 1
        /\ UNCHANGED <<engine, failed>> /\ reported' = 0
    BY <1>1 DEF NextMeasurement, MainTo
  <2>2. workload' \in Workloads /\ payload' \in Values /\ threads' \in 1 .. MaxThreads
    BY <1>1, <1>a, ThreadsAssumption DEF NextMeasurement, RoundTypes
  <2>3. RoundTypes'
    <3>1. rounds' \in 0 .. Rounds
      BY <1>a, <2>1, CountsAssumption DEF RoundTypes
    <3> QED
      BY <1>a, <2>1, <2>2, <3>1 DEF RoundTypes
  <2>4. /\ worker' = [w \in Clients |-> "none"] /\ index' = [w \in Clients |-> 0]
        /\ failures' = [w \in Clients |-> 0]
        /\ ready_mutex' = NoThread /\ ready_count' = 0 /\ start' = FALSE /\ window' = "before"
    BY <1>1 DEF NextMeasurement
  <2>5. WorkerTypes'
    <3>1. 0 \in 0 .. OpsPerThread
      BY CountsAssumption
    <3> QED
      BY <2>4, <3>1 DEF WorkerTypes
  <2>6. Arrived' = {}
    <3>1. Workers' \subseteq Clients
      BY <2>2, SomeWorkers DEF Workers
    <3> QED
      BY <2>4, <3>1 DEF Arrived
  <2>7. 1 \in 1 .. MainJobs'
    <3>1. \A n \in 1 .. MaxThreads : n * WarmUp \in Nat
      BY ThreadsAssumption, CountsAssumption
    <3>2. threads' * WarmUp \in Nat
      BY <2>2, <3>1
    <3> QED
      BY <3>2 DEF MainJobs
  <2>8. OrderInv'
    BY <2>1, <2>4, <2>6, <2>7, FS_EmptySet, CountsAssumption DEF OrderInv
  <2> QED
    BY <2>3, <2>5, <2>8
<1>2. ASSUME ConnectClient PROVE Kept
  <2>1. /\ main = "connect" /\ \/ main' = "connect" /\ step' = step + 1
                               \/ main' = "single" /\ step' = 1
        /\ UNCHANGED <<roundVars, engine, workerVars, barrierVars, resultVars>>
    BY <1>2 DEF ConnectClient, MainTo
  <2>2. 1 \in 1 .. MainJobs
    BY <1>a, ThreadsAssumption, CountsAssumption DEF RoundTypes, MainJobs
  <2>3. WorkerTypes' /\ OrderInv'
    BY <1>a, <1>b, <2>1, <2>2, MainMoveTypes DEF OrderInv, barrierVars, roundVars
  <2> QED
    BY <1>a, <2>1, <2>3 DEF RoundTypes, roundVars, resultVars
<1>3. ASSUME MainShared \/ MainReceive PROVE Kept
  <2>1. /\ main \in {"single", "await"} /\ \E ok : MainJobDone(ok)
        /\ UNCHANGED <<roundVars, workerVars, barrierVars, failed>>
    <3>1. CASE MainShared
      BY <3>1 DEF MainShared
    <3>2. CASE MainReceive
      BY <3>2 DEF MainReceive
    <3> QED
      BY <1>3, <3>1, <3>2
  <2>2. /\ WorkerTypes' /\ OrderInv'
        /\ main' \in {"single", "spawn", "report"} /\ step' \in Nat /\ reported' \in Nat
    BY <2>1, MainJobDoneTypes DEF roundVars
  <2>3. engine' \in [Keys -> Values \cup {Absent}]
    <3>1. CASE MainReceive
      BY <3>1, <1>a DEF MainReceive, RoundTypes
    <3>2. CASE MainShared
      <4>1. step \in 1 .. MainJobs /\ main = "single"
        BY <1>a, <3>2 DEF OrderInv, MainShared
      <4>2. MainJob(step) \in Jobs
        BY <1>a, <4>1, MainJobIsJob DEF RoundTypes
      <4>3. RequestOf(MainJob(step)) \in Requests
        BY <1>a, <4>2, RequestTypes DEF RoundTypes
      <4>4. engine' = MapAfter(engine, RequestOf(MainJob(step)))
        BY <3>2 DEF MainShared
      <4> QED
        BY <1>a, <4>3, <4>4, AnswerTypes DEF RoundTypes
    <3> QED
      BY <1>3, <3>1, <3>2
  <2> QED
    BY <1>a, <2>1, <2>2, <2>3 DEF RoundTypes, roundVars
<1>4. ASSUME MainSend PROVE Kept
  <2>1. /\ main = "single" /\ main' = "await" /\ step' = step
        /\ UNCHANGED <<roundVars, engine, workerVars, barrierVars, resultVars>>
    BY <1>4 DEF MainSend, MainTo
  <2>2. WorkerTypes' /\ OrderInv'
    BY <1>a, <1>b, <2>1, MainMoveTypes DEF OrderInv, barrierVars, roundVars
  <2> QED
    BY <1>a, <2>1, <2>2 DEF RoundTypes, roundVars, resultVars
<1>5. ASSUME Spawn PROVE Kept
  <2>1. CASE step < threads
    <3>1. /\ main = "spawn" /\ main' = "spawn" /\ step' = step + 1
          /\ worker' = [worker EXCEPT ![step] = "created"]
          /\ UNCHANGED <<roundVars, engine, index, failures, barrierVars, resultVars>>
      BY <1>5, <2>1 DEF Spawn, MainTo
    <3>2. worker' \in [Clients -> WorkerPlaces]
      BY <1>a, <3>1 DEF WorkerTypes
    <3>3. \A w \in Clients : worker'[w] = IF w = step THEN "created" ELSE worker[w]
      BY <1>a, <3>1 DEF WorkerTypes
    <3>4. \A w \in Clients : w >= step => worker[w] = "none"
      BY <1>a, <3>1 DEF OrderInv
    <3>5. Arrived' = Arrived
      <4>1. Workers' = Workers /\ Workers \subseteq Clients
        BY <1>a, <3>1, ArrivedIsFinite DEF Workers, roundVars, RoundTypes
      <4>2. step \in Clients => worker[step] = "none" /\ worker'[step] = "created"
        BY <1>a, <3>3, <3>4 DEF RoundTypes
      <4> QED
        BY <3>3, <4>1, <4>2 DEF Arrived
    <3>6. \A w \in Clients : w >= step + 1 => w >= step /\ w # step
      BY <1>a, ClientsAssumption, ThreadsAssumption DEF RoundTypes
    <3>7. OrderInv'
      BY <1>a, <3>1, <3>3, <3>4, <3>5, <3>6, ClientsAssumption, ThreadsAssumption
      DEF OrderInv, barrierVars
    <3> QED
      BY <1>a, <3>1, <3>2, <3>7 DEF RoundTypes, WorkerTypes, roundVars, resultVars, barrierVars
  <2>2. CASE ~(step < threads)
    <3>1. /\ main' = "gather" /\ step' = 0
          /\ UNCHANGED <<roundVars, engine, workerVars, barrierVars, resultVars>>
      BY <1>5, <2>2 DEF Spawn, MainTo, workerVars
    <3>2. WorkerTypes' /\ OrderInv'
      BY <1>b, <3>1, MainMoveTypes DEF barrierVars, roundVars
    <3> QED
      BY <1>a, <3>1, <3>2 DEF RoundTypes, roundVars, resultVars
  <2> QED
    BY <2>1, <2>2
<1>6. ASSUME NotifyWorkers PROVE Kept
  <2>1. /\ main' = "join" /\ step' = 0 /\ worker' = [w \in Clients |-> Notified(worker[w])]
        /\ UNCHANGED <<roundVars, engine, index, failures, barrierVars, resultVars>>
    BY <1>6 DEF NotifyWorkers, MainTo
  <2>2. \A w \in Clients :
           /\ worker'[w] \in WorkerPlaces
           /\ worker'[w] = worker[w] \/ (worker[w] = "blocked" /\ worker'[w] = "woken")
    BY <1>a, <2>1 DEF Notified, WorkerTypes
  <2>3. Arrived' = Arrived
    <3>1. Workers' = Workers /\ Workers \subseteq Clients
      BY <1>a, <2>1, ArrivedIsFinite DEF Workers, roundVars, RoundTypes
    <3> QED
      BY <2>2, <3>1 DEF Arrived
  <2>4. worker' \in [Clients -> WorkerPlaces]
    BY <2>1, <2>2
  <2>5. OrderInv'
    BY <1>a, <2>1, <2>2, <2>3 DEF OrderInv, barrierVars
  <2> QED
    BY <1>a, <2>1, <2>4, <2>5 DEF RoundTypes, WorkerTypes, roundVars, resultVars, barrierVars
<1>7. ASSUME NEW l \in MainPlaces \ {"connect", "single", "await", "spawn"},
             main' = l, step' \in Nat, reported' \in Nat, failed' \in BOOLEAN,
             start' \in BOOLEAN, window' \in {"before", "open", "closed"},
             UNCHANGED <<roundVars, engine, workerVars, ready_mutex, ready_count>>
      PROVE  Kept
  <2>1. WorkerTypes' /\ OrderInv'
    BY <1>7, MainMoveTypes DEF roundVars
  <2> QED
    BY <1>a, <1>7, <2>1 DEF RoundTypes, roundVars
<1>8. ASSUME OpenCache \/ Exit \/ Report \/ SayQuit \/ CloseClient \/ Destroy \/ MainBrokenPipe
      PROVE  Kept
  <2>1. failed \in BOOLEAN /\ failed' \in BOOLEAN /\ reported \in Nat
    BY <1>a, <1>8
    DEF OpenCache, Exit, Report, SayQuit, CloseClient, Destroy, MainBrokenPipe, RoundTypes, resultVars
  <2>2. CASE OpenCache \/ Exit \/ MainBrokenPipe
    BY <1>7, <2>2, <1>b, <2>1 DEF OpenCache, Exit, MainBrokenPipe, MainTo, barrierVars, resultVars,
       MainPlaces
  <2>3. CASE Report \/ Destroy
    BY <1>7, <2>3, <1>b, <2>1 DEF Report, Destroy, MainTo, barrierVars, resultVars, MainPlaces
  <2>4. CASE SayQuit \/ CloseClient
    BY <1>7, <2>4, <1>a, <1>b, <2>1 DEF SayQuit, CloseClient, MainTo, barrierVars, resultVars,
       MainPlaces, RoundTypes
  <2> QED
    BY <1>8, <2>2, <2>3, <2>4
<1>9. ASSUME Gather \/ TakeBegin \/ SetStart \/ JoinWorkers PROVE Kept
  <2>1. failed \in BOOLEAN /\ reported \in Nat
    BY <1>a DEF RoundTypes
  <2>2. CASE Gather
    BY <1>7, <1>b, <2>1, <2>2 DEF Gather, MainTo, barrierVars, resultVars
  <2>3. CASE TakeBegin
    BY <1>7, <1>b, <2>1, <2>3 DEF TakeBegin, MainTo, resultVars
  <2>4. CASE SetStart
    BY <1>7, <1>b, <2>1, <2>4 DEF SetStart, MainTo, resultVars
  <2>5. CASE JoinWorkers
    BY <1>7, <1>b, <2>1, <2>5 DEF JoinWorkers, MainTo, resultVars
  <2> QED
    BY <1>9, <2>2, <2>3, <2>4, <2>5
<1>10. ASSUME Tally PROVE Kept
  <2>1. failed \in BOOLEAN /\ reported \in Nat
    BY <1>a DEF RoundTypes
  <2>2. step < threads => step \in Clients /\ failures[step] \in Nat
    BY <1>a, ClientsAssumption, ThreadsAssumption, CountsAssumption DEF RoundTypes, WorkerTypes
  <2>3. reported' \in Nat
    BY <1>10, <2>1, <2>2 DEF Tally
  <2> QED
    BY <1>7, <1>10, <1>a, <1>b, <2>1, <2>3 DEF Tally, MainTo, barrierVars
<1> QED
  BY <1>1, <1>2, <1>3, <1>4, <1>5, <1>6, <1>8, <1>9, <1>10 DEF MainStep

\* A worker arrives once, and stops after OpsPerThread operations.
LEMMA WorkerStepTypes ==
  TypeInv /\ (\E w \in Clients : WorkerStep(w)) => RoundTypes' /\ WorkerTypes' /\ OrderInv'
<1> DEFINE Kept == RoundTypes' /\ WorkerTypes' /\ OrderInv'
<1> SUFFICES ASSUME TypeInv, NEW w \in Clients, WorkerStep(w) PROVE Kept
  OBVIOUS
<1>a. RoundTypes /\ WorkerTypes /\ OrderInv /\ BarrierInv
  BY TypeParts
<1>b. UNCHANGED roundVars => Workers' = Workers
  BY DEF roundVars, Workers
<1>1. ASSUME Arrive(w) PROVE Kept
  <2> DEFINE others == [v \in Clients |-> Notified(worker[v])]
  <2>1. /\ worker[w] = "created" /\ ready_count' = ready_count + 1
        /\ worker' = [others EXCEPT ![w] = IF start THEN "timed" ELSE "parking"]
        /\ ready_mutex' \in {NoThread, w}
        /\ main' = (IF main = "blocked" THEN "gather" ELSE main) /\ step' = step
        /\ UNCHANGED <<roundVars, engine, index, failures, start, window, resultVars>>
    BY <1>1 DEF Arrive, Test
  <2>2. \A v \in Clients : worker'[v] = IF v = w THEN IF start THEN "timed" ELSE "parking"
                                        ELSE Notified(worker[v])
    BY <2>1
  <2>3. \A v \in Clients : /\ Notified(worker[v]) \in WorkerPlaces
                           /\ Notified(worker[v]) = worker[v]
                              \/ (worker[v] = "blocked" /\ Notified(worker[v]) = "woken")
    BY <1>a DEF Notified, WorkerTypes
  <2>4. worker' \in [Clients -> WorkerPlaces]
    BY <2>1, <2>3
  <2>5. w \in Workers
    BY <1>a, <2>1 DEF BarrierInv, BegunInv
  <2>6. Arrived' = Arrived \cup {w} /\ w \notin Arrived
    <3>1. Workers' = Workers /\ Workers \subseteq Clients
      BY <1>a, <1>b, <2>1, ArrivedIsFinite DEF RoundTypes
    <3> QED
      BY <2>1, <2>2, <2>3, <2>5, <3>1 DEF Arrived
  <2>7. ready_count' = Cardinality(Arrived')
    <3>1. Cardinality(Arrived \cup {w}) = Cardinality(Arrived) + 1
      BY <1>a, <2>6, ArrivedIsFinite, FS_AddElement DEF RoundTypes
    <3> QED
      BY <1>a, <2>1, <2>6, <3>1 DEF OrderInv
  <2>8. ready_count' \in Nat
    BY <1>a, <2>1 DEF WorkerTypes
  <2>9. index[w] < OpsPerThread
    BY <1>a, <2>1, CountsAssumption DEF OrderInv
  <2>10. main \notin {"connect", "single", "await"}
    BY <1>a, <2>1 DEF OrderInv
  <2>11. main = "spawn" => \A v \in Clients : v >= step => v # w /\ worker'[v] = "none"
    BY <1>a, <2>1, <2>2 DEF OrderInv, Notified
  <2>12. OrderInv'
    BY <1>a, <2>1, <2>2, <2>3, <2>7, <2>9, <2>10, <2>11 DEF OrderInv
  <2> QED
    BY <1>a, <2>1, <2>4, <2>8, <2>12 DEF RoundTypes, WorkerTypes, roundVars, resultVars
<1>2. ASSUME Park(w) \/ Recheck(w) PROVE Kept
  <2>1. /\ worker[w] \in {"parking", "woken"}
        /\ worker' = [worker EXCEPT ![w] = worker'[w]]
        /\ worker'[w] \in {"parking", "timed", "blocked"}
        /\ ready_mutex' \in {NoThread, w}
        /\ UNCHANGED <<mainVars, roundVars, engine, index, failures, ready_count, start, window,
                       resultVars>>
    BY <1>2, <1>a DEF Park, Recheck, Test, WorkerTypes
  <2>2. \A v \in Clients : v # w => worker'[v] = worker[v]
    BY <1>a, <2>1 DEF WorkerTypes
  <2>3. Arrived' = Arrived
    <3>1. Workers' = Workers /\ Workers \subseteq Clients
      BY <1>a, <1>b, <2>1, ArrivedIsFinite DEF RoundTypes
    <3> QED
      BY <2>1, <2>2, <3>1 DEF Arrived
  <2>4. index[w] = 0 /\ 0 < OpsPerThread
    BY <1>a, <2>1, CountsAssumption DEF OrderInv
  <2>5. OrderInv'
    BY <1>a, <2>1, <2>2, <2>3, <2>4 DEF OrderInv, mainVars, roundVars
  <2>6. worker' \in [Clients -> WorkerPlaces]
    BY <1>a, <2>1 DEF WorkerTypes
  <2> QED
    BY <1>a, <2>1, <2>5, <2>6 DEF RoundTypes, WorkerTypes, roundVars, resultVars, mainVars
<1>3. ASSUME WorkerShared(w) \/ WorkerReceive(w) PROVE Kept
  <2>1. /\ \E ok \in BOOLEAN : WorkerJobDone(w, ok)
        /\ worker[w] \in {"timed", "await"}
        /\ UNCHANGED <<mainVars, roundVars, barrierVars, resultVars>>
    <3>1. \A job, res : Correct(job, res) \in BOOLEAN
      BY DEF Correct
    <3>2. CASE WorkerShared(w)
      BY <3>1, <3>2 DEF WorkerShared
    <3>3. CASE WorkerReceive(w)
      BY <3>1, <3>3 DEF WorkerReceive
    <3> QED
      BY <1>3, <3>2, <3>3
  <2>2. WorkerTypes' /\ OrderInv'
    BY <2>1, WorkerJobDoneTypes DEF mainVars, roundVars, barrierVars
  <2>3. engine' \in [Keys -> Values \cup {Absent}]
    <3>1. CASE WorkerReceive(w)
      BY <3>1, <1>a DEF WorkerReceive, RoundTypes
    <3>2. CASE WorkerShared(w)
      <4>1. RequestOf(WorkerJob(w)) \in Requests
        BY <1>a, WorkerJobIsJob, RequestTypes DEF RoundTypes, TypeInv
      <4>2. engine' = MapAfter(engine, RequestOf(WorkerJob(w)))
        BY <3>2 DEF WorkerShared
      <4> QED
        BY <1>a, <4>1, <4>2, AnswerTypes DEF RoundTypes
    <3> QED
      BY <1>3, <3>1, <3>2
  <2> QED
    BY <1>a, <2>1, <2>2, <2>3 DEF RoundTypes, roundVars, resultVars, mainVars
<1>4. ASSUME WorkerSend(w) PROVE Kept
  <2>1. /\ worker[w] = "timed" /\ worker' = [worker EXCEPT ![w] = "await"]
        /\ UNCHANGED <<mainVars, roundVars, engine, index, failures, barrierVars, resultVars>>
    BY <1>4 DEF WorkerSend
  <2>2. /\ worker'[w] = "await" /\ \A v \in Clients : v # w => worker'[v] = worker[v]
        /\ worker' \in [Clients -> WorkerPlaces]
    BY <1>a, <2>1 DEF WorkerTypes
  <2>3. Arrived' = Arrived
    <3>1. Workers' = Workers /\ Workers \subseteq Clients
      BY <1>a, <1>b, <2>1, ArrivedIsFinite DEF RoundTypes
    <3> QED
      BY <2>1, <2>2, <3>1 DEF Arrived
  <2>4. OrderInv'
    BY <1>a, <2>1, <2>2, <2>3 DEF OrderInv, mainVars, roundVars, barrierVars
  <2> QED
    BY <1>a, <2>1, <2>2, <2>4
    DEF RoundTypes, WorkerTypes, roundVars, resultVars, mainVars, barrierVars
<1>5. ASSUME WorkerBrokenPipe(w) PROVE Kept
  <2>1. /\ main' = "killed" /\ step' = 0
        /\ UNCHANGED <<roundVars, engine, workerVars, barrierVars, resultVars>>
    BY <1>5 DEF WorkerBrokenPipe, MainTo
  <2>2. WorkerTypes' /\ OrderInv'
    BY <1>a, <2>1, MainMoveTypes DEF WorkerTypes, barrierVars, roundVars
  <2> QED
    BY <1>a, <2>1, <2>2 DEF RoundTypes, roundVars, resultVars
<1> QED
  BY <1>1, <1>2, <1>3, <1>4, <1>5 DEF WorkerStep

\* A server's thread leaves the benchmark alone, or ends it.
LEMMA ServerThreadTypes ==
  TypeInv /\ (\E c \in Clients : ServerThread(c)) => RoundTypes' /\ WorkerTypes' /\ OrderInv'
<1> SUFFICES ASSUME TypeInv, NEW c \in Clients, ServerThread(c)
             PROVE  RoundTypes' /\ WorkerTypes' /\ OrderInv'
  OBVIOUS
<1>1. RoundTypes /\ WorkerTypes /\ OrderInv
  BY TypeParts
<1>2. /\ UNCHANGED <<roundVars, engine, workerVars, barrierVars, resultVars>>
      /\ UNCHANGED mainVars \/ (main' = "killed" /\ step' = 0)
  BY DEF ServerThread, Serve, ServerBrokenPipe, MainTo
<1>3. WorkerTypes' /\ OrderInv'
  BY <1>1, <1>2, MainMoveTypes DEF mainVars, roundVars, barrierVars, WorkerTypes, OrderInv
<1> QED
  BY <1>1, <1>2, <1>3 DEF RoundTypes, roundVars, resultVars, mainVars, MainPlaces

\* Nor does a spurious wake-up disturb them: only who is blocked moves.
LEMMA WakeUpTypes == TypeInv /\ WakeUp => RoundTypes' /\ WorkerTypes' /\ OrderInv'
<1> SUFFICES ASSUME TypeInv, WakeUp PROVE RoundTypes' /\ WorkerTypes' /\ OrderInv'
  OBVIOUS
<1>a. RoundTypes /\ WorkerTypes /\ OrderInv
  BY TypeParts
<1>b. UNCHANGED <<roundVars, engine, index, failures, ready_mutex, ready_count, start, window,
                  resultVars>>
  BY DEF WakeUp
<1>1. ASSUME main = "blocked", MainTo("gather", 0), UNCHANGED worker
      PROVE  RoundTypes' /\ WorkerTypes' /\ OrderInv'
  <2>1. main' = "gather" /\ step' = 0 /\ UNCHANGED workerVars
    BY <1>1, <1>b DEF MainTo, workerVars
  <2>2. WorkerTypes' /\ OrderInv'
    BY <1>a, <1>b, <2>1, MainMoveTypes DEF roundVars, WorkerTypes
  <2> QED
    BY <1>a, <1>b, <2>1, <2>2 DEF RoundTypes, roundVars, resultVars, MainPlaces
<1>2. ASSUME NEW w \in Clients, worker[w] = "blocked", worker' = [worker EXCEPT ![w] = "woken"],
             UNCHANGED mainVars
      PROVE  RoundTypes' /\ WorkerTypes' /\ OrderInv'
  <2>1. /\ worker' \in [Clients -> WorkerPlaces]
        /\ \A v \in Clients : worker'[v] = IF v = w THEN "woken" ELSE worker[v]
    BY <1>a, <1>2 DEF WorkerTypes, WorkerPlaces
  <2>2. Arrived' = Arrived
    <3>1. Workers' = Workers /\ Workers \subseteq Clients
      BY <1>a, <1>b, ArrivedIsFinite DEF RoundTypes, Workers, roundVars
    <3> QED
      BY <1>2, <2>1, <3>1 DEF Arrived
  <2>3. /\ MainJobs' = MainJobs
        /\ main' = main /\ step' = step /\ index' = index /\ failures' = failures
        /\ ready_count' = ready_count
    BY <1>b, <1>2 DEF MainJobs, roundVars, mainVars
  <2>4. \A v \in Clients : worker'[v] = worker[v] \/ (worker[v] = "blocked" /\ worker'[v] = "woken")
    BY <1>2, <2>1
  <2>5. main \in {"connect", "single", "await"} => \A v \in Clients : worker'[v] = "none"
    BY <1>a, <2>4 DEF OrderInv
  <2>6. main = "spawn" => \A v \in Clients : v >= step => worker'[v] = "none"
    BY <1>a, <2>4 DEF OrderInv
  <2>7. \A v \in Clients :
           /\ worker'[v] \in {"none", "created", "parking", "blocked", "woken"} => index[v] = 0
           /\ worker'[v] \in {"timed", "await"} => index[v] < OpsPerThread
           /\ failures[v] <= index[v]
    BY <1>a, <2>4 DEF OrderInv
  <2>8. OrderInv'
    BY <1>a, <2>2, <2>3, <2>5, <2>6, <2>7 DEF OrderInv
  <2> QED
    BY <1>a, <1>b, <1>2, <2>1, <2>8 DEF RoundTypes, WorkerTypes, roundVars, resultVars, mainVars
<1> QED
  BY <1>1, <1>2 DEF WakeUp

\* A failing system call keeps the types.
LEMMA FailureTypes ==
  TypeInv /\ Failure => RoundTypes' /\ WorkerTypes' /\ OrderInv'
<1> DEFINE Kept == RoundTypes' /\ WorkerTypes' /\ OrderInv'
<1> SUFFICES ASSUME TypeInv, Failure PROVE Kept
  OBVIOUS
<1>a. RoundTypes /\ WorkerTypes /\ OrderInv
  BY TypeParts
<1>1. ASSUME NEW l \in {"destroy", "next", "stuck", "killed", "exit", "close"},
             main' = l, step' \in Nat, failed' \in BOOLEAN,
             UNCHANGED <<roundVars, engine, workerVars, barrierVars, reported>>
      PROVE  Kept
  <2>1. WorkerTypes' /\ OrderInv'
    BY <1>1, <1>a, MainMoveTypes DEF roundVars, barrierVars, WorkerTypes
  <2>2. main' \in MainPlaces
    BY <1>1 DEF MainPlaces
  <2> QED
    BY <1>a, <1>1, <2>1, <2>2 DEF RoundTypes, roundVars
<1>2. ASSUME OpenCacheFails \/ UnlinkFails \/ ConnectFails PROVE Kept
  <2>1. /\ main' \in {"exit", "destroy"} /\ step' = 0 /\ failed' = TRUE
        /\ UNCHANGED <<roundVars, engine, workerVars, barrierVars, reported>>
    BY <1>2 DEF OpenCacheFails, UnlinkFails, ConnectFails, MainTo
  <2> QED
    BY <1>1, <2>1
<1>3. ASSUME SpawnFails PROVE Kept
  <2>1. failed \in BOOLEAN /\ step \in Nat
    BY <1>a DEF RoundTypes
  <2>2. CASE step = 0
    BY <1>1, <1>3, <2>1, <2>2 DEF SpawnFails, MainTo
  <2>3. CASE step # 0
    BY <1>1, <1>3, <2>1, <2>3 DEF SpawnFails
  <2> QED
    BY <2>2, <2>3
<1>4. ASSUME SayQuitFails PROVE Kept
  <2>1. failed \in BOOLEAN /\ step \in Nat
    BY <1>a DEF RoundTypes
  <2> QED
    BY <1>1, <1>4, <2>1 DEF SayQuitFails, MainTo, resultVars
<1>5. ASSUME MainLockFails \/ MainSendFails \/ MainReceiveFails PROVE Kept
  <2>1. /\ main \in {"single", "await"} /\ \E ok : MainJobDone(ok)
        /\ UNCHANGED <<roundVars, engine, workerVars, barrierVars, failed>>
    <3>1. CASE MainLockFails
      BY <3>1 DEF MainLockFails
    <3>2. CASE MainSendFails \/ MainReceiveFails
      BY <3>2 DEF MainSendFails, MainReceiveFails
    <3> QED
      BY <1>5, <3>1, <3>2
  <2>2. /\ WorkerTypes' /\ OrderInv'
        /\ main' \in {"single", "spawn", "report"} /\ step' \in Nat /\ reported' \in Nat
    BY <2>1, MainJobDoneTypes DEF roundVars
  <2> QED
    BY <1>a, <2>1, <2>2 DEF RoundTypes, roundVars, MainPlaces
<1>6. ASSUME NEW w \in Clients, WorkerLockFails(w) \/ WorkerSendFails(w) \/ WorkerReceiveFails(w)
      PROVE  Kept
  <2>1. /\ worker[w] \in {"timed", "await"} /\ \E ok \in BOOLEAN : WorkerJobDone(w, ok)
        /\ UNCHANGED <<mainVars, roundVars, engine, barrierVars, resultVars>>
    <3>1. CASE WorkerLockFails(w)
      <4>1. Correct(WorkerJob(w), Answered(0)) \in BOOLEAN
        BY DEF Correct
      <4> QED
        BY <3>1, <4>1 DEF WorkerLockFails
    <3>2. CASE WorkerSendFails(w) \/ WorkerReceiveFails(w)
      BY <3>2 DEF WorkerSendFails, WorkerReceiveFails
    <3> QED
      BY <1>6, <3>1, <3>2
  <2>2. WorkerTypes' /\ OrderInv'
    BY <2>1, WorkerJobDoneTypes DEF mainVars, roundVars, barrierVars
  <2> QED
    BY <1>a, <2>1, <2>2 DEF RoundTypes, roundVars, resultVars, mainVars
<1>7. ASSUME NEW c \in Clients, ServeFails(c) PROVE Kept
  <2>1. UNCHANGED <<mainVars, roundVars, engine, workerVars, barrierVars, resultVars>>
    BY <1>7 DEF ServeFails
  <2>2. WorkerTypes' /\ OrderInv'
    BY <1>a, <2>1, MainMoveTypes DEF mainVars, roundVars, barrierVars, WorkerTypes, OrderInv
  <2> QED
    BY <1>a, <2>1, <2>2 DEF RoundTypes, roundVars, resultVars, mainVars
<1> QED
  BY <1>2, <1>3, <1>4, <1>5, <1>6, <1>7 DEF Failure

\* Every step keeps the types.
LEMMA TypeStep == TypeInv /\ [Next]_vars => TypeInv'
<1> SUFFICES ASSUME TypeInv, [Next]_vars PROVE TypeInv'
  OBVIOUS
<1>1. BarrierInv'
  BY BarrierStep DEF TypeInv
<1>2. SocketTypeOK' /\ SendingInv'
  BY SocketMoves, SocketTypes, TypeParts
<1>3. FaultTypes'
  BY FaultMoves, FaultTypesStep, TypeParts
<1>4. ASSUME UNCHANGED <<mainVars, roundVars, engine, workerVars, barrierVars, resultVars>>
      PROVE  RoundTypes' /\ WorkerTypes' /\ OrderInv'
  <2>1. RoundTypes /\ WorkerTypes /\ OrderInv
    BY TypeParts
  <2>2. WorkerTypes' /\ OrderInv'
    BY <1>4, <2>1, MainMoveTypes DEF mainVars, roundVars, barrierVars, WorkerTypes, OrderInv
  <2> QED
    BY <1>4, <2>1, <2>2 DEF RoundTypes, roundVars, resultVars, mainVars
<1>5. RoundTypes' /\ WorkerTypes' /\ OrderInv'
  BY <1>4, MainStepTypes, WorkerStepTypes, ServerThreadTypes, WakeUpTypes, FailureTypes
  DEF Next, ThreadStep, vars
<1> QED
  BY <1>1, <1>2, <1>3, <1>5, TypePartsNext

\* Every variable of the benchmark keeps its type; no more workers are counted
\* ready than there are, and none runs more operations than it should.
THEOREM BenchmarkTypes == Spec => []TypeOK
<1>1. TypeInv => TypeOK
  BY DEF TypeInv
<1> QED
  BY <1>1, TypeInit, TypeStep, PTL DEF Spec
-----------------------------------------------------------------------------
\* Construction and destruction of the socket cache.

Quiet == /\ mutex = NoServer
         /\ \A c \in Clients : client[c] # "open" /\ server[c] \in {"none", "joined", "orphan"}

\* The mutex is held while a server sends; only a measurement of the socket
\* cache finds clients open; they are made in order and closed in order.
LeftInv ==
    /\ \A c \in Clients : mutex = c <=> server[c] = "sending"
    /\ shared \/ main \in {"open", "next"} => Quiet
    /\ main \in {"connect", "destroy", "close"} => ~shared
    /\ main = "connect" =>
         \A c \in Clients : /\ c < step => client[c] = "open"
                            /\ c >= step => client[c] = "none" /\ server[c] = "none"
    /\ main # "killed" =>
         \A c, d \in Clients :
             c <= d /\ client[d] = "open" /\ (main \in {"destroy", "close"} => c >= step)
             => client[c] = "open"
    /\ main \in {"destroy", "close"} => \A c \in Clients : c < step => client[c] # "open"
    /\ main = "close" => step \in Clients

\* Before the first measurement nothing is left of one.
LEMMA LeftInit == Init => LeftInv
<1> SUFFICES ASSUME Init PROVE LeftInv
  OBVIOUS
<1>1. /\ mutex = NoServer /\ client = [c \in Clients |-> "none"]
      /\ server = [c \in Clients |-> "none"] /\ main = "open"
  BY DEF Init, NoCache
<1>2. NoServer \notin Clients
  BY HoldersAssumption
<1> QED
  BY <1>1, <1>2 DEF LeftInv, Quiet

\* Main goes on, or a worker works: the sockets stay.
LEMMA LeftKept ==
  ASSUME LeftInv, UNCHANGED <<mutex, client, server, shared>>,
         \/ UNCHANGED <<main, step>>
         \/ /\ main \notin {"destroy", "close"} \/ main' = "killed"
            /\ main # "killed"
            /\ main' \notin {"connect", "close", "open"}
            /\ main' = "next" => shared \/ main = "open"
            /\ main' = "destroy" => step' = 0 /\ ~shared
  PROVE  LeftInv'
<1> USE ClientsAssumption, ThreadsAssumption
<1>1. \A c \in Clients : c >= 0 /\ ~(c < 0)
  OBVIOUS
<1>2. CASE UNCHANGED <<main, step>>
  BY <1>2 DEF LeftInv, Quiet
<1>3. CASE main' = "destroy" /\ step' = 0 /\ ~shared /\ main \notin {"destroy", "close", "killed"}
  BY <1>1, <1>3 DEF LeftInv, Quiet
<1>4. CASE /\ main \notin {"destroy", "close"} \/ main' = "killed"
           /\ main # "killed" /\ main' \notin {"connect", "destroy", "close", "open"}
           /\ main' = "next" => shared \/ main = "open"
  BY <1>4 DEF LeftInv, Quiet
<1> QED
  BY <1>2, <1>3, <1>4

\* Every step keeps the order of construction and destruction.
LEMMA LeftStep == TypeInv /\ LeftInv /\ [Next]_vars => LeftInv'
<1> SUFFICES ASSUME TypeInv, LeftInv, [Next]_vars PROVE LeftInv'
  OBVIOUS
<1>a. /\ client \in [Clients -> {"none", "open", "closed"}]
      /\ server \in [Clients -> {"none", "reading", "sending", "ended", "joined", "orphan"}]
      /\ mutex \in Clients \cup {NoServer} /\ step \in Nat /\ shared \in BOOLEAN
      /\ NoServer \notin Clients
  BY HoldersAssumption DEF TypeInv, TypeOK, SocketTypeOK
<1>b. Clients \subseteq Int
  BY ClientsAssumption, ThreadsAssumption
<1>1. ASSUME NextMeasurement PROVE LeftInv'
  <2>1. CASE shared
    <3>1. /\ client' = [c \in Clients |-> "none"] /\ server' = [c \in Clients |-> "none"]
          /\ mutex' = mutex /\ main' = "connect" /\ step' = 0 /\ shared' = FALSE
      BY <1>1, <1>a, <2>1 DEF NextMeasurement, Construct, MainTo
    <3>2. mutex = NoServer
      BY <2>1 DEF LeftInv, Quiet
    <3>3. \A c \in Clients : ~(c < 0)
      BY ClientsAssumption, ThreadsAssumption
    <3> QED
      BY <1>a, <3>1, <3>2, <3>3 DEF LeftInv, Quiet
  <2>2. CASE ~shared
    <3>1. /\ UNCHANGED <<client, server, mutex>> /\ main' = "single" /\ shared' = TRUE /\ main = "next"
      BY <1>1, <1>a, <2>2 DEF NextMeasurement, socketVars, MainTo
    <3> QED
      BY <1>a, <3>1 DEF LeftInv, Quiet
  <2> QED
    BY <2>1, <2>2
<1>2. ASSUME ConnectClient \/ ConnectFails PROVE LeftInv'
  <2>1. CASE UNCHANGED socketVars /\ main' = "single" /\ shared' = shared
    BY <1>2, <2>1, LeftKept DEF ConnectClient, ConnectFails, socketVars
  <2>2. CASE UNCHANGED socketVars /\ main' = "destroy" /\ step' = 0 /\ shared' = shared
    BY <1>2, <2>2, LeftKept DEF ConnectClient, ConnectFails, socketVars, LeftInv
  <2>3. CASE /\ UNCHANGED <<mutex, shared>> /\ client' = [client EXCEPT ![step] = "open"]
             /\ server' = [server EXCEPT ![step] = server'[step]]
             /\ step \in Clients => server'[step] \in {"reading", "orphan"}
             /\ \/ main' = "connect" /\ step' = step + 1
                \/ main' = "destroy" /\ step' = 0
    <3>1. /\ main = "connect" /\ ~shared
          /\ \A c \in Clients : /\ c < step => client[c] = "open"
                                /\ c >= step => client[c] = "none" /\ server[c] = "none"
      BY <1>2 DEF LeftInv, ConnectClient, ConnectFails
    <3>2. \A c \in Clients : /\ c < step + 1 => client'[c] = "open"
                             /\ c >= step + 1 => client'[c] = "none" /\ server'[c] = "none"
                             /\ server'[c] = "sending" <=> server[c] = "sending"
      BY <1>a, <1>b, <2>3, <3>1
    <3>3. \A c, d \in Clients : c <= d /\ client'[d] = "open" => client'[c] = "open"
      BY <1>a, <1>b, <3>2
    <3>4. \A c \in Clients : ~(c < 0)
      BY ClientsAssumption, ThreadsAssumption
    <3> QED
      BY <2>3, <3>1, <3>2, <3>3, <3>4 DEF LeftInv
  <2>4. shared' = shared
    BY <1>2 DEF ConnectClient, ConnectFails, roundVars
  <2>5. CASE ConnectClient
    <3>1. CASE step < threads
      <4>1. /\ Connect(step) /\ main' = "connect" /\ step' = step + 1
        BY <2>5, <3>1 DEF ConnectClient, MainTo
      <4>2. /\ mutex' = mutex /\ client' = [client EXCEPT ![step] = "open"]
            /\ server' = [server EXCEPT ![step] = "reading"]
        BY <4>1 DEF Connect
      <4>3. server' = [server EXCEPT ![step] = server'[step]]
            /\ (step \in Clients => server'[step] = "reading")
        BY <1>a, <4>2
      <4> QED
        BY <2>3, <2>4, <4>1, <4>2, <4>3
    <3>2. CASE ~(step < threads)
      BY <2>1, <2>4, <2>5, <3>2 DEF ConnectClient, MainTo
    <3> QED
      BY <3>1, <3>2
  <2>6. CASE ConnectFails
    <3>1. main' = "destroy" /\ step' = 0 /\ (UNCHANGED socketVars \/ ConnectWithoutThread(step))
      BY <2>6 DEF ConnectFails, MainTo
    <3>2. CASE ConnectWithoutThread(step)
      <4>2. /\ mutex' = mutex /\ client' = [client EXCEPT ![step] = "open"]
            /\ server' = [server EXCEPT ![step] = "orphan"]
        BY <3>2 DEF ConnectWithoutThread
      <4>3. server' = [server EXCEPT ![step] = server'[step]]
            /\ (step \in Clients => server'[step] = "orphan")
        BY <1>a, <4>2
      <4> QED
        BY <2>3, <2>4, <3>1, <4>2, <4>3
    <3> QED
      BY <2>2, <2>4, <3>1, <3>2
  <2> QED
    BY <1>2, <2>5, <2>6
<1>c. ASSUME SayQuit \/ SayQuitFails PROVE LeftInv'
  <2>1. /\ main = "destroy" /\ main' = "close" /\ step' = step /\ step \in Clients
        /\ UNCHANGED <<mutex, client, server, shared>>
    BY <1>c DEF SayQuit, SayQuitFails, ToHangUp, Write, WriteFails, MainTo, roundVars
  <2> QED
    BY <2>1 DEF LeftInv
<1>d. ASSUME CloseClient PROVE LeftInv'
  <2>1. /\ main = "close" /\ shared' = shared /\ ~shared
        /\ client' = [client EXCEPT ![step] = "closed"] /\ UNCHANGED <<mutex, server>>
        /\ main' = "destroy" /\ step' = step + 1
    BY <1>d DEF CloseClient, HangUp, MainTo, roundVars, LeftInv
  <2>2. \A c \in Clients : /\ c < step + 1 => client'[c] # "open"
                           /\ c >= step + 1 => c >= step /\ client'[c] = client[c]
    BY <1>a, <1>b, <2>1 DEF LeftInv
  <2>3. \A c, d \in Clients : c <= d /\ client'[d] = "open" /\ c >= step + 1 => client'[c] = "open"
    <3>1. \A c, d \in Clients : c <= d /\ c >= step + 1 => d >= step + 1
      BY <1>a, <1>b
    <3> QED
      BY <2>1, <2>2, <3>1 DEF LeftInv
  <2> QED
    BY <2>1, <2>2, <2>3 DEF LeftInv
<1>3. ASSUME Destroy PROVE LeftInv'
  <2>1. main = "destroy" /\ shared' = shared /\ ~shared /\ ~(step \in Clients /\ client[step] = "open")
    BY <1>3 DEF Destroy, ToHangUp, roundVars, LeftInv
  <2>2. /\ \A c \in Clients : Joinable(c) => server[c] = "ended"
        /\ server' = [c \in Clients |-> IF Joinable(c) THEN "joined" ELSE server[c]]
        /\ UNCHANGED <<mutex, client>> /\ main' = "next"
    BY <1>3 DEF Destroy, Join, MainTo
  <2>3. \A c \in Clients : client[c] # "open"
    <3> SUFFICES ASSUME NEW c \in Clients, client[c] = "open" PROVE FALSE
      OBVIOUS
    <3>1. c >= step
      BY <1>a, <1>b, <2>1 DEF LeftInv
    <3>2. step \in Clients /\ step <= c
      BY <1>a, <3>1, ClientsAssumption, ThreadsAssumption
    <3>3. step >= step
      BY <1>a
    <3>4. client[step] = "open"
      BY <2>1, <3>2, <3>3 DEF LeftInv
    <3> QED
      BY <2>1, <3>2, <3>4
  <2>4. \A c \in Clients : server[c] # "sending" /\ server'[c] \in {"none", "joined", "orphan"}
    BY <1>a, <2>2 DEF Joinable
  <2>5. mutex = NoServer
    BY <1>a, <2>4 DEF LeftInv
  <2>6. Quiet'
    BY <2>2, <2>3, <2>4, <2>5 DEF Quiet
  <2> QED
    BY <1>a, <2>1, <2>2, <2>3, <2>4, <2>5, <2>6 DEF LeftInv
<1>4. ASSUME UNCHANGED <<main, step, shared, client>>,
             NEW c \in Clients, server[c] \in {"reading", "sending"},
             server' = [server EXCEPT ![c] = server'[c]],
             \/ mutex = NoServer /\ mutex' = c /\ server'[c] = "sending"
             \/ server[c] = "sending" /\ mutex' = NoServer /\ server'[c] \in {"reading", "ended"}
             \/ server[c] = "reading" /\ mutex' = mutex /\ server'[c] = "ended"
      PROVE  LeftInv'
  <2>1. \A d \in Clients : d # c => server'[d] = server[d]
    BY <1>a, <1>4
  <2>2. \A d \in Clients : mutex' = d <=> server'[d] = "sending"
    BY <1>a, <1>4, <2>1 DEF LeftInv
  <2>3. ~shared /\ main \notin {"open", "next"}
    BY <1>4 DEF LeftInv, Quiet
  <2>4. main = "connect" => c < step
    BY <1>4, <1>a, <1>b DEF LeftInv
  <2>5. main = "connect" => \A d \in Clients : d >= step => d # c
    BY <1>a, <1>b, <2>4
  <2> QED
    BY <1>4, <2>1, <2>2, <2>3, <2>5 DEF LeftInv
<1>5. ASSUME NEW c \in Clients, Serve(c) \/ ServeFails(c) PROVE LeftInv'
  <2>1. UNCHANGED <<main, step, shared>>
    BY <1>5 DEF Serve, ServeFails, mainVars, roundVars
  <2>2. CASE Handle(c)
    <3>1. /\ mutex = NoServer /\ mutex' = c /\ server[c] = "reading" /\ client' = client
          /\ server' = [server EXCEPT ![c] = "sending"]
      BY <2>2 DEF Handle
    <3>2. server'[c] = "sending" /\ server' = [server EXCEPT ![c] = server'[c]]
      BY <1>a, <3>1
    <3> QED
      BY <1>4, <2>1, <3>1, <3>2
  <2>3. CASE Respond(c) \/ RespondFails(c)
    <3>1. \E l \in {"reading", "ended"} :
            /\ mutex' = NoServer /\ server[c] = "sending" /\ client' = client
            /\ server' = [server EXCEPT ![c] = l]
      BY <2>3 DEF Respond, RespondFails
    <3>2. server'[c] \in {"reading", "ended"} /\ server' = [server EXCEPT ![c] = server'[c]]
      BY <1>a, <3>1
    <3> QED
      BY <1>4, <2>1, <3>1, <3>2
  <2>4. CASE EndServing(c) \/ ServeReadFails(c)
    <3>1. /\ mutex' = mutex /\ server[c] = "reading" /\ client' = client
          /\ server' = [server EXCEPT ![c] = "ended"]
      BY <2>4 DEF EndServing, ServeReadFails
    <3>2. server'[c] = "ended" /\ server' = [server EXCEPT ![c] = server'[c]]
      BY <1>a, <3>1
    <3> QED
      BY <1>4, <2>1, <3>1, <3>2
  <2> QED
    BY <1>5, <2>2, <2>3, <2>4 DEF Serve, ServeFails, ServerStep
<1>6. ASSUME OpenCache \/ OpenCacheFails \/ Exit \/ UnlinkFails \/ Report \/ Spawn \/ SpawnFails
             \/ MainBrokenPipe
      PROVE  LeftInv'
  <2>1. UNCHANGED <<mutex, client, server, shared>>
    BY <1>6 DEF OpenCache, OpenCacheFails, Exit, UnlinkFails, Report, Spawn, SpawnFails,
                MainBrokenPipe, socketVars, roundVars
  <2>2. CASE OpenCache \/ OpenCacheFails \/ Exit \/ UnlinkFails
    BY <2>1, <2>2, LeftKept DEF OpenCache, OpenCacheFails, Exit, UnlinkFails, MainTo
  <2>3. CASE Report
    BY <2>1, <2>3, LeftKept DEF Report, MainTo
  <2>4. CASE MainBrokenPipe
    BY <2>1, <2>4, LeftKept DEF MainBrokenPipe, ToHangUp, MainTo
  <2>5. CASE Spawn
    BY <2>1, <2>5, LeftKept DEF Spawn, MainTo
  <2>6. CASE SpawnFails
    BY <2>1, <2>6, LeftKept DEF SpawnFails, MainTo
  <2> QED
    BY <1>6, <2>2, <2>3, <2>4, <2>5, <2>6
<1>e. ASSUME MainShared \/ MainLockFails \/ MainSend \/ MainSendFails \/ MainReceive
             \/ MainReceiveFails
      PROVE  LeftInv'
  <2>1. CASE MainSend
    <3>1. UNCHANGED <<mutex, client, server, shared>> /\ main = "single" /\ main' = "await"
      BY <2>1 DEF MainSend, Write, MainTo, roundVars
    <3> QED
      BY <3>1, LeftKept
  <2>2. ASSUME UNCHANGED <<mutex, client, server, shared>>, main \in {"single", "await"},
               NEW ok, MainJobDone(ok)
        PROVE  LeftInv'
    <3>1. main' \in {"single", "spawn", "report"}
      BY <2>2 DEF MainJobDone, MainTo
    <3> QED
      BY <2>2, <3>1, LeftKept
  <2>3. CASE MainShared \/ MainLockFails
    <3>1. UNCHANGED <<mutex, client, server, shared>> /\ main = "single" /\ \E ok : MainJobDone(ok)
      BY <2>3 DEF MainShared, MainLockFails, socketVars, roundVars
    <3> QED
      BY <2>2, <3>1
  <2>4. CASE MainSendFails \/ MainReceive \/ MainReceiveFails
    <3>1. UNCHANGED <<mutex, client, server, shared>>
      BY <2>4 DEF MainSendFails, MainReceive, MainReceiveFails, WriteFails, Receive, ReceiveEnd,
                  ReceiveFails, roundVars
    <3>2. main \in {"single", "await"} /\ \E ok : MainJobDone(ok)
      BY <2>4 DEF MainSendFails, MainReceive, MainReceiveFails
    <3> QED
      BY <2>2, <3>1, <3>2
  <2> QED
    BY <1>e, <2>1, <2>3, <2>4
<1>7. ASSUME Gather \/ TakeBegin \/ SetStart \/ NotifyWorkers \/ JoinWorkers \/ Tally PROVE LeftInv'
  <2>1. UNCHANGED <<mutex, client, server, shared>>
    BY <1>7 DEF Gather, TakeBegin, SetStart, NotifyWorkers, JoinWorkers, Tally, socketVars, roundVars
  <2>2. /\ main \notin {"destroy", "close", "killed"}
        /\ main' \notin {"connect", "next", "destroy", "close", "open"}
    BY <1>7 DEF Gather, TakeBegin, SetStart, NotifyWorkers, JoinWorkers, Tally, MainTo
  <2> QED
    BY <2>1, <2>2, LeftKept
<1>8. ASSUME NEW w \in Clients, Running,
             \/ WorkerStep(w) \/ WorkerLockFails(w) \/ WorkerSendFails(w) \/ WorkerReceiveFails(w)
             \/ ServerBrokenPipe(w)
      PROVE  LeftInv'
  <2>1. UNCHANGED <<mutex, client, server, shared>>
    <3>1. CASE Arrive(w) \/ Park(w) \/ Recheck(w) \/ WorkerShared(w) \/ WorkerBrokenPipe(w)
               \/ WorkerLockFails(w) \/ ServerBrokenPipe(w)
      BY <3>1 DEF Arrive, Park, Recheck, WorkerShared, WorkerBrokenPipe, WorkerLockFails,
                  ServerBrokenPipe, socketVars, roundVars
    <3>2. CASE WorkerSend(w) \/ WorkerSendFails(w)
      BY <3>2 DEF WorkerSend, WorkerSendFails, Write, WriteFails, roundVars
    <3>3. CASE WorkerReceive(w) \/ WorkerReceiveFails(w)
      BY <3>3 DEF WorkerReceive, WorkerReceiveFails, Receive, ReceiveEnd, ReceiveFails, roundVars
    <3> QED
      BY <1>8, <3>1, <3>2, <3>3 DEF WorkerStep
  <2>2. \/ UNCHANGED <<main, step>>
        \/ main' = "killed"
        \/ main = "blocked" /\ main' = "gather"
    <3>1. CASE Arrive(w) \/ Park(w) \/ Recheck(w)
      BY <3>1 DEF Arrive, Park, Recheck, mainVars
    <3>2. CASE WorkerShared(w) \/ WorkerLockFails(w) \/ WorkerSend(w) \/ WorkerSendFails(w)
               \/ WorkerReceive(w) \/ WorkerReceiveFails(w)
      BY <3>2 DEF WorkerShared, WorkerLockFails, WorkerSend, WorkerSendFails, WorkerReceive,
                  WorkerReceiveFails, mainVars
    <3>3. CASE WorkerBrokenPipe(w) \/ ServerBrokenPipe(w)
      BY <3>3 DEF WorkerBrokenPipe, ServerBrokenPipe, MainTo
    <3> QED
      BY <1>8, <3>1, <3>2, <3>3 DEF WorkerStep
  <2> QED
    BY <1>8, <2>1, <2>2, LeftKept DEF Running
<1>f. ASSUME WakeUp PROVE LeftInv'
  <2>1. /\ UNCHANGED <<mutex, client, server, shared>>
        /\ UNCHANGED <<main, step>> \/ (main = "blocked" /\ main' = "gather")
    BY <1>f DEF WakeUp, MainTo, mainVars, socketVars, roundVars
  <2> QED
    BY <2>1, LeftKept
<1>9. CASE UNCHANGED vars
  BY <1>9, LeftKept DEF vars, socketVars, mainVars, roundVars
<1>10. CASE MainStep
  BY <1>10, <1>1, <1>2, <1>c, <1>d, <1>3, <1>6, <1>e, <1>7 DEF MainStep
<1>11. CASE Next /\ Failure
  BY <1>11, <1>2, <1>c, <1>5, <1>6, <1>e, <1>8 DEF Failure, Next
<1>12. CASE Next /\ \E w \in Clients : WorkerStep(w) \/ ServerThread(w)
  BY <1>12, <1>5, <1>8 DEF ServerThread, Next
<1> QED
  BY <1>f, <1>9, <1>10, <1>11, <1>12 DEF Next, ThreadStep

\* When a socket cache is gone, so are its clients and its server threads, and
\* its mutex is free, whichever thread or call has failed.
THEOREM NothingIsLeft == Spec => []NothingLeft
<1>1. LeftInv => NothingLeft
  BY DEF LeftInv, NothingLeft, Quiet
<1>2. TypeInv /\ LeftInv /\ [Next]_vars => TypeInv' /\ LeftInv'
  BY TypeStep, LeftStep
<1> QED
  BY <1>1, <1>2, TypeInit, LeftInit, PTL DEF Spec
-----------------------------------------------------------------------------
\* Results.

\* The main thread works alone, and then with the workers.
Alone     == {"connect", "single", "await"}
Measuring == {"spawn", "gather", "blocked", "begin", "start", "notify", "join"}
InUse     == Alone \cup Measuring
InPlay    == ~shared /\ main \in InUse

\* The preparation of key "hit", and of key "update", is behind.
HitReady    == main \in Measuring \/ (main \in {"single", "await"} /\ step > 1)
UpdateReady == main \in Measuring \/ (main \in {"single", "await"} /\ step > 2)

Prepared(m) == /\ m["miss"] = Absent
               /\ HitReady => m["hit"] = payload
               /\ UpdateReady => m["update"] # Absent

\* The map in use is prepared; the key of the misses never is.
MapInv == /\ engine["miss"] = Absent
          /\ main \in InUse => Prepared(IF shared THEN engine ELSE values)

\* The socket cache has done what the preparation asks for, once the answer is
\* under way.
PreparingInv ==
    InPlay /\ main = "await" /\ step \in {1, 2} /\ request[0] = <<>>
    /\ (server[0] = "sending" \/ HasResponse(0)) => values[Preparation[step].key] = payload

\* On m, the operation gives what the measurement expects of it.
Fits(m, job) == /\ m["miss"] = Absent
                /\ job = [op |-> "G", key |-> "hit"] => m["hit"] = payload
                /\ job.op = "U" => m["update"] # Absent

\* The messages that leave the map prepared, also those of a client whose
\* stream is out of step: its own operations with another value or key.
Writes(m, k) == m \in Requests /\ m.op # "G" /\ m.key = k
Harmless     == {m \in Messages \ {Quit} : /\ ~Writes(m, "miss")
                                           /\ Writes(m, "hit") => m.value = payload}
Tearable     == {m \in Messages \ {Quit} : ~Writes(m, "miss") /\ ~Writes(m, "hit")} \cup {None}

\* Who waits for a response, and to what.
Awaiting(c) == IF main = "await" THEN c = MainClient(step) ELSE worker[c] = "await"
JobOf(c)    == IF main = "await" THEN MainJob(step) ELSE WorkerJob(c)

Right(job) == {res \in Responses : Correct(job, res)}

\* A stream that nothing has put out of step holds one message at most.
InStep(c) ==
    /\ torn[c] = None
    /\ \/ /\ ~Awaiting(c) /\ request[c] = <<>> /\ response[c] = <<>> /\ server[c] # "sending"
       \/ /\ Awaiting(c) /\ request[c] = <<RequestOf(JobOf(c))>> /\ response[c] = <<>>
          /\ server[c] # "sending"
       \/ /\ Awaiting(c) /\ request[c] = <<>> /\ response[c] = <<>>
          /\ server[c] = "sending" /\ answer[c] \in Right(JobOf(c))
       \/ /\ Awaiting(c) /\ request[c] = <<>> /\ server[c] # "sending"
          /\ \E res \in Right(JobOf(c)) : response[c] = <<res>>
       \/ /\ Awaiting(c) /\ request[c] = <<>> /\ response[c] \in {<<>>, <<Rest>>}
          /\ server[c] = "ended"

\* While the cache is in use: spoilt streams carry harmless messages, the others
\* are in step, and whoever waits for a response will have one, or the end of the
\* stream.
Playing(c) ==
    /\ request[c] \in Seq(Harmless) /\ torn[c] \in Tearable
    /\ ~spoilt[c] \/ main \in Alone => InStep(c)
    /\ client[c] # "closed"
    /\ client[c] = "open" => /\ server[c] \in {"reading", "sending", "ended"}
                             /\ server[c] = "ended" => spoilt[c]
    /\ Awaiting(c) => client[c] = "open" /\ WillAnswer(c)

\* While it is not: nothing but `Q' is under way for those that nothing has hit.
Closing(c) == main = "close" /\ c = step
Idle(c) ==
    /\ client[c] = "open" /\ PeerClosed(c) => spoilt[c] \/ Closing(c)
    /\ ~spoilt[c] =>
          /\ torn[c] = None /\ server[c] # "sending"
          /\ \/ request[c] = <<>>
             \/ request[c] = <<Quit>> /\ (client[c] = "closed" \/ Closing(c))

ClientInv(c) == /\ InPlay => Playing(c)
                /\ Running /\ ~InPlay => Idle(c)

\* Nothing is left in the socket cache before its next use.
Empty(c) == request[c] = <<>> /\ response[c] = <<>> /\ torn[c] = None /\ server[c] # "sending"
Fresh    == shared \/ main \in {"open", "next", "connect"}
FreshInv == Fresh => /\ values = [k \in Keys |-> Absent]
                     /\ \A c \in Clients : Empty(c)

ResultInv == MapInv /\ PreparingInv /\ FreshInv /\ \A c \in Clients : ClientInv(c)

-----------------------------------------------------------------------------
\* Sequences of one message.
LEMMA OneMessage ==
  /\ \A x : /\ Head(<<x>>) = x /\ Tail(<<x>>) = <<>> /\ Len(<<x>>) = 1 /\ <<x>> # <<>>
            /\ Append(<<>>, x) = <<x>>
  /\ \A x, y : <<x>> = <<y>> => x = y
  /\ Len(<<>>) = 0
OBVIOUS

LEMMA AppendedMessage ==
  ASSUME NEW M, NEW s \in Seq(M), NEW x \in M
  PROVE  /\ Append(s, x) \in Seq(M) /\ Append(s, x) # <<>>
         /\ Len(Append(s, x)) = Len(s) + 1 /\ Len(s) \in Nat
         /\ Head(Append(s, x)) = IF s = <<>> THEN x ELSE Head(s)
<1>1. Append(s, x) \in Seq(M) /\ Len(Append(s, x)) = Len(s) + 1 /\ Len(s) \in Nat
  OBVIOUS
<1>2. Len(Append(s, x)) # 0
  BY <1>1
<1>3. (s # <<>> => Head(Append(s, x)) = Head(s)) /\ (s = <<>> => Head(Append(s, x)) = x)
  OBVIOUS
<1> QED
  BY <1>1, <1>2, <1>3, EmptySeq

\* The keys of the workloads.
LEMMA KeysApart ==
  /\ {"hit", "miss", "put", "update"} \subseteq Keys
  /\ Other \notin {"hit", "miss", "put", "update"} /\ Other \in Keys
  /\ Absent \notin Values /\ Rest \notin Responses
BY WorkloadsAssumption, MessagesAssumption

\* What a job asks for is harmless, and also what is left of it when it is
\* torn, unless it is the preparation of the key that all read.
LEMMA JobIsHarmless ==
  ASSUME NEW job \in Jobs, payload \in Values
  PROVE  /\ RequestOf(job) \in Harmless /\ RequestOf(job) \in Requests
         /\ (job.key = "hit" => job.op = "G") => RequestOf(job) \in Tearable
<1>1. /\ RequestOf(job) \in Requests /\ RequestOf(job) \in Messages \ {Quit}
      /\ RequestOf(job).op = job.op /\ RequestOf(job).key = job.key
      /\ RequestOf(job).value = payload
  BY RequestTypes, MessagesApart DEF Messages
<1>2. job.key = "miss" => job.op = "G"
  BY DEF Jobs
<1> QED
  BY <1>1, <1>2 DEF Harmless, Tearable, Writes

LEMMA TornIsHarmless ==
  ASSUME NEW t \in Tearable, t # None
  PROVE  Mangled(t) \subseteq Harmless
<1> SUFFICES ASSUME NEW m \in Mangled(t) PROVE m \in Harmless
  OBVIOUS
<1>1. t \in Messages \ {Quit} /\ ~Writes(t, "miss") /\ ~Writes(t, "hit")
  BY DEF Tearable
<1>2. CASE t \in Requests
  <2>1. m \in Requests /\ m.op = t.op /\ m.key \in {t.key, Other}
    BY <1>2 DEF Mangled
  <2>2. ~Writes(m, "miss") /\ ~Writes(m, "hit")
    BY <1>1, <1>2, <2>1, KeysApart DEF Writes
  <2>3. m \in Messages \ {Quit}
    BY <2>1, MessagesApart DEF Messages
  <2> QED
    BY <2>2, <2>3 DEF Harmless
<1>3. CASE t \notin Requests
  <2>1. m = t
    BY <1>3 DEF Mangled
  <2> QED
    BY <1>1, <2>1 DEF Harmless
<1> QED
  BY <1>2, <1>3

LEMMA HarmlessTypes ==
  /\ Harmless \subseteq Messages /\ Quit \notin Harmless
  /\ Junk \in Tearable /\ None \in Tearable
BY MessagesApart DEF Harmless, Tearable, Writes, Messages

\* A harmless request leaves the keys as the others need them.
LEMMA MapAfterKeeps ==
  ASSUME NEW m \in [Keys -> Values \cup {Absent}], NEW r \in Harmless
  PROVE  LET new == MapAfter(m, r)
         IN  /\ m["miss"] = Absent => new["miss"] = Absent
             /\ m["hit"] = payload => new["hit"] = payload
             /\ m["update"] # Absent => new["update"] # Absent
<1> DEFINE new == MapAfter(m, r)
<1>1. CASE new = m
  BY <1>1
<1>2. CASE new # m
  <2>1. r # Junk /\ r.op \in {"P", "U"} /\ new = [m EXCEPT ![r.key] = r.value]
    BY <1>2 DEF MapAfter
  <2>2. r \in Requests /\ ~Writes(r, "miss") /\ (Writes(r, "hit") => r.value = payload)
    BY <2>1 DEF Harmless, Messages
  <2>3. r.key \in Keys /\ r.value \in Values /\ r.key # "miss" /\ (r.key = "hit" => r.value = payload)
    BY <2>1, <2>2 DEF Writes, Requests
  <2> HIDE DEF new
  <2>4. \A k \in Keys : new[k] = IF k = r.key THEN r.value ELSE m[k]
    BY <2>1, <2>3
  <2> QED
    BY <2>3, <2>4, KeysApart DEF new
<1> QED
  BY <1>1, <1>2

\* A put is there afterwards.
LEMMA MapAfterPut ==
  ASSUME payload \in Values, NEW job \in Jobs, job.op = "P",
         NEW m \in [Keys -> Values \cup {Absent}]
  PROVE  MapAfter(m, RequestOf(job))[job.key] = payload
<1>1. /\ RequestOf(job).op = job.op /\ RequestOf(job).key = job.key
      /\ RequestOf(job).value = payload /\ job.key \in Keys /\ RequestOf(job) # Junk
  BY RequestTypes, MessagesApart
<1>2. MapAfter(m, RequestOf(job)) = [m EXCEPT ![job.key] = payload]
  BY <1>1 DEF MapAfter
<1> QED
  BY <1>1, <1>2

\* On a map that fits, an operation gives the result it should.
LEMMA RightAnswer ==
  ASSUME payload \in Values, NEW job \in Jobs, NEW m \in [Keys -> Values \cup {Absent}],
         Fits(m, job)
  PROVE  AnswerTo(m, RequestOf(job)) \in Right(job)
<1>1. m["hit"] \in Values \cup {Absent} /\ m["update"] \in Values \cup {Absent}
  BY KeysApart
<1>2. RequestOf(job) \in Requests /\ RequestOf(job) # Junk
  BY RequestTypes, MessagesApart
<1>3. AnswerTo(m, RequestOf(job)) \in Responses
  BY <1>2, AnswerTypes
<1>4. Correct(job, AnswerTo(m, RequestOf(job)))
  BY <1>1, <1>2, KeysApart DEF Jobs, Fits, Correct, AnswerTo, RequestOf, Answered
<1> QED
  BY <1>3, <1>4 DEF Right

-----------------------------------------------------------------------------
\* What the exchanges are worth to those who wait.

\* The preparation is enough for each operation of the main thread in its turn ...
LEMMA MainJobFits ==
  ASSUME TypeInv, main \in {"single", "await"}, NEW m, Prepared(m)
  PROVE  /\ MainJob(step) \in Jobs /\ Fits(m, MainJob(step))
         /\ MainClient(step) \in Clients /\ step \in 1 .. MainJobs
         /\ step = 1 => MainClient(step) = 0 /\ MainJob(step) = Preparation[1]
         /\ step = 2 => MainClient(step) = 0 /\ MainJob(step) = Preparation[2]
<1>1. step \in 1 .. MainJobs
  BY DEF TypeInv, OrderInv
<1>2. /\ MainJob(step) \in Jobs /\ MainClient(step) \in Clients
      /\ step = 1 => MainClient(step) = 0 /\ MainJob(step) = [op |-> "P", key |-> "hit"]
      /\ step = 2 => MainClient(step) = 0 /\ MainJob(step) = [op |-> "P", key |-> "update"]
  BY <1>1, MainJobIsJob DEF TypeInv, TypeOK
<1>3. step > 2 => HitReady /\ UpdateReady
  BY <1>1 DEF HitReady, UpdateReady
<1>4. step = 1 \/ step = 2 \/ step > 2
  BY <1>1
<1>5. Preparation[1] = [op |-> "P", key |-> "hit"] /\ Preparation[2] = [op |-> "P", key |-> "update"]
  BY DEF Preparation
<1>6. Fits(m, MainJob(step))
  BY <1>2, <1>3, <1>4 DEF Fits, Prepared
<1> QED
  BY <1>1, <1>2, <1>5, <1>6

\* ... and for every timed operation of every worker.
LEMMA WorkerJobFits ==
  ASSUME TypeInv, Running, NEW w \in Clients, worker[w] \in {"timed", "await"},
         NEW m, Prepared(m)
  PROVE  /\ WorkerJob(w) \in Jobs /\ Fits(m, WorkerJob(w))
         /\ main \in {"start", "notify", "join"}
<1>1. main \in {"start", "notify", "join"}
  BY DEF TypeInv, BarrierInv, TimedInWindow, WindowInv, Running
<1>2. WorkerJob(w) \in Jobs
  BY WorkerJobIsJob DEF TypeInv
<1> QED
  BY <1>1, <1>2 DEF Fits, Prepared, HitReady, UpdateReady, Measuring

\* Nobody waits but the main thread alone, or workers while it is in its join.
LEMMA NobodyWaits ==
  ASSUME TypeInv, NEW c \in Clients, Running, main \notin {"await", "start", "notify", "join"}
  PROVE  ~Awaiting(c)
BY DEF TypeInv, BarrierInv, TimedInWindow, WindowInv, Awaiting, Running

\* Whoever waits has an operation to wait for, which the map fits.
LEMMA JobFits ==
  ASSUME TypeInv, InPlay, MapInv, NEW c \in Clients, Awaiting(c)
  PROVE  JobOf(c) \in Jobs /\ Fits(values, JobOf(c))
<1>1. Prepared(values) /\ Running
  BY DEF InPlay, MapInv, Running, InUse, Alone, Measuring
<1>2. CASE main = "await"
  BY <1>1, <1>2, MainJobFits DEF JobOf
<1>3. CASE main # "await"
  BY <1>1, <1>3, WorkerJobFits DEF JobOf, Awaiting
<1> QED
  BY <1>2, <1>3

\* A response on a stream in step is the one that is waited for.
LEMMA ReceivedIsRight ==
  ASSUME TypeInv, NEW c \in Clients, InStep(c), Awaiting(c), HasResponse(c)
  PROVE  /\ request[c] = <<>> /\ torn[c] = None /\ server[c] # "sending"
         /\ ~Misaligned(c) /\ AfterRead(c) = <<>>
         /\ \A res \in Results(c) : Correct(JobOf(c), res)
<1>1. response[c] # <<>> /\ response[c] # <<Rest>>
  <2>1. ASSUME response[c] = <<>> PROVE FALSE
    <3>1. ~Misaligned(c) /\ Len(response[c]) = 0
      BY <2>1, OneMessage DEF Misaligned
    <3> QED
      BY <3>1 DEF HasResponse
  <2>2. ASSUME response[c] = <<Rest>> PROVE FALSE
    <3>1. Misaligned(c) /\ Len(response[c]) = 1
      BY <2>2, OneMessage DEF Misaligned
    <3> QED
      BY <3>1 DEF HasResponse
  <2> QED
    BY <2>1, <2>2
<1>2. PICK res \in Right(JobOf(c)) : response[c] = <<res>>
  BY <1>1 DEF InStep
<1>3. res # Rest /\ Correct(JobOf(c), res)
  BY KeysApart DEF Right
<1>4. ~Misaligned(c)
  BY <1>2, <1>3, OneMessage DEF Misaligned
<1>5. AfterRead(c) = <<>> /\ Results(c) = {res}
  BY <1>2, <1>4, OneMessage DEF AfterRead, Results
<1>6. request[c] = <<>> /\ torn[c] = None /\ server[c] # "sending"
  BY <1>1 DEF InStep
<1> QED
  BY <1>3, <1>4, <1>5, <1>6

\* What is ready when an operation of the main thread has ended.
LEMMA ReadyAfter ==
  ASSUME TypeInv, main \in {"single", "await"}, NEW ok, MainJobDone(ok)
  PROVE  /\ main' \in {"single", "spawn", "report"} /\ (ok <=> main' # "report")
         /\ HitReady' => ok /\ (HitReady \/ step = 1)
         /\ UpdateReady' => ok /\ (UpdateReady \/ step = 2)
<1>1. step \in 1 .. MainJobs /\ MainJobs \in Int /\ MainJobs >= 3
  <2>1. threads * WarmUp \in Nat \ {0}
    BY ThreadsAssumption, CountsAssumption DEF TypeInv, TypeOK
  <2> QED
    BY <2>1 DEF MainJobs, TypeInv, OrderInv
<1>2. \/ ok /\ main' = "single" /\ step' = step + 1 /\ step < MainJobs
      \/ ok /\ main' = "spawn" /\ ~(step < MainJobs)
      \/ ~ok /\ main' = "report"
  BY DEF MainJobDone, MainTo
<1>3. /\ step + 1 > 1 /\ (step > 1 \/ step = 1)
      /\ step + 1 > 2 => step > 2 \/ step = 2
      /\ ~(step < MainJobs) => step > 1 /\ step > 2
  BY <1>1
<1> QED
  BY <1>1, <1>2, <1>3 DEF HitReady, UpdateReady, Measuring

-----------------------------------------------------------------------------
\* Those whom a step does not concern.

LEMMA WaitingKept ==
  ASSUME NEW c \in Clients, UNCHANGED workload,
         \/ /\ main = "await" /\ UNCHANGED <<main, step>>
         \/ /\ main # "await" /\ main' # "await"
            /\ worker'[c] = "await" <=> worker[c] = "await"
            /\ worker[c] = "await" => index'[c] = index[c]
  PROVE  /\ Awaiting(c)' <=> Awaiting(c)
         /\ Awaiting(c) => JobOf(c)' = JobOf(c)
<1>1. CASE main = "await" /\ UNCHANGED <<main, step>>
  <2>1. MainClient(step)' = MainClient(step) /\ MainJob(step)' = MainJob(step)
    <3>1. MainClient(step)' = MainClient(step)
      BY <1>1 DEF MainClient
    <3> QED
      BY <1>1, <3>1 DEF MainJob, MainClient, Planned, Preparation
  <2> QED
    BY <1>1, <2>1 DEF Awaiting, JobOf
<1>2. CASE /\ main # "await" /\ main' # "await"
           /\ worker'[c] = "await" <=> worker[c] = "await"
           /\ worker[c] = "await" => index'[c] = index[c]
  <2>1. worker[c] = "await" => WorkerJob(c)' = WorkerJob(c)
    BY <1>2 DEF WorkerJob, Planned
  <2> QED
    BY <1>2, <2>1 DEF Awaiting, JobOf
<1> QED
  BY <1>1, <1>2

\* A client in play, whose streams and server do not move, stays as it is.
LEMMA ClientKept ==
  ASSUME NEW c \in Clients, Playing(c),
         UNCHANGED <<payload, client[c], server[c], request[c], torn[c], answer[c], response[c]>>,
         spoilt[c] => spoilt'[c], main' \in Alone => main \in Alone,
         Awaiting(c)' <=> Awaiting(c), Awaiting(c) => JobOf(c)' = JobOf(c)
  PROVE  Playing(c)'
<1>1. RequestOf(JobOf(c))' = RequestOf(JobOf(c)') /\ Right(JobOf(c))' = Right(JobOf(c)')
  BY DEF RequestOf, Right, Correct
<1>2. Awaiting(c) => RequestOf(JobOf(c))' = RequestOf(JobOf(c)) /\ Right(JobOf(c))' = Right(JobOf(c))
  BY <1>1
<1>3. InStep(c) => InStep(c)'
  BY <1>2 DEF InStep
<1>4. WillAnswer(c) => WillAnswer(c)'
  BY DEF WillAnswer, HasResponse, Misaligned, PeerClosed
<1>5. Harmless' = Harmless /\ Tearable' = Tearable
  BY DEF Harmless, Tearable, Writes
<1> QED
  BY <1>3, <1>4, <1>5 DEF Playing

\* It is idle once the measurement is over.
LEMMA ClientLeaves ==
  ASSUME NEW c \in Clients, Playing(c), ~Awaiting(c) \/ spoilt'[c],
         UNCHANGED <<client[c], server[c], request[c], torn[c]>>,
         spoilt[c] => spoilt'[c]
  PROVE  Idle(c)'
<1>1. ~spoilt'[c] => InStep(c) /\ ~Awaiting(c)
  BY DEF Playing
<1>2. ~spoilt'[c] => request[c] = <<>> /\ torn[c] = None /\ server[c] # "sending"
  BY <1>1 DEF InStep
<1>3. client[c] = "open" /\ PeerClosed(c) => spoilt[c]
  BY DEF Playing, PeerClosed
<1> QED
  BY <1>2, <1>3 DEF Idle, PeerClosed

\* And it stays idle.
LEMMA IdleKept ==
  ASSUME NEW c \in Clients, Idle(c),
         UNCHANGED <<client[c], server[c], request[c], torn[c]>>,
         spoilt[c] => spoilt'[c], Closing(c) => Closing(c)'
  PROVE  Idle(c)'
BY DEF Idle, PeerClosed

\* The process ends: nothing is promised any more.
LEMMA ResultEnds ==
  ASSUME ResultInv, UNCHANGED <<socketVars, engine, shared>>, main' \in {"exit", "killed", "stuck"}
  PROVE  ResultInv'
<1>1. ~InPlay' /\ ~Running' /\ main' \notin InUse
  BY DEF InPlay, Running, InUse, Alone, Measuring
<1>2. MapInv' /\ PreparingInv'
  BY <1>1 DEF ResultInv, MapInv, PreparingInv
<1>3. FreshInv'
  BY DEF ResultInv, FreshInv, Fresh, Empty, socketVars, requestVars
<1>4. \A c \in Clients : ClientInv(c)'
  BY <1>1 DEF ClientInv
<1> QED
  BY <1>2, <1>3, <1>4 DEF ResultInv

\* Neither the sockets nor the maps change, and nobody begins or ends to wait.
LEMMA ResultKept ==
  ASSUME TypeInv, ResultInv, Running, UNCHANGED <<socketVars, engine, payload, workload, shared>>,
         \A c \in Clients : spoilt[c] => spoilt'[c],
         \/ UNCHANGED <<main, step>>
         \/ {main, main'} \cap {"await", "close"} = {},
         \A w \in Clients : /\ worker'[w] = "await" <=> worker[w] = "await"
                            /\ worker[w] = "await" => index'[w] = index[w],
         main' \in InUse => main \in InUse, main' \in Alone => main \in Alone,
         main' \in {"open", "next", "connect"} => Fresh,
         main \in InUse /\ main' \notin InUse => main \notin {"start", "notify"}
            /\ \A w \in Clients : worker[w] # "await",
         HitReady' => HitReady, UpdateReady' => UpdateReady
  PROVE  ResultInv'
<1>1. MapInv'
  BY DEF ResultInv, MapInv, Prepared, socketVars
<1>2. FreshInv'
  <2>1. Fresh' => Fresh
    BY DEF Fresh
  <2>2. \A c \in Clients : Empty(c) => Empty(c)'
    BY DEF Empty, socketVars, requestVars
  <2> QED
    BY <2>1, <2>2 DEF ResultInv, FreshInv, socketVars
<1>3. PreparingInv'
  <2>1. InPlay' /\ main' = "await" => InPlay /\ main = "await" /\ step' = step
    BY DEF InPlay
  <2>2. HasResponse(0)' <=> HasResponse(0)
    BY DEF HasResponse, Misaligned, socketVars, requestVars
  <2>3. Preparation' = Preparation
    BY DEF Preparation
  <2> QED
    BY <2>1, <2>2, <2>3 DEF ResultInv, PreparingInv, socketVars, requestVars
<1>4. ASSUME NEW c \in Clients PROVE ClientInv(c)'
  <2>1. Awaiting(c)' <=> Awaiting(c)
    BY WaitingKept
  <2>2. Awaiting(c) => JobOf(c)' = JobOf(c)
    BY WaitingKept
  <2>3. /\ UNCHANGED <<client[c], server[c], request[c], torn[c], answer[c], response[c]>>
        /\ spoilt[c] => spoilt'[c]
    BY DEF socketVars, requestVars
  <2>4. CASE InPlay'
    <3>1. InPlay /\ Playing(c)
      BY <2>4 DEF InPlay, ResultInv, ClientInv
    <3>2. Playing(c)'
      BY <2>1, <2>2, <2>3, <3>1, ClientKept
    <3> QED
      BY <2>4, <3>2 DEF ClientInv
  <2>5. CASE InPlay /\ ~InPlay'
    <3>1. main \in InUse /\ main' \notin InUse
      BY <2>5 DEF InPlay
    <3>2. ~Awaiting(c)
      BY <3>1 DEF Awaiting, InUse, Alone
    <3>3. Idle(c)'
      BY <2>3, <2>5, <3>2, ClientLeaves DEF ResultInv, ClientInv
    <3> QED
      BY <2>5, <3>3 DEF ClientInv
  <2>6. CASE ~InPlay /\ ~InPlay'
    <3>1. Closing(c) => Closing(c)'
      BY DEF Closing
    <3>2. Idle(c)'
      BY <2>3, <2>6, <3>1, IdleKept DEF ResultInv, ClientInv
    <3> QED
      BY <2>6, <3>2 DEF ClientInv
  <2> QED
    BY <2>4, <2>5, <2>6
<1> QED
  BY <1>1, <1>2, <1>3, <1>4 DEF ResultInv

\* Nothing has been prepared or sent at first.
LEMMA ResultInit == Init => ResultInv
<1> SUFFICES ASSUME Init PROVE ResultInv
  OBVIOUS
<1>1. /\ engine = [k \in Keys |-> Absent] /\ values = [k \in Keys |-> Absent]
      /\ main = "open" /\ shared = FALSE
      /\ request = [c \in Clients |-> <<>>] /\ response = [c \in Clients |-> <<>>]
      /\ torn = [c \in Clients |-> None]
      /\ server = [c \in Clients |-> "none"] /\ client = [c \in Clients |-> "none"]
  BY DEF Init, NoCache
<1>2. main \notin InUse /\ ~InPlay
  BY <1>1 DEF InPlay, InUse, Alone, Measuring
<1>3. MapInv /\ PreparingInv
  BY <1>1, <1>2, KeysApart DEF MapInv, PreparingInv
<1>4. FreshInv
  BY <1>1 DEF FreshInv, Empty
<1>5. \A c \in Clients : ClientInv(c)
  BY <1>1, <1>2 DEF ClientInv, Idle
<1> QED
  BY <1>3, <1>4, <1>5 DEF ResultInv

-----------------------------------------------------------------------------
\* Steps that leave the sockets and the maps alone.

USE DEF Alone, Measuring, InUse

LEMMA QuietResults ==
  ASSUME TypeInv, LeftInv, ResultInv, Running,
         \/ OpenCache \/ OpenCacheFails \/ Exit \/ UnlinkFails \/ Report \/ Spawn \/ SpawnFails
         \/ Gather \/ TakeBegin \/ SetStart \/ NotifyWorkers \/ JoinWorkers \/ Tally
         \/ MainBrokenPipe \/ WakeUp
         \/ \E w \in Clients : \/ Arrive(w) \/ Park(w) \/ Recheck(w)
                              \/ WorkerBrokenPipe(w) \/ ServerBrokenPipe(w)
  PROVE  ResultInv'
<1>1. ASSUME OpenCacheFails \/ Exit \/ UnlinkFails \/ MainBrokenPipe
             \/ \E w \in Clients : WorkerBrokenPipe(w) \/ ServerBrokenPipe(w)
      PROVE  ResultInv'
  <2>1. UNCHANGED <<socketVars, engine, shared>> /\ main' \in {"exit", "killed"}
    BY <1>1 DEF OpenCacheFails, Exit, UnlinkFails, MainBrokenPipe, WorkerBrokenPipe,
                ServerBrokenPipe, MainTo, roundVars
  <2> QED
    BY <2>1, ResultEnds
<1>2. ASSUME OpenCache \/ Report PROVE ResultInv'
  <2>1. /\ UNCHANGED <<socketVars, engine, payload, workload, shared, worker, index, spoilt>>
        /\ main \in {"open", "report"} /\ main' \in {"next", "destroy"}
        /\ main' = "next" => shared \/ main = "open"
    BY <1>2 DEF OpenCache, Report, MainTo, roundVars, workerVars, faultVars
  <2>2. ~HitReady' /\ ~UpdateReady' /\ (main' = "next" => Fresh)
    BY <2>1 DEF HitReady, UpdateReady, Fresh
  <2> QED
    BY <2>1, <2>2, ResultKept
<1>3. ASSUME Spawn PROVE ResultInv'
  <2>1. /\ UNCHANGED <<socketVars, engine, payload, workload, shared, index, spoilt>>
        /\ main = "spawn" /\ main' \in {"spawn", "gather"}
        /\ worker' = worker \/ worker' = [worker EXCEPT ![step] = "created"]
    BY <1>3 DEF Spawn, MainTo, roundVars, faultVars
  <2>2. \A w \in Clients : worker'[w] = "await" <=> worker[w] = "await"
    <3>1. step \in Clients => worker[step] = "none"
      BY <2>1 DEF TypeInv, TypeOK, OrderInv
    <3>2. worker \in [Clients -> WorkerPlaces]
      BY DEF TypeInv, TypeOK
    <3> QED
      BY <2>1, <3>1, <3>2
  <2>3. HitReady /\ UpdateReady
    BY <2>1 DEF HitReady, UpdateReady
  <2> QED
    BY <2>1, <2>2, <2>3, ResultKept
<1>4. ASSUME SpawnFails PROVE ResultInv'
  <2>1. /\ UNCHANGED <<socketVars, engine, payload, workload, shared, worker, index, spoilt>>
        /\ main = "spawn"
        /\ \/ main' = "next" /\ shared
           \/ main' = "destroy" /\ step = 0
           \/ main' \in {"stuck", "killed"}
    BY <1>4 DEF SpawnFails, SetUpFault, MainTo, roundVars, workerVars
  <2>2. CASE main' \in {"stuck", "killed"}
    BY <2>1, <2>2, ResultEnds
  <2>3. CASE main' \in {"next", "destroy"}
    <3>1. ~HitReady' /\ ~UpdateReady' /\ (main' = "next" => Fresh)
      BY <2>1, <2>3 DEF HitReady, UpdateReady, Fresh
    <3>2. \A w \in Clients : worker[w] # "await"
      BY <2>1, NobodyWaits DEF Awaiting
    <3> QED
      BY <2>1, <2>3, <3>1, <3>2, ResultKept
  <2> QED
    BY <2>1, <2>2, <2>3
<1>5. ASSUME Gather \/ TakeBegin \/ SetStart PROVE ResultInv'
  <2>1. /\ UNCHANGED <<socketVars, engine, payload, workload, shared, worker, index, spoilt>>
        /\ main \in {"gather", "begin", "start"}
        /\ main' \in {"blocked", "begin", "start", "notify"}
    BY <1>5 DEF Gather, TakeBegin, SetStart, MainTo, roundVars, workerVars, faultVars
  <2>2. HitReady /\ UpdateReady
    BY <2>1 DEF HitReady, UpdateReady
  <2> QED
    BY <2>1, <2>2, ResultKept
<1>6. ASSUME NotifyWorkers PROVE ResultInv'
  <2>1. /\ UNCHANGED <<socketVars, engine, payload, workload, shared, index, spoilt>>
        /\ main = "notify" /\ main' = "join" /\ worker' = [w \in Clients |-> Notified(worker[w])]
    BY <1>6 DEF NotifyWorkers, MainTo, roundVars, faultVars
  <2>2. HitReady /\ UpdateReady
    BY <2>1 DEF HitReady, UpdateReady
  <2>3. \A w \in Clients : worker'[w] = "await" <=> worker[w] = "await"
    BY <2>1 DEF Notified
  <2> QED
    BY <2>1, <2>2, <2>3, ResultKept
<1>7. ASSUME JoinWorkers \/ Tally PROVE ResultInv'
  <2>1. /\ UNCHANGED <<socketVars, engine, payload, workload, shared, worker, index, spoilt>>
        /\ main \in {"join", "tally"} /\ main' \in {"tally", "report"}
        /\ main = "join" => \A w \in Workers : worker[w] = "ended"
    BY <1>7 DEF JoinWorkers, Tally, MainTo, roundVars, workerVars, faultVars
  <2>2. ~HitReady' /\ ~UpdateReady'
    BY <2>1 DEF HitReady, UpdateReady
  <2>3. main = "join" => \A w \in Clients : worker[w] # "await"
    BY <2>1 DEF TypeInv, BarrierInv, BegunInv
  <2> QED
    BY <2>1, <2>2, <2>3, ResultKept
<1>8. ASSUME WakeUp PROVE ResultInv'
  <2>1. /\ UNCHANGED <<socketVars, engine, payload, workload, shared, index, spoilt>>
        /\ \/ main = "blocked" /\ main' = "gather" /\ worker' = worker
           \/ UNCHANGED <<main, step>> /\ \E w \in Clients : worker[w] = "blocked"
                                                        /\ worker' = [worker EXCEPT ![w] = "woken"]
    BY <1>8 DEF WakeUp, MainTo, mainVars, roundVars, faultVars
  <2>2. \A w \in Clients : worker'[w] = "await" <=> worker[w] = "await"
    BY <2>1 DEF TypeInv, TypeOK
  <2>3. (HitReady' => HitReady) /\ (UpdateReady' => UpdateReady)
    BY <2>1 DEF HitReady, UpdateReady
  <2>4. Fresh' => Fresh
    BY <2>1 DEF Fresh
  <2>5. main' \in {"open", "next", "connect"} => Fresh
    BY <2>4 DEF Fresh
  <2>6. CASE UNCHANGED <<main, step>>
    BY <2>1, <2>2, <2>3, <2>5, <2>6, ResultKept
  <2>7. CASE main = "blocked" /\ main' = "gather"
    BY <2>1, <2>2, <2>3, <2>5, <2>7, ResultKept
  <2> QED
    BY <2>1, <2>6, <2>7
<1>9. ASSUME NEW w \in Clients, Arrive(w) \/ Park(w) \/ Recheck(w) PROVE ResultInv'
  <2>1. /\ UNCHANGED <<socketVars, engine, payload, workload, shared, index, spoilt>>
        /\ \/ main = "blocked" /\ main' = "gather"
           \/ UNCHANGED <<main, step>>
        /\ step' = step
    BY <1>9 DEF Arrive, Park, Recheck, mainVars, roundVars, faultVars
  <2>2. \A v \in Clients : worker'[v] = "await" <=> worker[v] = "await"
    <3>1. worker \in [Clients -> WorkerPlaces]
      BY DEF TypeInv, TypeOK
    <3>2. worker[w] \in {"created", "parking", "woken"} /\ worker'[w] \in {"timed", "parking", "blocked"}
      BY <1>9, <3>1 DEF Arrive, Park, Recheck, Test
    <3>3. \A v \in Clients : v # w => worker'[v] \in {worker[v], Notified(worker[v])}
      BY <1>9, <3>1 DEF Arrive, Park, Recheck, Test
    <3> QED
      BY <3>2, <3>3 DEF Notified
  <2>3. (HitReady' => HitReady) /\ (UpdateReady' => UpdateReady)
    BY <2>1 DEF HitReady, UpdateReady
  <2>4. main' \in {"open", "next", "connect"} => Fresh
    BY <2>1 DEF Fresh
  <2>5. CASE UNCHANGED <<main, step>>
    BY <2>1, <2>2, <2>3, <2>4, <2>5, ResultKept
  <2>6. CASE main = "blocked" /\ main' = "gather"
    BY <2>1, <2>2, <2>3, <2>4, <2>6, ResultKept
  <2> QED
    BY <2>1, <2>5, <2>6
<1> QED
  BY <1>1, <1>2, <1>3, <1>4, <1>5, <1>6, <1>7, <1>8, <1>9

-----------------------------------------------------------------------------
\* Construction and destruction of the socket cache.

LEMMA BuildingResults ==
  ASSUME TypeInv, LeftInv, LeftInv', ResultInv, Running,
         \/ NextMeasurement \/ ConnectClient \/ ConnectFails
         \/ SayQuit \/ SayQuitFails \/ CloseClient \/ Destroy
  PROVE  ResultInv'
<1>a. /\ client \in [Clients -> {"none", "open", "closed"}]
      /\ server \in [Clients -> {"none", "reading", "sending", "ended", "joined", "orphan"}]
      /\ request \in [Clients -> Seq(Messages)] /\ torn \in [Clients -> Messages \cup {None}]
      /\ spoilt \in [Clients -> BOOLEAN] /\ values \in [Keys -> Values \cup {Absent}]
      /\ step \in Nat /\ shared \in BOOLEAN
  BY DEF TypeInv, TypeOK, SocketTypeOK
<1>1. ASSUME NextMeasurement PROVE ResultInv'
  <2>1. /\ main = "next" /\ shared' = ~shared /\ engine' = engine
        /\ \A w \in Clients : worker'[w] = "none"
    BY <1>1 DEF NextMeasurement
  <2>2. Fresh
    BY <2>1 DEF Fresh
  <2>3. values = [k \in Keys |-> Absent] /\ \A c \in Clients : Empty(c)
    BY <2>2 DEF ResultInv, FreshInv
  <2>4. CASE shared
    <3>1. /\ Construct /\ main' = "connect" /\ ~shared'
      BY <1>1, <2>1, <2>4 DEF NextMeasurement, MainTo
    <3>2. /\ \A c \in Clients : client'[c] = "none" /\ server'[c] = "none"
          /\ UNCHANGED <<values, request, torn, response>>
      BY <3>1 DEF Construct, requestVars
    <3>3. ~HitReady' /\ ~UpdateReady'
      BY <3>1 DEF HitReady, UpdateReady
    <3>4. MapInv'
      BY <2>1, <2>3, <3>1, <3>2, <3>3, KeysApart DEF ResultInv, MapInv, Prepared
    <3>5. FreshInv'
      BY <2>3, <3>2 DEF FreshInv, Empty
    <3>6. PreparingInv'
      BY <3>1 DEF PreparingInv
    <3>7. ASSUME NEW c \in Clients PROVE ClientInv(c)'
      <4>1. ~Awaiting(c)'
        BY <2>1, <3>1 DEF Awaiting
      <4>2. request'[c] = <<>> /\ torn'[c] = None /\ response'[c] = <<>> /\ InPlay'
        BY <2>3, <3>1, <3>2 DEF Empty, InPlay
      <4>3. InStep(c)'
        BY <3>2, <4>1, <4>2 DEF InStep
      <4>4. <<>> \in Seq(Harmless') /\ None \in Tearable'
        BY DEF Tearable
      <4>5. Playing(c)'
        BY <3>2, <4>1, <4>2, <4>3, <4>4 DEF Playing
      <4> QED
        BY <4>2, <4>5 DEF ClientInv
    <3> QED
      BY <3>4, <3>5, <3>6, <3>7 DEF ResultInv
  <2>5. CASE ~shared
    <3>1. UNCHANGED socketVars /\ main' = "single" /\ step' = 1 /\ shared'
      BY <1>1, <2>1, <2>5, <1>a DEF NextMeasurement, MainTo
    <3>2. ~HitReady' /\ ~UpdateReady'
      BY <3>1 DEF HitReady, UpdateReady
    <3>3. MapInv'
      BY <2>1, <3>1, <3>2 DEF ResultInv, MapInv, Prepared
    <3>4. FreshInv'
      BY <2>3, <3>1 DEF FreshInv, Empty, socketVars, requestVars
    <3>5. PreparingInv' /\ ~InPlay'
      BY <3>1 DEF PreparingInv, InPlay
    <3>6. ASSUME NEW c \in Clients PROVE ClientInv(c)'
      <4>1. client'[c] # "open" /\ request'[c] = <<>> /\ torn'[c] = None /\ server'[c] # "sending"
        BY <2>1, <2>3, <3>1 DEF LeftInv, Quiet, Empty, socketVars, requestVars
      <4> QED
        BY <3>5, <4>1 DEF ClientInv, Idle
    <3> QED
      BY <3>3, <3>4, <3>5, <3>6 DEF ResultInv
  <2> QED
    BY <2>4, <2>5
<1>2. ASSUME ConnectClient \/ ConnectFails PROVE ResultInv'
  <2>1. /\ main = "connect" /\ ~shared /\ UNCHANGED <<shared, engine, payload, workload, worker, index, spoilt>>
        /\ InPlay /\ Fresh
    BY <1>2 DEF ConnectClient, ConnectFails, SetUpFault, LeftInv, roundVars, workerVars, faultVars,
                InPlay, Fresh
  <2>2. \A w \in Clients : worker[w] # "await"
    BY <2>1 DEF TypeInv, OrderInv
  <2>3. ASSUME UNCHANGED socketVars, \/ main' = "single" /\ step' = 1
                                     \/ main' = "destroy"
        PROVE  ResultInv'
    <3>1. ~HitReady' /\ ~UpdateReady'
      BY <2>3 DEF HitReady, UpdateReady
    <3> QED
      BY <2>1, <2>2, <2>3, <3>1, ResultKept
  <2>4. ASSUME NEW l \in {"reading", "orphan"}, step \in Clients,
               client' = [client EXCEPT ![step] = "open"], server' = [server EXCEPT ![step] = l],
               UNCHANGED <<values, requestVars, answer, response>>,
               \/ l = "reading" /\ main' = "connect"
               \/ l = "orphan" /\ main' = "destroy"
        PROVE  ResultInv'
    <3>1. ~HitReady' /\ ~UpdateReady' /\ PreparingInv'
      BY <2>4 DEF HitReady, UpdateReady, PreparingInv
    <3>2. MapInv'
      BY <2>1, <2>4, <3>1 DEF ResultInv, MapInv, Prepared
    <3>3. \A c \in Clients : Empty(c) /\ Playing(c) /\ ~Awaiting(c) /\ ~Awaiting(c)'
      BY <2>1, <2>2, <2>4 DEF ResultInv, FreshInv, ClientInv, Awaiting
    <3>4. \A c \in Clients : Empty(c)'
      BY <1>a, <2>4, <3>3 DEF Empty, requestVars
    <3>5. FreshInv'
      BY <2>1, <2>4, <3>4 DEF ResultInv, FreshInv
    <3>6. ASSUME NEW c \in Clients, c # step PROVE ClientInv(c)'
      <4>1. /\ client'[c] = client[c] /\ server'[c] = server[c] /\ request'[c] = request[c]
            /\ torn'[c] = torn[c] /\ answer'[c] = answer[c] /\ response'[c] = response[c]
            /\ spoilt'[c] = spoilt[c] /\ payload' = payload
        BY <1>a, <2>1, <2>4, <3>6 DEF requestVars
      <4>2. CASE main' = "connect"
        <5>1. Playing(c) /\ (Awaiting(c)' <=> Awaiting(c)) /\ (Awaiting(c) => JobOf(c)' = JobOf(c))
          BY <3>3
        <5>2. main' \in Alone => main \in Alone
          BY <2>1
        <5>3. Playing(c)'
          BY <4>1, <5>1, <5>2, ClientKept
        <5>4. InPlay'
          BY <2>1, <4>2 DEF InPlay
        <5> QED
          BY <5>3, <5>4 DEF ClientInv
      <4>3. CASE main' = "destroy"
        <5>1. Playing(c) /\ ~Awaiting(c)
          BY <3>3
        <5>2. Idle(c)'
          BY <4>1, <5>1, ClientLeaves
        <5>3. ~InPlay'
          BY <4>3 DEF InPlay
        <5> QED
          BY <5>2, <5>3 DEF ClientInv
      <4> QED
        BY <2>4, <4>2, <4>3
    <3>7. ASSUME NEW c \in Clients, c = step PROVE ClientInv(c)'
      <4>1. /\ client'[c] = "open" /\ server'[c] = l
            /\ request'[c] = <<>> /\ response'[c] = <<>> /\ torn'[c] = None
        BY <1>a, <2>4, <3>3, <3>7 DEF Empty, requestVars
      <4>2. CASE main' = "connect"
        <5>1. InStep(c)'
          BY <2>4, <3>3, <4>1, <4>2 DEF InStep
        <5>2. <<>> \in Seq(Harmless') /\ None \in Tearable'
          BY DEF Tearable
        <5>3. Playing(c)'
          BY <2>4, <3>3, <4>1, <4>2, <5>1, <5>2 DEF Playing
        <5> QED
          BY <2>1, <4>2, <5>3 DEF ClientInv, InPlay
      <4>3. CASE main' = "destroy"
        BY <2>4, <4>1, <4>3 DEF ClientInv, InPlay, Idle, PeerClosed
      <4> QED
        BY <2>4, <4>2, <4>3
    <3>8. \A c \in Clients : ClientInv(c)'
      BY <3>6, <3>7
    <3> QED
      BY <3>1, <3>2, <3>5, <3>8 DEF ResultInv
  <2>5. step < threads => step \in Clients
    BY <1>a, ClientsAssumption, ThreadsAssumption DEF TypeInv, TypeOK
  <2>6. CASE ConnectClient
    <3>1. CASE step < threads
      <4>1. Connect(step) /\ main' = "connect"
        BY <2>6, <3>1 DEF ConnectClient, MainTo
      <4> QED
        BY <2>4, <2>5, <3>1, <4>1 DEF Connect
    <3>2. CASE ~(step < threads)
      BY <2>3, <2>6, <3>2 DEF ConnectClient, MainTo
    <3> QED
      BY <3>1, <3>2
  <2>7. CASE ConnectFails
    <3>1. /\ step < threads /\ main' = "destroy"
          /\ UNCHANGED socketVars \/ ConnectWithoutThread(step)
      BY <2>7 DEF ConnectFails, MainTo
    <3> QED
      BY <2>3, <2>4, <2>5, <3>1 DEF ConnectWithoutThread
  <2> QED
    BY <1>2, <2>6, <2>7
<1>3. ASSUME main \in {"destroy", "close"}, main' \in {"destroy", "close"},
             UNCHANGED <<shared, engine>>
      PROVE  MapInv' /\ PreparingInv' /\ FreshInv' /\ ~InPlay /\ ~InPlay'
  <2>1. ~shared /\ ~shared'
    BY <1>3 DEF LeftInv
  <2>2. main \notin InUse /\ main' \notin InUse
    BY <1>3
  <2>3. ~Fresh' /\ ~InPlay /\ ~InPlay'
    BY <1>3, <2>1, <2>2 DEF Fresh, InPlay
  <2>4. engine'["miss"] = Absent
    BY <1>3 DEF ResultInv, MapInv
  <2> QED
    BY <2>2, <2>3, <2>4 DEF MapInv, PreparingInv, FreshInv
<1>4. ASSUME SayQuit \/ SayQuitFails PROVE ResultInv'
  <2>1. /\ main = "destroy" /\ main' = "close" /\ step' = step /\ UNCHANGED <<shared, engine>>
        /\ step \in Clients /\ client[step] = "open" /\ UNCHANGED <<client, server>>
        /\ \A c \in Clients : spoilt[c] => spoilt'[c]
    BY <1>4, <1>a DEF SayQuit, SayQuitFails, ToHangUp, MainTo, Write, WriteFails, roundVars,
                      faultVars, OperationFault
  <2>2. \A c \in Clients : c # step => UNCHANGED <<request[c], torn[c]>>
    BY <1>4, <1>a DEF SayQuit, SayQuitFails, Write, WriteFails, Appended, requestVars
  <2>3. ASSUME NEW c \in Clients, c # step PROVE ClientInv(c)'
    <3>1. Idle(c) /\ ~Closing(c)
      BY <1>3, <2>1 DEF ResultInv, ClientInv, Closing
    <3>2. Idle(c)'
      BY <2>1, <2>2, <2>3, <3>1, IdleKept
    <3> QED
      BY <1>3, <2>1, <3>2 DEF ClientInv
  <2>4. Closing(step)'
    BY <2>1 DEF Closing
  <2>5. Idle(step)'
    <3>1. CASE spoilt'[step]
      BY <2>1, <2>4, <3>1 DEF Idle
    <3>2. CASE ~spoilt'[step]
      <4>1. SayQuit
        BY <1>4, <1>a, <2>1, <3>2 DEF SayQuitFails, OperationFault
      <4>2. Idle(step) /\ ~Closing(step) /\ ~spoilt[step]
        BY <1>3, <2>1, <3>2 DEF ResultInv, ClientInv, Closing
      <4>3. torn[step] = None /\ request[step] = <<>> /\ server[step] # "sending"
        BY <2>1, <4>2 DEF Idle
      <4>4. torn'[step] = None /\ request'[step] = <<Quit>>
        BY <1>a, <2>1, <4>1, <4>3, OneMessage DEF SayQuit, Write, Appended
      <4> QED
        BY <2>1, <2>4, <4>3, <4>4 DEF Idle
    <3> QED
      BY <3>1, <3>2
  <2>6. ClientInv(step)'
    BY <1>3, <2>1, <2>5 DEF ClientInv
  <2> QED
    BY <1>3, <2>1, <2>3, <2>6 DEF ResultInv
<1>5. ASSUME CloseClient PROVE ResultInv'
  <2>1. /\ main = "close" /\ main' = "destroy" /\ step \in Clients
        /\ client' = [client EXCEPT ![step] = "closed"]
        /\ UNCHANGED <<server, request, torn, spoilt, shared, engine>>
    BY <1>5 DEF CloseClient, HangUp, MainTo, requestVars, roundVars, faultVars, LeftInv
  <2>2. ASSUME NEW c \in Clients PROVE ClientInv(c)'
    <3>1. Idle(c)
      BY <1>3, <2>1 DEF ResultInv, ClientInv
    <3>2. Idle(c)'
      <4>1. CASE c = step
        BY <1>a, <2>1, <3>1, <4>1 DEF Idle, PeerClosed
      <4>2. CASE c # step
        <5>1. client'[c] = client[c] /\ ~Closing(c)
          BY <1>a, <2>1, <4>2 DEF Closing
        <5> QED
          BY <2>1, <3>1, <5>1, IdleKept
      <4> QED
        BY <4>1, <4>2
    <3> QED
      BY <1>3, <2>1, <3>2 DEF ClientInv
  <2> QED
    BY <1>3, <2>1, <2>2 DEF ResultInv
<1>6. ASSUME Destroy PROVE ResultInv'
  <2>1. /\ main' = "next" /\ UNCHANGED <<shared, engine>> /\ Join
    BY <1>6 DEF Destroy, MainTo, roundVars
  <2>2. /\ values' = [k \in Keys |-> Absent]
        /\ \A c \in Clients : /\ request'[c] = <<>> /\ response'[c] = <<>> /\ torn'[c] = None
                              /\ server'[c] # "sending"
    BY <1>a, <2>1 DEF Join, Freed, Joinable
  <2>3. ~InPlay' /\ MapInv' /\ PreparingInv'
    BY <2>1 DEF InPlay, ResultInv, MapInv, PreparingInv
  <2>4. FreshInv'
    BY <2>2 DEF FreshInv, Empty
  <2>5. \A c \in Clients : client'[c] # "open"
    BY <2>1 DEF LeftInv, Quiet
  <2>6. \A c \in Clients : ClientInv(c)'
    BY <2>2, <2>3, <2>5 DEF ClientInv, Idle
  <2> QED
    BY <2>3, <2>4, <2>6 DEF ResultInv
<1> QED
  BY <1>1, <1>2, <1>4, <1>5, <1>6

-----------------------------------------------------------------------------
\* Operations on the shared cache.

LEMMA SharedResults ==
  ASSUME TypeInv, ResultInv, Running,
         \/ MainShared \/ MainLockFails
         \/ \E w \in Clients : WorkerShared(w) \/ WorkerLockFails(w)
  PROVE  ResultInv'
<1>a. /\ engine \in [Keys -> Values \cup {Absent}] /\ payload \in Values
      /\ spoilt \in [Clients -> BOOLEAN]
  BY DEF TypeInv, TypeOK
<1>b. ASSUME NEW c, OperationFault(c, TRUE) \/ OperationFault(c, FALSE) \/ UNCHANGED spoilt
      PROVE  \A d \in Clients : spoilt[d] => spoilt'[d]
  BY <1>a, <1>b DEF OperationFault
<1>1. ASSUME shared, shared', UNCHANGED socketVars, main # "close", MapInv',
             \A c \in Clients : spoilt[c] => spoilt'[c]
      PROVE  ResultInv'
  <2>1. ~InPlay /\ ~InPlay'
    BY <1>1 DEF InPlay
  <2>2. /\ UNCHANGED <<values, client, server, request, torn, response>>
    BY <1>1 DEF socketVars, requestVars
  <2>3. Fresh /\ PreparingInv'
    BY <1>1, <2>1 DEF Fresh, PreparingInv
  <2>4. FreshInv'
    BY <2>2, <2>3 DEF ResultInv, FreshInv, Empty
  <2>5. ASSUME NEW c \in Clients PROVE ClientInv(c)'
    <3>1. Idle(c) /\ ~Closing(c)
      BY <1>1, <2>1 DEF ResultInv, ClientInv, Closing
    <3>2. Idle(c)'
      BY <1>1, <2>2, <3>1, IdleKept
    <3> QED
      BY <2>1, <3>2 DEF ClientInv
  <2> QED
    BY <1>1, <2>3, <2>4, <2>5 DEF ResultInv
<1>2. CASE MainShared \/ MainLockFails
  <2>1. /\ main = "single" /\ shared /\ shared' = shared /\ UNCHANGED <<socketVars, payload>>
        /\ \A c \in Clients : spoilt[c] => spoilt'[c]
    BY <1>2, <1>b DEF MainShared, MainLockFails, roundVars, faultVars, OperationFault
  <2>2. Prepared(engine) /\ engine["miss"] = Absent
    BY <2>1 DEF ResultInv, MapInv
  <2>3. /\ MainJob(step) \in Jobs
        /\ step = 1 => MainJob(step) = Preparation[1]
        /\ step = 2 => MainJob(step) = Preparation[2]
    BY <2>1, <2>2, MainJobFits
  <2>4. CASE MainShared
    <3>1. PICK ok : MainJobDone(ok)
      BY <2>4 DEF MainShared
    <3>2. /\ HitReady' => HitReady \/ step = 1
          /\ UpdateReady' => UpdateReady \/ step = 2
      BY <2>1, <3>1, ReadyAfter
    <3> DEFINE r == RequestOf(MainJob(step))
    <3>3. engine' = MapAfter(engine, r)
      BY <2>4 DEF MainShared
    <3>4. r \in Harmless
      BY <1>a, <2>3, JobIsHarmless
    <3>5. step = 1 => engine'["hit"] = payload
      BY <1>a, <2>3, <3>3, MapAfterPut DEF Preparation
    <3>6. step = 2 => engine'["update"] = payload
      BY <1>a, <2>3, <3>3, MapAfterPut DEF Preparation
    <3> HIDE DEF r
    <3>7. /\ engine["miss"] = Absent => engine'["miss"] = Absent
          /\ engine["hit"] = payload => engine'["hit"] = payload
          /\ engine["update"] # Absent => engine'["update"] # Absent
      BY <1>a, <3>3, <3>4, MapAfterKeeps
    <3>8. Prepared(engine)'
      BY <1>a, <2>1, <2>2, <3>2, <3>5, <3>6, <3>7, KeysApart DEF Prepared
    <3>9. MapInv'
      BY <2>1, <3>8 DEF MapInv, Prepared
    <3> QED
      BY <1>1, <2>1, <3>9
  <2>5. CASE MainLockFails
    <3> DEFINE ok == Correct(MainJob(step), Answered(0))
    <3>1. MainJobDone(ok) /\ engine' = engine
      BY <2>5 DEF MainLockFails
    <3>2. step \in {1, 2} => ~ok
      BY <2>3 DEF Correct, Answered, Preparation
    <3> HIDE DEF ok
    <3>3. /\ HitReady' => ok /\ (HitReady \/ step = 1)
          /\ UpdateReady' => ok /\ (UpdateReady \/ step = 2)
      BY <2>1, <3>1, ReadyAfter
    <3>4. Prepared(engine)'
      BY <2>1, <2>2, <3>1, <3>2, <3>3 DEF Prepared
    <3>5. MapInv'
      BY <2>1, <3>4 DEF MapInv, Prepared
    <3> QED
      BY <1>1, <2>1, <3>5
  <2> QED
    BY <1>2, <2>4, <2>5
<1>3. ASSUME NEW w \in Clients, WorkerShared(w) \/ WorkerLockFails(w) PROVE ResultInv'
  <2>1. /\ worker[w] = "timed" /\ shared /\ shared' = shared
        /\ UNCHANGED <<socketVars, payload, main, step>>
        /\ \A c \in Clients : spoilt[c] => spoilt'[c]
    BY <1>3, <1>b DEF WorkerShared, WorkerLockFails, mainVars, roundVars, faultVars, OperationFault
  <2>2. main \in {"start", "notify", "join"} /\ WorkerJob(w) \in Jobs /\ Prepared(engine)
    <3>1. main \in {"start", "notify", "join"}
      BY <2>1 DEF TypeInv, BarrierInv, TimedInWindow, WindowInv, Running
    <3>2. Prepared(engine)
      BY <2>1, <3>1 DEF ResultInv, MapInv
    <3> QED
      BY <2>1, <3>1, <3>2, WorkerJobFits
  <2>3. /\ engine["miss"] = Absent => engine'["miss"] = Absent
        /\ engine["hit"] = payload => engine'["hit"] = payload
        /\ engine["update"] # Absent => engine'["update"] # Absent
    <3>1. CASE WorkerLockFails(w)
      BY <3>1 DEF WorkerLockFails
    <3>2. CASE WorkerShared(w)
      <4> DEFINE r == RequestOf(WorkerJob(w))
      <4>1. engine' = MapAfter(engine, r)
        BY <3>2 DEF WorkerShared
      <4>2. r \in Harmless
        BY <1>a, <2>2, JobIsHarmless
      <4> HIDE DEF r
      <4> QED
        BY <1>a, <4>1, <4>2, MapAfterKeeps
    <3> QED
      BY <1>3, <3>1, <3>2
  <2>4. MapInv'
    BY <2>1, <2>2, <2>3 DEF MapInv, Prepared, HitReady, UpdateReady
  <2> QED
    BY <1>1, <2>1, <2>2, <2>4
<1> QED
  BY <1>2, <1>3

-----------------------------------------------------------------------------
\* The clients' writes.

\* A client asks for an operation: it will have its response.
LEMMA ClientSends ==
  ASSUME TypeInv, NEW c \in Clients, Playing(c), ~Awaiting(c), NEW job \in Jobs,
         Write(c, RequestOf(job)), UNCHANGED <<payload, spoilt>>,
         main' \in Alone => main \in Alone, Awaiting(c)', JobOf(c)' = job
  PROVE  Playing(c)' /\ request'[c] # <<>>
<1>a. /\ request \in [Clients -> Seq(Messages)] /\ torn \in [Clients -> Messages \cup {None}]
      /\ payload \in Values
  BY DEF TypeInv, TypeOK, SocketTypeOK
<1>b. Harmless' = Harmless /\ Tearable' = Tearable
  BY DEF Harmless, Tearable, Writes
<1>c. RequestOf(job)' = RequestOf(job)
  BY DEF RequestOf
<1> DEFINE r == RequestOf(job)
<1>1. r \in Harmless
  BY <1>a, JobIsHarmless
<1>2. /\ client[c] = "open" /\ ~PeerClosed(c)
      /\ UNCHANGED <<client[c], server[c], answer[c], response[c]>>
      /\ torn'[c] = IF torn[c] = None THEN None ELSE Junk
  BY <1>a DEF Write
<1>3. PICK x \in (IF torn[c] = None THEN {r} ELSE Mangled(torn[c])) :
        request'[c] = Append(request[c], x)
  BY <1>a DEF Write, Appended
<1>4. server[c] = "reading" \/ server[c] = "sending"
  BY <1>2 DEF Playing, PeerClosed
<1> HIDE DEF r
<1>5. x \in Harmless
  BY <1>1, <1>3, TornIsHarmless DEF Playing
<1>6. request[c] \in Seq(Harmless)
  BY DEF Playing
<1>7. /\ request'[c] \in Seq(Harmless) /\ request'[c] # <<>>
      /\ Head(request'[c]) = IF request[c] = <<>> THEN x ELSE Head(request[c])
  BY <1>3, <1>5, <1>6, AppendedMessage
<1>8. Head(request'[c]) # Quit
  <2>1. request[c] # <<>> => Head(request[c]) \in Harmless
    BY <1>6
  <2> QED
    BY <1>5, <1>7, <2>1, HarmlessTypes
<1>9. torn'[c] \in Tearable
  BY <1>2, HarmlessTypes
<1>10. WillAnswer(c)'
  BY <1>2, <1>4, <1>7, <1>8 DEF WillAnswer
<1>11. ASSUME ~spoilt[c] \/ main \in Alone PROVE InStep(c)'
  <2>1. torn[c] = None /\ request[c] = <<>> /\ response[c] = <<>> /\ server[c] # "sending"
    BY <1>11 DEF Playing, InStep
  <2>2. request'[c] = <<r>> /\ torn'[c] = None
    BY <1>2, <1>3, <2>1, OneMessage
  <2>3. (request[c] = <<RequestOf(JobOf(c))>>)'
    BY <1>b, <1>c, <2>2 DEF r
  <2> QED
    BY <1>2, <2>1, <2>2, <2>3 DEF InStep
<1> QED
  BY <1>b, <1>2, <1>4, <1>7, <1>9, <1>10, <1>11 DEF Playing

LEMMA WritingResults ==
  ASSUME TypeInv, ResultInv, Running,
         \/ MainSend \/ MainSendFails
         \/ \E w \in Clients : WorkerSend(w) \/ WorkerSendFails(w)
  PROVE  ResultInv'
<1>a. /\ payload \in Values /\ spoilt \in [Clients -> BOOLEAN]
      /\ worker \in [Clients -> WorkerPlaces] /\ index \in [Clients -> 0 .. OpsPerThread]
      /\ torn \in [Clients -> Messages \cup {None}] /\ request \in [Clients -> Seq(Messages)]
  BY DEF TypeInv, TypeOK, SocketTypeOK
<1>1. ASSUME MainSend \/ MainSendFails PROVE ResultInv'
  <2>1. /\ main = "single" /\ ~shared /\ InPlay
        /\ UNCHANGED <<shared, engine, payload, workload, worker, index, threads>>
    BY <1>1 DEF MainSend, MainSendFails, InPlay, roundVars, workerVars, MainJobDone
  <2>2. Prepared(values) /\ engine["miss"] = Absent /\ \A d \in Clients : Playing(d)
    BY <2>1 DEF ResultInv, MapInv, ClientInv
  <2>3. PICK c \in Clients, job \in Jobs :
           /\ c = MainClient(step) /\ job = MainJob(step)
           /\ step \in {1, 2} => c = 0
    BY <2>1, <2>2, MainJobFits
  <2>4. \A d \in Clients : ~Awaiting(d)
    BY <2>1, NobodyWaits
  <2>5. CASE MainSend
    <3>1. /\ main' = "await" /\ step' = step /\ spoilt' = spoilt /\ Write(c, RequestOf(job))
      BY <2>3, <2>5 DEF MainSend, MainTo, faultVars
    <3>2. MainClient(step)' = c /\ MainJob(step)' = job
      <4>1. MainClient(step)' = MainClient(step)
        BY <3>1 DEF MainClient
      <4> QED
        BY <2>1, <2>3, <3>1, <4>1 DEF MainJob, MainClient, Planned, Preparation
    <3>3. Playing(c)' /\ request'[c] # <<>>
      <4>1. Awaiting(c)' /\ JobOf(c)' = job
        BY <3>1, <3>2 DEF Awaiting, JobOf
      <4>2. main' \in Alone => main \in Alone
        BY <2>1
      <4>3. Playing(c) /\ ~Awaiting(c)
        BY <2>2, <2>3, <2>4
      <4> QED
        BY <2>1, <2>3, <3>1, <4>1, <4>2, <4>3, ClientSends
    <3>4. ASSUME NEW d \in Clients, d # c PROVE Playing(d)'
      <4>1. ~Awaiting(d)' /\ ~Awaiting(d) /\ Playing(d)
        BY <2>2, <2>4, <3>1, <3>2, <3>4 DEF Awaiting
      <4>2. UNCHANGED <<client[d], server[d], request[d], torn[d], answer[d], response[d]>>
        BY <1>a, <2>3, <3>1, <3>4 DEF Write, Appended
      <4>3. main' \in Alone => main \in Alone
        BY <2>1
      <4> QED
        BY <2>1, <3>1, <4>1, <4>2, <4>3, ClientKept
    <3>5. InPlay' /\ ~Fresh' /\ values' = values
      BY <2>1, <3>1 DEF InPlay, Fresh, Write
    <3>6. MapInv'
      BY <2>1, <2>2, <3>1, <3>5 DEF MapInv, Prepared, HitReady, UpdateReady
    <3>7. PreparingInv'
      BY <2>3, <3>1, <3>3 DEF PreparingInv
    <3>8. \A d \in Clients : ClientInv(d)'
      BY <3>3, <3>4, <3>5 DEF ClientInv, InPlay, Running
    <3> QED
      BY <3>5, <3>6, <3>7, <3>8 DEF ResultInv, FreshInv
  <2>6. CASE MainSendFails
    <3>1. main' = "report" /\ spoilt' = [spoilt EXCEPT ![c] = TRUE] /\ WriteFails(c, RequestOf(job))
      BY <2>3, <2>6 DEF MainSendFails, MainJobDone, MainTo, OperationFault
    <3>2. ~InPlay' /\ ~Fresh' /\ MapInv' /\ PreparingInv'
      BY <2>1, <2>2, <3>1 DEF InPlay, Fresh, MapInv, PreparingInv
    <3>3. Idle(c)'
      <4>1. spoilt'[c]
        BY <1>a, <2>3, <3>1
      <4> QED
        BY <4>1 DEF Idle
    <3>4. ASSUME NEW d \in Clients, d # c PROVE Idle(d)'
      <4>1. UNCHANGED <<client[d], server[d], request[d], torn[d]>> /\ (spoilt[d] => spoilt'[d])
        BY <1>a, <2>3, <3>1, <3>4 DEF WriteFails, Appended, requestVars
      <4>2. Playing(d) /\ ~Awaiting(d)
        BY <2>2, <2>4
      <4> QED
        BY <4>1, <4>2, ClientLeaves
    <3>5. \A d \in Clients : ClientInv(d)'
      BY <3>2, <3>3, <3>4 DEF ClientInv
    <3> QED
      BY <3>2, <3>5 DEF ResultInv, FreshInv
  <2> QED
    BY <1>1, <2>5, <2>6
<1>2. ASSUME NEW w \in Clients, WorkerSend(w) \/ WorkerSendFails(w) PROVE ResultInv'
  <2>1. /\ worker[w] = "timed" /\ ~shared
        /\ UNCHANGED <<main, step, shared, engine, payload, workload, threads>>
    BY <1>2 DEF WorkerSend, WorkerSendFails, mainVars, roundVars
  <2>2. main \in {"start", "notify", "join"}
    BY <2>1 DEF TypeInv, BarrierInv, TimedInWindow, WindowInv, Running
  <2>3. InPlay /\ InPlay'
    BY <2>1, <2>2 DEF InPlay
  <2>4. Prepared(values) /\ engine["miss"] = Absent /\ \A d \in Clients : Playing(d)
    BY <2>1, <2>2, <2>3 DEF ResultInv, MapInv, ClientInv
  <2>5. WorkerJob(w) \in Jobs /\ ~Awaiting(w)
    BY <2>1, <2>2, <2>4, WorkerJobFits DEF Awaiting
  <2>6. values' = values /\ ~Fresh' /\ PreparingInv'
    BY <1>2, <2>1, <2>2 DEF WorkerSend, WorkerSendFails, Write, WriteFails, Fresh, PreparingInv
  <2>7. MapInv'
    BY <2>1, <2>2, <2>4, <2>6 DEF MapInv, Prepared, HitReady, UpdateReady
  <2>8. ASSUME NEW d \in Clients, d # w PROVE Playing(d)'
    <3>1. worker'[d] = worker[d] /\ index'[d] = index[d] /\ spoilt'[d] = spoilt[d]
      BY <1>2, <1>a, <2>8 DEF WorkerSend, WorkerSendFails, WorkerJobDone, OperationFault, faultVars
    <3>2. UNCHANGED <<client[d], server[d], request[d], torn[d], answer[d], response[d]>>
      BY <1>2, <1>a, <2>8 DEF WorkerSend, WorkerSendFails, Write, WriteFails, Appended, requestVars
    <3>3. (Awaiting(d)' <=> Awaiting(d)) /\ (Awaiting(d) => JobOf(d)' = JobOf(d))
      BY <2>1, <2>2, <3>1, WaitingKept
    <3>4. Playing(d) /\ (main' \in Alone => main \in Alone)
      BY <2>1, <2>4
    <3> QED
      BY <2>1, <3>1, <3>2, <3>3, <3>4, ClientKept
  <2>9. Playing(w)'
    <3> DEFINE job == WorkerJob(w)
    <3>1. CASE WorkerSend(w)
      <4>1. /\ Write(w, RequestOf(job)) /\ spoilt' = spoilt /\ worker'[w] = "await"
            /\ index' = index
        BY <3>1, <1>a DEF WorkerSend, faultVars
      <4>2. WorkerJob(w)' = job
        BY <2>1, <4>1 DEF WorkerJob, Planned
      <4> HIDE DEF job
      <4>3. Awaiting(w)' /\ JobOf(w)' = job
        BY <2>1, <2>2, <4>1, <4>2 DEF Awaiting, JobOf
      <4>4. main' \in Alone => main \in Alone
        BY <2>1
      <4>5. job \in Jobs
        BY <2>5 DEF job
      <4>6. Playing(w)
        BY <2>4
      <4> QED
        BY <2>1, <2>5, <4>1, <4>3, <4>4, <4>5, <4>6, ClientSends
    <3>2. CASE WorkerSendFails(w)
      <4>1. /\ WriteFails(w, RequestOf(job)) /\ spoilt'[w] /\ worker'[w] \in {"timed", "ended"}
        BY <3>2, <1>a DEF WorkerSendFails, OperationFault, WorkerJobDone
      <4>2. RequestOf(job) \in Tearable
        <5>1. index[w] + w \in Nat
          BY <1>a, ClientsAssumption, ThreadsAssumption
        <5>2. job.key = "hit" => job.op = "G"
          BY <5>1, PlannedIsJob DEF WorkerJob, TypeInv, TypeOK
        <5> QED
          BY <1>a, <2>5, <5>2, JobIsHarmless
      <4> DEFINE r == RequestOf(job)
      <4> HIDE DEF r
      <4>3. /\ client[w] = "open" /\ UNCHANGED <<client[w], server[w]>>
            /\ \/ UNCHANGED <<request[w], torn[w]>>
               \/ torn'[w] \in {r, None, Junk} /\ UNCHANGED request[w]
               \/ /\ torn[w] # None /\ torn'[w] \in {None, Junk}
                  /\ \E x \in Mangled(torn[w]) : request'[w] = Append(request[w], x)
        BY <1>a, <4>1 DEF WriteFails, Appended, requestVars, r
      <4>4. request[w] \in Seq(Harmless) /\ torn[w] \in Tearable
        BY <2>4 DEF Playing
      <4>5. torn'[w] \in Tearable
        BY <4>2, <4>3, <4>4, HarmlessTypes DEF r
      <4>6. request'[w] \in Seq(Harmless)
        <5>1. ASSUME torn[w] # None, NEW x \in Mangled(torn[w]), request'[w] = Append(request[w], x)
              PROVE  request'[w] \in Seq(Harmless)
          BY <4>4, <5>1, TornIsHarmless, AppendedMessage
        <5> QED
          BY <4>3, <4>4, <5>1
      <4>7. ~Awaiting(w)' /\ main' \notin Alone
        BY <2>1, <2>2, <4>1 DEF Awaiting
      <4>8. Harmless' = Harmless /\ Tearable' = Tearable
        BY <2>1 DEF Harmless, Tearable, Writes
      <4>9. client[w] = "open" => server[w] \in {"reading", "sending", "ended"}
        BY <2>4 DEF Playing
      <4> QED
        BY <4>1, <4>3, <4>5, <4>6, <4>7, <4>8, <4>9 DEF Playing
    <3> QED
      BY <1>2, <3>1, <3>2
  <2>10. \A d \in Clients : ClientInv(d)'
    BY <2>3, <2>8, <2>9 DEF ClientInv
  <2> QED
    BY <2>6, <2>7, <2>10 DEF ResultInv, FreshInv
<1> QED
  BY <1>1, <1>2

-----------------------------------------------------------------------------
\* Only the socket cache makes anybody wait for a response.
AskInv == /\ main = "await" => ~shared
          /\ \A w \in Clients : worker[w] = "await" => ~shared

LEMMA AskInit == Init => AskInv
BY DEF Init, AskInv

LEMMA AskStep == TypeInv /\ AskInv /\ [Next]_vars => AskInv'
<1> SUFFICES ASSUME TypeInv, AskInv, [Next]_vars PROVE AskInv'
  OBVIOUS
<1>a. worker \in [Clients -> WorkerPlaces]
  BY DEF TypeInv, TypeOK
<1>1. ASSUME shared' = shared, main' = "await" => main = "await" \/ ~shared,
             \A w \in Clients : worker'[w] = "await" => worker[w] = "await" \/ ~shared
      PROVE  AskInv'
  BY <1>1 DEF AskInv
<1>2. CASE UNCHANGED vars
  BY <1>1, <1>2 DEF vars, mainVars, roundVars, workerVars
<1>3. CASE NextMeasurement
  BY <1>3 DEF NextMeasurement, MainTo, AskInv
<1>4. CASE OpenCache \/ OpenCacheFails \/ Exit \/ UnlinkFails \/ ConnectClient \/ ConnectFails \/ Report
  BY <1>1, <1>4 DEF OpenCache, OpenCacheFails, Exit, UnlinkFails, ConnectClient, ConnectFails, Report,
                    MainTo, roundVars, workerVars
<1>5. CASE SayQuit \/ SayQuitFails \/ CloseClient \/ Destroy
  BY <1>1, <1>5 DEF SayQuit, SayQuitFails, CloseClient, Destroy, MainTo, roundVars, workerVars
<1>6. CASE MainShared \/ MainLockFails \/ MainSend \/ MainSendFails \/ MainReceive \/ MainReceiveFails
           \/ MainBrokenPipe
  BY <1>1, <1>6 DEF MainShared, MainLockFails, MainSend, MainSendFails, MainReceive, MainReceiveFails,
                    MainBrokenPipe, MainJobDone, MainTo, roundVars, workerVars
<1>7. CASE Gather \/ TakeBegin \/ SetStart \/ JoinWorkers \/ Tally \/ SpawnFails
  <2>1. UNCHANGED <<shared, worker>> /\ main' # "await"
    BY <1>7 DEF Gather, TakeBegin, SetStart, JoinWorkers, Tally, SpawnFails, MainTo, roundVars, workerVars
  <2> QED
    BY <1>1, <2>1
<1>8. CASE Spawn \/ NotifyWorkers \/ WakeUp
  <2>1. shared' = shared /\ (main' = "await" => main = "await")
    BY <1>8 DEF Spawn, NotifyWorkers, WakeUp, MainTo, mainVars, roundVars
  <2>2. \A w \in Clients : worker'[w] = "await" => worker[w] = "await"
    BY <1>8, <1>a DEF Spawn, NotifyWorkers, WakeUp, Notified
  <2> QED
    BY <1>1, <2>1, <2>2
<1>9. ASSUME NEW w \in Clients, Arrive(w) \/ Park(w) \/ Recheck(w) PROVE AskInv'
  <2>1. shared' = shared /\ (main' = "await" => main = "await")
    BY <1>9 DEF Arrive, Park, Recheck, mainVars, roundVars
  <2>2. \A v \in Clients : worker'[v] = "await" => worker[v] = "await"
    BY <1>9, <1>a DEF Arrive, Park, Recheck, Test, Notified
  <2> QED
    BY <1>1, <2>1, <2>2
<1>10. ASSUME NEW w \in Clients,
              \/ WorkerShared(w) \/ WorkerLockFails(w) \/ WorkerSend(w) \/ WorkerSendFails(w)
              \/ WorkerReceive(w) \/ WorkerReceiveFails(w)
       PROVE  AskInv'
  <2>1. shared' = shared /\ main' = main
    BY <1>10 DEF WorkerShared, WorkerLockFails, WorkerSend, WorkerSendFails, WorkerReceive,
                 WorkerReceiveFails, mainVars, roundVars
  <2>2. \A v \in Clients : worker'[v] = "await" => worker[v] = "await" \/ ~shared
    BY <1>10, <1>a DEF WorkerShared, WorkerLockFails, WorkerSend, WorkerSendFails, WorkerReceive,
                       WorkerReceiveFails, WorkerJobDone
  <2> QED
    BY <1>1, <2>1, <2>2
<1>11. ASSUME NEW c \in Clients,
              WorkerBrokenPipe(c) \/ ServerBrokenPipe(c) \/ Serve(c) \/ ServeFails(c)
       PROVE  AskInv'
  BY <1>1, <1>11 DEF WorkerBrokenPipe, ServerBrokenPipe, Serve, ServeFails, MainTo, mainVars,
                     roundVars, workerVars
<1> QED
  BY <1>2, <1>3, <1>4, <1>5, <1>6, <1>7, <1>8, <1>9, <1>10, <1>11
     DEF Next, ThreadStep, MainStep, WorkerStep, ServerThread, Failure

-----------------------------------------------------------------------------
\* The clients' reads.

\* A client has what it waits for, or has failed to read it.
LEMMA ClientReads ==
  ASSUME TypeInv, NEW c \in Clients, Playing(c), Awaiting(c), ~Awaiting(c)',
         UNCHANGED <<payload, client[c], server[c], request[c], torn[c], answer[c]>>,
         spoilt[c] => spoilt'[c],
         ~spoilt'[c] \/ main' \in Alone =>
            InStep(c) /\ HasResponse(c) /\ response'[c] = AfterRead(c)
  PROVE  Playing(c)'
<1>1. Harmless' = Harmless /\ Tearable' = Tearable
  BY DEF Harmless, Tearable, Writes
<1>2. ASSUME ~spoilt'[c] \/ main' \in Alone PROVE InStep(c)'
  <2>1. /\ request[c] = <<>> /\ torn[c] = None /\ server[c] # "sending"
        /\ response'[c] = <<>>
    BY <1>2, ReceivedIsRight
  <2> QED
    BY <2>1 DEF InStep
<1> QED
  BY <1>1, <1>2 DEF Playing

LEMMA ReadingResults ==
  ASSUME TypeInv, AskInv, ResultInv, Running,
         \/ MainReceive \/ MainReceiveFails
         \/ \E w \in Clients : WorkerReceive(w) \/ WorkerReceiveFails(w)
  PROVE  ResultInv'
<1>a. /\ payload \in Values /\ spoilt \in [Clients -> BOOLEAN]
      /\ worker \in [Clients -> WorkerPlaces] /\ index \in [Clients -> 0 .. OpsPerThread]
      /\ response \in [Clients -> Seq(Responses \cup {Rest})] /\ shared \in BOOLEAN
  BY DEF TypeInv, TypeOK, SocketTypeOK
<1>1. ASSUME MainReceive \/ MainReceiveFails PROVE ResultInv'
  <2>1. /\ main = "await" /\ ~shared /\ InPlay
        /\ UNCHANGED <<shared, engine, payload, workload, worker, index, threads>>
    BY <1>1 DEF MainReceive, MainReceiveFails, InPlay, roundVars, workerVars, AskInv
  <2>2. /\ Prepared(values) /\ engine["miss"] = Absent /\ \A d \in Clients : Playing(d)
        /\ \A d \in Clients : worker[d] = "none"
    BY <2>1 DEF ResultInv, MapInv, ClientInv, TypeInv, OrderInv
  <2>3. PICK c \in Clients, job \in Jobs :
           /\ c = MainClient(step) /\ job = MainJob(step)
           /\ step = 1 => c = 0 /\ job = Preparation[1]
           /\ step = 2 => c = 0 /\ job = Preparation[2]
    BY <2>1, <2>2, MainJobFits
  <2>4. Awaiting(c) /\ JobOf(c) = job /\ \A d \in Clients : d # c => ~Awaiting(d)
    BY <2>1, <2>3 DEF Awaiting, JobOf
  <2>5. InStep(c) /\ client[c] = "open" /\ Playing(c)
    BY <2>1, <2>2, <2>4 DEF Playing
  <2>6. ASSUME Receive(c), NEW res \in Results(c), MainJobDone(Correct(job, res)), spoilt' = spoilt
        PROVE  ResultInv'
    <3> DEFINE ok == Correct(job, res)
    <3>1. HasResponse(c) /\ response'[c] = AfterRead(c)
      BY <1>a, <2>6 DEF Receive
    <3>2. ok /\ request[c] = <<>>
      BY <2>4, <2>5, <2>6, <3>1, ReceivedIsRight
    <3> HIDE DEF ok
    <3>3. MainJobDone(ok)
      BY <2>6 DEF ok
    <3>4. /\ main' \in {"single", "spawn"}
          /\ HitReady' => HitReady \/ step = 1
          /\ UpdateReady' => UpdateReady \/ step = 2
      BY <2>1, <3>2, <3>3, ReadyAfter
    <3>5. values' = values /\ UNCHANGED <<client, server, request, torn, answer>>
      BY <2>6 DEF Receive, requestVars
    <3>6. (step = 1 => values["hit"] = payload) /\ (step = 2 => values["update"] = payload)
      BY <2>1, <2>3, <3>1, <3>2 DEF ResultInv, PreparingInv, Preparation
    <3>7. InPlay' /\ ~Fresh' /\ PreparingInv'
      BY <2>1, <3>4 DEF InPlay, Fresh, PreparingInv
    <3>8. MapInv'
      BY <1>a, <2>1, <2>2, <3>4, <3>5, <3>6, KeysApart DEF MapInv, Prepared
    <3>9. \A d \in Clients : ~Awaiting(d)'
      BY <2>1, <2>2, <3>4 DEF Awaiting
    <3>10. Playing(c)'
      BY <2>1, <2>4, <2>5, <2>6, <3>1, <3>5, <3>9, ClientReads
    <3>11. ASSUME NEW d \in Clients, d # c PROVE Playing(d)'
      <4>1. UNCHANGED <<client[d], server[d], request[d], torn[d], answer[d], response[d]>>
        BY <1>a, <2>6, <3>5, <3>11 DEF Receive
      <4>2. Playing(d) /\ ~Awaiting(d) /\ ~Awaiting(d)'
        BY <2>2, <2>4, <3>9, <3>11
      <4>3. main' \in Alone => main \in Alone
        BY <2>1
      <4> QED
        BY <2>1, <2>6, <4>1, <4>2, <4>3, ClientKept
    <3>12. \A d \in Clients : ClientInv(d)'
      BY <3>7, <3>10, <3>11 DEF ClientInv
    <3> QED
      BY <3>7, <3>8, <3>12 DEF ResultInv, FreshInv
  <2>7. ASSUME main' = "report", UNCHANGED <<client, server, request, torn>>, spoilt'[c],
               \A d \in Clients : spoilt[d] => spoilt'[d]
        PROVE  ResultInv'
    <3>1. ~InPlay' /\ ~Fresh' /\ MapInv' /\ PreparingInv'
      BY <2>1, <2>2, <2>7 DEF InPlay, Fresh, MapInv, PreparingInv
    <3>2. ASSUME NEW d \in Clients PROVE ClientInv(d)'
      <4>1. Playing(d) /\ (~Awaiting(d) \/ spoilt'[d])
        BY <2>2, <2>4, <2>7
      <4>2. Idle(d)'
        BY <2>7, <4>1, ClientLeaves
      <4> QED
        BY <3>1, <4>2 DEF ClientInv
    <3> QED
      BY <3>1, <3>2 DEF ResultInv, FreshInv
  <2>8. CASE MainReceive
    <3>1. CASE Receive(MainClient(step))
             /\ \E res \in Results(MainClient(step)) : MainJobDone(Correct(MainJob(step), res))
      BY <2>3, <2>6, <2>8, <3>1 DEF MainReceive, faultVars
    <3>2. CASE ReceiveEnd(MainClient(step)) /\ MainJobDone(FALSE)
      <4>1. main' = "report" /\ UNCHANGED <<client, server, request, torn, spoilt>>
        BY <2>8, <3>2 DEF MainReceive, MainJobDone, MainTo, ReceiveEnd, requestVars, faultVars
      <4>2. spoilt[c]
        BY <2>3, <2>5, <3>2 DEF ReceiveEnd, EndOfFile, PeerClosed, Playing
      <4> QED
        BY <2>7, <4>1, <4>2
    <3> QED
      BY <2>8, <3>1, <3>2 DEF MainReceive
  <2>9. CASE MainReceiveFails
    <3>1. /\ main' = "report" /\ UNCHANGED <<client, server, request, torn>>
          /\ spoilt' = [spoilt EXCEPT ![c] = TRUE]
      BY <2>3, <2>9 DEF MainReceiveFails, MainJobDone, MainTo, ReceiveFails, requestVars, OperationFault
    <3>2. spoilt'[c] /\ \A d \in Clients : spoilt[d] => spoilt'[d]
      BY <1>a, <3>1
    <3> QED
      BY <2>7, <3>1, <3>2
  <2> QED
    BY <1>1, <2>8, <2>9
<1>2. ASSUME NEW w \in Clients, WorkerReceive(w) \/ WorkerReceiveFails(w) PROVE ResultInv'
  <2>1. /\ worker[w] = "await" /\ ~shared
        /\ UNCHANGED <<main, step, shared, engine, payload, workload, threads>>
    BY <1>2 DEF WorkerReceive, WorkerReceiveFails, mainVars, roundVars, AskInv
  <2>2. main \in {"start", "notify", "join"}
    BY <2>1 DEF TypeInv, BarrierInv, TimedInWindow, WindowInv, Running
  <2>3. InPlay /\ InPlay'
    BY <2>1, <2>2 DEF InPlay
  <2>4. \A d \in Clients : Playing(d)
    BY <2>3 DEF ResultInv, ClientInv
  <2>5. UNCHANGED <<values, client, server, request, torn, answer>>
    BY <1>2 DEF WorkerReceive, WorkerReceiveFails, Receive, ReceiveEnd, ReceiveFails, requestVars
  <2>6. MapInv' /\ PreparingInv' /\ ~Fresh'
    BY <2>1, <2>2, <2>5 DEF ResultInv, MapInv, Prepared, HitReady, UpdateReady, PreparingInv, Fresh
  <2>7. ASSUME NEW d \in Clients, d # w PROVE Playing(d)'
    <3>1. worker'[d] = worker[d] /\ index'[d] = index[d] /\ spoilt'[d] = spoilt[d]
      BY <1>2, <1>a, <2>7 DEF WorkerReceive, WorkerReceiveFails, WorkerJobDone, OperationFault, faultVars
    <3>2. response'[d] = response[d]
      BY <1>2, <1>a, <2>7 DEF WorkerReceive, WorkerReceiveFails, Receive, ReceiveEnd, ReceiveFails
    <3>3. (Awaiting(d)' <=> Awaiting(d)) /\ (Awaiting(d) => JobOf(d)' = JobOf(d))
      BY <2>1, <2>2, <3>1, WaitingKept
    <3>4. Playing(d) /\ (main' \in Alone => main \in Alone)
      BY <2>1, <2>4
    <3> QED
      BY <2>1, <2>5, <3>1, <3>2, <3>3, <3>4, ClientKept
  <2>8. Playing(w)'
    <3>1. Awaiting(w) /\ ~Awaiting(w)' /\ main' \notin Alone
      <4>1. worker'[w] \in {"timed", "ended"}
        BY <1>2, <1>a DEF WorkerReceive, WorkerReceiveFails, WorkerJobDone
      <4> QED
        BY <2>1, <2>2, <4>1 DEF Awaiting
    <3>2. spoilt[w] => spoilt'[w]
      BY <1>2, <1>a DEF WorkerReceive, WorkerReceiveFails, OperationFault, faultVars
    <3>3. ASSUME ~spoilt'[w] PROVE InStep(w) /\ HasResponse(w) /\ response'[w] = AfterRead(w)
      <4>1. ~spoilt[w] /\ InStep(w)
        BY <2>4, <3>2, <3>3 DEF Playing
      <4>2. ~WorkerReceiveFails(w)
        BY <1>a, <3>3 DEF WorkerReceiveFails, OperationFault
      <4>3. ~ReceiveEnd(w)
        BY <2>4, <3>1, <4>1 DEF ReceiveEnd, EndOfFile, PeerClosed, Playing
      <4>4. Receive(w)
        BY <1>2, <4>2, <4>3 DEF WorkerReceive
      <4> QED
        BY <1>a, <4>1, <4>4 DEF Receive
    <3> QED
      BY <2>1, <2>4, <2>5, <3>1, <3>2, <3>3, ClientReads
  <2>9. \A d \in Clients : ClientInv(d)'
    BY <2>3, <2>7, <2>8 DEF ClientInv
  <2> QED
    BY <2>6, <2>9 DEF ResultInv, FreshInv
<1> QED
  BY <1>1, <1>2

-----------------------------------------------------------------------------
\* The server threads.

\* What a step of a server leaves alone.
LEMMA ServingMove ==
  ASSUME TypeInv, NEW c \in Clients, Serve(c) \/ ServeFails(c)
  PROVE  /\ UNCHANGED <<main, step, rounds, shared, workload, payload, threads, engine,
                        worker, index, client, torn>>
         /\ \A d \in Clients : spoilt[d] => spoilt'[d]
         /\ \A d \in Clients \ {c} :
               UNCHANGED <<client[d], server[d], request[d], torn[d], answer[d], response[d]>>
         /\ ServeFails(c) => spoilt'[c]
         /\ Serve(c) => spoilt' = spoilt
<1>a. /\ spoilt \in [Clients -> BOOLEAN]
      /\ server \in [Clients -> {"none", "reading", "sending", "ended", "joined", "orphan"}]
      /\ request \in [Clients -> Seq(Messages)] /\ answer \in [Clients -> Responses \cup {None}]
      /\ response \in [Clients -> Seq(Responses \cup {Rest})]
  BY DEF TypeInv, TypeOK, SocketTypeOK
<1>1. UNCHANGED <<main, step, rounds, shared, workload, payload, threads, engine, worker, index>>
  BY DEF Serve, ServeFails, mainVars, roundVars, workerVars
<1>2. /\ \A d \in Clients : spoilt[d] => spoilt'[d]
      /\ ServeFails(c) => spoilt'[c]
      /\ Serve(c) => spoilt' = spoilt
  BY <1>a DEF Serve, ServeFails, OperationFault, faultVars
<1>3. Handle(c) \/ Respond(c) \/ EndServing(c) \/ RespondFails(c) \/ ServeReadFails(c)
  BY DEF Serve, ServeFails, ServerStep
<1>4. /\ UNCHANGED <<client, torn>>
      /\ \A d \in Clients \ {c} : UNCHANGED <<server[d], request[d], answer[d], response[d]>>
  BY <1>a, <1>3 DEF Handle, Respond, EndServing, RespondFails, ServeReadFails, Appended, requestVars
<1> QED
  BY <1>1, <1>2, <1>4

\* A server's client, in play.
LEMMA ServedPlays ==
  ASSUME TypeInv, InPlay, ResultInv, NEW c \in Clients, Playing(c), Serve(c) \/ ServeFails(c)
  PROVE  Playing(c)' /\ ~EndServing(c)
<1>a. /\ server \in [Clients -> {"none", "reading", "sending", "ended", "joined", "orphan"}]
      /\ request \in [Clients -> Seq(Messages)] /\ answer \in [Clients -> Responses \cup {None}]
      /\ response \in [Clients -> Seq(Responses \cup {Rest})]
      /\ values \in [Keys -> Values \cup {Absent}] /\ payload \in Values
      /\ server[c] = "sending" => answer[c] \in Responses
  BY DEF TypeInv, TypeOK, SocketTypeOK, SendingInv
<1>1. /\ UNCHANGED <<main, step, payload, workload, worker, index, client, torn>>
      /\ spoilt[c] => spoilt'[c]
      /\ ServeFails(c) => spoilt'[c]
      /\ Serve(c) => spoilt' = spoilt
  BY ServingMove
<1>2. (Awaiting(c)' <=> Awaiting(c)) /\ (Awaiting(c) => JobOf(c)' = JobOf(c))
  <2>1. CASE main = "await"
    BY <1>1, <2>1, WaitingKept
  <2>2. CASE main # "await"
    BY <1>1, <2>2, WaitingKept
  <2> QED
    BY <2>1, <2>2
<1>3. /\ Awaiting(c) => RequestOf(JobOf(c))' = RequestOf(JobOf(c)) /\ Right(JobOf(c))' = Right(JobOf(c))
      /\ Harmless' = Harmless /\ Tearable' = Tearable
  <2>1. RequestOf(JobOf(c))' = RequestOf(JobOf(c)') /\ Right(JobOf(c))' = Right(JobOf(c)')
    BY <1>1 DEF RequestOf, Right, Correct
  <2> QED
    BY <1>1, <1>2, <2>1 DEF Harmless, Tearable, Writes
<1>4. request[c] # <<>> => Head(request[c]) \in Harmless /\ Tail(request[c]) \in Seq(Harmless)
  BY DEF Playing
<1>5. ~EndServing(c)
  BY <1>4, HarmlessTypes DEF EndServing, Playing
<1>6. CASE Handle(c)
  <2> DEFINE r == Head(request[c])
  <2>1. /\ request[c] # <<>> /\ request'[c] = Tail(request[c]) /\ server'[c] = "sending"
        /\ answer'[c] = AnswerTo(values, r) /\ response' = response /\ spoilt'[c] = spoilt[c]
        /\ server[c] = "reading"
    <3>1. ~ServeFails(c)
      BY <1>6, <1>a DEF ServeFails, RespondFails, ServeReadFails, Handle
    <3> QED
      BY <1>1, <1>6, <1>a, <3>1 DEF Handle
  <2>2. ASSUME InStep(c) PROVE InStep(c)'
    <3>1. Awaiting(c) /\ request[c] = <<RequestOf(JobOf(c))>> /\ response[c] = <<>> /\ torn[c] = None
      BY <2>1, <2>2 DEF InStep
    <3>2. r = RequestOf(JobOf(c)) /\ request'[c] = <<>>
      BY <2>1, <3>1, OneMessage
    <3>3. AnswerTo(values, RequestOf(JobOf(c))) \in Right(JobOf(c))
      <4>1. JobOf(c) \in Jobs /\ Fits(values, JobOf(c))
        BY <3>1, JobFits DEF ResultInv
      <4> QED
        BY <1>a, <4>1, RightAnswer
    <3> HIDE DEF r
    <3>4. answer'[c] \in Right(JobOf(c))'
      BY <1>3, <2>1, <3>1, <3>2, <3>3
    <3> QED
      BY <1>1, <1>2, <2>1, <3>1, <3>2, <3>4 DEF InStep
  <2> HIDE DEF r
  <2>3. WillAnswer(c)'
    BY <2>1 DEF WillAnswer
  <2>4. request'[c] \in Seq(Harmless)
    BY <1>4, <2>1
  <2> QED
    BY <1>1, <1>2, <1>3, <1>5, <2>1, <2>2, <2>3, <2>4 DEF Playing
<1>7. CASE Respond(c)
  <2>1. /\ server[c] = "sending" /\ request' = request /\ server'[c] = "reading"
        /\ response'[c] = Append(response[c], answer[c])
        /\ spoilt'[c] = spoilt[c] /\ answer[c] \in Responses
    <3>1. response' = Appended(response, c, answer[c]) /\ server[c] = "sending"
          /\ request' = request /\ server'[c] = "reading"
      BY <1>7, <1>a DEF Respond, requestVars
    <3>2. ServeFails(c) => RespondFails(c)
      BY <3>1 DEF ServeFails, ServeReadFails
    <3>3. ~ServeFails(c)
      BY <1>a, <3>1, <3>2 DEF RespondFails
    <3> QED
      BY <1>1, <1>a, <3>1, <3>3 DEF Appended
  <2>2. ASSUME InStep(c) PROVE InStep(c)'
    <3>1. /\ Awaiting(c) /\ request[c] = <<>> /\ response[c] = <<>> /\ torn[c] = None
          /\ answer[c] \in Right(JobOf(c))
      BY <2>1, <2>2 DEF InStep
    <3>2. response'[c] = <<answer[c]>>
      BY <2>1, <3>1, OneMessage
    <3> QED
      BY <1>1, <1>2, <1>3, <2>1, <3>1, <3>2 DEF InStep
  <2>3. HasResponse(c)'
    <3>1. Len(response'[c]) = Len(response[c]) + 1 /\ Len(response[c]) \in Nat
      BY <1>a, <2>1, AppendedMessage
    <3>2. CASE response[c] = <<>>
      <4>1. response'[c] = <<answer[c]>> /\ answer[c] # Rest
        BY <2>1, <3>2, OneMessage, KeysApart
      <4>2. ~Misaligned(c)' /\ Len(response'[c]) = 1
        BY <4>1, OneMessage DEF Misaligned
      <4> QED
        BY <4>2 DEF HasResponse
    <3>3. CASE response[c] # <<>>
      <4>1. Len(response[c]) # 0
        BY <1>a, <3>3, EmptySeq
      <4>2. Len(response'[c]) > 1 /\ Len(response'[c]) > 0
        BY <3>1, <4>1
      <4> QED
        BY <4>2 DEF HasResponse
    <3> QED
      BY <3>2, <3>3
  <2> QED
    BY <1>1, <1>2, <1>3, <1>5, <2>1, <2>2, <2>3 DEF Playing, WillAnswer
<1>8. CASE RespondFails(c)
  <2>1. /\ server[c] = "sending" /\ request' = request /\ server'[c] = "ended"
        /\ response'[c] \in {response[c], Append(response[c], Rest)}
    BY <1>8, <1>a DEF RespondFails, Appended, requestVars
  <2>2. spoilt'[c]
    <3>1. ~Handle(c) /\ ~Respond(c)
      BY <1>a, <2>1 DEF Handle, Respond
    <3>2. ServeFails(c)
      BY <1>5, <3>1 DEF Serve, ServerStep
    <3> QED
      BY <1>1, <3>2
  <2>3. ASSUME InStep(c) PROVE InStep(c)'
    <3>1. Awaiting(c) /\ request[c] = <<>> /\ response[c] = <<>> /\ torn[c] = None
      BY <2>1, <2>3 DEF InStep
    <3>2. response'[c] \in {<<>>, <<Rest>>}
      BY <2>1, <3>1, OneMessage
    <3> QED
      BY <1>1, <1>2, <2>1, <3>1, <3>2 DEF InStep
  <2>4. PeerClosed(c)'
    BY <2>1 DEF PeerClosed
  <2> QED
    BY <1>1, <1>2, <1>3, <1>5, <2>1, <2>2, <2>3, <2>4 DEF Playing, WillAnswer
<1>9. CASE ServeReadFails(c)
  <2>1. /\ server[c] = "reading" /\ request' = request /\ server'[c] = "ended" /\ response' = response
    BY <1>9, <1>a DEF ServeReadFails, requestVars
  <2>2. spoilt'[c]
    <3>1. ServeFails(c) \/ Handle(c)
      BY <1>5, <1>9, <2>1 DEF ServeFails, Serve, ServerStep, Respond
    <3>2. ~Handle(c)
      BY <1>a, <2>1 DEF Handle
    <3> QED
      BY <1>1, <3>1, <3>2
  <2>3. InStep(c) => InStep(c)'
    BY <1>1, <1>2, <1>3, <2>1 DEF InStep
  <2>4. PeerClosed(c)'
    BY <2>1 DEF PeerClosed
  <2> QED
    BY <1>1, <1>2, <1>3, <1>5, <2>1, <2>2, <2>3, <2>4 DEF Playing, WillAnswer
<1> QED
  BY <1>5, <1>6, <1>7, <1>8, <1>9 DEF Serve, ServeFails, ServerStep

LEMMA ServingResults ==
  ASSUME TypeInv, LeftInv, ResultInv, Running, NEW c \in Clients, Serve(c) \/ ServeFails(c)
  PROVE  ResultInv'
<1>a. /\ server \in [Clients -> {"none", "reading", "sending", "ended", "joined", "orphan"}]
      /\ request \in [Clients -> Seq(Messages)] /\ answer \in [Clients -> Responses \cup {None}]
      /\ response \in [Clients -> Seq(Responses \cup {Rest})]
      /\ values \in [Keys -> Values \cup {Absent}] /\ payload \in Values /\ shared \in BOOLEAN
  BY DEF TypeInv, TypeOK, SocketTypeOK
<1>1. /\ UNCHANGED <<main, step, shared, workload, payload, threads, engine, worker, index, client, torn>>
      /\ \A d \in Clients : spoilt[d] => spoilt'[d]
      /\ \A d \in Clients \ {c} :
            UNCHANGED <<client[d], server[d], request[d], torn[d], answer[d], response[d]>>
      /\ ServeFails(c) => spoilt'[c]
      /\ Serve(c) => spoilt' = spoilt
  BY ServingMove
<1>2. /\ server[c] \in {"reading", "sending"}
      /\ Handle(c) \/ Respond(c) \/ EndServing(c) \/ RespondFails(c) \/ ServeReadFails(c)
  BY DEF Serve, ServeFails, ServerStep, Handle, Respond, EndServing, RespondFails, ServeReadFails
<1>3. ~shared /\ main \notin {"open", "next"}
  BY <1>2 DEF LeftInv, Quiet
<1>4. (InPlay' <=> InPlay) /\ (HitReady' <=> HitReady) /\ (UpdateReady' <=> UpdateReady)
  BY <1>1 DEF InPlay, HitReady, UpdateReady
<1>5. ASSUME InPlay, NEW d \in Clients PROVE Playing(d)'
  <2>1. Playing(d)
    BY <1>5 DEF ResultInv, ClientInv
  <2>2. CASE d = c
    BY <1>5, <2>1, <2>2, ServedPlays
  <2>3. CASE d # c
    <3>1. (Awaiting(d)' <=> Awaiting(d)) /\ (Awaiting(d) => JobOf(d)' = JobOf(d))
      <4>1. CASE main = "await"
        BY <1>1, <4>1, WaitingKept
      <4>2. CASE main # "await"
        BY <1>1, <4>2, WaitingKept
      <4> QED
        BY <4>1, <4>2
    <3>2. UNCHANGED <<client[d], server[d], request[d], torn[d], answer[d], response[d]>>
          /\ (spoilt[d] => spoilt'[d]) /\ (main' \in Alone => main \in Alone)
      BY <1>1, <2>3
    <3> QED
      BY <1>1, <2>1, <3>1, <3>2, ClientKept
  <2> QED
    BY <2>2, <2>3
<1>6. ASSUME ~InPlay, NEW d \in Clients PROVE Idle(d)'
  <2>1. Idle(d) /\ Idle(c)
    BY <1>6 DEF ResultInv, ClientInv
  <2>2. Closing(d)' <=> Closing(d)
    BY <1>1 DEF Closing
  <2>3. CASE d # c
    BY <1>1, <2>1, <2>2, <2>3, IdleKept
  <2>4. CASE d = c /\ spoilt'[c]
    BY <2>4 DEF Idle
  <2>5. CASE d = c /\ ~spoilt'[c]
    <3>1. /\ Serve(c) /\ ~spoilt[c] /\ torn[c] = None /\ server[c] # "sending"
          /\ \/ request[c] = <<>>
             \/ request[c] = <<Quit>> /\ (client[c] = "closed" \/ Closing(c))
      BY <1>1, <2>1, <2>5 DEF Idle
    <3>2. EndServing(c)
      BY <3>1, OneMessage DEF Serve, ServerStep, Handle, Respond
    <3>3. request' = request /\ server'[c] = "ended" /\ (client[c] = "open" => Closing(c))
      BY <1>a, <3>1, <3>2 DEF EndServing, requestVars
    <3> QED
      BY <1>1, <2>2, <2>5, <3>1, <3>3 DEF Idle
  <2> QED
    BY <2>3, <2>4, <2>5
<1>7. \A d \in Clients : ClientInv(d)'
  BY <1>4, <1>5, <1>6 DEF ClientInv
<1>8. MapInv'
  <2>1. engine'["miss"] = Absent
    BY <1>1 DEF ResultInv, MapInv
  <2>2. ASSUME main \in InUse PROVE Prepared(values)'
    <3>1. InPlay /\ Prepared(values) /\ Playing(c)
      BY <1>3, <2>2 DEF InPlay, ResultInv, MapInv, ClientInv
    <3>2. CASE Handle(c)
      <4> DEFINE r == Head(request[c])
      <4>1. r \in Harmless /\ values' = MapAfter(values, r)
        BY <3>1, <3>2 DEF Handle, Playing
      <4> HIDE DEF r
      <4>2. /\ values["miss"] = Absent => values'["miss"] = Absent
            /\ values["hit"] = payload => values'["hit"] = payload
            /\ values["update"] # Absent => values'["update"] # Absent
        BY <1>a, <4>1, MapAfterKeeps
      <4> QED
        BY <1>1, <1>4, <3>1, <4>2 DEF Prepared
    <3>3. CASE values' = values
      BY <1>1, <1>4, <3>1, <3>3 DEF Prepared
    <3> QED
      BY <1>2, <3>2, <3>3 DEF Respond, EndServing, RespondFails, ServeReadFails
  <2> QED
    BY <1>1, <1>3, <2>1, <2>2 DEF MapInv, Prepared
<1>9. FreshInv'
  <2> SUFFICES ASSUME main = "connect"
               PROVE  /\ values' = [k \in Keys |-> Absent]
                      /\ \A d \in Clients : Empty(d)'
    BY <1>1, <1>3 DEF FreshInv, Fresh
  <2>1. values = [k \in Keys |-> Absent] /\ \A d \in Clients : Empty(d)
    BY DEF ResultInv, FreshInv, Fresh
  <2>2. InPlay /\ Playing(c)
    BY <1>3 DEF InPlay, ResultInv, ClientInv
  <2>3. ~EndServing(c)
    BY <2>2, ServedPlays
  <2>4. ServeReadFails(c)
    BY <1>2, <2>1, <2>3 DEF Empty, Handle, Respond, RespondFails
  <2>5. UNCHANGED <<values, request, response, torn>> /\ server'[c] = "ended"
    BY <1>a, <2>4 DEF ServeReadFails, requestVars
  <2>6. ASSUME NEW d \in Clients PROVE Empty(d)'
    BY <1>1, <2>1, <2>5 DEF Empty
  <2> QED
    BY <2>1, <2>5, <2>6
<1>10. PreparingInv'
  <2> SUFFICES ASSUME InPlay, main = "await", step \in {1, 2}, request'[0] = <<>>,
                      server'[0] = "sending" \/ HasResponse(0)'
               PROVE  values'[Preparation[step].key] = payload
    BY <1>1, <1>4 DEF PreparingInv, Preparation
  <2>1. Prepared(values)
    BY <1>3 DEF ResultInv, MapInv
  <2>2. /\ MainClient(step) = 0 /\ 0 \in Clients /\ MainJob(step) \in Jobs
        /\ MainJob(step) = Preparation[step]
    BY <2>1, MainJobFits
  <2>3. \A d \in Clients : Playing(d) /\ InStep(d)
    BY DEF ResultInv, ClientInv, Playing
  <2>4. \A d \in Clients : d # 0 => ~Awaiting(d) /\ request[d] = <<>> /\ server[d] # "sending"
    BY <2>2, <2>3 DEF InStep, Awaiting
  <2>5. CASE Handle(c)
    <3>1. c = 0 /\ request[0] = <<RequestOf(MainJob(step))>>
      BY <2>2, <2>3, <2>4, <2>5 DEF Handle, InStep, Awaiting, JobOf
    <3>2. values' = MapAfter(values, RequestOf(MainJob(step)))
      BY <2>5, <3>1, OneMessage DEF Handle
    <3>3. MainJob(step).op = "P"
      BY <2>2 DEF Preparation
    <3> QED
      BY <1>a, <2>2, <3>2, <3>3, MapAfterPut
  <2>6. CASE ~Handle(c)
    <3>1. values' = values /\ request' = request
      BY <1>2, <2>6 DEF Respond, EndServing, RespondFails, ServeReadFails, requestVars
    <3>2. server[0] = "sending" \/ HasResponse(0)
      <4>1. CASE c # 0
        <5>1. server'[0] = server[0] /\ response'[0] = response[0]
          BY <1>1, <2>2, <4>1
        <5> QED
          BY <5>1 DEF HasResponse, Misaligned
      <4>2. CASE c = 0 /\ server[0] # "sending"
        <5>1. server'[0] # "sending" /\ response' = response
          BY <1>2, <1>a, <2>6, <4>2 DEF Respond, EndServing, RespondFails, ServeReadFails
        <5> QED
          BY <5>1 DEF HasResponse, Misaligned
      <4> QED
        BY <4>1, <4>2
    <3>3. values[Preparation[step].key] = payload
      BY <3>1, <3>2 DEF ResultInv, PreparingInv
    <3> QED
      BY <3>1, <3>3
  <2> QED
    BY <2>5, <2>6
<1> QED
  BY <1>7, <1>8, <1>9, <1>10 DEF ResultInv

LEMMA ResultStep ==
  TypeInv /\ LeftInv /\ AskInv /\ ResultInv /\ [Next]_vars => ResultInv'
<1> SUFFICES ASSUME TypeInv, LeftInv, AskInv, ResultInv, [Next]_vars PROVE ResultInv'
  OBVIOUS
<1>1. LeftInv'
  BY LeftStep
<1>2. CASE UNCHANGED vars
  <2>1. UNCHANGED <<socketVars, engine, payload, workload, shared, main, step, worker, index, spoilt>>
    BY <1>2 DEF vars, mainVars, roundVars, workerVars, faultVars
  <2>2. CASE Running
    <3>1. (HitReady' => HitReady) /\ (UpdateReady' => UpdateReady)
          /\ (main' \in {"open", "next", "connect"} => Fresh)
      BY <2>1 DEF HitReady, UpdateReady, Fresh
    <3> QED
      BY <2>1, <2>2, <3>1, ResultKept
  <2>3. CASE ~Running
    BY <2>1, <2>3, ResultEnds DEF Running
  <2> QED
    BY <2>2, <2>3
<1>3. CASE Next
  <2>1. Running
    BY <1>3 DEF Next
  <2>2. CASE \/ NextMeasurement \/ ConnectClient \/ ConnectFails
             \/ SayQuit \/ SayQuitFails \/ CloseClient \/ Destroy
    BY <1>1, <2>1, <2>2, BuildingResults
  <2>3. CASE \/ MainShared \/ MainLockFails
             \/ \E w \in Clients : WorkerShared(w) \/ WorkerLockFails(w)
    BY <2>1, <2>3, SharedResults
  <2>4. CASE \/ MainSend \/ MainSendFails
             \/ \E w \in Clients : WorkerSend(w) \/ WorkerSendFails(w)
    BY <2>1, <2>4, WritingResults
  <2>5. CASE \/ MainReceive \/ MainReceiveFails
             \/ \E w \in Clients : WorkerReceive(w) \/ WorkerReceiveFails(w)
    BY <2>1, <2>5, ReadingResults
  <2>6. CASE \E c \in Clients : Serve(c) \/ ServeFails(c)
    BY <2>1, <2>6, ServingResults
  <2>7. CASE \/ OpenCache \/ OpenCacheFails \/ Exit \/ UnlinkFails \/ Report \/ Spawn \/ SpawnFails
             \/ Gather \/ TakeBegin \/ SetStart \/ NotifyWorkers \/ JoinWorkers \/ Tally
             \/ MainBrokenPipe \/ WakeUp
             \/ \E w \in Clients : \/ Arrive(w) \/ Park(w) \/ Recheck(w)
                                  \/ WorkerBrokenPipe(w) \/ ServerBrokenPipe(w)
    BY <2>1, <2>7, QuietResults
  <2> QED
    BY <1>3, <2>2, <2>3, <2>4, <2>5, <2>6, <2>7
       DEF Next, ThreadStep, MainStep, WorkerStep, ServerThread, Failure
<1> QED
  BY <1>2, <1>3

-----------------------------------------------------------------------------
\* Failures.

\* Who has failed and is told of.
Counting == InUse \cup {"tally"}

FaultInv ==
    /\ \A w \in Clients : /\ failures[w] > 0 => spoilt[w]
                          /\ worker[w] # "none" \/ main \in Counting => hurt[w] <= failures[w]
                          /\ spoilt[w] => faults > 0
    /\ main \in InUse => reported = 0
    /\ main = "tally" => \A w \in Clients : w < step => failures[w] <= reported
    /\ main \in {"tally", "report"} /\ reported > 0 => \E c \in Clients : spoilt[c]
    /\ main = "report" => \A c \in Clients : hurt[c] <= reported

LEMMA FaultInit == Init => FaultInv
BY DEF Init, FaultInv, Counting

\* The types that these rest on.
LEMMA FaultNumbers ==
  ASSUME TypeInv
  PROVE  /\ faults \in Nat /\ reported \in Nat /\ step \in Nat
         /\ \A c \in Clients : /\ failures[c] \in Nat /\ hurt[c] \in Nat /\ c \in Nat
                               /\ spoilt[c] \in BOOLEAN
                               /\ worker[c] = "none" => failures[c] = 0
         /\ worker \in [Clients -> WorkerPlaces] /\ spoilt \in [Clients -> BOOLEAN]
         /\ hurt \in [Clients -> Nat] /\ failures \in [Clients -> 0 .. OpsPerThread]
         /\ index \in [Clients -> 0 .. OpsPerThread]
<1>1. /\ failures \in [Clients -> 0 .. OpsPerThread] /\ index \in [Clients -> 0 .. OpsPerThread]
      /\ OpsPerThread \in Nat
  BY CountsAssumption DEF TypeInv, TypeOK
<1>2. ASSUME NEW c \in Clients, worker[c] = "none" PROVE failures[c] = 0
  <2>1. index[c] = 0 /\ failures[c] <= index[c] /\ failures[c] \in Nat
    BY <1>1, <1>2 DEF TypeInv, OrderInv
  <2> QED
    BY <2>1
<1>3. \A c \in Clients : c \in Nat
  BY ClientsAssumption, ThreadsAssumption
<1>4. \A c \in Clients : failures[c] \in Nat
  BY <1>1
<1> QED
  BY <1>1, <1>2, <1>3, <1>4 DEF TypeInv, TypeOK

\* A failing call, client by client.
LEMMA FaultHits ==
  ASSUME TypeInv, NEW c \in Clients, NEW loses \in BOOLEAN, OperationFault(c, loses)
  PROVE  /\ faults' \in Nat /\ faults' > 0 /\ spoilt'[c]
         /\ \A d \in Clients : /\ spoilt[d] => spoilt'[d]
                               /\ d # c => spoilt'[d] = spoilt[d] /\ hurt'[d] = hurt[d]
         /\ hurt'[c] = IF loses THEN hurt[c] + 1 ELSE hurt[c]
         /\ ~loses => hurt' = hurt
<1>1. faults' = faults + 1 /\ spoilt' = [spoilt EXCEPT ![c] = TRUE]
      /\ hurt' = IF loses THEN [hurt EXCEPT ![c] = hurt[c] + 1] ELSE hurt
  BY DEF OperationFault, Fault
<1>2. faults' \in Nat /\ faults' > 0
  BY <1>1, FaultNumbers
<1>3. spoilt'[c] /\ \A d \in Clients : d # c => spoilt'[d] = spoilt[d]
  BY <1>1, FaultNumbers
<1>4. CASE loses
  BY <1>1, <1>2, <1>3, <1>4, FaultNumbers
<1>5. CASE ~loses
  BY <1>1, <1>2, <1>3, <1>5, FaultNumbers
<1> QED
  BY <1>4, <1>5

\* Steps that leave the counts alone.
LEMMA FaultKept ==
  ASSUME TypeInv, FaultInv, UNCHANGED <<failures, reported, hurt>>, faults' \in Nat,
         faults > 0 => faults' > 0,
         \A c \in Clients : /\ spoilt[c] => spoilt'[c]
                            /\ spoilt'[c] => spoilt[c] \/ faults' > 0
                            /\ worker'[c] # "none" => worker[c] # "none" \/ main \in InUse,
         main' \in Counting => main \in Counting,
         main' \in InUse => main \in InUse,
         main' = "tally" => (main = "tally" /\ step' = step) \/ (main \in InUse /\ step' = 0),
         main' = "report" => main = "report"
  PROVE  FaultInv'
<1>1. \A w \in Clients : /\ failures'[w] > 0 => spoilt'[w]
                         /\ worker'[w] # "none" \/ main' \in Counting => hurt'[w] <= failures'[w]
                         /\ spoilt'[w] => faults' > 0
  BY DEF FaultInv, Counting
<1>2. main' = "tally" => \A w \in Clients : w < step' => failures'[w] <= reported'
  <2>1. \A w \in Clients : ~(w < 0)
    BY FaultNumbers
  <2> QED
    BY <2>1 DEF FaultInv
<1>3. main' \in {"tally", "report"} /\ reported' > 0 => \E c \in Clients : spoilt'[c]
  <2> SUFFICES ASSUME main' \in {"tally", "report"}, reported' > 0 PROVE \E c \in Clients : spoilt'[c]
    OBVIOUS
  <2>1. main \notin InUse
    BY FaultNumbers DEF FaultInv
  <2>2. main \in {"tally", "report"} /\ reported > 0
    BY <2>1
  <2> QED
    BY <2>2 DEF FaultInv
<1>4. /\ main' \in InUse => reported' = 0
      /\ main' = "report" => \A c \in Clients : hurt'[c] <= reported'
  BY DEF FaultInv
<1> QED
  BY <1>1, <1>2, <1>3, <1>4 DEF FaultInv, Counting

\* An operation of the main thread has failed.
LEMMA MainFailed ==
  ASSUME TypeInv, FaultInv, main \in {"single", "await"}, MainJobDone(FALSE),
         UNCHANGED <<failures, worker>>, NEW c \in Clients, spoilt'[c],
         \/ UNCHANGED faultVars
         \/ OperationFault(c, TRUE)
  PROVE  FaultInv'
<1>1. main' = "report" /\ reported' = 1
  BY DEF MainJobDone, MainTo
<1>2. \A d \in Clients : worker[d] = "none" /\ failures[d] = 0 /\ hurt[d] = 0
  <2>1. \A d \in Clients : worker[d] = "none" /\ hurt[d] <= failures[d]
    BY DEF TypeInv, OrderInv, FaultInv, Counting
  <2> QED
    BY <2>1, FaultNumbers
<1>3. \A d \in Clients : /\ spoilt'[d] => faults' > 0
                         /\ hurt'[d] <= 1
  <2>1. CASE UNCHANGED faultVars
    BY <1>2, <2>1, FaultNumbers DEF faultVars, FaultInv
  <2>2. CASE OperationFault(c, TRUE)
    <3>1. /\ faults' > 0 /\ hurt'[c] = hurt[c] + 1
          /\ \A d \in Clients : d # c => hurt'[d] = hurt[d]
      BY <2>2, FaultHits
    <3> QED
      BY <1>2, <3>1
  <2> QED
    BY <2>1, <2>2
<1> QED
  BY <1>1, <1>2, <1>3 DEF FaultInv, Counting

\* An operation of a worker has ended.
LEMMA WorkerCounted ==
  ASSUME TypeInv, FaultInv, NEW w \in Clients, worker[w] \in {"timed", "await"},
         main \in {"start", "notify", "join"}, NEW ok \in BOOLEAN, WorkerJobDone(w, ok),
         UNCHANGED <<main, step, reported>>, ok \/ spoilt'[w],
         \/ UNCHANGED faultVars
         \/ \E loses \in BOOLEAN : OperationFault(w, loses) /\ (loses => ~ok)
  PROVE  FaultInv'
<1>1. /\ \A d \in Clients : d # w => failures'[d] = failures[d] /\ worker'[d] = worker[d]
      /\ failures'[w] = IF ok THEN failures[w] ELSE failures[w] + 1
  BY FaultNumbers DEF WorkerJobDone
<1>2. /\ \A d \in Clients : /\ spoilt[d] => spoilt'[d]
                            /\ d # w => spoilt'[d] = spoilt[d] /\ hurt'[d] = hurt[d]
                            /\ spoilt'[d] => faults' > 0
      /\ hurt'[w] = hurt[w] \/ (~ok /\ hurt'[w] = hurt[w] + 1)
  <2>1. CASE UNCHANGED faultVars
    BY <2>1 DEF faultVars, FaultInv
  <2>2. ASSUME NEW loses \in BOOLEAN, OperationFault(w, loses), loses => ~ok
        PROVE  /\ \A d \in Clients : /\ spoilt[d] => spoilt'[d]
                                     /\ d # w => spoilt'[d] = spoilt[d] /\ hurt'[d] = hurt[d]
                                     /\ spoilt'[d] => faults' > 0
               /\ hurt'[w] = hurt[w] \/ (~ok /\ hurt'[w] = hurt[w] + 1)
    BY <2>2, FaultHits
  <2> QED
    BY <2>1, <2>2
<1>3. \A d \in Clients : hurt[d] <= failures[d] /\ (failures[d] > 0 => spoilt[d])
  BY DEF FaultInv, Counting
<1>4. \A d \in Clients : /\ hurt'[d] <= failures'[d]
                         /\ failures'[d] > 0 => spoilt'[d]
  <2>1. hurt'[w] <= failures'[w]
    BY <1>1, <1>2, <1>3, FaultNumbers
  <2>2. failures'[w] > 0 => spoilt'[w]
    BY <1>1, <1>2, <1>3, FaultNumbers
  <2> QED
    BY <1>1, <1>2, <1>3, <2>1, <2>2
<1> QED
  BY <1>2, <1>4 DEF FaultInv, Counting

\* Operations on the shared cache give what they should, and so do those on a
\* stream that is in step.
LEMMA MainIsRight ==
  ASSUME TypeInv, AskInv, ResultInv, Running
  PROVE  /\ main = "single" /\ shared =>
               Correct(MainJob(step), AnswerTo(engine, RequestOf(MainJob(step))))
         /\ main = "await" =>
               /\ MainClient(step) \in Clients
               /\ HasResponse(MainClient(step)) =>
                     \A res \in Results(MainClient(step)) : Correct(MainJob(step), res)
               /\ EndOfFile(MainClient(step)) => spoilt[MainClient(step)]
<1>1. ASSUME main = "single", shared
      PROVE  Correct(MainJob(step), AnswerTo(engine, RequestOf(MainJob(step))))
  <2>1. Prepared(engine)
    BY <1>1 DEF ResultInv, MapInv
  <2>2. MainJob(step) \in Jobs /\ Fits(engine, MainJob(step))
    BY <1>1, <2>1, MainJobFits
  <2>3. engine \in [Keys -> Values \cup {Absent}] /\ payload \in Values
    BY DEF TypeInv, TypeOK
  <2>4. AnswerTo(engine, RequestOf(MainJob(step))) \in Right(MainJob(step))
    BY <2>2, <2>3, RightAnswer
  <2> QED
    BY <2>4 DEF Right
<1>2. ASSUME main = "await"
      PROVE  /\ MainClient(step) \in Clients
             /\ HasResponse(MainClient(step)) =>
                   \A res \in Results(MainClient(step)) : Correct(MainJob(step), res)
             /\ EndOfFile(MainClient(step)) => spoilt[MainClient(step)]
  <2>1. InPlay
    BY <1>2 DEF InPlay, AskInv
  <2>2. Prepared(values)
    BY <2>1 DEF ResultInv, MapInv, InPlay
  <2>3. PICK c \in Clients : c = MainClient(step)
    BY <1>2, <2>2, MainJobFits
  <2>4. Playing(c) /\ Awaiting(c) /\ JobOf(c) = MainJob(step)
    BY <1>2, <2>1, <2>3 DEF ResultInv, ClientInv, Awaiting, JobOf
  <2>5. InStep(c) /\ (EndOfFile(c) => spoilt[c])
    BY <1>2, <2>4 DEF Playing, EndOfFile, PeerClosed
  <2> QED
    BY <2>3, <2>4, <2>5, ReceivedIsRight
<1> QED
  BY <1>1, <1>2

LEMMA WorkerIsRight ==
  ASSUME TypeInv, AskInv, ResultInv, Running, NEW w \in Clients, worker[w] \in {"timed", "await"}
  PROVE  /\ main \in {"start", "notify", "join"}
         /\ worker[w] = "timed" /\ shared =>
               Correct(WorkerJob(w), AnswerTo(engine, RequestOf(WorkerJob(w))))
         /\ worker[w] = "await" /\ ~spoilt[w] =>
               /\ HasResponse(w) => \A res \in Results(w) : Correct(WorkerJob(w), res)
               /\ ~EndOfFile(w)
<1>1. main \in {"start", "notify", "join"}
  BY DEF TypeInv, BarrierInv, TimedInWindow, WindowInv, Running
<1>2. ASSUME worker[w] = "timed", shared
      PROVE  Correct(WorkerJob(w), AnswerTo(engine, RequestOf(WorkerJob(w))))
  <2>1. Prepared(engine)
    BY <1>1, <1>2 DEF ResultInv, MapInv
  <2>2. WorkerJob(w) \in Jobs /\ Fits(engine, WorkerJob(w))
    BY <1>2, <2>1, WorkerJobFits
  <2>3. engine \in [Keys -> Values \cup {Absent}] /\ payload \in Values
    BY DEF TypeInv, TypeOK
  <2>4. AnswerTo(engine, RequestOf(WorkerJob(w))) \in Right(WorkerJob(w))
    BY <2>2, <2>3, RightAnswer
  <2> QED
    BY <2>4 DEF Right
<1>3. ASSUME worker[w] = "await", ~spoilt[w]
      PROVE  /\ HasResponse(w) => \A res \in Results(w) : Correct(WorkerJob(w), res)
             /\ ~EndOfFile(w)
  <2>1. InPlay
    BY <1>1, <1>3 DEF InPlay, AskInv
  <2>2. Playing(w) /\ Awaiting(w) /\ JobOf(w) = WorkerJob(w)
    BY <1>1, <1>3, <2>1 DEF ResultInv, ClientInv, Awaiting, JobOf
  <2>3. InStep(w) /\ ~EndOfFile(w)
    BY <1>3, <2>2 DEF Playing, EndOfFile, PeerClosed
  <2> QED
    BY <2>2, <2>3, ReceivedIsRight
<1> QED
  BY <1>1, <1>2, <1>3

\* What the main thread does.
LEMMA MainFaults ==
  ASSUME TypeInv, AskInv, ResultInv, FaultInv, Running, MainStep
  PROVE  FaultInv'
<1>a. /\ faults \in Nat /\ reported \in Nat /\ worker \in [Clients -> WorkerPlaces]
  BY FaultNumbers
<1>1. CASE \/ OpenCache \/ Exit \/ ConnectClient \/ Report \/ SayQuit \/ CloseClient \/ Destroy
           \/ MainSend \/ MainBrokenPipe \/ Gather \/ TakeBegin \/ SetStart \/ JoinWorkers
  <2>1. UNCHANGED <<failures, reported, worker, faultVars>>
    BY <1>1 DEF OpenCache, Exit, ConnectClient, Report, SayQuit, CloseClient, Destroy, MainSend,
                MainBrokenPipe, Gather, TakeBegin, SetStart, JoinWorkers, workerVars, resultVars
  <2>2. /\ main' \in Counting => main \in Counting
        /\ main' \in InUse => main \in InUse
        /\ main' = "tally" => (main = "tally" /\ step' = step) \/ (main \in InUse /\ step' = 0)
        /\ main' = "report" => main = "report"
    BY <1>1 DEF OpenCache, Exit, ConnectClient, Report, SayQuit, CloseClient, Destroy, MainSend,
                MainBrokenPipe, Gather, TakeBegin, SetStart, JoinWorkers, MainTo, Counting
  <2> QED
    BY <1>a, <2>1, <2>2, FaultKept DEF faultVars
<1>2. CASE Spawn \/ NotifyWorkers
  <2>1. /\ UNCHANGED <<failures, reported, faultVars>>
        /\ main' \in InUse /\ main \in InUse
    BY <1>2 DEF Spawn, NotifyWorkers, MainTo, resultVars
  <2>2. main' # "tally" /\ main' # "report" /\ main' \in Counting
    BY <1>2 DEF Spawn, NotifyWorkers, MainTo, Counting
  <2> QED
    BY <1>a, <2>1, <2>2, FaultKept DEF faultVars, Counting
<1>3. CASE NextMeasurement
  <2>1. /\ main' \in {"connect", "single"} /\ reported' = 0 /\ failures' = [w \in Clients |-> 0]
        /\ hurt' = [w \in Clients |-> 0] /\ spoilt' = [w \in Clients |-> FALSE]
    BY <1>3 DEF NextMeasurement, MainTo
  <2> QED
    BY <2>1 DEF FaultInv, Counting
<1>4. CASE Tally
  <2>1. main = "tally" /\ UNCHANGED <<failures, worker, faultVars>>
    BY <1>4 DEF Tally, workerVars
  <2>2. \A c \in Clients : /\ failures[c] > 0 => spoilt[c]
                           /\ hurt[c] <= failures[c]
                           /\ spoilt[c] => faults > 0
                           /\ c < step => failures[c] <= reported
    BY <2>1 DEF FaultInv, Counting
  <2>3. CASE step < threads
    <3>1. main' = "tally" /\ step' = step + 1 /\ reported' = reported + failures[step]
      BY <1>4, <2>3 DEF Tally, MainTo
    <3>2. step \in Clients /\ threads \in Nat
      BY <2>3, FaultNumbers, ClientsAssumption, ThreadsAssumption DEF TypeInv, TypeOK
    <3>3. failures[step] \in Nat /\ step \in Nat
      BY <3>2, FaultNumbers
    <3>4. \A c \in Clients : c < step + 1 => failures[c] <= reported + failures[step]
      <4>1. ASSUME NEW c \in Clients, c < step + 1 PROVE failures[c] <= reported + failures[step]
        <5>1. c < step \/ c = step
          BY <3>3, <4>1, FaultNumbers
        <5>2. failures[c] \in Nat /\ reported \in Nat
          BY FaultNumbers
        <5> QED
          BY <2>2, <3>3, <5>1, <5>2
      <4> QED
        BY <4>1
    <3>5. reported' > 0 => \E c \in Clients : spoilt[c]
      <4>1. reported > 0 \/ failures[step] > 0 \/ reported + failures[step] = 0
        BY <1>a, <3>3
      <4> QED
        BY <2>1, <2>2, <3>1, <3>2, <4>1 DEF FaultInv
    <3> QED
      BY <2>1, <2>2, <3>1, <3>4, <3>5 DEF FaultInv, faultVars, Counting
  <2>4. CASE ~(step < threads)
    <3>1. main' = "report" /\ reported' = reported
      BY <1>4, <2>4 DEF Tally, MainTo
    <3>2. \A c \in Clients : hurt[c] <= reported
      <4>1. ASSUME NEW c \in Clients PROVE hurt[c] <= reported
        <5>1. hurt[c] \in Nat /\ failures[c] \in Nat /\ c \in Nat /\ step \in Nat /\ threads \in Nat
          BY FaultNumbers, ThreadsAssumption DEF TypeInv, TypeOK
        <5>2. CASE c < step
          BY <1>a, <2>2, <5>1, <5>2
        <5>3. CASE ~(c < step)
          <6>1. c \notin Workers
            BY <2>4, <5>1, <5>3 DEF Workers
          <6>2. worker[c] = "none"
            BY <6>1 DEF TypeInv, BarrierInv, BegunInv
          <6>3. failures[c] = 0
            BY <6>2, FaultNumbers
          <6> QED
            BY <1>a, <2>2, <5>1, <6>3
        <5> QED
          BY <5>2, <5>3
      <4> QED
        BY <4>1
    <3> QED
      BY <2>1, <2>2, <3>1, <3>2 DEF FaultInv, faultVars, Counting
  <2> QED
    BY <2>3, <2>4
<1>5. ASSUME main \in {"single", "await"}, MainJobDone(TRUE), UNCHANGED <<failures, worker, hurt>>,
             faults' \in Nat, faults > 0 => faults' > 0,
             \A c \in Clients : (spoilt[c] => spoilt'[c]) /\ (spoilt'[c] => spoilt[c] \/ faults' > 0)
      PROVE  FaultInv'
  <2>1. main' \in {"single", "spawn"} /\ reported' = reported
    BY <1>5 DEF MainJobDone, MainTo
  <2> QED
    BY <1>5, <2>1, FaultKept DEF Counting
<1>6. CASE MainShared
  <2>1. main = "single" /\ UNCHANGED <<failures, worker, faultVars>>
    BY <1>6 DEF MainShared, workerVars
  <2>2. Correct(MainJob(step), AnswerTo(engine, RequestOf(MainJob(step)))) = TRUE
    BY <1>6, MainIsRight DEF MainShared, Correct
  <2>3. MainJobDone(TRUE)
    BY <1>6, <2>2 DEF MainShared
  <2> QED
    BY <1>a, <1>5, <2>1, <2>3 DEF faultVars
<1>7. CASE MainReceive
  <2>1. main = "await" /\ UNCHANGED <<failures, worker, faultVars>>
    BY <1>7 DEF MainReceive, workerVars
  <2>2. PICK c \in Clients : c = MainClient(step)
    BY <2>1, MainIsRight
  <2>3. ASSUME Receive(c), NEW res \in Results(c), MainJobDone(Correct(MainJob(step), res))
        PROVE  FaultInv'
    <3>1. Correct(MainJob(step), res) = TRUE
      BY <2>1, <2>2, <2>3, MainIsRight DEF Receive, Correct
    <3>2. MainJobDone(TRUE)
      BY <2>3, <3>1
    <3> QED
      BY <1>a, <1>5, <2>1, <3>2 DEF faultVars
  <2>4. ASSUME ReceiveEnd(c), MainJobDone(FALSE) PROVE FaultInv'
    <3>1. spoilt'[c]
      BY <2>1, <2>2, <2>4, MainIsRight DEF ReceiveEnd, faultVars
    <3> QED
      BY <2>1, <2>4, <3>1, MainFailed
  <2> QED
    BY <1>7, <2>2, <2>3, <2>4 DEF MainReceive
<1> QED
  BY <1>1, <1>2, <1>3, <1>4, <1>6, <1>7 DEF MainStep

\* What a worker does, and what fails for it.
LEMMA WorkerFaults ==
  ASSUME TypeInv, AskInv, ResultInv, FaultInv, Running, NEW w \in Clients,
         \/ WorkerStep(w) \/ WorkerLockFails(w) \/ WorkerSendFails(w) \/ WorkerReceiveFails(w)
  PROVE  FaultInv'
<1>a. /\ faults \in Nat /\ worker \in [Clients -> WorkerPlaces] /\ spoilt \in [Clients -> BOOLEAN]
  BY FaultNumbers
<1>1. ASSUME Arrive(w) \/ Park(w) \/ Recheck(w) PROVE FaultInv'
  <2>1. UNCHANGED <<failures, reported, faultVars>> /\ worker[w] # "none"
    BY <1>1 DEF Arrive, Park, Recheck, resultVars
  <2>2. \A c \in Clients : worker'[c] # "none" => worker[c] # "none"
    BY <1>1, <1>a, <2>1 DEF Arrive, Park, Recheck, Test, Notified
  <2>3. /\ main' \in Counting => main \in Counting
        /\ main' \in InUse => main \in InUse
        /\ main' = "tally" => main = "tally" /\ step' = step
        /\ main' = "report" => main = "report"
    BY <1>1 DEF Arrive, Park, Recheck, mainVars, Counting
  <2> QED
    BY <1>a, <2>1, <2>2, <2>3, FaultKept DEF faultVars
<1>2. ASSUME WorkerSend(w) PROVE FaultInv'
  <2>1. UNCHANGED <<failures, reported, faultVars, main, step>> /\ worker[w] # "none"
    BY <1>2 DEF WorkerSend, resultVars, mainVars
  <2>2. \A c \in Clients : worker'[c] # "none" => worker[c] # "none"
    BY <1>2, <1>a, <2>1 DEF WorkerSend
  <2> QED
    BY <1>a, <2>1, <2>2, FaultKept DEF faultVars
<1>3. ASSUME WorkerBrokenPipe(w) PROVE FaultInv'
  <2>1. UNCHANGED <<failures, reported, faultVars, worker>> /\ main' = "killed"
    BY <1>3 DEF WorkerBrokenPipe, resultVars, workerVars, MainTo
  <2> QED
    BY <1>a, <2>1, FaultKept DEF faultVars, Counting
<1>4. ASSUME WorkerShared(w) PROVE FaultInv'
  <2>1. worker[w] = "timed" /\ UNCHANGED <<main, step, reported, faultVars>>
    BY <1>4 DEF WorkerShared, mainVars, resultVars
  <2>2. /\ main \in {"start", "notify", "join"}
        /\ Correct(WorkerJob(w), AnswerTo(engine, RequestOf(WorkerJob(w)))) = TRUE
    BY <1>4, <2>1, WorkerIsRight DEF WorkerShared, Correct
  <2>3. WorkerJobDone(w, TRUE)
    BY <1>4, <2>2 DEF WorkerShared
  <2> QED
    BY <2>1, <2>2, <2>3, WorkerCounted
<1>5. ASSUME WorkerReceive(w) PROVE FaultInv'
  <2>1. worker[w] = "await" /\ UNCHANGED <<main, step, reported, faultVars>>
    BY <1>5 DEF WorkerReceive, mainVars, resultVars
  <2>2. main \in {"start", "notify", "join"}
    BY <2>1, WorkerIsRight
  <2>3. PICK ok \in BOOLEAN : WorkerJobDone(w, ok) /\ (ok \/ spoilt[w])
    <3>1. CASE spoilt[w]
      <4>1. CASE ReceiveEnd(w) /\ WorkerJobDone(w, FALSE)
        BY <3>1, <4>1
      <4>2. ASSUME Receive(w), NEW res \in Results(w), WorkerJobDone(w, Correct(WorkerJob(w), res))
            PROVE  \E ok \in BOOLEAN : WorkerJobDone(w, ok) /\ (ok \/ spoilt[w])
        <5> DEFINE ok == Correct(WorkerJob(w), res)
        <5>1. ok \in BOOLEAN /\ WorkerJobDone(w, ok)
          BY <4>2 DEF Correct
        <5> HIDE DEF ok
        <5> QED
          BY <3>1, <5>1
      <4> QED
        BY <1>5, <4>1, <4>2 DEF WorkerReceive
    <3>2. CASE ~spoilt[w]
      <4>1. PICK res \in Results(w) : HasResponse(w) /\ WorkerJobDone(w, Correct(WorkerJob(w), res))
        BY <1>5, <2>1, <3>2, WorkerIsRight DEF WorkerReceive, ReceiveEnd, Receive
      <4>2. Correct(WorkerJob(w), res) = TRUE
        BY <2>1, <3>2, <4>1, WorkerIsRight DEF Correct
      <4>3. WorkerJobDone(w, TRUE)
        BY <4>1, <4>2
      <4> QED
        BY <4>3
    <3> QED
      BY <3>1, <3>2
  <2>4. ok \/ spoilt'[w]
    BY <2>1, <2>3 DEF faultVars
  <2> QED
    BY <2>1, <2>2, <2>3, <2>4, WorkerCounted
<1>6. ASSUME WorkerLockFails(w) PROVE FaultInv'
  <2> DEFINE ok == Correct(WorkerJob(w), Answered(0))
  <2>1. /\ worker[w] = "timed" /\ UNCHANGED <<main, step, reported>>
        /\ OperationFault(w, ~ok) /\ WorkerJobDone(w, ok) /\ ok \in BOOLEAN
    BY <1>6 DEF WorkerLockFails, mainVars, resultVars, Correct
  <2>2. main \in {"start", "notify", "join"}
    BY <2>1, WorkerIsRight
  <2> HIDE DEF ok
  <2>3. (~ok) \in BOOLEAN /\ ((~ok) => ~ok)
    OBVIOUS
  <2>4. spoilt'[w]
    BY <2>1, <2>3, FaultHits
  <2> QED
    BY <2>1, <2>2, <2>3, <2>4, WorkerCounted
<1>7. ASSUME WorkerSendFails(w) \/ WorkerReceiveFails(w) PROVE FaultInv'
  <2>1. /\ worker[w] \in {"timed", "await"} /\ UNCHANGED <<main, step, reported>>
        /\ OperationFault(w, TRUE) /\ WorkerJobDone(w, FALSE)
    BY <1>7 DEF WorkerSendFails, WorkerReceiveFails, mainVars, resultVars
  <2>2. main \in {"start", "notify", "join"}
    BY <2>1, WorkerIsRight
  <2>3. spoilt'[w]
    BY <2>1, FaultHits
  <2> QED
    BY <2>1, <2>2, <2>3, WorkerCounted
<1> QED
  BY <1>1, <1>2, <1>3, <1>4, <1>5, <1>6, <1>7 DEF WorkerStep

\* Failing calls that no operation is counted for, and the server threads.
LEMMA OtherFaults ==
  ASSUME TypeInv, FaultInv, Running,
         \/ OpenCacheFails \/ UnlinkFails \/ ConnectFails \/ SpawnFails \/ SayQuitFails \/ WakeUp
         \/ \E c \in Clients : ServerThread(c) \/ ServeFails(c)
  PROVE  FaultInv'
<1>a. /\ faults \in Nat /\ worker \in [Clients -> WorkerPlaces]
  BY FaultNumbers
<1>1. CASE OpenCacheFails \/ UnlinkFails \/ ConnectFails \/ SpawnFails
  <2>1. UNCHANGED <<failures, reported, worker, spoilt, hurt>> /\ faults' = faults + 1
    BY <1>1 DEF OpenCacheFails, UnlinkFails, ConnectFails, SpawnFails, SetUpFault, Fault, workerVars,
                resultVars
  <2>2. main' \in {"exit", "destroy", "next", "stuck", "killed"}
    BY <1>1 DEF OpenCacheFails, UnlinkFails, ConnectFails, SpawnFails, MainTo
  <2>3. faults' \in Nat /\ faults' > 0
    BY <1>a, <2>1
  <2> QED
    BY <1>a, <2>1, <2>2, <2>3, FaultKept DEF Counting
<1>2. CASE SayQuitFails
  <2>1. UNCHANGED <<failures, reported, worker>> /\ main' = "close"
    BY <1>2 DEF SayQuitFails, MainTo, workerVars, resultVars
  <2>2. PICK c \in Clients : OperationFault(c, FALSE)
    BY <1>2 DEF SayQuitFails, ToHangUp
  <2> QED
    BY <2>1, <2>2, FaultHits, FaultKept DEF Counting
<1>3. CASE WakeUp
  <2>1. /\ UNCHANGED <<failures, reported, faultVars>>
        /\ (main' = main /\ step' = step) \/ (main = "blocked" /\ main' = "gather")
    BY <1>3 DEF WakeUp, MainTo, mainVars, resultVars
  <2>2. \A c \in Clients : worker'[c] # "none" => worker[c] # "none"
    BY <1>3, <1>a DEF WakeUp
  <2> QED
    BY <1>a, <2>1, <2>2, FaultKept DEF faultVars, Counting
<1>4. ASSUME NEW c \in Clients, Serve(c) \/ ServerBrokenPipe(c) PROVE FaultInv'
  <2>1. /\ UNCHANGED <<failures, reported, worker, faultVars>>
        /\ (main' = main /\ step' = step) \/ main' = "killed"
    BY <1>4 DEF Serve, ServerBrokenPipe, MainTo, mainVars, workerVars, resultVars
  <2> QED
    BY <1>a, <2>1, FaultKept DEF faultVars, Counting
<1>5. ASSUME NEW c \in Clients, ServeFails(c) PROVE FaultInv'
  <2>1. UNCHANGED <<failures, reported, worker, main, step>> /\ OperationFault(c, FALSE)
    BY <1>5 DEF ServeFails, mainVars, workerVars, resultVars
  <2> QED
    BY <2>1, FaultHits, FaultKept DEF Counting
<1> QED
  BY <1>1, <1>2, <1>3, <1>4, <1>5 DEF ServerThread

LEMMA FaultStep == TypeInv /\ AskInv /\ ResultInv /\ FaultInv /\ [Next]_vars => FaultInv'
<1> SUFFICES ASSUME TypeInv, AskInv, ResultInv, FaultInv, [Next]_vars PROVE FaultInv'
  OBVIOUS
<1>1. CASE UNCHANGED vars
  <2>1. UNCHANGED <<failures, reported, worker, main, step, faultVars>>
    BY <1>1 DEF vars, mainVars, workerVars, resultVars
  <2> QED
    BY <2>1, FaultNumbers, FaultKept DEF faultVars, Counting
<1>2. CASE Running /\ (MainLockFails \/ MainSendFails \/ MainReceiveFails)
  <2>1. /\ main \in {"single", "await"} /\ UNCHANGED <<failures, worker>>
    BY <1>2 DEF MainLockFails, MainSendFails, MainReceiveFails, workerVars
  <2>2. PICK c \in Clients : c = MainClient(step)
    <3>1. step \in 1 .. MainJobs /\ workload \in Workloads /\ threads \in 1 .. MaxThreads
      BY <2>1 DEF TypeInv, TypeOK, OrderInv
    <3> QED
      BY <3>1, MainJobIsJob
  <2>3. CASE MainJobDone(FALSE) /\ OperationFault(c, TRUE)
    BY <2>1, <2>3, FaultHits, MainFailed
  <2>4. CASE MainJobDone(TRUE) /\ OperationFault(c, FALSE)
    <3>1. main' \in {"single", "spawn"} /\ reported' = reported
      BY <2>4 DEF MainJobDone, MainTo
    <3> QED
      BY <2>1, <2>4, <3>1, FaultHits, FaultKept DEF Counting
  <2>5. ASSUME MainLockFails
        PROVE  \/ MainJobDone(FALSE) /\ OperationFault(c, TRUE)
               \/ MainJobDone(TRUE) /\ OperationFault(c, FALSE)
    <3> DEFINE ok == Correct(MainJob(step), Answered(0))
    <3>1. ok \in BOOLEAN /\ OperationFault(c, ~ok) /\ MainJobDone(ok)
      BY <2>2, <2>5 DEF MainLockFails, Correct
    <3> HIDE DEF ok
    <3>2. CASE ok = TRUE
      BY <3>1, <3>2
    <3>3. CASE ok = FALSE
      BY <3>1, <3>3
    <3> QED
      BY <3>1, <3>2, <3>3
  <2>6. ASSUME MainSendFails \/ MainReceiveFails PROVE MainJobDone(FALSE) /\ OperationFault(c, TRUE)
    BY <2>2, <2>6 DEF MainSendFails, MainReceiveFails
  <2> QED
    BY <1>2, <2>3, <2>4, <2>5, <2>6
<1> QED
  BY <1>1, <1>2, MainFaults, WorkerFaults, OtherFaults DEF Next, ThreadStep, Failure

\* Failures are told, and stay with those whom they hit: whichever of the calls
\* of any measurement fail, the others' results are sound, and none whose own call
\* failed is missing.
THEOREM FailuresAreTold == Spec => []FailuresTold
<1>1. TypeInv /\ FaultInv => FailuresTold
  BY DEF FaultInv, FailuresTold
<1>2. TypeInv /\ LeftInv /\ AskInv /\ ResultInv /\ FaultInv /\ [Next]_vars
        => TypeInv' /\ LeftInv' /\ AskInv' /\ ResultInv' /\ FaultInv'
  BY TypeStep, LeftStep, AskStep, ResultStep, FaultStep
<1> QED
  BY <1>1, <1>2, TypeInit, LeftInit, AskInit, ResultInit, FaultInit, PTL DEF Spec
-----------------------------------------------------------------------------
\* Waiting.

\* All workers have been created and none has been joined.
AtBarrier == {"gather", "blocked", "begin", "start", "notify", "join"}

\* How the barrier stands: no worker is missing, main waits only for arrivals, the
\* mutex is kept only by a worker about to wait, and none waits once `start' is set
\* and notified.
WakeInv ==
    Running =>
        /\ main \in AtBarrier => \A w \in Workers : worker[w] # "none"
        /\ main = "spawn" => \A w \in Workers : w < step => worker[w] # "none"
        /\ main = "blocked" => ready_count # threads
        /\ \A w \in Clients : /\ worker[w] = "parking" <=> ready_mutex = w
                              /\ worker[w] = "parking" => ~start
                              /\ worker[w] = "blocked" /\ start => main = "notify"

\* The workers' clients are open from the first operation to the destructor.
OpenInv ==
    Running /\ ~shared /\ main \in {"single", "await"} \cup Measuring =>
        \A w \in Workers : client[w] = "open"

\* No worker, no wait.
LEMMA WaitInit == Init => WakeInv /\ OpenInv
<1> SUFFICES ASSUME Init PROVE WakeInv /\ OpenInv
  OBVIOUS
<1>1. /\ main = "open" /\ worker = [w \in Clients |-> "none"] /\ ready_mutex = NoThread
  BY DEF Init
<1>2. NoThread \notin Clients
  BY HoldersAssumption
<1> QED
  BY <1>1, <1>2 DEF WakeInv, OpenInv, AtBarrier, Measuring

\* Steps that leave the barrier alone.
LEMMA WakeKept ==
  ASSUME WakeInv, UNCHANGED <<worker, ready_mutex, ready_count, start, threads>>,
         \/ UNCHANGED <<main, step>>
         \/ main' \in {"exit", "killed", "stuck"}
         \/ main \notin {"exit", "killed", "stuck", "notify"} /\ main' \notin AtBarrier \cup {"spawn"}
  PROVE  WakeInv'
BY DEF WakeInv, AtBarrier, Running, Workers

\* Main keeps the barrier.
LEMMA MainWakes ==
  ASSUME TypeInv, WakeInv, Running, MainStep
  PROVE  WakeInv'
<1> USE DEF MainTo, AtBarrier
<1>a. /\ main \in MainPlaces /\ worker \in [Clients -> WorkerPlaces]
      /\ step \in Nat /\ threads \in 1 .. MaxThreads
  BY DEF TypeInv, TypeOK
<1>b. Workers \subseteq Clients /\ Workers \subseteq Nat
  BY <1>a, ArrivedIsFinite DEF Workers
<1>1. ASSUME NextMeasurement PROVE WakeInv'
  <2>1. /\ worker' = [w \in Clients |-> "none"] /\ ready_mutex' = NoThread
        /\ main' \in {"connect", "single"}
    BY <1>1 DEF NextMeasurement
  <2>2. NoThread \notin Clients
    BY HoldersAssumption
  <2> QED
    BY <2>1, <2>2 DEF WakeInv
<1>2. ASSUME \/ OpenCache \/ Exit \/ ConnectClient \/ Report \/ SayQuit \/ CloseClient \/ Destroy
             \/ MainShared \/ MainSend \/ MainReceive \/ MainBrokenPipe \/ Tally
      PROVE  WakeInv'
  <2>1. /\ UNCHANGED <<worker, ready_mutex, ready_count, start, threads>>
        /\ main \notin AtBarrier /\ main' \notin AtBarrier
        /\ main' = "spawn" => step' = 0
    BY <1>2 DEF OpenCache, Exit, ConnectClient, Report, SayQuit, CloseClient, Destroy, ToHangUp,
                MainShared, MainSend, MainReceive, MainBrokenPipe, Tally, MainJobDone, roundVars,
                workerVars, barrierVars
  <2>2. \A w \in Workers : ~(w < 0)
    BY <1>b
  <2> QED
    BY <2>1, <2>2 DEF WakeInv, Workers
<1>3. ASSUME Spawn PROVE WakeInv'
  <2>1. /\ main = "spawn" /\ UNCHANGED <<threads, ready_mutex, ready_count, start>>
    BY <1>3 DEF Spawn, roundVars, barrierVars
  <2>2. Workers' = Workers
    BY <2>1 DEF Workers
  <2>3. CASE step < threads
    <3>1. main' = "spawn" /\ step' = step + 1 /\ worker' = [worker EXCEPT ![step] = "created"]
      BY <1>3, <2>3 DEF Spawn
    <3>2. step \in Clients /\ worker[step] = "none"
      BY <1>a, <2>1, <2>3, ClientsAssumption, ThreadsAssumption DEF TypeInv, OrderInv
    <3>3. \A w \in Clients : worker'[w] = IF w = step THEN "created" ELSE worker[w]
      BY <1>a, <3>1
    <3>4. \A w \in Workers : w < step + 1 => w = step \/ w < step
      BY <1>a, <1>b
    <3>5. \A w \in Workers : w < step' => worker'[w] # "none"
      BY <1>b, <2>1, <3>1, <3>3, <3>4 DEF WakeInv
    <3> QED
      BY <2>1, <2>2, <3>1, <3>2, <3>3, <3>5 DEF WakeInv
  <2>4. CASE ~(step < threads)
    <3>1. main' = "gather" /\ worker' = worker
      BY <1>3, <2>4 DEF Spawn
    <3>2. \A w \in Workers : w < step
      BY <1>a, <2>4 DEF Workers
    <3> QED
      BY <2>1, <2>2, <3>1, <3>2 DEF WakeInv
  <2> QED
    BY <2>3, <2>4
<1>4. ASSUME Gather PROVE WakeInv'
  BY <1>4 DEF Gather, WakeInv, roundVars, workerVars, barrierVars, Workers
<1>5. ASSUME TakeBegin PROVE WakeInv'
  BY <1>5 DEF TakeBegin, WakeInv, roundVars, workerVars, Workers
<1>6. ASSUME SetStart PROVE WakeInv'
  <2>1. \A w \in Clients : worker[w] # "parking"
    BY <1>6, HoldersAssumption DEF SetStart, WakeInv
  <2> QED
    BY <1>6, <2>1 DEF SetStart, WakeInv, roundVars, workerVars, Workers
<1>7. ASSUME NotifyWorkers PROVE WakeInv'
  <2>1. /\ main = "notify" /\ main' = "join"
        /\ UNCHANGED <<threads, ready_mutex, ready_count, start>>
        /\ \A w \in Clients : worker'[w] = Notified(worker[w])
    BY <1>7 DEF NotifyWorkers, roundVars, barrierVars
  <2>2. \A w \in Clients : /\ worker'[w] # "blocked"
                           /\ worker'[w] = "parking" <=> worker[w] = "parking"
                           /\ worker[w] # "none" => worker'[w] # "none"
    BY <2>1 DEF Notified
  <2> QED
    BY <1>b, <2>1, <2>2 DEF WakeInv, Workers
<1>8. ASSUME JoinWorkers PROVE WakeInv'
  BY <1>8 DEF JoinWorkers, WakeInv, roundVars, workerVars, Workers
<1> QED
  BY <1>1, <1>2, <1>3, <1>4, <1>5, <1>6, <1>7, <1>8 DEF MainStep

\* A worker takes and leaves the mutex in turn, and waits with it only before
\* `start'.
LEMMA WorkerWakes ==
  ASSUME TypeInv, WakeInv, Running, NEW w \in Clients,
         WorkerStep(w) \/ WorkerLockFails(w) \/ WorkerSendFails(w) \/ WorkerReceiveFails(w)
  PROVE  WakeInv'
<1> USE DEF AtBarrier
<1>a. /\ main \in MainPlaces /\ worker \in [Clients -> WorkerPlaces]
      /\ step \in Nat /\ threads \in 1 .. MaxThreads
  BY DEF TypeInv, TypeOK
<1>b. Workers \subseteq Clients /\ NoThread \notin Clients
  BY <1>a, ArrivedIsFinite, HoldersAssumption
\* Steps outside the barrier.
<1>c. ASSUME UNCHANGED <<main, step, ready_mutex, ready_count, start, threads>>,
             worker[w] \in {"timed", "await"},
             NEW l \in {"timed", "await", "ended"}, worker' = [worker EXCEPT ![w] = l]
      PROVE  WakeInv'
  <2>1. \A v \in Clients : worker'[v] = IF v = w THEN l ELSE worker[v]
    BY <1>a, <1>c
  <2> QED
    BY <1>b, <1>c, <2>1 DEF WakeInv, Workers, Running
<1>1. ASSUME Arrive(w) PROVE WakeInv'
  <2> DEFINE others == [v \in Clients |-> Notified(worker[v])]
             l      == IF start THEN "timed" ELSE "parking"
  <2>1. /\ worker[w] = "created" /\ ready_mutex = NoThread
        /\ main' = IF main = "blocked" THEN "gather" ELSE main
        /\ UNCHANGED <<step, threads, start>>
        /\ worker' = [others EXCEPT ![w] = l]
        /\ ready_mutex' = IF start THEN NoThread ELSE w
    BY <1>1 DEF Arrive, Test, roundVars
  <2>2. \A v \in Clients : worker'[v] = IF v = w THEN l ELSE Notified(worker[v])
    BY <2>1
  <2>3. \A v \in Clients : worker[v] # "parking"
    BY <1>b, <2>1 DEF WakeInv
  <2>4. \A v \in Clients : /\ worker'[v] # "blocked"
                           /\ worker'[v] = "parking" <=> v = w /\ ~start
                           /\ worker[v] # "none" => worker'[v] # "none"
    BY <2>2, <2>3 DEF Notified
  <2>5. /\ main' # "blocked" /\ (main' \in AtBarrier => main \in AtBarrier)
        /\ main' = "spawn" => main = "spawn"
    BY <2>1
  <2> QED
    BY <1>b, <2>1, <2>4, <2>5 DEF WakeInv, Workers
<1>2. ASSUME Park(w) PROVE WakeInv'
  <2>1. /\ worker[w] = "parking" /\ ready_mutex' = NoThread
        /\ worker' = [worker EXCEPT ![w] = "blocked"]
        /\ UNCHANGED <<main, step, threads, start, ready_count>>
    BY <1>2 DEF Park, mainVars, roundVars
  <2>2. \A v \in Clients : worker'[v] = IF v = w THEN "blocked" ELSE worker[v]
    BY <1>a, <2>1
  <2>3. ~start /\ \A v \in Clients : worker[v] = "parking" => v = w
    BY <2>1 DEF WakeInv
  <2> QED
    BY <1>b, <2>1, <2>2, <2>3 DEF WakeInv, Workers, Running
<1>3. ASSUME Recheck(w) PROVE WakeInv'
  <2> DEFINE l == IF start THEN "timed" ELSE "parking"
  <2>1. /\ worker[w] = "woken" /\ ready_mutex = NoThread
        /\ worker' = [worker EXCEPT ![w] = l]
        /\ ready_mutex' = IF start THEN NoThread ELSE w
        /\ UNCHANGED <<main, step, threads, start, ready_count>>
    BY <1>3 DEF Recheck, Test, mainVars, roundVars
  <2>2. \A v \in Clients : worker'[v] = IF v = w THEN l ELSE worker[v]
    BY <1>a, <2>1
  <2>3. \A v \in Clients : worker[v] # "parking"
    BY <1>b, <2>1 DEF WakeInv
  <2> QED
    BY <1>b, <2>1, <2>2, <2>3 DEF WakeInv, Workers, Running
<1>4. ASSUME WorkerShared(w) \/ WorkerLockFails(w) PROVE WakeInv'
  BY <1>4, <1>c DEF WorkerShared, WorkerLockFails, WorkerJobDone, mainVars, roundVars, barrierVars
<1>5. ASSUME WorkerSend(w) PROVE WakeInv'
  BY <1>5, <1>c DEF WorkerSend, mainVars, roundVars, barrierVars
<1>6. ASSUME WorkerSendFails(w) PROVE WakeInv'
  BY <1>6, <1>c DEF WorkerSendFails, WorkerJobDone, mainVars, roundVars, barrierVars
<1>7. ASSUME WorkerReceive(w) \/ WorkerReceiveFails(w) PROVE WakeInv'
  BY <1>7, <1>c DEF WorkerReceive, WorkerReceiveFails, WorkerJobDone, mainVars, roundVars, barrierVars
<1>8. ASSUME WorkerBrokenPipe(w) PROVE WakeInv'
  BY <1>8 DEF WorkerBrokenPipe, MainTo, WakeInv, Running
<1> QED
  BY <1>1, <1>2, <1>3, <1>4, <1>5, <1>6, <1>7, <1>8 DEF WorkerStep

\* Every step keeps the barrier.
LEMMA WakeStep == TypeInv /\ WakeInv /\ [Next]_vars => WakeInv'
<1> SUFFICES ASSUME TypeInv, WakeInv, [Next]_vars PROVE WakeInv'
  OBVIOUS
<1>1. ASSUME NEW c \in Clients, Serve(c) \/ ServeFails(c) \/ ServerBrokenPipe(c) PROVE WakeInv'
  BY <1>1, WakeKept DEF Serve, ServeFails, ServerBrokenPipe, MainTo, mainVars, roundVars, workerVars,
                        barrierVars
<1>2. ASSUME Running, OpenCacheFails \/ UnlinkFails \/ ConnectFails \/ SayQuitFails PROVE WakeInv'
  <2>1. /\ UNCHANGED <<worker, ready_mutex, ready_count, start, threads>>
        /\ main \in {"open", "next", "connect", "destroy"} /\ main' \in {"exit", "destroy", "close"}
    BY <1>2 DEF OpenCacheFails, UnlinkFails, ConnectFails, SayQuitFails, ToHangUp, MainTo, roundVars,
                workerVars, barrierVars
  <2> QED
    BY <2>1, WakeKept DEF AtBarrier
<1>3. ASSUME Running, MainLockFails \/ MainSendFails \/ MainReceiveFails PROVE WakeInv'
  <2>1. /\ UNCHANGED <<worker, ready_mutex, ready_count, start, threads>>
        /\ main \in {"single", "await"} /\ main' \in {"single", "spawn", "report"}
        /\ main' = "spawn" => step' = 0
    BY <1>3 DEF MainLockFails, MainSendFails, MainReceiveFails, MainJobDone, MainTo, roundVars,
                workerVars, barrierVars
  <2>2. \A w \in Workers : ~(w < 0)
    BY DEF Workers, TypeInv, TypeOK
  <2> QED
    BY <1>3, <2>1, <2>2 DEF WakeInv, Workers, AtBarrier
<1>4. ASSUME Running, SpawnFails PROVE WakeInv'
  BY <1>4, WakeKept DEF SpawnFails, MainTo, roundVars, workerVars, barrierVars, AtBarrier
<1>5. ASSUME Running, WakeUp PROVE WakeInv'
  <2>1. UNCHANGED <<ready_mutex, ready_count, start, threads>>
    BY <1>5 DEF WakeUp, roundVars
  <2>2. CASE main = "blocked" /\ MainTo("gather", 0) /\ UNCHANGED worker
    BY <2>1, <2>2 DEF WakeInv, Workers, AtBarrier, MainTo, Running
  <2>3. ASSUME NEW w \in Clients, worker[w] = "blocked", worker' = [worker EXCEPT ![w] = "woken"],
               UNCHANGED mainVars
        PROVE  WakeInv'
    <3>1. \A v \in Clients : worker'[v] = IF v = w THEN "woken" ELSE worker[v]
      BY <2>3 DEF TypeInv, TypeOK
    <3>2. Workers \subseteq Clients
      BY ArrivedIsFinite DEF TypeInv, TypeOK
    <3> QED
      BY <2>1, <2>3, <3>1, <3>2 DEF WakeInv, Workers, AtBarrier, mainVars, Running
  <2> QED
    BY <1>5, <2>2, <2>3 DEF WakeUp
<1>6. CASE UNCHANGED vars
  BY <1>6, WakeKept DEF vars, mainVars, roundVars, workerVars, barrierVars
<1> QED
  BY <1>1, <1>2, <1>3, <1>4, <1>5, <1>6, MainWakes, WorkerWakes
     DEF Next, ThreadStep, ServerThread, Failure

\* Clients are opened by the constructor and closed by the destructor.
LEMMA OpenStep == TypeInv /\ LeftInv /\ OpenInv /\ [Next]_vars => OpenInv'
<1> SUFFICES ASSUME TypeInv, LeftInv, OpenInv, [Next]_vars PROVE OpenInv'
  OBVIOUS
<1> USE DEF MainTo
<1> DEFINE Places == {"single", "await"} \cup Measuring
<1>a. ASSUME UNCHANGED <<client, shared, threads>>, main' \in Places => main \in Places PROVE OpenInv'
  BY <1>a DEF OpenInv, Running, Workers
<1>1. CASE NextMeasurement
  <2>1. shared' \/ main' = "connect"
    BY <1>1 DEF NextMeasurement, TypeInv, TypeOK
  <2> QED
    BY <2>1 DEF OpenInv
<1>2. CASE ConnectClient
  <2>1. main = "connect" /\ UNCHANGED <<shared, threads>>
    BY <1>2 DEF ConnectClient, roundVars
  <2>2. CASE step < threads
    <3>1. main' = "connect"
      BY <1>2, <2>2 DEF ConnectClient
    <3> QED
      BY <3>1 DEF OpenInv
  <2>3. CASE ~(step < threads)
    <3>1. client' = client
      BY <1>2, <2>3 DEF ConnectClient, socketVars
    <3>2. threads \in 1 .. MaxThreads /\ step \in Nat
      BY DEF TypeInv, TypeOK
    <3>3. \A w \in Workers : w \in Clients /\ w < step
      BY <2>3, <3>2, ArrivedIsFinite DEF Workers
    <3> QED
      BY <2>1, <3>1, <3>3 DEF LeftInv, OpenInv, Workers
  <2> QED
    BY <2>2, <2>3
<1>3. CASE OpenCache \/ OpenCacheFails \/ Exit \/ UnlinkFails \/ ConnectFails \/ Report
           \/ SayQuit \/ SayQuitFails \/ CloseClient \/ Destroy \/ MainBrokenPipe
  <2>1. main' \notin Places
    BY <1>3 DEF OpenCache, OpenCacheFails, Exit, UnlinkFails, ConnectFails, Report, SayQuit,
                SayQuitFails, CloseClient, Destroy, MainBrokenPipe
  <2> QED
    BY <2>1 DEF OpenInv
<1>4. CASE MainShared \/ MainLockFails \/ MainSend \/ MainSendFails \/ MainReceive \/ MainReceiveFails
  <2>1. UNCHANGED <<client, shared, threads>> /\ main \in Places
    BY <1>4 DEF MainShared, MainLockFails, MainSend, MainSendFails, MainReceive, MainReceiveFails,
                Write, WriteFails, Receive, ReceiveEnd, ReceiveFails, socketVars, roundVars
  <2> QED
    BY <1>a, <2>1
<1>5. CASE \/ Spawn \/ SpawnFails \/ Gather \/ TakeBegin \/ SetStart \/ NotifyWorkers
           \/ JoinWorkers \/ Tally \/ WakeUp
  <2>1. UNCHANGED <<client, shared, threads>> /\ (main' \in Places => main \in Places)
    BY <1>5 DEF Spawn, SpawnFails, Gather, TakeBegin, SetStart, NotifyWorkers, JoinWorkers,
                Tally, WakeUp, mainVars, socketVars, roundVars
  <2> QED
    BY <1>a, <2>1
<1>6. ASSUME NEW w \in Clients, Arrive(w) \/ Park(w) \/ Recheck(w) \/ WorkerBrokenPipe(w)
                                \/ ServerBrokenPipe(w)
      PROVE  OpenInv'
  <2>1. UNCHANGED <<client, shared, threads>> /\ (main' \in Places => main \in Places)
    BY <1>6 DEF Arrive, Park, Recheck, WorkerBrokenPipe, ServerBrokenPipe, socketVars, mainVars, roundVars
  <2> QED
    BY <1>a, <2>1
<1>7. ASSUME NEW w \in Clients,
             \/ WorkerShared(w) \/ WorkerLockFails(w) \/ WorkerSend(w) \/ WorkerSendFails(w)
             \/ WorkerReceive(w) \/ WorkerReceiveFails(w)
      PROVE  OpenInv'
  <2>1. UNCHANGED <<client, shared, threads, main>>
    BY <1>7 DEF WorkerShared, WorkerLockFails, WorkerSend, WorkerSendFails, WorkerReceive,
                WorkerReceiveFails, Write, WriteFails, Receive, ReceiveEnd, ReceiveFails, socketVars,
                mainVars, roundVars
  <2> QED
    BY <1>a, <2>1
<1>8. ASSUME NEW c \in Clients, Serve(c) \/ ServeFails(c) PROVE OpenInv'
  <2>1. UNCHANGED <<client, shared, threads, main>>
    BY <1>8, ServingMove
  <2> QED
    BY <1>a, <2>1
<1>9. CASE UNCHANGED vars
  BY <1>9, <1>a DEF vars, socketVars, mainVars, roundVars
<1> QED
  BY <1>1, <1>2, <1>3, <1>4, <1>5, <1>6, <1>7, <1>8, <1>9
     DEF Next, ThreadStep, MainStep, WorkerStep, ServerThread, Failure

-----------------------------------------------------------------------------
\* The exit code.

\* What main knows of the failures so far.
OutcomeInv ==
    /\ failed => faults > 0
    /\ reported > 0 => faults > 0
    /\ Running /\ trouble => \/ failed
                             \/ main \in Counting /\ \E c \in Clients : hurt[c] > 0
                             \/ main \in {"report", "destroy", "close"} /\ reported > 0
    /\ main = "exit" => (trouble => failed)
    /\ main \in {"killed", "stuck"} => faults > 0

\* Nothing has failed at first.
LEMMA OutcomeInit == Init => OutcomeInv
BY DEF Init, OutcomeInv

\* Steps that neither lose an operation nor look at what is reported.
LEMMA OutcomeKept ==
  ASSUME OutcomeInv, UNCHANGED <<failed, reported>>, trouble' => trouble,
         faults > 0 => faults' > 0,
         \A c \in Clients : hurt[c] > 0 => hurt'[c] > 0,
         main' # "exit", main' \in {"killed", "stuck"} => faults' > 0,
         main' \notin {"killed", "stuck"} =>
             /\ Running
             /\ main \in Counting => main' \in Counting
             /\ main \in {"report", "destroy", "close"} => main' \in {"report", "destroy", "close"}
  PROVE  OutcomeInv'
<1>1. Running' /\ trouble' => \/ failed'
                              \/ main' \in Counting /\ \E c \in Clients : hurt'[c] > 0
                              \/ main' \in {"report", "destroy", "close"} /\ reported' > 0
  BY DEF OutcomeInv, Running
<1> QED
  BY <1>1 DEF OutcomeInv

\* A peer that is written to is closed only when a call has failed.
LEMMA PipesBreak ==
  ASSUME TypeInv, LeftInv, ResultInv, FaultInv, OpenInv, Running,
         \/ MainBrokenPipe
         \/ \E c \in Clients : WorkerBrokenPipe(c) \/ ServerBrokenPipe(c)
  PROVE  faults > 0
<1>1. \A c \in Clients : spoilt[c] => faults > 0
  BY DEF FaultInv
<1>2. ASSUME NEW c \in Workers, ~shared, main \in {"single", "await"} \cup Measuring, PeerClosed(c)
      PROVE  faults > 0
  <2>1. c \in Clients /\ client[c] = "open"
    BY <1>2, ArrivedIsFinite DEF TypeInv, TypeOK, OpenInv
  <2>2. Playing(c)
    BY <1>2, <2>1 DEF InPlay, ResultInv, ClientInv
  <2>3. spoilt[c]
    BY <1>2, <2>1, <2>2 DEF Playing, PeerClosed
  <2> QED
    BY <1>1, <2>1, <2>3
<1>3. ASSUME MainBrokenPipe PROVE faults > 0
  <2>1. CASE main = "single" /\ ~shared /\ PeerClosed(MainClient(step))
    <3>1. MainClient(step) \in Workers
      BY <2>1, MainJobIsJob DEF TypeInv, TypeOK, OrderInv
    <3>2. PICK c \in Workers : c = MainClient(step)
      BY <3>1
    <3> QED
      BY <1>2, <2>1, <3>2
  <2>2. CASE ToHangUp /\ PeerClosed(step)
    <3>1. PICK c \in Clients : c = step
      BY <2>2 DEF ToHangUp
    <3>2. main = "destroy" /\ client[c] = "open" /\ PeerClosed(c)
      BY <2>2, <3>1 DEF ToHangUp
    <3>3. Idle(c)
      BY <3>2 DEF ResultInv, ClientInv, InPlay
    <3>4. spoilt[c]
      BY <3>2, <3>3 DEF Idle, Closing
    <3> QED
      BY <1>1, <3>4
  <2> QED
    BY <1>3, <2>1, <2>2 DEF MainBrokenPipe
<1>4. ASSUME NEW w \in Clients, WorkerBrokenPipe(w) PROVE faults > 0
  <2>1. worker[w] = "timed" /\ ~shared /\ PeerClosed(w)
    BY <1>4 DEF WorkerBrokenPipe
  <2>2. main \in {"start", "notify", "join"} /\ w \in Workers
    BY <2>1 DEF TypeInv, BarrierInv, TimedInWindow, WindowInv, BegunInv, Running
  <2> QED
    BY <1>2, <2>1, <2>2
<1>5. ASSUME NEW c \in Clients, ServerBrokenPipe(c) PROVE faults > 0
  <2>1. server[c] = "sending" /\ client[c] = "closed"
    BY <1>5 DEF ServerBrokenPipe
  <2>2. ~InPlay
    BY <2>1 DEF ResultInv, ClientInv, Playing
  <2>3. spoilt[c]
    BY <2>1, <2>2 DEF ResultInv, ClientInv, Idle
  <2> QED
    BY <1>1, <2>3
<1> QED
  BY <1>3, <1>4, <1>5

\* An operation of the main thread ends.
LEMMA MainJobOutcome ==
  ASSUME TypeInv, FaultInv, FaultInv', OutcomeInv, main \in {"single", "await"}, failed' = failed,
         NEW ok \in BOOLEAN, MainJobDone(ok),
         \/ UNCHANGED faultVars
         \/ \E c \in Clients, loses \in BOOLEAN : OperationFault(c, loses) /\ (loses => ~ok)
  PROVE  OutcomeInv'
<1>1. CASE ok = FALSE
  <2>1. main' = "report" /\ reported' = 1
    BY <1>1 DEF MainJobDone, MainTo
  <2>2. faults' > 0
    BY <2>1 DEF FaultInv
  <2> QED
    BY <2>1, <2>2 DEF OutcomeInv
<1>2. CASE ok = TRUE
  <2>1. main' \in {"single", "spawn"} /\ reported' = reported
    BY <1>2 DEF MainJobDone, MainTo
  <2>2. /\ trouble' => trouble
        /\ faults > 0 => faults' > 0
        /\ \A c \in Clients : hurt[c] > 0 => hurt'[c] > 0
    <3>1. CASE UNCHANGED faultVars
      BY <3>1 DEF faultVars
    <3>2. ASSUME NEW c \in Clients, OperationFault(c, FALSE)
          PROVE  (trouble' => trouble) /\ hurt' = hurt /\ faults' > 0
      BY <3>2, FaultHits DEF OperationFault
    <3> QED
      BY <1>2, <3>1, <3>2
  <2> QED
    BY <2>1, <2>2, OutcomeKept DEF Counting, Running
<1> QED
  BY <1>1, <1>2

\* An operation of a worker ends.
LEMMA WorkerOutcome ==
  ASSUME TypeInv, OutcomeInv, Running, UNCHANGED <<main, failed, reported>>,
         main \in {"start", "notify", "join"}, NEW w \in Clients, NEW loses \in BOOLEAN,
         OperationFault(w, loses)
  PROVE  OutcomeInv'
<1>1. faults' > 0 /\ (loses => hurt'[w] > 0) /\ (~loses => hurt' = hurt)
  BY FaultHits, FaultNumbers
<1>2. CASE loses
  <2>1. main' \in Counting
    BY DEF Counting
  <2> QED
    BY <1>1, <1>2, <2>1 DEF OutcomeInv
<1>3. CASE ~loses
  <2>1. trouble' = trouble
    BY <1>3 DEF OperationFault, TypeInv, TypeOK
  <2> QED
    BY <1>1, <1>3, <2>1, OutcomeKept DEF Running
<1> QED
  BY <1>2, <1>3

\* A failing call is told by the row, the exit code or the process's end.
LEMMA FailureOutcomes ==
  ASSUME TypeInv, AskInv, ResultInv, FaultInv, FaultInv', OutcomeInv, Running, Failure
  PROVE  OutcomeInv'
<1>1. CASE OpenCacheFails \/ UnlinkFails \/ ConnectFails \/ SpawnFails
  <2>1. faults' = faults + 1 /\ faults \in Nat /\ reported' = reported
    BY <1>1, FaultNumbers DEF OpenCacheFails, UnlinkFails, ConnectFails, SpawnFails, SetUpFault, Fault
  <2>2. faults' > 0
    BY <2>1
  <2>3. failed' = TRUE \/ main' \in {"stuck", "killed"}
    BY <1>1 DEF OpenCacheFails, UnlinkFails, ConnectFails, SpawnFails
  <2> QED
    BY <2>1, <2>2, <2>3 DEF OutcomeInv, Running
<1>2. CASE MainLockFails \/ MainSendFails \/ MainReceiveFails
  <2>1. main \in {"single", "await"} /\ failed' = failed
    BY <1>2 DEF MainLockFails, MainSendFails, MainReceiveFails
  <2>2. PICK c \in Clients : c = MainClient(step)
    <3>1. step \in 1 .. MainJobs /\ workload \in Workloads /\ threads \in 1 .. MaxThreads
      BY <2>1 DEF TypeInv, TypeOK, OrderInv
    <3> QED
      BY <3>1, MainJobIsJob
  <2>3. ASSUME MainLockFails PROVE OutcomeInv'
    <3> DEFINE ok == Correct(MainJob(step), Answered(0))
    <3>1. ok \in BOOLEAN /\ OperationFault(c, ~ok) /\ MainJobDone(ok)
      BY <2>2, <2>3 DEF MainLockFails, Correct
    <3> HIDE DEF ok
    <3>2. (~ok) \in BOOLEAN /\ ((~ok) => ~ok)
      OBVIOUS
    <3>3. \E d \in Clients, loses \in BOOLEAN : OperationFault(d, loses) /\ (loses => ~ok)
      BY <3>1, <3>2
    <3> QED
      BY <2>1, <3>1, <3>3, MainJobOutcome
  <2>4. ASSUME MainSendFails \/ MainReceiveFails PROVE OutcomeInv'
    <3>1. OperationFault(c, TRUE) /\ MainJobDone(FALSE)
      BY <2>2, <2>4 DEF MainSendFails, MainReceiveFails
    <3>2. \E d \in Clients, loses \in BOOLEAN : OperationFault(d, loses) /\ (loses => ~FALSE)
      BY <3>1
    <3> QED
      BY <2>1, <3>1, <3>2, MainJobOutcome
  <2> QED
    BY <1>2, <2>3, <2>4
<1>3. ASSUME SayQuitFails PROVE OutcomeInv'
  <2>1. /\ main = "destroy" /\ main' = "close" /\ UNCHANGED <<failed, reported>>
        /\ \E c \in Clients : OperationFault(c, FALSE)
    BY <1>3 DEF SayQuitFails, ToHangUp, MainTo, resultVars
  <2>2. (trouble' => trouble) /\ hurt' = hurt /\ faults' > 0
    BY <2>1, FaultHits DEF OperationFault
  <2> QED
    BY <2>1, <2>2, OutcomeKept DEF Counting, Running
<1>4. ASSUME NEW w \in Clients, WorkerLockFails(w) \/ WorkerSendFails(w) \/ WorkerReceiveFails(w)
      PROVE  OutcomeInv'
  <2>1. /\ worker[w] \in {"timed", "await"} /\ UNCHANGED <<main, failed, reported>>
        /\ \E loses \in BOOLEAN : OperationFault(w, loses)
    BY <1>4 DEF WorkerLockFails, WorkerSendFails, WorkerReceiveFails, mainVars, resultVars
  <2>2. main \in {"start", "notify", "join"}
    BY <2>1, WorkerIsRight
  <2> QED
    BY <2>1, <2>2, WorkerOutcome
<1>5. ASSUME NEW c \in Clients, ServeFails(c) PROVE OutcomeInv'
  <2>1. UNCHANGED <<main, failed, reported>> /\ OperationFault(c, FALSE)
    BY <1>5 DEF ServeFails, mainVars, resultVars
  <2>2. (trouble' => trouble) /\ hurt' = hurt /\ faults' > 0
    BY <2>1, FaultHits DEF OperationFault
  <2> QED
    BY <2>1, <2>2, OutcomeKept DEF Running
<1> QED
  BY <1>1, <1>2, <1>3, <1>4, <1>5 DEF Failure

\* main's `failed' takes in each measurement once it ends.
LEMMA MainOutcomes ==
  ASSUME TypeInv, LeftInv, AskInv, ResultInv, FaultInv, FaultInv', OpenInv, OutcomeInv, Running,
         MainStep
  PROVE  OutcomeInv'
<1>a. reported \in Nat /\ faults \in Nat /\ \A c \in Clients : hurt[c] \in Nat
  BY FaultNumbers
<1>1. CASE NextMeasurement \/ Exit
  <2>1. /\ main = "next" /\ UNCHANGED <<failed, faults, trouble>>
        /\ reported' = 0 \/ reported' = reported
        /\ main' \in {"connect", "single", "exit"}
    BY <1>1 DEF NextMeasurement, Exit, MainTo, faultVars, resultVars
  <2>2. trouble => failed
    BY <2>1 DEF OutcomeInv, Counting, Running
  <2> QED
    BY <2>1, <2>2 DEF OutcomeInv
<1>2. CASE Report \/ Destroy
  <2>1. /\ main \in {"report", "destroy"} /\ UNCHANGED <<faultVars, reported>>
        /\ \/ main' = "next" /\ (failed' <=> (failed \/ reported # 0))
           \/ main' = "destroy" /\ failed' = failed
    BY <1>2 DEF Report, Destroy, MainTo
  <2>2. trouble => failed \/ reported > 0
    BY <2>1 DEF OutcomeInv, Counting
  <2> QED
    BY <1>a, <2>1, <2>2 DEF OutcomeInv, Counting, faultVars
<1>3. CASE MainShared
  <2>1. main = "single" /\ UNCHANGED <<failed, faultVars>>
    BY <1>3 DEF MainShared
  <2>2. \E ok \in BOOLEAN : MainJobDone(ok)
    <3> DEFINE ok == Correct(MainJob(step), AnswerTo(engine, RequestOf(MainJob(step))))
    <3>1. ok \in BOOLEAN /\ MainJobDone(ok)
      BY <1>3 DEF MainShared, Correct
    <3> HIDE DEF ok
    <3> QED
      BY <3>1
  <2> QED
    BY <2>1, <2>2, MainJobOutcome
<1>4. CASE MainReceive
  <2>1. main = "await" /\ UNCHANGED <<failed, faultVars>>
    BY <1>4 DEF MainReceive
  <2>2. \E ok \in BOOLEAN : MainJobDone(ok)
    <3>1. PICK res : MainJobDone(Correct(MainJob(step), res)) \/ MainJobDone(FALSE)
      BY <1>4 DEF MainReceive
    <3> DEFINE ok == Correct(MainJob(step), res)
    <3>2. ok \in BOOLEAN /\ (MainJobDone(ok) \/ MainJobDone(FALSE))
      BY <3>1 DEF Correct
    <3> HIDE DEF ok
    <3> QED
      BY <3>2
  <2> QED
    BY <2>1, <2>2, MainJobOutcome
<1>5. CASE MainBrokenPipe
  <2>1. main' = "killed" /\ UNCHANGED <<failed, reported, faultVars>>
    BY <1>5 DEF MainBrokenPipe, MainTo, resultVars
  <2>2. faults > 0
    BY <1>5, PipesBreak
  <2> QED
    BY <2>1, <2>2, OutcomeKept DEF faultVars
<1>6. CASE Tally
  <2>1. main = "tally" /\ UNCHANGED <<failed, faultVars>>
    BY <1>6 DEF Tally
  <2>2. CASE main' = "tally" /\ reported' = reported + failures[step] /\ step < threads
    <3>1. reported > 0 => reported + failures[step] > 0
      <4>1. step \in Clients
        BY <2>2, FaultNumbers, ClientsAssumption, ThreadsAssumption DEF TypeInv, TypeOK
      <4> QED
        BY <1>a, <4>1, FaultNumbers
    <3>2. reported' > 0 => faults' > 0
      BY <2>2 DEF FaultInv
    <3> QED
      BY <2>1, <2>2, <3>1, <3>2 DEF OutcomeInv, Counting, Running, faultVars
  <2>3. CASE main' = "report" /\ reported' = reported
    <3>1. \A c \in Clients : hurt[c] <= reported
      BY <2>1, <2>3 DEF FaultInv, faultVars
    <3>2. (\E c \in Clients : hurt[c] > 0) => reported > 0
      BY <1>a, <3>1
    <3> QED
      BY <2>1, <2>3, <3>2 DEF OutcomeInv, faultVars
  <2> QED
    BY <1>6, <2>2, <2>3 DEF Tally, MainTo
<1>7. CASE OpenCache \/ ConnectClient \/ SayQuit \/ CloseClient \/ MainSend
           \/ Spawn \/ Gather \/ TakeBegin \/ SetStart \/ NotifyWorkers \/ JoinWorkers
  <2>1. UNCHANGED <<failed, reported, faultVars>>
    BY <1>7 DEF OpenCache, ConnectClient, SayQuit, CloseClient, MainSend, Spawn, Gather, TakeBegin,
                SetStart, NotifyWorkers, JoinWorkers, resultVars
  <2>2. /\ main' \notin {"exit", "killed", "stuck"}
        /\ main \in Counting => main' \in Counting
        /\ main \in {"report", "destroy", "close"} => main' \in {"report", "destroy", "close"}
    BY <1>7 DEF OpenCache, ConnectClient, SayQuit, CloseClient, MainSend, Spawn, Gather, TakeBegin,
                SetStart, NotifyWorkers, JoinWorkers, ToHangUp, MainTo, Counting
  <2> QED
    BY <2>1, <2>2, OutcomeKept DEF faultVars
<1> QED
  BY <1>1, <1>2, <1>3, <1>4, <1>5, <1>6, <1>7 DEF MainStep

\* Every step keeps the outcome true.
LEMMA OutcomeStep ==
  TypeInv /\ LeftInv /\ AskInv /\ ResultInv /\ FaultInv /\ OpenInv /\ OutcomeInv /\ [Next]_vars
    => OutcomeInv'
<1> SUFFICES ASSUME TypeInv, LeftInv, AskInv, ResultInv, FaultInv, OpenInv, OutcomeInv, [Next]_vars
             PROVE  OutcomeInv'
  OBVIOUS
<1>a. FaultInv'
  BY FaultStep
<1>1. ASSUME Running, NEW w \in Clients, WorkerStep(w), ~WorkerBrokenPipe(w) PROVE OutcomeInv'
  <2>1. UNCHANGED <<failed, reported, faultVars>> /\ (main' = main \/ (main = "blocked" /\ main' = "gather"))
    BY <1>1 DEF WorkerStep, Arrive, Park, Recheck, WorkerShared, WorkerSend, WorkerReceive, mainVars,
                resultVars
  <2> QED
    BY <1>1, <2>1, OutcomeKept DEF faultVars, Counting, Running
<1>2. ASSUME Running, NEW c \in Clients, Serve(c) PROVE OutcomeInv'
  <2>1. UNCHANGED <<failed, reported, faultVars, main>>
    BY <1>2 DEF Serve, mainVars, resultVars
  <2> QED
    BY <1>2, <2>1, OutcomeKept DEF faultVars, Running
<1>3. ASSUME Running, NEW c \in Clients, WorkerBrokenPipe(c) \/ ServerBrokenPipe(c) PROVE OutcomeInv'
  <2>1. main' = "killed" /\ UNCHANGED <<failed, reported, faultVars>>
    BY <1>3 DEF WorkerBrokenPipe, ServerBrokenPipe, MainTo, resultVars
  <2>2. faults > 0
    BY <1>3, PipesBreak
  <2> QED
    BY <2>1, <2>2, OutcomeKept DEF faultVars
<1>4. ASSUME Running, WakeUp PROVE OutcomeInv'
  <2>1. UNCHANGED <<failed, reported, faultVars>> /\ (main' = main \/ (main = "blocked" /\ main' = "gather"))
    BY <1>4 DEF WakeUp, mainVars, resultVars, MainTo
  <2> QED
    BY <1>4, <2>1, OutcomeKept DEF faultVars, Counting, Running
<1>5. CASE UNCHANGED vars
  BY <1>5 DEF vars, mainVars, resultVars, faultVars, OutcomeInv, Running
<1> QED
  BY <1>a, <1>1, <1>2, <1>3, <1>4, <1>5, MainOutcomes, FailureOutcomes
     DEF Next, ThreadStep, ServerThread

\* The exit code tells of whatever a failing call has made fail, in whichever
\* measurement; and nothing but a failing call sets it, kills the process or leaves
\* it stuck: no peer that is written to is closed otherwise.
THEOREM ExitCodeIsRight == Spec => []ExitCodeTells
<1>1. OutcomeInv => ExitCodeTells
  BY DEF OutcomeInv, ExitCodeTells
<1> DEFINE All == TypeInv /\ LeftInv /\ AskInv /\ ResultInv /\ FaultInv /\ OpenInv /\ OutcomeInv
<1>2. All /\ [Next]_vars => All'
  BY TypeStep, LeftStep, AskStep, ResultStep, FaultStep, OpenStep, OutcomeStep
<1>3. Init => All
  BY TypeInit, LeftInit, AskInit, ResultInit, FaultInit, WaitInit, OutcomeInit
<1> QED
  BY <1>1, <1>2, <1>3, PTL DEF Spec

-----------------------------------------------------------------------------
\* Who waits for whom.

\* A server thread is one of a client that has been made.
MadeInv == \A c \in Clients : Joinable(c) => client[c] # "none"

LEMMA MadeInit == Init => MadeInv
BY DEF Init, NoCache, MadeInv, Joinable

LEMMA MadeStep == TypeInv /\ MadeInv /\ [Next]_vars => MadeInv'
<1> SUFFICES ASSUME TypeInv, MadeInv, [Next]_vars PROVE MadeInv'
  OBVIOUS
<1>a. /\ client \in [Clients -> {"none", "open", "closed"}]
      /\ server \in [Clients -> {"none", "reading", "sending", "ended", "joined", "orphan"}]
  BY DEF TypeInv, TypeOK, SocketTypeOK
<1>1. SocketMove
  BY SocketMoves
<1>2. ASSUME NEW c \in Clients, client'[c] = client[c], Joinable(c)' => Joinable(c)
      PROVE  (Joinable(c) => client[c] # "none")'
  BY <1>2 DEF MadeInv
<1>3. CASE UNCHANGED <<client, server>>
  BY <1>3 DEF MadeInv, Joinable
<1>4. CASE Construct \/ Connect(step) \/ ConnectWithoutThread(step) \/ HangUp(step) \/ Join
  BY <1>4, <1>a DEF Construct, Connect, ConnectWithoutThread, HangUp, Join, Joinable, MadeInv
<1>5. ASSUME NEW c \in Clients, ServerStep(c) \/ RespondFails(c) \/ ServeReadFails(c) PROVE MadeInv'
  <2>1. /\ client' = client
        /\ \A d \in Clients : server'[d] = server[d] \/ server[d] \in {"reading", "sending"}
    BY <1>5, <1>a DEF ServerStep, Handle, Respond, EndServing, RespondFails, ServeReadFails
  <2> QED
    BY <2>1 DEF MadeInv, Joinable
<1>6. ASSUME NEW c \in Clients,
             \/ \E m \in Messages : Write(c, m) \/ WriteFails(c, m)
             \/ Receive(c) \/ ReceiveEnd(c) \/ ReceiveFails(c)
      PROVE  UNCHANGED <<client, server>>
  BY <1>6 DEF Write, WriteFails, Receive, ReceiveEnd, ReceiveFails
<1> QED
  BY <1>1, <1>3, <1>4, <1>5, <1>6 DEF SocketMove, socketVars

\* Nobody waits in vain: a wake-up that is lost, a mutex that is kept, a response
\* that does not come would leave run_measurement or the destructor waiting for
\* ever, with any number of workers and whichever system calls have failed.
THEOREM BenchmarkNeverWaitsInVain == Spec => []NobodyWaitsInVain
<1> DEFINE All == /\ TypeInv /\ LeftInv /\ AskInv /\ ResultInv
                  /\ WakeInv /\ OpenInv /\ MadeInv
<1>1. ASSUME TypeInv, LeftInv, AskInv, ResultInv, WakeInv, OpenInv, MadeInv, Running
      PROVE  NobodyWaitsInVain
  <2>a. /\ main \in MainPlaces /\ threads \in 1 .. MaxThreads /\ workload \in Workloads
        /\ mutex \in Clients \cup {NoServer} /\ ready_mutex \in Clients \cup {NoThread}
        /\ Workers \subseteq Clients /\ step \in Nat
    BY <1>1, ArrivedIsFinite DEF TypeInv, TypeOK, SocketTypeOK
  <2>b. main \notin {"exit", "killed", "stuck"}
    BY <1>1 DEF Running
  <2>c. \A w \in Clients : worker[w] \in {"timed", "await"} =>
            main \in {"start", "notify", "join"} /\ w \in Workers
    BY <1>1, <2>b DEF TypeInv, BarrierInv, TimedInWindow, WindowInv, BegunInv
  <2>1. ASSUME main = "blocked" PROVE \E w \in Workers : worker[w] = "created"
    <3>1. SUFFICES ASSUME \A w \in Workers : worker[w] # "created" PROVE FALSE
      OBVIOUS
    <3>2. Arrived = Workers
      BY <1>1, <2>1, <2>a, <3>1 DEF WakeInv, AtBarrier, Arrived, TypeInv, BarrierInv, BegunInv
    <3>3. Cardinality(0 .. threads - 1) = threads
      BY <2>a, FS_Interval, ThreadsAssumption
    <3>4. ready_count = threads
      BY <1>1, <3>2, <3>3 DEF TypeInv, OrderInv, Workers
    <3> QED
      BY <1>1, <2>1, <3>4 DEF WakeInv
  <2>2. ASSUME NEW w \in Clients, worker[w] = "timed", ~shared PROVE client[w] = "open"
    BY <1>1, <2>2, <2>c DEF OpenInv, Measuring
  <2>3. ASSUME NEW c \in Clients, Awaiting(c), InPlay PROVE WillAnswer(c)
    BY <1>1, <2>3 DEF ResultInv, ClientInv, Playing
  <2>4. ASSUME NEW w \in Clients, worker[w] = "await" PROVE WillAnswer(w)
    <3>1. main \in {"start", "notify", "join"} /\ ~shared
      BY <1>1, <2>4, <2>c DEF AskInv
    <3> QED
      BY <2>3, <2>4, <3>1 DEF Awaiting, InPlay
  <2>5. ASSUME main \in {"single", "await"}
        PROVE  MainClient(step) \in Workers /\ MainClient(step) \in Clients
    <3>1. step \in 1 .. MainJobs
      BY <1>1, <2>5 DEF TypeInv, OrderInv
    <3> QED
      BY <2>a, <3>1, MainJobIsJob
  <2>6. ASSUME main = "single", ~shared PROVE client[MainClient(step)] = "open"
    BY <1>1, <2>5, <2>6 DEF OpenInv
  <2>7. ASSUME main = "await" PROVE WillAnswer(MainClient(step))
    <3>1. InPlay
      BY <1>1, <2>7 DEF AskInv, InPlay
    <3>2. PICK c \in Clients : c = MainClient(step)
      BY <2>5, <2>7
    <3>3. WillAnswer(c)
      BY <2>3, <2>7, <3>1, <3>2 DEF Awaiting
    <3> QED
      BY <3>2, <3>3
  <2>8. ASSUME mutex # NoServer PROVE server[mutex] = "sending"
    BY <1>1, <2>a, <2>8 DEF LeftInv
  <2>9. ASSUME main = "destroy", ~ToHangUp, NEW c \in Clients, Joinable(c) PROVE client[c] = "closed"
    <3>1. client[c] # "open"
      <4>1. SUFFICES ASSUME client[c] = "open" PROVE FALSE
        OBVIOUS
      <4>2. ~(c < step) /\ c \in Nat /\ c < MaxThreads
        BY <1>1, <2>9, <4>1, ClientsAssumption, ThreadsAssumption DEF LeftInv
      <4>3. step \in Clients /\ step <= c
        BY <2>a, <4>2, ClientsAssumption, ThreadsAssumption
      <4>4. client[step] = "open"
        BY <1>1, <2>9, <2>a, <4>1, <4>3 DEF LeftInv
      <4> QED
        BY <2>9, <4>3, <4>4 DEF ToHangUp
    <3>2. client[c] # "none" /\ client \in [Clients -> {"none", "open", "closed"}]
      BY <1>1, <2>9 DEF MadeInv, TypeInv, TypeOK, SocketTypeOK
    <3> QED
      BY <3>1, <3>2
  <2>10. /\ \A w \in Clients : /\ worker[w] = "parking" => ~start
                               /\ worker[w] = "blocked" => ~start \/ main = "notify"
         /\ ready_mutex # NoThread => worker[ready_mutex] = "parking"
    BY <1>1, <2>a DEF WakeInv
  <2> QED
    BY <2>1, <2>2, <2>4, <2>6, <2>7, <2>8, <2>9, <2>10 DEF NobodyWaitsInVain
<1>2. All => NobodyWaitsInVain
  BY <1>1 DEF NobodyWaitsInVain
<1>3. All /\ [Next]_vars => All'
  BY TypeStep, LeftStep, AskStep, ResultStep, WakeStep, OpenStep, MadeStep
<1>4. Init => All
  BY TypeInit, LeftInit, AskInit, ResultInit, WaitInit, MadeInit
<1> QED
  BY <1>2, <1>3, <1>4, PTL DEF Spec
=============================================================================
