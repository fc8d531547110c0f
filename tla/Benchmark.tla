------------------------------ MODULE Benchmark ------------------------------
(***************************************************************************)
(* memsync_benchmark: measurements of the shared-memory cache and of the   *)
(* socket cache in turn.  run_measurement prepares the cache, warms it up  *)
(* from the main thread, starts the workers, which wait at a barrier of    *)
(* one mutex and one condition variable, times them, and adds up their     *)
(* failures; then the socket cache is destroyed.                           *)
(*                                                                         *)
(* On the shared cache an operation is one step of KVCache's map, which    *)
(* CacheEngine implements; three keys without a TTL never fill it.         *)
(* <Definition>_<Mistake> is <Definition> with a plausible mistake.        *)
(***************************************************************************)
EXTENDS SocketCache

CONSTANTS
    MaxThreads,     \* most workers; clients are 0 .. MaxThreads - 1
    ThreadCounts,   \* thread_counts
    Workloads,      \* the workloads run
    WarmUp,         \* warm-up operations per worker
    OpsPerThread,   \* operations_per_thread
    Main,           \* the main thread, as holder of ready_mutex
    NoThread,       \* holder of the free ready_mutex
    Rounds,         \* BOUND: measurements
    MaxUpsets       \* BOUND: failing system calls and spurious wake-ups

ASSUME ClientsAssumption == Clients = 0 .. MaxThreads - 1
ASSUME ThreadsAssumption == MaxThreads \in Nat \ {0} /\ ThreadCounts \subseteq 1 .. MaxThreads
ASSUME HoldersAssumption == {Main, NoThread, NoServer} \cap Clients = {} /\ Main # NoThread
ASSUME CountsAssumption  == /\ {WarmUp, OpsPerThread} \subseteq Nat \ {0}
                            /\ {Rounds, MaxUpsets} \subseteq Nat
ASSUME WorkloadsAssumption ==
    /\ Workloads # {} /\ Workloads \subseteq {"get_hit", "get_miss", "put_update", "mixed"}
    /\ Values # {} /\ {"hit", "miss", "put", "update"} \subseteq Keys \ {Other}

VARIABLES
    main,           \* the main thread's place in the code
    step,           \* its loop counter
    rounds,         \* measurements begun
    shared, workload, payload, threads,     \* arguments of run_measurement
    engine,         \* the map in the shared cache
    worker,         \* per worker: place in the code
    index,          \* per worker: its loop counter
    failures,       \* per worker: its failed operations
    ready_mutex, ready_count, start,        \* the barrier
    window,         \* before, open or closed: `begin' and `end' are taken
    reported,       \* result.failures
    failed,         \* failed of main, in the end the exit code
    wakeups,        \* spurious wake-ups
    faults,         \* system calls that have failed;
    spoilt,         \* in this measurement, clients and workers that one of
                    \*   them has hit, on either side of the socket,
    hurt,           \*   and how many operations had to fail for it;
    trouble         \* whether the latter, or a set-up or the last unlink, failed

mainVars    == <<main, step>>
roundVars   == <<rounds, shared, workload, payload, threads>>
workerVars  == <<worker, index, failures>>
barrierVars == <<ready_mutex, ready_count, start, window, wakeups>>
resultVars  == <<reported, failed>>
faultVars   == <<faults, spoilt, hurt, trouble>>
vars == <<socketVars, mainVars, roundVars, engine, workerVars, barrierVars,
          resultVars, faultVars>>

Workers == 0 .. threads - 1

-----------------------------------------------------------------------------
\* The workloads.

\* expected_result: operation and key number i of a workload.
Planned(i) ==
    LET mixed == <<[op |-> "G", key |-> "hit"],  [op |-> "G", key |-> "miss"],
                   [op |-> "P", key |-> "put"],  [op |-> "U", key |-> "update"]>>
    IN  CASE workload = "get_hit"    -> mixed[1]
          [] workload = "get_miss"   -> mixed[2]
          [] workload = "put_update" -> mixed[3 + (i % 2)]
          [] workload = "mixed"      -> mixed[1 + (i % 4)]

RequestOf(job) == [op |-> job.op, key |-> job.key, value |-> payload]

\* Is res what the operation should give?
Correct(job, res) ==
    LET shouldSucceed == job.op # "G" \/ job.key = "hit"
    IN  /\ res.status = (IF shouldSucceed THEN 1 ELSE 0)
        /\ (job.op = "G" /\ shouldSucceed) => (res.value = payload)

\* The key of the updates is not prepared.
Preparation_HitOnly == <<[op |-> "P", key |-> "hit"], [op |-> "P", key |-> "hit"]>>

\* The main thread's operations: prepare_shared or prepare_socket, then the
\* warm-up of each worker in turn.
Preparation == <<[op |-> "P", key |-> "hit"], [op |-> "P", key |-> "update"]>>

MainJobs == 2 + threads * WarmUp

MainClient(i) == IF i <= 2 THEN 0 ELSE (i - 3) \div WarmUp

MainJob(i) == IF i <= 2 THEN Preparation[i]
              ELSE Planned(((i - 3) % WarmUp) + MainClient(i))

WorkerJob(w) == Planned(index[w] + w)

-----------------------------------------------------------------------------

Init == /\ NoCache
        /\ main = "open" /\ step = 0 /\ rounds = 0
        /\ shared = FALSE /\ threads = 1
        /\ workload = CHOOSE wl \in Workloads : TRUE
        /\ payload = CHOOSE v \in Values : TRUE
        /\ engine = [k \in Keys |-> Absent]
        /\ worker = [w \in Clients |-> "none"]
        /\ index = [w \in Clients |-> 0]
        /\ failures = [w \in Clients |-> 0]
        /\ ready_mutex = NoThread /\ ready_count = 0 /\ start = FALSE
        /\ window = "before" /\ wakeups = 0
        /\ reported = 0 /\ failed = FALSE
        /\ faults = 0 /\ trouble = FALSE
        /\ spoilt = [c \in Clients |-> FALSE]
        /\ hurt = [c \in Clients |-> 0]

Running == main \notin {"exit", "killed", "stuck"}

MainTo(l, i) == main' = l /\ step' = i

Upsettable == faults + wakeups < MaxUpsets

Fault == Upsettable /\ faults' = faults + 1

\* A call fails that a set-up, or the removal of the shared cache, needs.
SetUpFault == Fault /\ trouble' = TRUE /\ UNCHANGED <<spoilt, hurt>>

\* A call on the way of client c's operations fails, and with it the operation
\* under way if `loses' says so.
OperationFault(c, loses) ==
    /\ Fault
    /\ spoilt' = [spoilt EXCEPT ![c] = TRUE]
    /\ hurt' = IF loses THEN [hurt EXCEPT ![c] = @ + 1] ELSE hurt
    /\ trouble' = (trouble \/ loses)

-----------------------------------------------------------------------------
\* main's loop.

\* cache_open_shared.
OpenCache ==
    /\ main = "open"
    /\ MainTo("next", 0)
    /\ UNCHANGED <<socketVars, roundVars, engine, workerVars, barrierVars, resultVars, faultVars>>

OpenCacheFails ==
    /\ main = "open"
    /\ SetUpFault
    /\ MainTo("exit", 0)
    /\ failed' = TRUE
    /\ UNCHANGED <<socketVars, roundVars, engine, workerVars, barrierVars, reported>>

\* The loops of main run the shared cache, then the socket cache, with the
\* same workload, payload and number of threads.
NextMeasurement ==
    /\ main = "next" /\ rounds < Rounds
    /\ rounds' = rounds + 1
    /\ shared' = ~shared
    /\ IF shared THEN UNCHANGED <<workload, payload, threads>>
       ELSE workload' \in Workloads /\ payload' \in Values /\ threads' \in ThreadCounts
    /\ IF shared THEN Construct /\ MainTo("connect", 0)
       ELSE UNCHANGED socketVars /\ MainTo("single", 1)
    /\ worker' = [w \in Clients |-> "none"]
    /\ index' = [w \in Clients |-> 0]
    /\ failures' = [w \in Clients |-> 0]
    /\ ready_mutex' = NoThread /\ ready_count' = 0 /\ start' = FALSE
    /\ window' = "before"
    /\ reported' = 0
    /\ spoilt' = [c \in Clients |-> FALSE]
    /\ hurt' = [c \in Clients |-> 0]
    /\ UNCHANGED <<engine, failed, faults, trouble, wakeups>>

\* cache_close_shared and shm_unlink.
Exit ==
    /\ main = "next" /\ rounds = Rounds
    /\ MainTo("exit", 0)
    /\ UNCHANGED <<socketVars, roundVars, engine, workerVars, barrierVars, resultVars, faultVars>>

UnlinkFails ==
    /\ main = "next" /\ rounds = Rounds
    /\ SetUpFault
    /\ MainTo("exit", 0)
    /\ failed' = TRUE
    /\ UNCHANGED <<socketVars, roundVars, engine, workerVars, barrierVars, reported>>

\* LocalSocketCache's constructor, one client at a time.
ConnectClient ==
    /\ main = "connect"
    /\ IF step < threads THEN Connect(step) /\ MainTo("connect", step + 1)
       ELSE UNCHANGED socketVars /\ MainTo("single", 1)
    /\ UNCHANGED <<roundVars, engine, workerVars, barrierVars, resultVars, faultVars>>

\* It throws: the clients made so far are shut down, and main goes on with
\* the next measurement.
ConnectFails ==
    /\ main = "connect" /\ step < threads
    /\ SetUpFault
    /\ \/ UNCHANGED socketVars              \* socketpair fails
       \/ ConnectWithoutThread(step)
    /\ MainTo("destroy", 0)
    /\ failed' = TRUE
    /\ UNCHANGED <<roundVars, engine, workerVars, barrierVars, reported>>

\* Only the last measurement's failures decide the exit code.
Report_ForgetsEarlier ==
    /\ main = "report"
    /\ IF shared THEN MainTo("next", 0) /\ failed' = (reported # 0)
       ELSE MainTo("destroy", 0) /\ UNCHANGED failed
    /\ UNCHANGED <<socketVars, roundVars, engine, workerVars, barrierVars, reported, faultVars>>

\* run_measurement returns a result, which main looks at once the socket
\* cache is gone.
Report ==
    /\ main = "report"
    /\ IF shared THEN /\ MainTo("next", 0)
                      /\ failed' = (failed \/ reported # 0)
       ELSE MainTo("destroy", 0) /\ UNCHANGED failed
    /\ UNCHANGED <<socketVars, roundVars, engine, workerVars, barrierVars, reported, faultVars>>

\* shutdown_clients: `Q', shutdown and close for one client after the other.
ToHangUp == main = "destroy" /\ step \in Clients /\ client[step] = "open"

SayQuit ==
    /\ ToHangUp
    /\ Write(step, Quit)
    /\ MainTo("close", step)
    /\ UNCHANGED <<roundVars, engine, workerVars, barrierVars, resultVars, faultVars>>

\* The result of the write is ignored.
SayQuitFails ==
    /\ ToHangUp
    /\ WriteFails(step, Quit)
    /\ OperationFault(step, FALSE)
    /\ MainTo("close", step)
    /\ UNCHANGED <<roundVars, engine, workerVars, barrierVars, resultVars>>

CloseClient ==
    /\ main = "close"
    /\ HangUp(step)
    /\ MainTo("destroy", step + 1)
    /\ UNCHANGED <<roundVars, engine, workerVars, barrierVars, resultVars, faultVars>>

Destroy ==
    /\ main = "destroy" /\ ~ToHangUp
    /\ Join
    /\ MainTo("next", 0)
    /\ failed' = (failed \/ reported # 0)
    /\ UNCHANGED <<roundVars, engine, workerVars, barrierVars, reported, faultVars>>

-----------------------------------------------------------------------------
\* Operations of the main thread, before there are workers.

MainJobDone(ok) ==
    IF ok THEN MainTo(IF step < MainJobs THEN "single" ELSE "spawn",
                      IF step < MainJobs THEN step + 1 ELSE 0) /\ UNCHANGED reported
    ELSE MainTo("report", 0) /\ reported' = 1

MainShared ==
    /\ main = "single" /\ shared
    /\ LET r == RequestOf(MainJob(step))
       IN  /\ engine' = MapAfter(engine, r)
           /\ MainJobDone(Correct(MainJob(step), AnswerTo(engine, r)))
    /\ UNCHANGED <<socketVars, roundVars, workerVars, barrierVars, failed, faultVars>>

\* The lock fails: the operation returns false, as a sound miss does.
MainLockFails ==
    /\ main = "single" /\ shared
    /\ LET ok == Correct(MainJob(step), Answered(0))
       IN  OperationFault(MainClient(step), ~ok) /\ MainJobDone(ok)
    /\ UNCHANGED <<socketVars, roundVars, engine, workerVars, barrierVars, failed>>

MainSend ==
    /\ main = "single" /\ ~shared
    /\ Write(MainClient(step), RequestOf(MainJob(step)))
    /\ MainTo("await", step)
    /\ UNCHANGED <<roundVars, engine, workerVars, barrierVars, resultVars, faultVars>>

MainSendFails ==
    /\ main = "single" /\ ~shared
    /\ WriteFails(MainClient(step), RequestOf(MainJob(step)))
    /\ OperationFault(MainClient(step), TRUE)
    /\ MainJobDone(FALSE)
    /\ UNCHANGED <<roundVars, engine, workerVars, barrierVars, failed>>

MainReceive ==
    /\ main = "await"
    /\ LET c == MainClient(step)
       IN  \/ Receive(c) /\ \E res \in Results(c) : MainJobDone(Correct(MainJob(step), res))
           \/ ReceiveEnd(c) /\ MainJobDone(FALSE)
    /\ UNCHANGED <<roundVars, engine, workerVars, barrierVars, failed, faultVars>>

MainReceiveFails ==
    /\ main = "await"
    /\ ReceiveFails(MainClient(step))
    /\ OperationFault(MainClient(step), TRUE)
    /\ MainJobDone(FALSE)
    /\ UNCHANGED <<roundVars, engine, workerVars, barrierVars, failed>>

\* A write to a closed peer: no handler and no MSG_NOSIGNAL, so SIGPIPE ends
\* the process.
MainBrokenPipe ==
    /\ \/ main = "single" /\ ~shared /\ PeerClosed(MainClient(step))
       \/ ToHangUp /\ PeerClosed(step)
    /\ MainTo("killed", 0)
    /\ UNCHANGED <<socketVars, roundVars, engine, workerVars, barrierVars, resultVars, faultVars>>

-----------------------------------------------------------------------------
\* The barrier.

\* notify_all wakes every waiting worker, and main, which waits on the same
\* condition variable.
Notified(l) == IF l = "blocked" THEN "woken" ELSE l

Spawn ==
    /\ main = "spawn"
    /\ IF step < threads
       THEN /\ worker' = [worker EXCEPT ![step] = "created"]
            /\ MainTo("spawn", step + 1)
       ELSE MainTo("gather", 0) /\ UNCHANGED worker
    /\ UNCHANGED <<socketVars, roundVars, engine, index, failures, barrierVars,
                   resultVars, faultVars>>

\* std::thread throws.  Before the first worker the exception reaches main's
\* handler.  Later, unwinding destroys a condition variable and a joinable
\* thread: it blocks on the waiting workers, or ends in std::terminate.
SpawnFails ==
    /\ main = "spawn" /\ step < threads
    /\ SetUpFault
    /\ IF step = 0
       THEN MainTo(IF shared THEN "next" ELSE "destroy", 0) /\ failed' = TRUE
       ELSE main' \in {"stuck", "killed"} /\ UNCHANGED <<step, failed>>
    /\ UNCHANGED <<socketVars, roundVars, engine, workerVars, barrierVars, reported>>

\* With the mutex, the worker looks at start: it goes on, or keeps
\* the mutex until it waits.
Test(w, others) ==
    /\ worker' = [others EXCEPT ![w] = IF start THEN "timed" ELSE "parking"]
    /\ ready_mutex' = IF start THEN NoThread ELSE w

\* notify_one, which may wake a worker instead of main.
Arrive_NotifiesOne(w) ==
    /\ worker[w] = "created" /\ ready_mutex = NoThread
    /\ ready_count' = ready_count + 1
    /\ \/ \E v \in Clients : /\ worker[v] = "blocked" /\ main' = main
                             /\ Test(w, [worker EXCEPT ![v] = "woken"])
       \/ /\ main = "blocked" \/ \A v \in Clients : worker[v] # "blocked"
          /\ main' = IF main = "blocked" THEN "gather" ELSE main
          /\ Test(w, worker)
    /\ UNCHANGED <<socketVars, step, roundVars, engine, index, failures, start, window,
                   wakeups, resultVars, faultVars>>

Arrive(w) ==
    /\ worker[w] = "created" /\ ready_mutex = NoThread
    /\ ready_count' = ready_count + 1
    /\ Test(w, [v \in Clients |-> Notified(worker[v])])
    /\ main' = IF main = "blocked" THEN "gather" ELSE main
    /\ UNCHANGED <<socketVars, step, roundVars, engine, index, failures, start, window,
                   wakeups, resultVars, faultVars>>

\* wait: unlocks and blocks in one step.
Park(w) ==
    /\ worker[w] = "parking"
    /\ worker' = [worker EXCEPT ![w] = "blocked"]
    /\ ready_mutex' = NoThread
    /\ UNCHANGED <<socketVars, mainVars, roundVars, engine, index, failures, ready_count,
                   start, window, wakeups, resultVars, faultVars>>

\* wait without a predicate.
Recheck_NoPredicate(w) ==
    /\ worker[w] = "woken" /\ ready_mutex = NoThread
    /\ worker' = [worker EXCEPT ![w] = "timed"]
    /\ UNCHANGED <<socketVars, mainVars, roundVars, engine, index, failures, barrierVars,
                   resultVars, faultVars>>

\* A worker that is woken counts itself again.
Recheck_CountsAgain(w) ==
    /\ worker[w] = "woken" /\ ready_mutex = NoThread
    /\ Test(w, worker)
    /\ ready_count' = ready_count + 1
    /\ UNCHANGED <<socketVars, mainVars, roundVars, engine, index, failures, start, window,
                   wakeups, resultVars, faultVars>>

\* Another worker's arrival, or main, has woken it: the predicate is tested
\* again.
Recheck(w) ==
    /\ worker[w] = "woken" /\ ready_mutex = NoThread
    /\ Test(w, worker)
    /\ UNCHANGED <<socketVars, mainVars, roundVars, engine, index, failures, ready_count,
                   start, window, wakeups, resultVars, faultVars>>

\* The condition variable wakes somebody whom nobody has notified.
WakeUp ==
    /\ Upsettable /\ wakeups' = wakeups + 1
    /\ \/ main = "blocked" /\ MainTo("gather", 0) /\ UNCHANGED worker
       \/ /\ \E w \in Clients : /\ worker[w] = "blocked"
                                /\ worker' = [worker EXCEPT ![w] = "woken"]
          /\ UNCHANGED mainVars
    /\ UNCHANGED <<socketVars, roundVars, engine, index, failures, ready_mutex, ready_count,
                   start, window, resultVars, faultVars>>

Gather ==
    /\ main = "gather" /\ ready_mutex = NoThread
    /\ MainTo(IF ready_count = threads THEN "begin" ELSE "blocked", 0)
    /\ UNCHANGED <<socketVars, roundVars, engine, workerVars, barrierVars, resultVars, faultVars>>

TakeBegin ==
    /\ main = "begin"
    /\ MainTo("start", 0)
    /\ window' = "open"
    /\ UNCHANGED <<socketVars, roundVars, engine, workerVars, ready_mutex, ready_count, start,
                   wakeups, resultVars, faultVars>>

\* start is set without the mutex.
SetStart_Unlocked ==
    /\ main = "start"
    /\ MainTo("notify", 0)
    /\ start' = TRUE
    /\ UNCHANGED <<socketVars, roundVars, engine, workerVars, ready_mutex, ready_count, window,
                   wakeups, resultVars, faultVars>>

SetStart ==
    /\ main = "start" /\ ready_mutex = NoThread
    /\ MainTo("notify", 0)
    /\ start' = TRUE
    /\ UNCHANGED <<socketVars, roundVars, engine, workerVars, ready_mutex, ready_count, window,
                   wakeups, resultVars, faultVars>>

NotifyWorkers ==
    /\ main = "notify"
    /\ MainTo("join", 0)
    /\ worker' = [w \in Clients |-> Notified(worker[w])]
    /\ UNCHANGED <<socketVars, roundVars, engine, index, failures, barrierVars, resultVars, faultVars>>

JoinWorkers ==
    /\ main = "join"
    /\ \A w \in Workers : worker[w] = "ended"
    /\ MainTo("tally", 0)
    /\ window' = "closed"
    /\ UNCHANGED <<socketVars, roundVars, engine, workerVars, ready_mutex, ready_count, start,
                   wakeups, resultVars, faultVars>>

\* The workers' failures are added up.
Tally ==
    /\ main = "tally"
    /\ IF step < threads
       THEN MainTo("tally", step + 1) /\ reported' = reported + failures[step]
       ELSE MainTo("report", 0) /\ UNCHANGED reported
    /\ UNCHANGED <<socketVars, roundVars, engine, workerVars, barrierVars, failed, faultVars>>

-----------------------------------------------------------------------------
\* The workers' timed operations, on their own clients.

WorkerJobDone(w, ok) ==
    /\ index' = [index EXCEPT ![w] = @ + 1]
    /\ failures' = IF ok THEN failures ELSE [failures EXCEPT ![w] = @ + 1]
    /\ worker' = [worker EXCEPT ![w] =
                     IF index[w] + 1 < OpsPerThread THEN "timed" ELSE "ended"]

WorkerShared(w) ==
    /\ worker[w] = "timed" /\ shared
    /\ LET r == RequestOf(WorkerJob(w))
       IN  /\ engine' = MapAfter(engine, r)
           /\ WorkerJobDone(w, Correct(WorkerJob(w), AnswerTo(engine, r)))
    /\ UNCHANGED <<socketVars, mainVars, roundVars, barrierVars, resultVars, faultVars>>

WorkerLockFails(w) ==
    /\ worker[w] = "timed" /\ shared
    /\ LET ok == Correct(WorkerJob(w), Answered(0))
       IN  OperationFault(w, ~ok) /\ WorkerJobDone(w, ok)
    /\ UNCHANGED <<socketVars, mainVars, roundVars, engine, barrierVars, resultVars>>

WorkerSend(w) ==
    /\ worker[w] = "timed" /\ ~shared
    /\ Write(w, RequestOf(WorkerJob(w)))
    /\ worker' = [worker EXCEPT ![w] = "await"]
    /\ UNCHANGED <<mainVars, roundVars, engine, index, failures, barrierVars, resultVars, faultVars>>

WorkerSendFails(w) ==
    /\ worker[w] = "timed" /\ ~shared
    /\ WriteFails(w, RequestOf(WorkerJob(w)))
    /\ OperationFault(w, TRUE)
    /\ WorkerJobDone(w, FALSE)
    /\ UNCHANGED <<mainVars, roundVars, engine, barrierVars, resultVars>>

WorkerReceive(w) ==
    /\ worker[w] = "await"
    /\ \/ Receive(w) /\ \E res \in Results(w) : WorkerJobDone(w, Correct(WorkerJob(w), res))
       \/ ReceiveEnd(w) /\ WorkerJobDone(w, FALSE)
    /\ UNCHANGED <<mainVars, roundVars, engine, barrierVars, resultVars, faultVars>>

\* The worker goes on to its next operation with this one's response unread.
WorkerReceiveFails(w) ==
    /\ worker[w] = "await"
    /\ ReceiveFails(w)
    /\ OperationFault(w, TRUE)
    /\ WorkerJobDone(w, FALSE)
    /\ UNCHANGED <<mainVars, roundVars, engine, barrierVars, resultVars>>

WorkerBrokenPipe(w) ==
    /\ worker[w] = "timed" /\ ~shared /\ PeerClosed(w)
    /\ MainTo("killed", 0)
    /\ UNCHANGED <<socketVars, roundVars, engine, workerVars, barrierVars, resultVars, faultVars>>

-----------------------------------------------------------------------------
\* The server threads.

Serve(c) ==
    /\ ServerStep(c)
    /\ UNCHANGED <<mainVars, roundVars, engine, workerVars, barrierVars, resultVars, faultVars>>

ServeFails(c) ==
    /\ RespondFails(c) \/ ServeReadFails(c)
    /\ OperationFault(c, FALSE)
    /\ UNCHANGED <<mainVars, roundVars, engine, workerVars, barrierVars, resultVars>>

\* The client has hung up without waiting for its response: SIGPIPE again.
ServerBrokenPipe(c) ==
    /\ server[c] = "sending" /\ client[c] = "closed"
    /\ MainTo("killed", 0)
    /\ UNCHANGED <<socketVars, roundVars, engine, workerVars, barrierVars, resultVars, faultVars>>

MainStep ==
    \/ OpenCache \/ NextMeasurement \/ Exit
    \/ ConnectClient \/ Report \/ SayQuit \/ CloseClient \/ Destroy
    \/ MainShared \/ MainSend \/ MainReceive \/ MainBrokenPipe
    \/ Spawn \/ Gather \/ TakeBegin \/ SetStart \/ NotifyWorkers \/ JoinWorkers \/ Tally

WorkerStep(w) ==
    \/ Arrive(w) \/ Park(w) \/ Recheck(w)
    \/ WorkerShared(w) \/ WorkerSend(w) \/ WorkerReceive(w) \/ WorkerBrokenPipe(w)

ServerThread(c) == Serve(c) \/ ServerBrokenPipe(c)

Failure ==
    \/ OpenCacheFails \/ UnlinkFails \/ ConnectFails \/ SpawnFails
    \/ MainLockFails \/ MainSendFails \/ MainReceiveFails \/ SayQuitFails
    \/ \E c \in Clients : \/ WorkerLockFails(c) \/ WorkerSendFails(c) \/ WorkerReceiveFails(c)
                         \/ ServeFails(c)

ThreadStep == MainStep \/ \E c \in Clients : WorkerStep(c) \/ ServerThread(c)

Next == Running /\ (ThreadStep \/ WakeUp \/ Failure)

Spec == Init /\ [][Next]_vars

\* While some thread of a live process can run, the operating system runs one;
\* nothing has to fail.
FairSpec == Spec /\ WF_vars(Running /\ ThreadStep)

-----------------------------------------------------------------------------
\* Properties.

MainPlaces == {"open", "next", "connect", "single", "await", "spawn", "gather", "blocked", "begin",
               "start", "notify", "join", "tally", "report", "destroy", "close",
               "exit", "killed", "stuck"}

WorkerPlaces == {"none", "created", "parking", "blocked", "woken", "timed", "await", "ended"}

\* Types; no more workers are counted ready than there are, and no worker
\* runs more operations than it should.
TypeOK ==
    /\ SocketTypeOK
    /\ main \in MainPlaces /\ step \in Nat /\ rounds \in 0 .. Rounds
    /\ shared \in BOOLEAN /\ workload \in Workloads /\ payload \in Values
    /\ threads \in 1 .. MaxThreads
    /\ engine \in [Keys -> Values \cup {Absent}]
    /\ worker \in [Clients -> WorkerPlaces]
    /\ index \in [Clients -> 0 .. OpsPerThread]
    /\ failures \in [Clients -> 0 .. OpsPerThread]
    /\ ready_mutex \in Clients \cup {NoThread}
    /\ ready_count \in 0 .. threads /\ start \in BOOLEAN
    /\ window \in {"before", "open", "closed"}
    /\ reported \in Nat /\ failed \in BOOLEAN
    /\ {faults, wakeups} \subseteq Nat /\ faults + wakeups <= MaxUpsets
    /\ trouble \in BOOLEAN
    /\ spoilt \in [Clients -> BOOLEAN] /\ hurt \in [Clients -> Nat]

\* run_measurement takes `begin' before any worker's first timed operation
\* and `end' after the last: workers woken by one another's arrival at the
\* condition variable they share with the main thread do not set off early
\* (benchmark_measurement.cpp:173-178, 219-234).
TimedInWindow ==
    \A w \in Clients :
        /\ worker[w] \in {"timed", "await"} => window = "open"
        /\ window = "closed" /\ w \in Workers => worker[w] = "ended"

\* Failures are told, and stay with those whom they hit.  A worker reports
\* none unless a call of its own, on its stream or of its server has failed:
\* the preparation suffices for every workload, and neither the other
\* workers, however far out of step their streams are, nor what an earlier
\* measurement left in the shared cache spoil its results.  No operation whose
\* own call failed is missing in its count or in the sum
\* (benchmark_measurement.cpp:92-103, 205-214, 237-238).
FailuresTold ==
    /\ \A w \in Clients : worker[w] # "none" => /\ failures[w] > 0 => spoilt[w]
                                               /\ hurt[w] <= failures[w]
    /\ main = "report" => /\ reported > 0 => \E c \in Clients : spoilt[c]
                          /\ \A c \in Clients : hurt[c] <= reported

\* The exit code tells of any operation, set-up or unlink that a failing call
\* has made fail, in whichever measurement, and nothing but a failing call sets
\* it, kills the benchmark or blocks it (cache_benchmark.cpp:80-84, 123-128,
\* 165, 173-177).
ExitCodeTells ==
    /\ main = "exit" => (trouble => failed) /\ (failed => faults > 0)
    /\ main \in {"killed", "stuck"} => faults > 0

\* Once a socket cache is destroyed no server thread is left, its sockets are
\* closed and its mutex is free, so the next measurement starts from nothing
\* (benchmark_socket.cpp:118-134).  A client whose server thread could not
\* be created keeps its peer open for ever.
NothingLeft ==
    main = "next" => /\ \A c \in Clients : /\ client[c] # "open"
                                           /\ server[c] \in {"none", "joined", "orphan"}
                     /\ mutex = NoServer

\* Whoever waits, waits for somebody who can go on, for any number of workers:
\* main, blocked at the barrier, for a worker that has yet to arrive, and a
\* blocked worker for `start' or for the notification right after it (no wake-up
\* is lost, benchmark_measurement.cpp:173-178, 219-228); a thread at ready_mutex
\* for a worker about to wait, and a server at mutex_ for one that is sending; a
\* client, also one out of step, for a response that is there or under way, or for
\* an end of file; and the destructor's joins for servers whose clients have hung
\* up (benchmark_socket.cpp:78-134).
WillAnswer(c) == \/ HasResponse(c) \/ PeerClosed(c) \/ server[c] = "sending"
                 \/ server[c] = "reading" /\ request[c] # <<>> /\ Head(request[c]) # Quit

NobodyWaitsInVain ==
    Running =>
        /\ main = "blocked" => \E w \in Workers : worker[w] = "created"
        /\ \A w \in Clients : /\ worker[w] = "parking" => ~start
                              /\ worker[w] = "blocked" => ~start \/ main = "notify"
                              /\ worker[w] = "timed" /\ ~shared => client[w] = "open"
                              /\ worker[w] = "await" => WillAnswer(w)
        /\ ready_mutex # NoThread => worker[ready_mutex] = "parking"
        /\ mutex # NoServer => server[mutex] = "sending"
        /\ main = "single" /\ ~shared => client[MainClient(step)] = "open"
        /\ main = "await" => WillAnswer(MainClient(step))
        /\ main = "destroy" /\ ~ToHangUp => \A c \in Clients : Joinable(c) => client[c] = "closed"

\* The benchmark ends: no wake-up of the barrier is lost, no request waits
\* for ever for its response or for the mutex, and no server outlives its
\* client (benchmark_measurement.cpp:219-232, benchmark_socket.cpp:78-134).
\* A process that a failing system call has killed or blocked is excepted.
BenchmarkEnds == <>(~Running)
=============================================================================
