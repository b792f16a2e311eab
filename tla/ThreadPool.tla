----------------------------- MODULE ThreadPool -----------------------------
(***************************************************************************)
(* The thread pool (thread.c) and the life of the process around it: main  *)
(* creates the pool (option_create), pushes its single job, main_loop,     *)
(* waits for it, and frees everything; or start-up fails and the pool is   *)
(* freed at once.                                                          *)
(*                                                                         *)
(* A critical section is one step, except where memory can be freed inside *)
(* it: the last one of thread_do.  Reads outside any lock (of              *)
(* threads_keep_alive, of thread_alive_count by thread_pool_free) are      *)
(* steps of their own.                                                     *)
(***************************************************************************)
EXTENDS Integers, FiniteSets

CONSTANTS
    Workers,       (* the threads of the pool                               *)
    NoThread,      (* no thread: nobody holds the mutex                     *)
    InitialSem     (* what malloc may leave in has_jobs->state_value, which *)
                   (* binary_sem_create never sets; not 1 is all one        *)

ASSUME PoolAssumption ==
    /\ IsFiniteSet(Workers)
    /\ NoThread \notin Workers
    /\ InitialSem \subseteq {0, 1}

VARIABLES
    main,          (* where main() is                                       *)
    worker,        (* where each thread_do is                               *)
    threads_keep_alive,
    has_jobs,      (* job_queue->has_jobs->state_value                      *)
    job_count,     (* job_queue->job_count                                  *)
    thread_alive_count,
    thread_working_count,
    count_mutex,   (* the thread that holds thread_count_mutex, if any      *)
    returned,      (* main_loop has returned                                *)
    freed,         (* which of "queue" and "pool" have been freed           *)
    running        (* FALSE once the process has crashed                    *)

counts == <<thread_alive_count, thread_working_count>>
vars == <<main, worker, threads_keep_alive, has_jobs, job_count, counts,
          count_mutex, returned, freed, running>>

MainSteps == {"create", "created", "wait", "blocked", "stop", "drain",
              "free_queue", "free_pool", "leave", "end"}
WorkerSteps == {"unborn", "born", "loop", "semwait", "check", "count", "pull",
                "run", "finish", "exit", "unlock", "gone"}

Init ==
    /\ main = "create"
    /\ worker = [w \in Workers |-> "unborn"]
    /\ threads_keep_alive = TRUE
    /\ has_jobs \in InitialSem
    /\ job_count = 0
    /\ thread_alive_count = 0 /\ thread_working_count = 0
    /\ count_mutex = NoThread
    /\ returned = FALSE
    /\ freed = {}
    /\ running = TRUE

Up == running /\ main # "end"

-----------------------------------------------------------------------------
(* main().                                                                 *)

(* thread_create: pthread_create does not wait for the thread to start. *)
thread_create ==
    /\ Up /\ main = "create"
    /\ \E w \in Workers :
         /\ worker[w] = "unborn"
         /\ worker' = [worker EXCEPT ![w] = "born"]
    /\ UNCHANGED <<main, threads_keep_alive, has_jobs, job_count, counts,
                   count_mutex, returned, freed, running>>

PoolCreated ==
    /\ Up /\ main = "create"
    /\ \A w \in Workers : worker[w] # "unborn"
    /\ main' = "created"
    /\ UNCHANGED <<worker, threads_keep_alive, has_jobs, job_count, counts,
                   count_mutex, returned, freed, running>>

(* The rest of option_create fails, or get_options does: option_free. *)
StartFails ==
    /\ Up /\ main = "created"
    /\ main' = "stop"
    /\ UNCHANGED <<worker, threads_keep_alive, has_jobs, job_count, counts,
                   count_mutex, returned, freed, running>>

MutantNoPost ==
    /\ Up /\ main = "created"
    /\ main' = "wait"
    /\ job_count' = job_count + 1
    /\ UNCHANGED <<worker, threads_keep_alive, has_jobs, counts, count_mutex,
                   returned, freed, running>>

(* job_queue_push and the binary_sem_post in it *)
thread_pool_add_work ==
    /\ Up /\ main = "created"
    /\ main' = "wait"
    /\ job_count' = job_count + 1
    /\ has_jobs' = 1
    /\ UNCHANGED <<worker, threads_keep_alive, counts, count_mutex, returned,
                   freed, running>>

MutantIgnoresWorking == job_count > 0

Busy == job_count > 0 \/ thread_working_count > 0

(* The test of the loop, and pthread_cond_wait when it holds. *)
thread_pool_wait ==
    /\ Up /\ main = "wait"
    /\ count_mutex = NoThread
    /\ main' = IF Busy THEN "blocked" ELSE "stop"
    /\ UNCHANGED <<worker, threads_keep_alive, has_jobs, job_count, counts,
                   count_mutex, returned, freed, running>>

MutantKeepsAlive ==
    /\ Up /\ main = "stop"
    /\ main' = "drain"
    /\ UNCHANGED <<worker, threads_keep_alive, has_jobs, job_count, counts,
                   count_mutex, returned, freed, running>>

(* thread_pool_free *)
StopThreads ==
    /\ Up /\ main = "stop"
    /\ main' = "drain"
    /\ threads_keep_alive' = FALSE
    /\ UNCHANGED <<worker, has_jobs, job_count, counts, count_mutex, returned,
                   freed, running>>

MutantSilent ==
    /\ Up /\ main = "drain" /\ thread_alive_count > 0
    /\ UNCHANGED vars

binary_sem_post_broadcast ==
    /\ Up /\ main = "drain"
    /\ thread_alive_count > 0
    /\ has_jobs' = 1
    /\ UNCHANGED <<main, worker, threads_keep_alive, job_count, counts,
                   count_mutex, returned, freed, running>>

Drained ==
    /\ Up /\ main = "drain"
    /\ thread_alive_count = 0
    /\ main' = "free_queue"
    /\ UNCHANGED <<worker, threads_keep_alive, has_jobs, job_count, counts,
                   count_mutex, returned, freed, running>>

job_queue_free ==
    /\ Up /\ main = "free_queue"
    /\ main' = "free_pool"
    /\ job_count' = 0
    /\ freed' = freed \cup {"queue"}
    /\ UNCHANGED <<worker, threads_keep_alive, has_jobs, counts, count_mutex,
                   returned, running>>

PoolFreed ==
    /\ Up /\ main = "free_pool"
    /\ main' = "leave"
    /\ freed' = freed \cup {"pool"}
    /\ UNCHANGED <<worker, threads_keep_alive, has_jobs, job_count, counts,
                   count_mutex, returned, running>>

(* The rest of option_free, and the return from main(). *)
ProcessExits ==
    /\ Up /\ main = "leave"
    /\ main' = "end"
    /\ UNCHANGED <<worker, threads_keep_alive, has_jobs, job_count, counts,
                   count_mutex, returned, freed, running>>

-----------------------------------------------------------------------------
(* thread_do, for thread w.                                                *)

Goes(w, from, to) ==
    /\ Up /\ worker[w] = from
    /\ worker' = [worker EXCEPT ![w] = to]

MutantNotCounted(w) ==
    /\ Goes(w, "born", "loop")
    /\ "pool" \notin freed /\ count_mutex = NoThread
    /\ UNCHANGED <<main, threads_keep_alive, has_jobs, job_count, counts,
                   count_mutex, returned, freed, running>>

Start(w) ==
    /\ Goes(w, "born", "loop")
    /\ "pool" \notin freed /\ count_mutex = NoThread
    /\ thread_alive_count' = thread_alive_count + 1
    /\ UNCHANGED <<main, threads_keep_alive, has_jobs, job_count,
                   thread_working_count, count_mutex, returned, freed, running>>

(* while (threads_keep_alive == TRUE) *)
Loop(w) ==
    /\ Goes(w, "loop", IF threads_keep_alive THEN "semwait" ELSE "exit")
    /\ UNCHANGED <<main, threads_keep_alive, has_jobs, job_count, counts,
                   count_mutex, returned, freed, running>>

(* A waiter that is not signalled finds the value 0, so the signals of     *)
(* binary_sem_post need no state of their own.                             *)
binary_sem_wait(w) ==
    /\ Goes(w, "semwait", "check")
    /\ has_jobs = 1
    /\ has_jobs' = 0
    /\ UNCHANGED <<main, threads_keep_alive, job_count, counts, count_mutex,
                   returned, freed, running>>

Check(w) ==
    /\ Goes(w, "check", IF threads_keep_alive THEN "count" ELSE "exit")
    /\ UNCHANGED <<main, threads_keep_alive, has_jobs, job_count, counts,
                   count_mutex, returned, freed, running>>

Count(w) ==
    /\ Goes(w, "count", "pull")
    /\ count_mutex = NoThread
    /\ thread_working_count' = thread_working_count + 1
    /\ UNCHANGED <<main, threads_keep_alive, has_jobs, job_count,
                   thread_alive_count, count_mutex, returned, freed, running>>

MutantRepost(w) ==
    /\ Goes(w, "pull", "run")
    /\ job_count = 1
    /\ job_count' = 0
    /\ has_jobs' = 1
    /\ UNCHANGED <<main, threads_keep_alive, counts, count_mutex, returned,
                   freed, running>>

(* main() pushes one job, so job_count is 1 or, without a job, 0. *)
job_queue_pull(w) ==
    /\ Goes(w, "pull", "run")
    /\ job_count = 1
    /\ job_count' = 0
    /\ UNCHANGED <<main, threads_keep_alive, has_jobs, counts, count_mutex,
                   returned, freed, running>>

(* job_queue_pull of an empty queue follows a NULL front_job. *)
PullNothing(w) ==
    /\ Up /\ worker[w] = "pull" /\ job_count = 0
    /\ running' = FALSE
    /\ UNCHANGED <<main, worker, threads_keep_alive, has_jobs, job_count,
                   counts, count_mutex, returned, freed>>

(* main_loop returns when epoll_wait fails. *)
JobReturns(w) ==
    /\ Goes(w, "run", "finish")
    /\ returned' = TRUE
    /\ UNCHANGED <<main, threads_keep_alive, has_jobs, job_count, counts,
                   count_mutex, freed, running>>

MutantNoSignal(w) ==
    /\ Goes(w, "finish", "loop")
    /\ count_mutex = NoThread
    /\ thread_working_count' = thread_working_count - 1
    /\ UNCHANGED <<main, threads_keep_alive, has_jobs, job_count,
                   thread_alive_count, count_mutex, returned, freed, running>>

(* The last worker to finish signals threads_all_idle. *)
Finish(w) ==
    /\ Goes(w, "finish", "loop")
    /\ count_mutex = NoThread
    /\ thread_working_count' = thread_working_count - 1
    /\ main' = IF main = "blocked" /\ thread_working_count = 1
               THEN "wait" ELSE main
    /\ UNCHANGED <<threads_keep_alive, has_jobs, job_count, thread_alive_count,
                   count_mutex, returned, freed, running>>

Leave(w) ==
    /\ Goes(w, "exit", "unlock")
    /\ "pool" \notin freed /\ count_mutex = NoThread
    /\ thread_alive_count' = thread_alive_count - 1
    /\ count_mutex' = w
    /\ UNCHANGED <<main, threads_keep_alive, has_jobs, job_count,
                   thread_working_count, returned, freed, running>>

Unlock(w) ==
    /\ Goes(w, "unlock", "gone")
    /\ "pool" \notin freed
    /\ count_mutex' = NoThread
    /\ UNCHANGED <<main, threads_keep_alive, has_jobs, job_count, counts,
                   returned, freed, running>>

(* The thread touches the mutex of a freed pool: when that does not crash  *)
(* the process, the thread does nothing that matters any more.             *)
UseAfterFree(w) ==
    /\ Up /\ worker[w] \in {"born", "exit", "unlock"}
    /\ "pool" \in freed
    /\ running' = FALSE
    /\ UNCHANGED <<main, worker, threads_keep_alive, has_jobs, job_count,
                   counts, count_mutex, returned, freed>>

-----------------------------------------------------------------------------
MainNext ==
    \/ thread_create \/ PoolCreated \/ StartFails \/ thread_pool_add_work
    \/ thread_pool_wait \/ StopThreads \/ binary_sem_post_broadcast \/ Drained
    \/ job_queue_free \/ PoolFreed \/ ProcessExits

thread_do(w) ==
    \/ Start(w) \/ Loop(w) \/ binary_sem_wait(w) \/ Check(w) \/ Count(w)
    \/ job_queue_pull(w) \/ PullNothing(w) \/ Finish(w) \/ Leave(w) \/ Unlock(w)

Next ==
    \/ MainNext
    \/ \E w \in Workers : thread_do(w) \/ JobReturns(w) \/ UseAfterFree(w)

(* The scheduler runs every thread.  main_loop need not return. *)
Fairness == WF_vars(MainNext) /\ \A w \in Workers : WF_vars(thread_do(w))

Spec == Init /\ [][Next]_vars
FairSpec == Spec /\ Fairness

-----------------------------------------------------------------------------
TypeOK ==
    /\ main \in MainSteps
    /\ worker \in [Workers -> WorkerSteps]
    /\ threads_keep_alive \in BOOLEAN
    /\ has_jobs \in {0, 1}
    /\ job_count \in {0, 1}
    /\ thread_alive_count \in 0 .. Cardinality(Workers)
    /\ thread_working_count \in 0 .. Cardinality(Workers)
    /\ count_mutex \in Workers \cup {NoThread}
    /\ returned \in BOOLEAN
    /\ freed \subseteq {"queue", "pool"}
    /\ running \in BOOLEAN

(* A thread that pulls finds the job: the semaphore never lets more        *)
(* threads through than there are jobs (thread.c:166, thread.c:194).       *)
PullFindsJob == \A w \in Workers : worker[w] = "pull" => job_count = 1

(* The job queue is not freed while a thread still uses it, although       *)
(* thread_pool_free reads thread_alive_count without its lock and threads  *)
(* may start while it does (thread.c:392-406).                             *)
QueueUsers == {"semwait", "check", "count", "pull", "run", "finish"}
QueueOutlivesUsers ==
    "queue" \in freed => \A w \in Workers : worker[w] \notin QueueUsers

(* The pool is finished before it is freed: no thread is left that will    *)
(* still touch it ("Finishing all jobs of thread pool first",              *)
(* option.c:122).                                                          *)
PoolOutlivesThreads ==
    "pool" \in freed =>
        \A w \in Workers : worker[w] \notin {"born", "exit", "unlock"}

(* main() sees its job through: it is taken once, and main() leaves        *)
(* thread_pool_wait only when main_loop has returned, whatever the order   *)
(* of the counters' updates and the wake-ups (thread.c:429-444).           *)
Job ==
    CASE returned -> "returned"
      [] ~returned /\ \E w \in Workers : worker[w] = "run" -> "running"
      [] ~returned /\ job_count = 1 -> "queued"
      [] OTHER -> "none"

Owner ==
    CASE main \in {"create", "created"} -> "before"
      [] main \in {"wait", "blocked"} -> "waiting"
      [] OTHER -> "done"

Promise == INSTANCE JobPromise WITH job <- Job, owner <- Owner
PromiseKept == Promise!Spec

(* Nobody waits for a wake-up that has been: as long as the job is queued, *)
(* the semaphore is posted or has let a thread through that will pull it,  *)
(* and main() is blocked only while the job is queued or a thread is       *)
(* working, which will signal it (thread.c:159, thread.c:280, :437).       *)
NoLostWakeUp ==
    /\ job_count = 1 =>
          \/ has_jobs = 1
          \/ \E w \in Workers : worker[w] \in {"check", "count", "pull"}
    /\ main = "blocked" =>
          \/ job_count = 1
          \/ \E w \in Workers : worker[w] \in {"pull", "run", "finish"}

(* A pushed job is taken by some thread: the wake-up is not lost, unless a *)
(* thread has crashed the process on the queue while it was empty.         *)
JobTaken ==
    job_count = 1 ~> ((\E w \in Workers : worker[w] = "run") \/ ~running)

(* When the job has returned, main() gets out of thread_pool_wait, unless  *)
(* the process has crashed.                                                *)
MainResumes == returned ~> (main \notin {"wait", "blocked"} \/ ~running)

(* thread_pool_free ends: every thread that was counted leaves, and main() *)
(* returns, unless the process crashes on the way.                         *)
Shutdown == main = "stop" ~> (main = "end" \/ ~running)
=============================================================================
