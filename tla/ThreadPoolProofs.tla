-------------------------- MODULE ThreadPoolProofs --------------------------
(***************************************************************************)
(* Proofs about the thread pool, for any number of workers.                *)
(*                                                                         *)
(* The inductive invariant Inv says what the two counters count (Counted,  *)
(* AtWork), how far main() is when the pool has been told to stop          *)
(* (Stopping), and where the single job is (JobPlace).  Tokens and Vain    *)
(* count what the semaphore has let through beyond the jobs there are,     *)
(* whatever it starts with.                                                *)
(***************************************************************************)
EXTENDS ThreadPool, FiniteSetTheorems, TLAPS

At(wk, S) == {w \in Workers : wk[w] \in S}

Alive == {"loop", "semwait", "check", "count", "pull", "run", "finish", "exit"}
AtWork == {"pull", "run", "finish"}
Keeping == {"create", "created", "wait", "blocked", "stop"}
Waiting == {"wait", "blocked"}
Emptied == {"free_queue", "free_pool", "leave", "end"}

Types ==
    /\ main \in MainSteps
    /\ worker \in [Workers -> WorkerSteps]
    /\ threads_keep_alive \in BOOLEAN
    /\ has_jobs \in {0, 1}
    /\ job_count \in {0, 1}
    /\ count_mutex \in Workers \cup {NoThread}
    /\ returned \in BOOLEAN
    /\ freed \subseteq {"queue", "pool"}
    /\ running \in BOOLEAN

Counting ==
    /\ thread_alive_count = Cardinality(At(worker, Alive))
    /\ thread_working_count = Cardinality(At(worker, AtWork))

Stopping ==
    /\ threads_keep_alive <=> main \in Keeping
    /\ "queue" \in freed => main \in Emptied
    /\ main \in Emptied => \A w \in Workers : worker[w] \notin QueueUsers

JobPlace ==
    /\ job_count = 1 => /\ main \in Waiting
                        /\ ~returned
                        /\ \A w \in Workers : worker[w] # "run"
    /\ \A w \in Workers : worker[w] = "run" => ~returned /\ main \in Waiting
    /\ \A v, w \in Workers : worker[v] = "run" /\ worker[w] = "run" => v = w
    /\ main \in {"create", "created"} => ~returned
    /\ main \in Waiting => \/ job_count = 1
                           \/ returned
                           \/ \E w \in Workers : worker[w] = "run"

Inv == Types /\ Counting /\ Stopping /\ JobPlace

(* The threads the semaphore let through that have not pulled yet, and     *)
(* those that nothing keeps from pulling any more.                         *)
Through == {"check", "count", "pull"}
Pulling == {"count", "pull"}

(* No two, no three threads at the steps S. *)
NoTwo(S) ==
    \A u, v \in Workers : worker[u] \in S /\ worker[v] \in S => u = v
NoThree(S) ==
    \A u, v, w \in Workers :
        worker[u] \in S /\ worker[v] \in S /\ worker[w] \in S =>
            u = v \/ v = w \/ u = w

(* has_jobs and the threads let through are at most one more than the      *)
(* jobs, as long as only jobs are posted.                                  *)
Tokens ==
    threads_keep_alive =>
        /\ NoThree(Through)
        /\ job_count = 0 => NoTwo(Through)
        /\ has_jobs = 1 => NoTwo(Through)
        /\ has_jobs = 1 /\ job_count = 0 =>
              \A w \in Workers : worker[w] \notin Through

Vain ==
    /\ NoThree(Pulling)
    /\ job_count = 0 => NoTwo(Pulling)

-----------------------------------------------------------------------------
(* Counting the threads at some steps when one thread moves. *)

LEMMA FinitelyMany ==
    ASSUME NEW wk, NEW S
    PROVE  /\ IsFiniteSet(At(wk, S))
           /\ Cardinality(At(wk, S)) \in 0 .. Cardinality(Workers)
           /\ Cardinality(At(wk, S)) = 0 => \A w \in Workers : wk[w] \notin S
<1>1. At(wk, S) \subseteq Workers
  BY DEF At
<1>2. /\ IsFiniteSet(At(wk, S))
      /\ Cardinality(At(wk, S)) <= Cardinality(Workers)
      /\ Cardinality(Workers) \in Nat
  BY <1>1, FS_Subset, FS_CardinalityType, PoolAssumption
<1>3. Cardinality(At(wk, S)) \in Nat
  BY <1>2, FS_CardinalityType
<1>4. Cardinality(At(wk, S)) = 0 => At(wk, S) = {}
  BY <1>2, FS_EmptySet
<1> QED
  BY <1>2, <1>3, <1>4 DEF At

(* A thread that enters or leaves S changes the count by one; one that     *)
(* moves inside or outside S does not.                                     *)
Recounted(wk, moved, from, to, S) ==
    /\ (from \in S <=> to \in S) =>
          Cardinality(At(moved, S)) = Cardinality(At(wk, S))
    /\ from \notin S /\ to \in S =>
          Cardinality(At(moved, S)) = Cardinality(At(wk, S)) + 1
    /\ from \in S /\ to \notin S =>
          Cardinality(At(moved, S)) = Cardinality(At(wk, S)) - 1

LEMMA OneMoves ==
    ASSUME NEW wk \in [Workers -> WorkerSteps], NEW w \in Workers,
           NEW to \in WorkerSteps, NEW S
    PROVE  Recounted(wk, [wk EXCEPT ![w] = to], wk[w], to, S)
<1> DEFINE moved == [wk EXCEPT ![w] = to]
<1> USE DEF Recounted
<1>1. IsFiniteSet(At(wk, S))
  BY FinitelyMany
<1>2. CASE (wk[w] \in S <=> to \in S)
  <2>1. At(moved, S) = At(wk, S)
    BY <1>2 DEF At
  <2> QED
    BY <1>2, <2>1
<1>3. CASE wk[w] \notin S /\ to \in S
  <2>1. At(moved, S) = At(wk, S) \cup {w} /\ w \notin At(wk, S)
    BY <1>3 DEF At
  <2> QED
    BY <1>1, <1>3, <2>1, FS_AddElement
<1>4. CASE wk[w] \in S /\ to \notin S
  <2>1. At(moved, S) = At(wk, S) \ {w} /\ w \in At(wk, S)
    BY <1>4 DEF At
  <2> QED
    BY <1>1, <1>4, <2>1, FS_RemoveElement
<1> QED
  BY <1>2, <1>3, <1>4

-----------------------------------------------------------------------------
(* Every step keeps Inv. *)

LEMMA InitInv == Init => Inv
<1> SUFFICES ASSUME Init PROVE Inv
  OBVIOUS
<1>1. Types
  BY PoolAssumption DEF Init, Types, MainSteps, WorkerSteps
<1>2. Counting
  <2>1. At(worker, Alive) = {} /\ At(worker, AtWork) = {}
    BY DEF Init, At, Alive, AtWork
  <2> QED
    BY <2>1, FS_EmptySet DEF Init, Counting
<1>3. Stopping /\ JobPlace
  BY DEF Init, Stopping, JobPlace, Keeping, Waiting, Emptied
<1> QED
  BY <1>1, <1>2, <1>3 DEF Inv

(* main() moves no thread but the one it creates. *)
LEMMA MainCounting ==
    ASSUME Types, Counting, MainNext
    PROVE  Counting' /\ worker' \in [Workers -> WorkerSteps]
<1>1. CASE thread_create
  <2>1. PICK w \in Workers :
          worker[w] = "unborn" /\ worker' = [worker EXCEPT ![w] = "born"]
    BY <1>1 DEF thread_create
  <2>2. worker \in [Workers -> WorkerSteps] /\ "born" \in WorkerSteps
    BY DEF Types, WorkerSteps
  <2>3. /\ Cardinality(At(worker', Alive)) = Cardinality(At(worker, Alive))
        /\ Cardinality(At(worker', AtWork)) = Cardinality(At(worker, AtWork))
    <3>1. ASSUME NEW S
          PROVE  Recounted(worker, worker', "unborn", "born", S)
      BY <2>1, <2>2, OneMoves
    <3> QED
      BY <3>1 DEF Recounted, Alive, AtWork
  <2>4. UNCHANGED counts
    BY <1>1 DEF thread_create
  <2> QED
    BY <2>1, <2>2, <2>3, <2>4 DEF Counting, counts
<1>2. CASE ~thread_create
  <2>1. UNCHANGED <<worker, counts>>
    BY <1>2 DEF MainNext, PoolCreated, StartFails, thread_pool_add_work,
                thread_pool_wait, StopThreads, binary_sem_post_broadcast,
                Drained, job_queue_free, PoolFreed, ProcessExits
  <2> QED
    BY <2>1 DEF Counting, counts, Types
<1> QED
  BY <1>1, <1>2

(* What the step of a thread w from one place to the next does to the      *)
(* counters.                                                               *)
LEMMA ThreadCounting ==
    ASSUME Types, Counting, NEW w \in Workers,
           thread_do(w) \/ JobReturns(w) \/ UseAfterFree(w)
    PROVE  Counting' /\ worker' \in [Workers -> WorkerSteps]
<1> DEFINE alive == Cardinality(At(worker, Alive))
           atwork == Cardinality(At(worker, AtWork))
<1>1. /\ worker \in [Workers -> WorkerSteps]
      /\ thread_alive_count = alive /\ thread_working_count = atwork
  BY DEF Types, Counting
<1>2. alive \in Nat /\ atwork \in Nat
  <2>1. Cardinality(Workers) \in Nat
    BY PoolAssumption, FS_CardinalityType
  <2> QED
    BY <2>1, FinitelyMany
<1>3. ASSUME NEW from \in WorkerSteps, NEW to \in WorkerSteps, Goes(w, from, to)
      PROVE  /\ worker' \in [Workers -> WorkerSteps]
             /\ (from \in Alive <=> to \in Alive) =>
                    Cardinality(At(worker', Alive)) = alive
             /\ from \notin Alive /\ to \in Alive =>
                    Cardinality(At(worker', Alive)) = alive + 1
             /\ from \in Alive /\ to \notin Alive =>
                    Cardinality(At(worker', Alive)) = alive - 1
             /\ (from \in AtWork <=> to \in AtWork) =>
                    Cardinality(At(worker', AtWork)) = atwork
             /\ from \notin AtWork /\ to \in AtWork =>
                    Cardinality(At(worker', AtWork)) = atwork + 1
             /\ from \in AtWork /\ to \notin AtWork =>
                    Cardinality(At(worker', AtWork)) = atwork - 1
  <2>1. worker[w] = from /\ worker' = [worker EXCEPT ![w] = to]
    BY <1>3 DEF Goes
  <2>2. worker' \in [Workers -> WorkerSteps]
    BY <1>1, <2>1
  <2>3. ASSUME NEW S
        PROVE  Recounted(worker, worker', from, to, S)
    BY <1>1, <1>3, <2>1, OneMoves
  <2> QED
    BY <2>2, <2>3 DEF Recounted
<1> HIDE DEF alive, atwork
<1> USE DEF WorkerSteps, Alive, AtWork
<1>4. CASE Start(w)
  <2>1. Goes(w, "born", "loop")
    BY <1>4 DEF Start
  <2>2. /\ Cardinality(At(worker', Alive)) = alive + 1
        /\ Cardinality(At(worker', AtWork)) = atwork
        /\ worker' \in [Workers -> WorkerSteps]
    BY <1>3, <2>1
  <2> QED
    BY <1>1, <1>4, <2>2 DEF Start, Counting
<1>5. CASE Count(w)
  <2>1. Goes(w, "count", "pull")
    BY <1>5 DEF Count
  <2>2. /\ Cardinality(At(worker', Alive)) = alive
        /\ Cardinality(At(worker', AtWork)) = atwork + 1
        /\ worker' \in [Workers -> WorkerSteps]
    BY <1>3, <2>1
  <2> QED
    BY <1>1, <1>5, <2>2 DEF Count, Counting
<1>6. CASE Finish(w)
  <2>1. Goes(w, "finish", "loop")
    BY <1>6 DEF Finish
  <2>2. /\ Cardinality(At(worker', Alive)) = alive
        /\ Cardinality(At(worker', AtWork)) = atwork - 1
        /\ worker' \in [Workers -> WorkerSteps]
    BY <1>3, <2>1
  <2> QED
    BY <1>1, <1>6, <2>2 DEF Finish, Counting
<1>7. CASE Leave(w)
  <2>1. Goes(w, "exit", "unlock")
    BY <1>7 DEF Leave
  <2>2. /\ Cardinality(At(worker', Alive)) = alive - 1
        /\ Cardinality(At(worker', AtWork)) = atwork
        /\ worker' \in [Workers -> WorkerSteps]
    BY <1>3, <2>1
  <2> QED
    BY <1>1, <1>7, <2>2 DEF Leave, Counting
<1>8. CASE \/ Loop(w) \/ binary_sem_wait(w) \/ Check(w)
           \/ job_queue_pull(w) \/ JobReturns(w) \/ Unlock(w)
  <2>1. /\ \/ Goes(w, "loop", "semwait") \/ Goes(w, "loop", "exit")
           \/ Goes(w, "semwait", "check") \/ Goes(w, "check", "count")
           \/ Goes(w, "check", "exit") \/ Goes(w, "pull", "run")
           \/ Goes(w, "run", "finish") \/ Goes(w, "unlock", "gone")
        /\ UNCHANGED counts
    BY <1>8 DEF Loop, binary_sem_wait, Check, job_queue_pull, JobReturns, Unlock,
                counts
  <2>2. /\ Cardinality(At(worker', Alive)) = alive
        /\ Cardinality(At(worker', AtWork)) = atwork
        /\ worker' \in [Workers -> WorkerSteps]
    BY <1>3, <2>1
  <2> QED
    BY <1>1, <2>1, <2>2 DEF Counting, counts
<1>9. CASE PullNothing(w) \/ UseAfterFree(w)
  BY <1>1, <1>9 DEF PullNothing, UseAfterFree, Counting, counts, alive, atwork
<1> QED
  BY <1>4, <1>5, <1>6, <1>7, <1>8, <1>9 DEF thread_do

LEMMA TypesStep ==
    ASSUME Inv, Next
    PROVE  Types'
<1>1. worker' \in [Workers -> WorkerSteps]
  BY MainCounting, ThreadCounting DEF Next, Inv
<1>2. CASE MainNext
  <2> USE <1>1 DEF Inv, Types, counts, MainSteps
  <2>1. CASE thread_create \/ PoolCreated \/ StartFails \/ thread_pool_wait
    BY <2>1 DEF thread_create, PoolCreated, StartFails, thread_pool_wait
  <2>2. CASE thread_pool_add_work
    <3>1. job_count = 0
      BY <2>2 DEF thread_pool_add_work, JobPlace, Waiting
    <3> QED
      BY <2>2, <3>1 DEF thread_pool_add_work
  <2>3. CASE StopThreads \/ binary_sem_post_broadcast \/ Drained
    BY <2>3 DEF StopThreads, binary_sem_post_broadcast, Drained
  <2>4. CASE job_queue_free \/ PoolFreed \/ ProcessExits
    BY <2>4 DEF job_queue_free, PoolFreed, ProcessExits
  <2> QED
    BY <1>2, <2>1, <2>2, <2>3, <2>4 DEF MainNext
<1>3. CASE \E w \in Workers : thread_do(w) \/ JobReturns(w) \/ UseAfterFree(w)
  <2> USE <1>1 DEF Inv, Types, counts, MainSteps
  <2>1. PICK w \in Workers : thread_do(w) \/ JobReturns(w) \/ UseAfterFree(w)
    BY <1>3
  <2>2. CASE Start(w) \/ Loop(w) \/ binary_sem_wait(w) \/ Check(w) \/ Count(w)
    BY <2>2 DEF Start, Loop, binary_sem_wait, Check, Count
  <2>3. CASE job_queue_pull(w) \/ PullNothing(w) \/ JobReturns(w)
    BY <2>3 DEF job_queue_pull, PullNothing, JobReturns
  <2>4. CASE Finish(w)
    BY <2>4 DEF Finish
  <2>5. CASE Leave(w) \/ Unlock(w) \/ UseAfterFree(w)
    BY <2>5 DEF Leave, Unlock, UseAfterFree
  <2> QED
    BY <2>1, <2>2, <2>3, <2>4, <2>5 DEF thread_do
<1> QED
  BY <1>2, <1>3 DEF Next

LEMMA StoppingStep ==
    ASSUME Inv, Next
    PROVE  Stopping'
<1> USE DEF Inv, Types, Stopping, counts, Keeping, Emptied, QueueUsers, MainSteps
<1>1. CASE MainNext /\ ~Drained /\ ~thread_create
  BY <1>1 DEF MainNext, PoolCreated, StartFails, thread_pool_add_work,
              thread_pool_wait, StopThreads, binary_sem_post_broadcast,
              job_queue_free, PoolFreed, ProcessExits
<1>2. CASE thread_create
  BY <1>2 DEF thread_create
<1>3. CASE Drained
  <2>1. \A w \in Workers : worker[w] \notin Alive
    BY <1>3, FinitelyMany DEF Drained, Counting
  <2> QED
    BY <1>3, <2>1 DEF Drained, Alive
<1>4. ASSUME NEW w \in Workers, thread_do(w) \/ JobReturns(w) \/ UseAfterFree(w)
      PROVE  Stopping'
  <2>1. /\ UNCHANGED <<threads_keep_alive, freed>>
        /\ main' \in Keeping <=> main \in Keeping
        /\ main' \in Emptied <=> main \in Emptied
    BY <1>4 DEF thread_do, Start, Loop, binary_sem_wait, Check, Count,
                job_queue_pull, PullNothing, Finish, Leave, Unlock, JobReturns,
                UseAfterFree
  <2>2. ASSUME main \in Emptied, NEW v \in Workers
        PROVE  worker'[v] \notin QueueUsers
    <3>1. worker[v] \notin QueueUsers /\ ~threads_keep_alive
      BY <2>2
    <3> QED
      BY <1>4, <2>2, <3>1
         DEF Goes, thread_do, Start, Loop, binary_sem_wait, Check, Count,
             job_queue_pull, PullNothing, Finish, Leave, Unlock, JobReturns,
             UseAfterFree
  <2> QED
    BY <2>1, <2>2
<1> QED
  BY <1>1, <1>2, <1>3, <1>4 DEF Next, MainNext

LEMMA JobPlaceStep ==
    ASSUME Inv, Next
    PROVE  JobPlace'
<1> USE DEF Inv, Types, counts, MainSteps, Waiting
<1>1. CASE thread_create
  BY <1>1 DEF thread_create, JobPlace
<1>2. CASE PoolCreated \/ StartFails \/ StopThreads \/ Drained
           \/ binary_sem_post_broadcast \/ PoolFreed \/ ProcessExits
  BY <1>2 DEF PoolCreated, StartFails, StopThreads, Drained, JobPlace,
              binary_sem_post_broadcast, PoolFreed, ProcessExits
<1>3. CASE job_queue_free
  BY <1>3 DEF job_queue_free, JobPlace
<1>4. CASE thread_pool_add_work
  BY <1>4 DEF thread_pool_add_work, JobPlace
<1>5. CASE thread_pool_wait
  <2>1. CASE Busy
    BY <1>5, <2>1 DEF thread_pool_wait, JobPlace
  <2>2. CASE ~Busy
    <3>1. Cardinality(At(worker, AtWork)) = 0 /\ job_count = 0
      <4>1. Cardinality(Workers) \in Nat
        BY PoolAssumption, FS_CardinalityType
      <4> QED
        BY <2>2, <4>1, FinitelyMany DEF Busy, Counting
    <3>2. \A w \in Workers : worker[w] # "run"
      BY <3>1, FinitelyMany DEF AtWork
    <3> QED
      BY <1>5, <2>2, <3>1, <3>2 DEF thread_pool_wait, JobPlace
  <2> QED
    BY <2>1, <2>2
<1>6. ASSUME NEW w \in Workers, job_queue_pull(w)
      PROVE  JobPlace'
  BY <1>6 DEF job_queue_pull, Goes, JobPlace
<1>7. ASSUME NEW w \in Workers, JobReturns(w)
      PROVE  JobPlace'
  BY <1>7 DEF JobReturns, Goes, JobPlace
<1>8. ASSUME NEW w \in Workers, Finish(w)
      PROVE  JobPlace'
  <2>1. /\ main' \in Waiting <=> main \in Waiting
        /\ main' \in {"create", "created"} <=> main \in {"create", "created"}
    BY <1>8 DEF Finish
  <2>2. \A v \in Workers : worker'[v] = "run" <=> worker[v] = "run"
    BY <1>8 DEF Finish, Goes
  <2> QED
    BY <1>8, <2>1, <2>2 DEF Finish, JobPlace
<1>9. ASSUME NEW w \in Workers,
             \/ Start(w) \/ Loop(w) \/ binary_sem_wait(w) \/ Check(w)
             \/ Count(w) \/ PullNothing(w) \/ Leave(w) \/ Unlock(w)
             \/ UseAfterFree(w)
      PROVE  JobPlace'
  <2>1. UNCHANGED <<main, job_count, returned>>
    BY <1>9 DEF Start, Loop, binary_sem_wait, Check, Count, PullNothing, Leave,
                Unlock, UseAfterFree
  <2>2. \A v \in Workers : worker'[v] = "run" <=> worker[v] = "run"
    BY <1>9 DEF Start, Loop, binary_sem_wait, Check, Count, PullNothing, Leave,
                Unlock, UseAfterFree, Goes
  <2> QED
    BY <2>1, <2>2 DEF JobPlace
<1> QED
  BY <1>1, <1>2, <1>3, <1>4, <1>5, <1>6, <1>7, <1>8, <1>9
     DEF Next, MainNext, thread_do

LEMMA InvStep == Inv /\ [Next]_vars => Inv'
<1> SUFFICES ASSUME Inv, [Next]_vars PROVE Inv'
  OBVIOUS
<1>1. CASE Next
  <2>1. Counting'
    BY <1>1, MainCounting, ThreadCounting DEF Next, Inv
  <2> QED
    BY <1>1, <2>1, TypesStep, StoppingStep, JobPlaceStep DEF Inv
<1>2. CASE UNCHANGED vars
  BY <1>2 DEF vars, counts, Inv, Types, Counting, Stopping, JobPlace
<1> QED
  BY <1>1, <1>2

LEMMA Invariant == Spec => []Inv
<1> QED
  BY InitInv, InvStep, PTL DEF Spec

(* Type correctness; the counters never leave 0 .. the number of threads,  *)
(* so thread_alive_count and thread_working_count cannot drift             *)
(* (thread.c:251-286).                                                     *)
THEOREM TypeCorrect == Spec => []TypeOK
<1>1. Inv => TypeOK
  BY FinitelyMany DEF Inv, Types, Counting, TypeOK
<1> QED
  BY <1>1, Invariant, PTL

(* The queue is never freed under a thread that uses it, although          *)
(* thread_pool_free reads the count without its lock (thread.c:397-411).   *)
THEOREM QueueNeverFreedUnderUser == Spec => []QueueOutlivesUsers
<1>1. Inv => QueueOutlivesUsers
  BY DEF Inv, Stopping, QueueOutlivesUsers
<1> QED
  BY <1>1, Invariant, PTL

-----------------------------------------------------------------------------
(* Wake-ups, whatever the semaphore starts with. *)

JobAnnounced ==
    job_count = 1 => \/ has_jobs = 1
                     \/ \E w \in Workers : worker[w] \in Through

MainAnnounced ==
    main = "blocked" => \/ job_count = 1
                        \/ \E w \in Workers : worker[w] \in AtWork

(* A thread at work is one the counter counts. *)
LEMMA SomeoneWorks ==
    ASSUME NEW wk
    PROVE  Cardinality(At(wk, AtWork)) > 0 <=> \E w \in Workers : wk[w] \in AtWork
<1>1. Cardinality(At(wk, AtWork)) \in Nat
  BY FinitelyMany, PoolAssumption, FS_CardinalityType
<1>2. Cardinality(At(wk, AtWork)) = 0 => \A w \in Workers : wk[w] \notin AtWork
  BY FinitelyMany
<1>3. ASSUME Cardinality(At(wk, AtWork)) > 0
      PROVE  \E w \in Workers : wk[w] \in AtWork
  <2>1. IsFiniteSet(At(wk, AtWork)) /\ At(wk, AtWork) # {}
    BY <1>3, FinitelyMany, FS_EmptySet
  <2> QED
    BY <2>1 DEF At
<1> QED
  BY <1>1, <1>2, <1>3

LEMMA JobAnnouncedStep ==
    ASSUME Inv, JobAnnounced, [Next]_vars
    PROVE  JobAnnounced'
<1> USE DEF Inv, Types, counts, Through, JobAnnounced
<1>1. CASE thread_pool_add_work \/ binary_sem_post_broadcast \/ job_queue_free
  BY <1>1 DEF thread_pool_add_work, binary_sem_post_broadcast, job_queue_free
<1>2. CASE thread_create
  BY <1>2 DEF thread_create
<1>3. CASE PoolCreated \/ StartFails \/ thread_pool_wait \/ StopThreads
           \/ Drained \/ PoolFreed \/ ProcessExits \/ UNCHANGED vars
  BY <1>3 DEF PoolCreated, StartFails, thread_pool_wait, StopThreads, Drained,
              PoolFreed, ProcessExits, vars
<1>4. ASSUME NEW w \in Workers, binary_sem_wait(w)
      PROVE  JobAnnounced'
  BY <1>4 DEF binary_sem_wait, Goes
<1>5. ASSUME NEW w \in Workers, Check(w) \/ Count(w)
      PROVE  JobAnnounced'
  <2>1. job_count = 1 => threads_keep_alive
    BY DEF JobPlace, Stopping, Waiting, Keeping
  <2>2. UNCHANGED <<job_count, has_jobs>>
    BY <1>5 DEF Check, Count
  <2>3. job_count = 1 => worker'[w] \in Through
    BY <1>5, <2>1 DEF Check, Count, Goes
  <2> QED
    BY <2>2, <2>3
<1>6. ASSUME NEW w \in Workers, job_queue_pull(w)
      PROVE  JobAnnounced'
  BY <1>6 DEF job_queue_pull
<1>7. ASSUME NEW w \in Workers,
             \/ Start(w) \/ Loop(w) \/ PullNothing(w) \/ JobReturns(w)
             \/ Finish(w) \/ Leave(w) \/ Unlock(w) \/ UseAfterFree(w)
      PROVE  JobAnnounced'
  <2>1. UNCHANGED <<job_count, has_jobs>>
    BY <1>7 DEF Start, Loop, PullNothing, JobReturns, Finish, Leave, Unlock,
                UseAfterFree
  <2>2. \A v \in Workers : worker[v] \in Through => worker'[v] = worker[v]
    BY <1>7 DEF Start, Loop, PullNothing, JobReturns, Finish, Leave, Unlock,
                UseAfterFree, Goes
  <2> QED
    BY <2>1, <2>2
<1> QED
  BY <1>1, <1>2, <1>3, <1>4, <1>5, <1>6, <1>7 DEF Next, MainNext, thread_do

(* main() is signalled by the last thread to finish, and by no other: the  *)
(* count is what tells it that it is the last.                             *)
LEMMA MainAnnouncedStep ==
    ASSUME Inv, Inv', MainAnnounced, [Next]_vars
    PROVE  MainAnnounced'
<1> USE DEF Inv, Types, counts, MainAnnounced
<1>1. CASE thread_pool_wait
  <2>1. ASSUME main' = "blocked"
        PROVE  job_count' = 1 \/ \E w \in Workers : worker'[w] \in AtWork
    <3>1. Busy /\ UNCHANGED <<job_count, worker>>
      BY <1>1, <2>1 DEF thread_pool_wait
    <3> QED
      BY <3>1, SomeoneWorks DEF Busy, Counting
  <2> QED
    BY <2>1
<1>2. CASE thread_create \/ PoolCreated \/ StartFails \/ thread_pool_add_work
           \/ StopThreads \/ binary_sem_post_broadcast \/ Drained
           \/ job_queue_free \/ PoolFreed \/ ProcessExits
  BY <1>2 DEF thread_create, PoolCreated, StartFails, thread_pool_add_work,
              StopThreads, binary_sem_post_broadcast, Drained, job_queue_free,
              PoolFreed, ProcessExits
<1>3. ASSUME NEW w \in Workers, Finish(w)
      PROVE  MainAnnounced'
  <2>1. ASSUME main' = "blocked"
        PROVE  \E v \in Workers : worker'[v] \in AtWork
    <3>1. thread_working_count # 1 /\ thread_working_count' = thread_working_count - 1
      BY <1>3, <2>1 DEF Finish
    <3>2. thread_working_count > 0 /\ thread_working_count \in Nat
      <4>1. worker[w] \in AtWork /\ Cardinality(Workers) \in Nat
        BY <1>3, PoolAssumption, FS_CardinalityType DEF Finish, Goes, AtWork
      <4> QED
        BY <4>1, SomeoneWorks, FinitelyMany DEF Counting
    <3>3. Cardinality(At(worker', AtWork)) > 0
      BY <3>1, <3>2 DEF Counting, At
    <3> QED
      BY <3>3, SomeoneWorks
  <2> QED
    BY <2>1
<1>4. ASSUME NEW w \in Workers, job_queue_pull(w)
      PROVE  MainAnnounced'
  BY <1>4 DEF job_queue_pull, Goes, AtWork
<1>5. ASSUME NEW w \in Workers,
             \/ Start(w) \/ Loop(w) \/ binary_sem_wait(w) \/ Check(w) \/ Count(w)
             \/ PullNothing(w) \/ JobReturns(w) \/ Leave(w) \/ Unlock(w)
             \/ UseAfterFree(w)
      PROVE  MainAnnounced'
  <2>1. UNCHANGED <<main, job_count>>
    BY <1>5 DEF Start, Loop, binary_sem_wait, Check, Count, PullNothing,
                JobReturns, Leave, Unlock, UseAfterFree
  <2>2. \A v \in Workers : worker[v] \in AtWork => worker'[v] \in AtWork
    BY <1>5 DEF Start, Loop, binary_sem_wait, Check, Count, PullNothing,
                JobReturns, Leave, Unlock, UseAfterFree, Goes, AtWork
  <2> QED
    BY <2>1, <2>2
<1>6. CASE UNCHANGED vars
  BY <1>6 DEF vars
<1> QED
  BY <1>1, <1>2, <1>3, <1>4, <1>5, <1>6 DEF Next, MainNext, thread_do

(* With any number of threads, and a semaphore that starts with anything:  *)
(* a queued job is posted or about to be pulled, and a blocked main() has  *)
(* a queued job or a thread at work to be woken by.                        *)
THEOREM WakeUpsAreNotLost == Spec => []NoLostWakeUp
<1>1. Init => JobAnnounced /\ MainAnnounced
  BY DEF Init, JobAnnounced, MainAnnounced
<1>2. Inv /\ Inv' /\ JobAnnounced /\ MainAnnounced /\ [Next]_vars
         => JobAnnounced' /\ MainAnnounced'
  BY JobAnnouncedStep, MainAnnouncedStep
<1>3. JobAnnounced /\ MainAnnounced => NoLostWakeUp
  BY DEF JobAnnounced, MainAnnounced, NoLostWakeUp, Through, AtWork
<1> QED
  BY <1>1, <1>2, <1>3, Invariant, PTL DEF Spec

-----------------------------------------------------------------------------
(* How far the pool is freed too early. *)

(* The pool is told to stop only after every thread has counted itself. *)
AllCounted ==
    main # "drain" /\ main' = "drain" => \A w \in Workers : worker[w] # "born"

LastUnlock ==
    "pool" \in freed =>
        \A w \in Workers : \/ worker[w] = "gone"
                           \/ worker[w] = "unlock" /\ count_mutex = w

Departed ==
    /\ main # "create" => \A w \in Workers : worker[w] # "unborn"
    /\ main = "drain" => \A w \in Workers : worker[w] # "born"
    /\ main \in Emptied => \A w \in Workers : worker[w] \in {"unlock", "gone"}
    /\ "pool" \in freed => main \in Emptied

OneUnlocks == \A w \in Workers : worker[w] = "unlock" => count_mutex = w

LEMMA OneUnlocksStep ==
    ASSUME Inv, OneUnlocks, [Next]_vars
    PROVE  OneUnlocks'
<1> USE DEF Inv, Types, counts, OneUnlocks
<1>1. CASE MainNext \/ UNCHANGED vars
  <2>1. /\ count_mutex' = count_mutex
        /\ \A w \in Workers : worker'[w] = "unlock" => worker[w] = "unlock"
    BY <1>1 DEF MainNext, thread_create, PoolCreated, StartFails,
                thread_pool_add_work, thread_pool_wait, StopThreads,
                binary_sem_post_broadcast, Drained, job_queue_free, PoolFreed,
                ProcessExits, vars
  <2> QED
    BY <2>1
<1>2. ASSUME NEW w \in Workers, Leave(w)
      PROVE  OneUnlocks'
  BY <1>2, PoolAssumption DEF Leave, Goes
<1>3. ASSUME NEW w \in Workers, Unlock(w)
      PROVE  OneUnlocks'
  BY <1>3 DEF Unlock, Goes
<1>4. ASSUME NEW w \in Workers,
             \/ Start(w) \/ Loop(w) \/ binary_sem_wait(w) \/ Check(w)
             \/ Count(w) \/ job_queue_pull(w) \/ PullNothing(w)
             \/ JobReturns(w) \/ Finish(w) \/ UseAfterFree(w)
      PROVE  OneUnlocks'
  <2>1. /\ count_mutex' = count_mutex
        /\ \A v \in Workers : worker'[v] = "unlock" => worker[v] = "unlock"
    BY <1>4 DEF Start, Loop, binary_sem_wait, Check, Count, job_queue_pull,
                PullNothing, JobReturns, Finish, UseAfterFree, Goes
  <2> QED
    BY <2>1
<1> QED
  BY <1>1, <1>2, <1>3, <1>4 DEF Next, thread_do

LEMMA DepartedStep ==
    ASSUME Inv, Departed, AllCounted, Next
    PROVE  Departed'
<1> USE DEF Inv, Types, counts, Departed, Emptied
<1>1. CASE thread_create \/ PoolCreated \/ StartFails \/ thread_pool_add_work
           \/ thread_pool_wait \/ binary_sem_post_broadcast
  BY <1>1 DEF thread_create, PoolCreated, StartFails, thread_pool_add_work,
              thread_pool_wait, binary_sem_post_broadcast
<1>2. CASE StopThreads
  BY <1>2 DEF StopThreads, AllCounted
<1>3. CASE Drained
  <2>1. \A w \in Workers : worker[w] \notin Alive
    BY <1>3, FinitelyMany DEF Drained, Counting
  <2>2. \A w \in Workers : worker[w] \in {"unlock", "gone"}
    BY <1>3, <2>1 DEF Drained, Alive, WorkerSteps
  <2> QED
    BY <1>3, <2>2 DEF Drained
<1>4. CASE job_queue_free \/ PoolFreed \/ ProcessExits
  BY <1>4 DEF job_queue_free, PoolFreed, ProcessExits
<1>5. ASSUME NEW w \in Workers,
             thread_do(w) \/ JobReturns(w) \/ UseAfterFree(w)
      PROVE  Departed'
  <2>1. /\ freed' = freed
        /\ main' = main \/ (main = "blocked" /\ main' = "wait")
        /\ \A v \in Workers : worker'[v] = worker[v] \/
              (worker[v] # "gone" /\ worker'[v] \notin {"unborn", "born"})
        /\ \A v \in Workers : worker[v] = "unlock" =>
              worker'[v] \in {"unlock", "gone"}
    BY <1>5 DEF thread_do, Start, Loop, binary_sem_wait, Check, Count,
                job_queue_pull, PullNothing, JobReturns, Finish, Leave,
                Unlock, UseAfterFree, Goes
  <2> QED
    BY <2>1
<1> QED
  BY <1>1, <1>2, <1>3, <1>4, <1>5 DEF Next, MainNext

(* pool_use_after_free shows two ways in which the pool is freed under a   *)
(* thread: it has not counted itself yet, or it is the last and has not    *)
(* released the mutex it uncounted itself under.  Without the first only   *)
(* the second is left, for any number of threads: one thread at most still *)
(* touches the freed pool, to unlock it (thread.c:287-289).                *)
THEOREM OnlyTheLastUnlockRaces ==
    Spec /\ [][AllCounted]_vars => []LastUnlock
<1>1. Init => Departed /\ OneUnlocks
  BY DEF Init, Departed, OneUnlocks, Emptied
<1>2. Inv /\ Departed /\ [Next]_vars /\ [AllCounted]_vars => Departed'
  <2> SUFFICES ASSUME Inv, Departed, [Next]_vars, [AllCounted]_vars
               PROVE  Departed'
    OBVIOUS
  <2>1. CASE UNCHANGED vars
    BY <2>1 DEF vars, Departed
  <2>2. CASE ~(UNCHANGED vars)
    BY <2>2, DepartedStep
  <2> QED
    BY <2>1, <2>2
<1>3. Inv /\ OneUnlocks /\ [Next]_vars => OneUnlocks'
  BY OneUnlocksStep
<1>4. Departed /\ OneUnlocks => LastUnlock
  BY DEF Departed, OneUnlocks, LastUnlock
<1> QED
  BY <1>1, <1>2, <1>3, <1>4, Invariant, PTL DEF Spec

-----------------------------------------------------------------------------
(* What the semaphore lets through. *)

LEMMA MainTokens ==
    ASSUME Inv, Tokens, Vain, MainNext
    PROVE  Tokens' /\ Vain'
<1> USE DEF Inv, Types, counts, Tokens, Vain, NoTwo, NoThree
<1>1. CASE thread_create
  BY <1>1 DEF thread_create, Through, Pulling
<1>2. CASE PoolCreated \/ StartFails \/ thread_pool_wait
  BY <1>2 DEF PoolCreated, StartFails, thread_pool_wait
<1>3. CASE thread_pool_add_work
  <2>1. threads_keep_alive /\ job_count = 0
    BY <1>3 DEF thread_pool_add_work, Stopping, Keeping, Waiting, JobPlace
  <2> QED
    BY <1>3, <2>1 DEF thread_pool_add_work
<1>4. CASE StopThreads
  BY <1>4 DEF StopThreads
<1>5. CASE \/ binary_sem_post_broadcast \/ Drained \/ PoolFreed
           \/ ProcessExits
  <2>1. ~threads_keep_alive
    BY <1>5 DEF binary_sem_post_broadcast, Drained, PoolFreed, ProcessExits,
                Stopping, Keeping
  <2> QED
    BY <1>5, <2>1 DEF binary_sem_post_broadcast, Drained, PoolFreed,
                      ProcessExits
<1>6. CASE job_queue_free
  <2>1. ~threads_keep_alive /\ \A w \in Workers : worker[w] \notin Pulling
    BY <1>6 DEF job_queue_free, Stopping, Keeping, Emptied, QueueUsers, Pulling
  <2> QED
    BY <1>6, <2>1 DEF job_queue_free
<1> QED
  BY <1>1, <1>2, <1>3, <1>4, <1>5, <1>6 DEF MainNext

LEMMA ThreadTokens ==
    ASSUME Inv, Tokens, Vain, NEW w \in Workers,
           thread_do(w) \/ JobReturns(w) \/ UseAfterFree(w)
    PROVE  Tokens' /\ Vain'
<1> USE DEF Inv, Types, counts, Tokens, Vain, NoTwo, NoThree, Through, Pulling
<1>1. CASE binary_sem_wait(w)
  BY <1>1 DEF binary_sem_wait, Goes
<1>2. CASE Check(w)
  BY <1>2 DEF Check, Goes
<1>3. CASE Count(w)
  BY <1>3 DEF Count, Goes
<1>4. CASE job_queue_pull(w)
  BY <1>4 DEF job_queue_pull, Goes
<1>5. CASE JobReturns(w)
  BY <1>5 DEF JobReturns, Goes
<1>6. CASE Finish(w)
  BY <1>6 DEF Finish, Goes
<1>7. CASE Start(w) \/ Loop(w) \/ Leave(w) \/ Unlock(w)
  BY <1>7 DEF Start, Loop, Leave, Unlock, Goes
<1>8. CASE PullNothing(w) \/ UseAfterFree(w)
  BY <1>8 DEF PullNothing, UseAfterFree
<1> QED
  BY <1>1, <1>2, <1>3, <1>4, <1>5, <1>6, <1>7, <1>8 DEF thread_do

(* Two threads never both pull in vain. *)
OnePullInVain ==
    \A v, w \in Workers :
        worker[v] = "pull" /\ worker[w] = "pull" /\ v # w => job_count = 1

(* pool_uninit_pull shows a thread pull from the empty queue, because      *)
(* has_jobs is never set (thread.c:30-40).  Whatever malloc leaves there,  *)
(* however many threads there are and whenever they start and stop, that   *)
(* is one thread at most: a token too many is never multiplied by the post *)
(* of the job (thread.c:159) nor by the broadcasts of thread_pool_free     *)
(* (thread.c:387-405), whose threads all leave at the second test of       *)
(* threads_keep_alive (thread.c:259).                                      *)
THEOREM AtMostOnePullInVain == Spec => []OnePullInVain
<1>1. Init => Tokens /\ Vain
  BY DEF Init, Tokens, Vain, NoTwo, NoThree, Through, Pulling
<1>2. Inv /\ (Tokens /\ Vain) /\ [Next]_vars => (Tokens /\ Vain)'
  <2> SUFFICES ASSUME Inv, Tokens, Vain, [Next]_vars PROVE Tokens' /\ Vain'
    OBVIOUS
  <2>1. CASE Next
    BY <2>1, MainTokens, ThreadTokens DEF Next
  <2>2. CASE UNCHANGED vars
    BY <2>2 DEF vars, counts, Tokens, Vain, NoTwo, NoThree
  <2> QED
    BY <2>1, <2>2
<1>3. Inv /\ (Tokens /\ Vain) => OnePullInVain
  BY DEF Inv, Types, Vain, NoTwo, Pulling, OnePullInVain
<1> QED
  BY <1>1, <1>2, <1>3, Invariant, PTL DEF Spec

-----------------------------------------------------------------------------
(* Implementing JobPromise. *)

LEMMA PromiseMain ==
    ASSUME Inv, MainNext
    PROVE  [Promise!Next]_(Promise!vars)
<1> USE DEF Inv, Types, counts, JobPlace, Waiting, Promise!vars
<1>1. CASE thread_create \/ PoolCreated
  <2>1. Job' = Job /\ Owner' = Owner
    BY <1>1 DEF thread_create, PoolCreated, Job, Owner
  <2> QED
    BY <2>1
<1>2. CASE StartFails
  BY <1>2 DEF StartFails, Job, Owner, Promise!Next, Promise!Abandon
<1>3. CASE thread_pool_add_work
  <2>1. Job = "none" /\ Job' = "queued"
    BY <1>3 DEF thread_pool_add_work, Job
  <2>2. Owner = "before" /\ Owner' = "waiting"
    BY <1>3 DEF thread_pool_add_work, Owner
  <2> QED
    BY <2>1, <2>2 DEF Promise!Next, Promise!Submit
<1>4. CASE thread_pool_wait
  <2>1. CASE Busy
    BY <1>4, <2>1 DEF thread_pool_wait, Job, Owner
  <2>2. CASE ~Busy
    <3>1. Cardinality(At(worker, AtWork)) = 0 /\ job_count = 0
      <4>1. Cardinality(Workers) \in Nat
        BY PoolAssumption, FS_CardinalityType
      <4> QED
        BY <2>2, <4>1, FinitelyMany DEF Busy, Counting
    <3>2. \A w \in Workers : worker[w] # "run"
      BY <3>1, FinitelyMany DEF AtWork
    <3>3. Job = "returned" /\ Job' = "returned"
      BY <1>4, <3>1, <3>2 DEF thread_pool_wait, Job
    <3>4. Owner = "waiting" /\ Owner' = "done"
      BY <1>4, <2>2 DEF thread_pool_wait, Owner
    <3> QED
      BY <3>3, <3>4 DEF Promise!Next, Promise!Resume
  <2> QED
    BY <2>1, <2>2
<1>5. CASE \/ StopThreads \/ binary_sem_post_broadcast \/ Drained
           \/ job_queue_free \/ PoolFreed \/ ProcessExits
  <2>1. /\ UNCHANGED <<worker, returned>>
        /\ job_count' = 1 <=> job_count = 1
        /\ main \notin {"create", "created", "wait", "blocked"}
        /\ main' \notin {"create", "created", "wait", "blocked"}
    BY <1>5 DEF StopThreads, binary_sem_post_broadcast, Drained, job_queue_free,
                PoolFreed, ProcessExits
  <2> QED
    BY <2>1 DEF Job, Owner
<1> QED
  BY <1>1, <1>2, <1>3, <1>4, <1>5 DEF MainNext

LEMMA PromiseThread ==
    ASSUME Inv, NEW w \in Workers,
           thread_do(w) \/ JobReturns(w) \/ UseAfterFree(w)
    PROVE  [Promise!Next]_(Promise!vars)
<1> USE DEF Inv, Types, counts, JobPlace, Waiting, Promise!vars
<1>1. Owner' = Owner
  BY DEF Owner, thread_do, Start, Loop, binary_sem_wait, Check, Count,
         job_queue_pull, PullNothing, Finish, Leave, Unlock, JobReturns,
         UseAfterFree
<1>2. CASE job_queue_pull(w)
  <2>1. Job = "queued"
    BY <1>2 DEF job_queue_pull, Job
  <2>2. Job' = "running"
    BY <1>2 DEF job_queue_pull, Goes, Job
  <2> QED
    BY <1>1, <2>1, <2>2 DEF Promise!Next, Promise!Take
<1>3. CASE JobReturns(w)
  <2>1. Job = "running"
    BY <1>3 DEF JobReturns, Goes, Job
  <2>2. Job' = "returned"
    BY <1>3 DEF JobReturns, Job
  <2> QED
    BY <1>1, <2>1, <2>2 DEF Promise!Next, Promise!Return
<1>4. CASE \/ Start(w) \/ Loop(w) \/ binary_sem_wait(w) \/ Check(w)
           \/ Count(w) \/ PullNothing(w) \/ Leave(w) \/ Unlock(w)
           \/ UseAfterFree(w) \/ Finish(w)
  <2>1. UNCHANGED <<job_count, returned>>
    BY <1>4 DEF Start, Loop, binary_sem_wait, Check, Count, PullNothing, Leave,
                Unlock, UseAfterFree, Finish
  <2>2. \A v \in Workers : worker'[v] = "run" <=> worker[v] = "run"
    BY <1>4 DEF Start, Loop, binary_sem_wait, Check, Count, PullNothing, Leave,
                Unlock, UseAfterFree, Finish, Goes
  <2>3. Job' = Job
    BY <2>1, <2>2 DEF Job
  <2> QED
    BY <1>1, <2>3
<1> QED
  BY <1>2, <1>3, <1>4 DEF thread_do

(* Whatever has_jobs starts with, main() sees its job through: it is taken *)
(* at most once and thread_pool_wait returns only after main_loop has      *)
(* (thread.c:429-444).                                                     *)
THEOREM PoolKeepsPromise == Spec => PromiseKept
<1>1. Init => Promise!Init
  BY DEF Init, Promise!Init, Job, Owner
<1>2. Inv /\ [Next]_vars => [Promise!Next]_(Promise!vars)
  <2> SUFFICES ASSUME Inv, [Next]_vars PROVE [Promise!Next]_(Promise!vars)
    OBVIOUS
  <2>1. CASE Next
    BY <2>1, PromiseMain, PromiseThread DEF Next
  <2>2. CASE UNCHANGED vars
    BY <2>2 DEF vars, Promise!vars, Job, Owner
  <2> QED
    BY <2>1, <2>2
<1> QED
  BY <1>1, <1>2, Invariant, PTL DEF Spec, PromiseKept, Promise!Spec
=============================================================================
