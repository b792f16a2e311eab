---------------------------- MODULE JobPromise ----------------------------
(***************************************************************************)
(* What main() relies on when it gives main_loop to the thread pool        *)
(* (thread_pool_add_work, thread_pool_wait): the job is taken at most once *)
(* and whoever waits for the pool goes on only when the job has returned.  *)
(***************************************************************************)
VARIABLES
    job,     (* "none", "queued", "running" or "returned"                   *)
    owner    (* "before" it submits, "waiting", or "done" with the pool     *)

vars == <<job, owner>>

Init == job = "none" /\ owner = "before"

Submit ==
    /\ owner = "before" /\ job = "none"
    /\ job' = "queued" /\ owner' = "waiting"

(* Starting up failed: the pool is given up without a job. *)
Abandon == owner = "before" /\ owner' = "done" /\ UNCHANGED job

Take == job = "queued" /\ job' = "running" /\ UNCHANGED owner

Return == job = "running" /\ job' = "returned" /\ UNCHANGED owner

Resume ==
    /\ owner = "waiting" /\ job = "returned"
    /\ owner' = "done"
    /\ UNCHANGED job

Next == Submit \/ Abandon \/ Take \/ Return \/ Resume

Spec == Init /\ [][Next]_vars
=============================================================================
