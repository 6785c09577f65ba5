------------------------------ MODULE JobLease ------------------------------
(***************************************************************************)
(* What the worker promises of a job, without passes, processes, requests  *)
(* or restarts: a job is leased to at most one pass at a time, a lease is  *)
(* taken only on a queued job, a leased job is never queued, and only the  *)
(* end of a lease completes a job.                                         *)
(***************************************************************************)
CONSTANTS Jobs, Runs, None

VARIABLES
    status,   \* the status of a job
    owner     \* the pass that holds its lease, or None

leaseVars == <<status, owner>>

Init ==
    /\ status \in [Jobs -> {"absent", "queued"}]
    /\ owner = [j \in Jobs |-> None]

Take(j, r) ==
    /\ status[j] = "queued"
    /\ owner[j] = None
    /\ status' = [status EXCEPT ![j] = "running"]
    /\ owner' = [owner EXCEPT ![j] = r]

Release(j) ==
    /\ owner[j] # None
    /\ owner' = [owner EXCEPT ![j] = None]
    /\ \E outcome \in {status[j], "completed", "failed"} : status' = [status EXCEPT ![j] = outcome]

\* Operators and failure handlers mark jobs, but lease and complete none.
Mark ==
    /\ UNCHANGED owner
    /\ \A j \in Jobs : status'[j] # status[j] =>
         /\ status'[j] \in {"candidate", "queued", "failed", "cancelled"}
         /\ status'[j] = "queued" => owner[j] = None
    /\ DOMAIN status' = Jobs

\* The process dies and with it every lease.
Revoke ==
    /\ owner' = [j \in Jobs |-> None]
    /\ UNCHANGED status

Next ==
    \/ \E j \in Jobs, r \in Runs : Take(j, r)
    \/ \E j \in Jobs : Release(j)
    \/ Mark
    \/ Revoke

Spec == Init /\ [][Next]_leaseVars
=============================================================================
