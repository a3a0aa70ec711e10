------------------------------ MODULE JobQueue ------------------------------
(***************************************************************************)
(* What a database-backed job queue of PEKAN promises to the person who    *)
(* submitted a job, whatever workers, crashes and retries lie behind it:   *)
(* a run of a job uses up a permission to run it.  Submitting a job grants *)
(* one permission and each resubmission (a retry) one more.                *)
(*                                                                         *)
(* The chatbot queue (WaBotQueue) and the file scan queue (FileScan)  *)
(* are two implementations with different claim steps.                     *)
(***************************************************************************)
EXTENDS Naturals

CONSTANT Job

VARIABLES phase,    \* where the job is, as the queue table tells it
          grants,   \* times the job was submitted or resubmitted
          runs      \* times a worker started to run the job

jqVars == <<phase, grants, runs>>

Phase == {"absent", "waiting", "running", "closed"}

JQTypeOK == /\ phase \in [Job -> Phase]
            /\ grants \in [Job -> Nat]
            /\ runs \in [Job -> Nat]

JQInit == /\ phase = [j \in Job |-> "absent"]
          /\ grants = [j \in Job |-> 0]
          /\ runs = [j \in Job |-> 0]

(* A job is accepted once. *)
Submit(j) == /\ phase[j] = "absent"
             /\ phase' = [phase EXCEPT ![j] = "waiting"]
             /\ grants' = [grants EXCEPT ![j] = @ + 1]
             /\ UNCHANGED runs

(* A worker starts a waiting job: no other worker can start it any more. *)
Start(j) == /\ phase[j] = "waiting"
            /\ phase' = [phase EXCEPT ![j] = "running"]
            /\ runs' = [runs EXCEPT ![j] = @ + 1]
            /\ UNCHANGED grants

(* A result is recorded.  The result of an older run may arrive while the   *)
(* job already waits for its next one: the newer submission is then lost.   *)
Close(j) == /\ phase[j] \in {"waiting", "running"}
            /\ phase' = [phase EXCEPT ![j] = "closed"]
            /\ UNCHANGED <<grants, runs>>

(* The job is submitted again, by an operator or by the queue's own retry. *)
Reopen(j) == /\ phase[j] # "absent"
             /\ phase' = [phase EXCEPT ![j] = "waiting"]
             /\ grants' = [grants EXCEPT ![j] = @ + 1]
             /\ UNCHANGED runs

JQNext == \E j \in Job : Submit(j) \/ Start(j) \/ Close(j) \/ Reopen(j)

JQSpec == JQInit /\ [][JQNext]_jqVars

(* No job runs more often than it was asked for. *)
RunsWithinGrants == \A j \in Job : runs[j] <= grants[j]
=============================================================================
