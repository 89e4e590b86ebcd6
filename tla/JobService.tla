----------------------------- MODULE JobService -----------------------------
(***************************************************************************)
(* What the scheduler of ds4_server.c promises to a client thread, without *)
(* queue, locks, cancellation or model: a job that the server accepts is   *)
(* served at most once, by one slot, which serves nothing else meanwhile;  *)
(* it is answered in the end, and only then may its client destroy it.     *)
(* ServerScheduler implements this specification.                          *)
(***************************************************************************)
EXTENDS Naturals

CONSTANTS Jobs,   \* the jobs that may be submitted
          Slots,  \* the servers
          NoJob   \* what an idle slot serves

VARIABLES status,  \* where each job is
          serving  \* the job each slot serves

vars == <<status, serving>>

Statuses == {"new", "accepted", "served", "answered", "gone"}

TypeOK == /\ status \in [Jobs -> Statuses]
          /\ serving \in [Slots -> Jobs \cup {NoJob}]

Init == /\ status = [j \in Jobs |-> "new"]
        /\ serving = [s \in Slots |-> NoJob]

\* The server accepts the job.
Accept(j) == /\ status[j] = "new"
             /\ status' = [status EXCEPT ![j] = "accepted"]
             /\ UNCHANGED serving

\* Or its client leaves without an accepted job.
Refuse(j) == /\ status[j] = "new"
             /\ status' = [status EXCEPT ![j] = "gone"]
             /\ UNCHANGED serving

\* An idle slot starts to serve it.
Serve(j, s) == /\ status[j] = "accepted" /\ serving[s] = NoJob
               /\ status' = [status EXCEPT ![j] = "served"]
               /\ serving' = [serving EXCEPT ![s] = j]

\* The slot has answered it.
Answer(s) == /\ serving[s] # NoJob
             /\ status' = [status EXCEPT ![serving[s]] = "answered"]
             /\ serving' = [serving EXCEPT ![s] = NoJob]

\* The client takes back a job that no slot serves.
TakeBack(j) == /\ status[j] = "accepted"
               /\ status' = [status EXCEPT ![j] = "answered"]
               /\ UNCHANGED serving

\* The client destroys its answered job.
Leave(j) == /\ status[j] = "answered"
            /\ status' = [status EXCEPT ![j] = "gone"]
            /\ UNCHANGED serving

Next == \/ \E j \in Jobs : Accept(j) \/ Refuse(j) \/ TakeBack(j) \/ Leave(j)
        \/ \E j \in Jobs, s \in Slots : Serve(j, s)
        \/ \E s \in Slots : Answer(s)

Settle(j) == TakeBack(j) \/ Leave(j) \/ \E s \in Slots : Serve(j, s) \/ (serving[s] = j /\ Answer(s))

Spec == Init /\ [][Next]_vars

\* No accepted job is forgotten.
FairSpec == Spec /\ \A j \in Jobs : WF_vars(Settle(j))
=============================================================================
