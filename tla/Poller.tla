-------------------------------- MODULE Poller --------------------------------
(***************************************************************************)
(* internal/scheduler: the Scheduler dispatches due rows and the Reaper    *)
(* re-dispatches stuck ones.  Both run one transaction after the other:    *)
(* lock a batch, publish it while it is locked, set it to 'queued' and     *)
(* commit.  The tick that finds no row changes nothing.                    *)
(***************************************************************************)
EXTENDS NotificationStore, WorkTopic

NoTransaction(p) == locks[p] = {} /\ outbox[p] = {}

SelectDue(s) ==
    /\ NoTransaction(s)
    /\ SelectSkipLocked(s, Due)
    /\ StartPublish(s, locks'[s])
    /\ NoFault

SelectStuck(r) ==
    /\ NoTransaction(r)
    /\ SelectSkipLocked(r, Stuck)
    /\ StartPublish(r, locks'[r])
    /\ NoFault

(* One message of the publish callback lands while the batch is locked. *)
PollerWrite(p, n) ==
    /\ WriteMessage(p, n)
    /\ NoFault
    /\ UNCHANGED storeVars

CommitWhilePublishing(p) ==  \* wrong variant: does not wait for the callback
    /\ locks[p] # {}
    /\ CommitQueued(p)
    /\ NoFault
    /\ UNCHANGED topicVars

(* The callback returned: UPDATE and COMMIT. *)
PollerCommit(p) ==
    /\ locks[p] # {}
    /\ outbox[p] = {}
    /\ CommitQueued(p)
    /\ NoFault
    /\ UNCHANGED topicVars

(* A statement, the publish or the commit fails, or the process dies: the  *)
(* deferred Rollback (or the server) releases the rows unchanged.          *)
PollerAbort(p) ==
    /\ locks[p] # {}
    /\ Rollback(p)
    /\ AbandonPublish(p)
    /\ Fault
=============================================================================
