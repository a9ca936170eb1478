------------------------------- MODULE Jobs -------------------------------
(***************************************************************************)
(* The durable job queue: the jobs table of crates/db with its claim,       *)
(* complete, fail and release statements, and the worker process of         *)
(* crates/worker whose processors claim and run jobs while a reaper returns *)
(* expired leases.  One SQL statement is one step.                          *)
(*                                                                          *)
(* What a handler does to files is abstracted to its result; a permanent    *)
(* deletion may also remove its node, and the node's job rows with it.      *)
(***************************************************************************)
EXTENDS Integers, FiniteSets

CONSTANTS
    Jobs,         \* ids of rows in the jobs table
    Nodes,        \* target nodes
    KindCount,    \* job types, numbered in the order claim_next_job asks for
    Deletion,     \* the number of permanent_deletion
    Priorities,   \* the priorities that producers give each type
    MaxAttempts,  \* max_attempts
    Workers,      \* the processors of a worker process
    None,
    MaxRestarts,  \* a bound on crashes and shutdowns
    MaxOverruns,  \* a bound on handlers that outlive their lease
    DbErrors      \* may a statement of a processor fail?

Kinds == 1 .. KindCount

ASSUME ConstantsOK ==
    /\ KindCount \in Nat \ {0}
    /\ Deletion \in Kinds
    /\ Priorities \in [Kinds -> SUBSET Int]
    /\ MaxAttempts \in Nat \ {0}
    /\ None \notin Jobs \cup Nodes \cup Workers
    /\ MaxRestarts \in Nat /\ MaxOverruns \in Nat
    /\ DbErrors \in BOOLEAN

VARIABLES
    \* the jobs table
    state,      \* "absent" before the insert, "gone" after the cascade
    kind, target, priority, attempts,
    owner,      \* lease_owner
    lapsed,     \* leased jobs with lease_expires_at < now()
    nodes,      \* rows of the nodes table
    \* the worker process
    step,       \* what each processor is about to do
    at,         \* the job it is working on
    scan,       \* the job type claim_next_job asks for next
    draining,   \* shutdown was signalled
    restarts, overruns,
    \* history
    succeeded,  \* jobs of which some handler run has returned Ok
    overrun     \* jobs whose lease ran out under a live handler

row == <<kind, target, priority>>
lease == <<attempts, owner, lapsed>>
process == <<step, at, scan, draining, restarts>>
history == <<succeeded, overrun, overruns>>
vars == <<state, row, lease, nodes, process, history>>

States == {"absent", "pending", "leased", "completed", "failed", "gone"}
Steps == {"scan", "handle", "report_ok", "report_error", "stopped"}

TypeOK ==
    /\ state \in [Jobs -> States]
    /\ kind \in [Jobs -> Kinds]
    /\ target \in [Jobs -> Nodes \cup {None}]
    /\ priority \in [Jobs -> Int]
    /\ attempts \in [Jobs -> Nat]
    /\ owner \in [Jobs -> Workers \cup {None}]
    /\ lapsed \subseteq Jobs
    /\ nodes \subseteq Nodes
    /\ step \in [Workers -> Steps]
    /\ at \in [Workers -> Jobs \cup {None}]
    /\ scan \in [Workers -> Kinds]
    /\ draining \in BOOLEAN
    /\ restarts \in 0 .. MaxRestarts /\ overruns \in 0 .. MaxOverruns
    /\ succeeded \subseteq Jobs /\ overrun \subseteq Jobs

Init ==
    /\ state = [j \in Jobs |-> "absent"]
    /\ kind = [j \in Jobs |-> 1]
    /\ target = [j \in Jobs |-> None]
    /\ priority = [j \in Jobs |-> 0]
    /\ attempts = [j \in Jobs |-> 0]
    /\ owner = [j \in Jobs |-> None]
    /\ lapsed = {}
    /\ nodes = Nodes
    /\ step = [w \in Workers |-> "scan"]
    /\ at = [w \in Workers |-> None]
    /\ scan = [w \in Workers |-> 1]
    /\ draining = FALSE
    /\ restarts = 0 /\ overruns = 0
    /\ succeeded = {} /\ overrun = {}

----------------------------------------------------------------------------
(* Helpers                                                                  *)

Active(j) == state[j] \in {"pending", "leased"}

\* jobs_active_type_target_unique
Enqueued(k, n) == \E j \in Jobs : Active(j) /\ kind[j] = k /\ target[j] = n

\* ORDER BY priority DESC among the pending jobs of one type.
Foremost(j, k) ==
    /\ state[j] = "pending" /\ kind[j] = k
    /\ \A i \in Jobs :
        state[i] = "pending" /\ kind[i] = k => priority[i] <= priority[j]

Working(w) == step[w] \in {"handle", "report_ok", "report_error"}
WorkedOn(j) == \E w \in Workers : Working(w) /\ at[w] = j

\* The processor is back at the top of its loop.
Rest(w) ==
    /\ step' = [step EXCEPT ![w] = "scan"]
    /\ at' = [at EXCEPT ![w] = None]
    /\ UNCHANGED <<scan, draining, restarts>>

----------------------------------------------------------------------------
(* Plausible bugs, one slip each; none belongs to Next.                     *)

Enqueue_NoIndex(j, k, n, p) ==
    /\ state[j] = "absent" /\ n \in nodes
    /\ state' = [state EXCEPT ![j] = "pending"]
    /\ kind' = [kind EXCEPT ![j] = k]
    /\ target' = [target EXCEPT ![j] = n]
    /\ priority' = [priority EXCEPT ![j] = p]
    /\ UNCHANGED <<lease, nodes, process, history>>

FailIf(w, ok, final) ==
    /\ step[w] = "report_error"
    /\ Rest(w)
    /\ state' = [state EXCEPT ![at[w]] =
                    IF ok THEN IF final THEN "failed" ELSE "pending" ELSE @]
    /\ owner' = [owner EXCEPT ![at[w]] = IF ok THEN None ELSE @]
    /\ lapsed' = IF ok THEN lapsed \ {at[w]} ELSE lapsed
    /\ UNCHANGED <<row, attempts, nodes, history>>

Fail_AnyState(w) == FailIf(w, state[at[w]] # "gone", attempts[at[w]] >= MaxAttempts)
Fail_OneShort(w) ==
    FailIf(w, state[at[w]] = "leased", attempts[at[w]] + 1 >= MaxAttempts)

HandleError_Swallowed(w) ==
    /\ step[w] = "handle"
    /\ step' = [step EXCEPT ![w] = "report_ok"]
    /\ UNCHANGED <<state, row, lease, nodes, at, scan, draining, restarts, history>>

ClaimNothing_NoWrap(w) ==
    /\ step[w] = "scan"
    /\ scan[w] > 1 \/ ~draining
    /\ \A j \in Jobs : ~(state[j] = "pending" /\ kind[j] = scan[w])
    /\ scan' = [scan EXCEPT ![w] = @ + 1]
    /\ UNCHANGED <<state, row, lease, nodes, step, at, draining, restarts, history>>

ReleaseIf(due) ==
    /\ due # {}
    /\ state' = [j \in Jobs |-> IF j \in due THEN "pending" ELSE state[j]]
    /\ owner' = [j \in Jobs |-> IF j \in due THEN None ELSE owner[j]]
    /\ lapsed' = lapsed \ due
    /\ UNCHANGED <<row, attempts, nodes, process, history>>

ReleaseExpired_AllLeases == ReleaseIf({j \in Jobs : state[j] = "leased"})
ReleaseExpired_WithinAttempts ==
    ReleaseIf({j \in lapsed : state[j] = "leased" /\ attempts[j] < MaxAttempts})

----------------------------------------------------------------------------
(* Producers: finalize and import (metadata), preview requests, reprocessing,*)
(* permanent deletion and the trash sweep all insert ON CONFLICT DO NOTHING. *)

Enqueue(j, k, n, p) ==
    /\ state[j] = "absent"
    /\ n \in nodes
    /\ ~Enqueued(k, n)
    /\ state' = [state EXCEPT ![j] = "pending"]
    /\ kind' = [kind EXCEPT ![j] = k]
    /\ target' = [target EXCEPT ![j] = n]
    /\ priority' = [priority EXCEPT ![j] = p]
    /\ UNCHANGED <<lease, nodes, process, history>>

----------------------------------------------------------------------------
(* processor_loop                                                           *)

\* claim_job finds a job of the type it asks for.
Claim(w, j) ==
    /\ step[w] = "scan"
    /\ scan[w] > 1 \/ ~draining
    /\ Foremost(j, scan[w])
    /\ state' = [state EXCEPT ![j] = "leased"]
    /\ attempts' = [attempts EXCEPT ![j] = @ + 1]
    /\ owner' = [owner EXCEPT ![j] = w]
    /\ lapsed' = lapsed \ {j}
    /\ step' = [step EXCEPT ![w] = "handle"]
    /\ at' = [at EXCEPT ![w] = j]
    /\ scan' = [scan EXCEPT ![w] = 1]
    /\ UNCHANGED <<row, nodes, draining, restarts, history>>

\* There is none: the next type, or a pause and the first type again.
ClaimNothing(w) ==
    /\ step[w] = "scan"
    /\ scan[w] > 1 \/ ~draining
    /\ \A j \in Jobs : ~(state[j] = "pending" /\ kind[j] = scan[w])
    /\ scan' = [scan EXCEPT ![w] = (@ % KindCount) + 1]
    /\ UNCHANGED <<state, row, lease, nodes, step, at, draining, restarts, history>>

\* handler.handle returns Ok.  Metadata and previews need their node; a purge
\* removes it, cascading to all its jobs, unless it is no longer in the trash.
HandleOk(w) ==
    LET n == target[at[w]] IN
    /\ step[w] = "handle"
    /\ \/ /\ kind[at[w]] = Deletion
          /\ nodes' = nodes \ {n}
          /\ state' = [j \in Jobs |-> IF target[j] = n THEN "gone" ELSE state[j]]
       \/ /\ kind[at[w]] = Deletion \/ n \in nodes
          /\ UNCHANGED <<nodes, state>>
    /\ step' = [step EXCEPT ![w] = "report_ok"]
    /\ succeeded' = succeeded \cup {at[w]}
    /\ UNCHANGED <<row, lease, at, scan, draining, restarts, overrun, overruns>>

HandleError(w) ==
    /\ step[w] = "handle"
    /\ step' = [step EXCEPT ![w] = "report_error"]
    /\ UNCHANGED <<state, row, lease, nodes, at, scan, draining, restarts, history>>

\* complete_job: WHERE state = 'leased', whoever holds the lease.  (A row that
\* get_job does not find has no state to update either.)
Complete(w) ==
    LET j == at[w] IN
    /\ step[w] = "report_ok"
    /\ Rest(w)
    /\ IF state[j] = "leased"
       THEN /\ state' = [state EXCEPT ![j] = "completed"]
            /\ owner' = [owner EXCEPT ![j] = None]
            /\ lapsed' = lapsed \ {j}
       ELSE UNCHANGED <<state, owner, lapsed>>
    /\ UNCHANGED <<row, attempts, nodes, history>>

\* fail_job
Fail(w) ==
    LET j == at[w] IN
    /\ step[w] = "report_error"
    /\ Rest(w)
    /\ IF state[j] = "leased"
       THEN /\ state' = [state EXCEPT ![j] =
                            IF attempts[j] >= MaxAttempts THEN "failed" ELSE "pending"]
            /\ owner' = [owner EXCEPT ![j] = None]
            /\ lapsed' = lapsed \ {j}
       ELSE UNCHANGED <<state, owner, lapsed>>
    /\ UNCHANGED <<row, attempts, nodes, history>>

\* A failing claim, lookup or report ends the processor; run() goes on waiting
\* for a signal and does not look at it.
Die(w) ==
    /\ DbErrors
    /\ step[w] \in {"scan", "report_ok", "report_error"}
    /\ step' = [step EXCEPT ![w] = "stopped"]
    /\ at' = [at EXCEPT ![w] = None]
    /\ scan' = [scan EXCEPT ![w] = 1]
    /\ UNCHANGED <<state, row, lease, nodes, draining, restarts, history>>

----------------------------------------------------------------------------
(* Leases                                                                   *)

\* lease_expires_at passes.  Leases outlive handlers, but for MaxOverruns.
LeaseLapses(j) ==
    /\ state[j] = "leased" /\ j \notin lapsed
    /\ lapsed' = lapsed \cup {j}
    /\ \/ ~WorkedOn(j) /\ UNCHANGED <<overrun, overruns>>
       \/ /\ WorkedOn(j) /\ overruns < MaxOverruns
          /\ overrun' = overrun \cup {j}
          /\ overruns' = overruns + 1
    /\ UNCHANGED <<state, row, attempts, owner, nodes, process, succeeded>>

\* lease_reaper, every minute: release_expired_leases
ReleaseExpired ==
    LET due == {j \in lapsed : state[j] = "leased"} IN
    /\ due # {}
    /\ state' = [j \in Jobs |-> IF j \in due THEN "pending" ELSE state[j]]
    /\ owner' = [j \in Jobs |-> IF j \in due THEN None ELSE owner[j]]
    /\ lapsed' = lapsed \ due
    /\ UNCHANGED <<row, attempts, nodes, process, history>>

----------------------------------------------------------------------------
(* The process                                                              *)

\* SIGTERM: processors leave at the top of their loop, busy ones finish first.
Shutdown ==
    /\ ~draining /\ restarts < MaxRestarts
    /\ draining' = TRUE
    /\ UNCHANGED <<state, row, lease, nodes, step, at, scan, restarts, history>>

Leave(w) ==
    /\ draining
    /\ step[w] = "scan" /\ scan[w] = 1
    /\ step' = [step EXCEPT ![w] = "stopped"]
    /\ UNCHANGED <<state, row, lease, nodes, at, scan, draining, restarts, history>>

Fresh ==
    /\ step' = [w \in Workers |-> "scan"]
    /\ at' = [w \in Workers |-> None]
    /\ scan' = [w \in Workers |-> 1]
    /\ draining' = FALSE
    /\ restarts' = restarts + 1
    /\ UNCHANGED <<state, row, lease, nodes, history>>

\* run() returns when it has been signalled and every processor has stopped;
\* the service manager starts the next one.
Restart ==
    /\ draining /\ restarts < MaxRestarts
    /\ \A w \in Workers : step[w] = "stopped"
    /\ Fresh

\* The process is killed and started again.  Its leases stay.
Crash == restarts < MaxRestarts /\ Fresh

----------------------------------------------------------------------------

Processor(w) ==
    \/ \E j \in Jobs : Claim(w, j)
    \/ ClaimNothing(w)
    \/ HandleOk(w)
    \/ HandleError(w)
    \/ Complete(w)
    \/ Fail(w)
    \/ Leave(w)

Next ==
    \/ \E j \in Jobs, k \in Kinds, n \in Nodes : \E p \in Priorities[k] : Enqueue(j, k, n, p)
    \/ \E w \in Workers : Processor(w) \/ Die(w)
    \/ \E j \in Jobs : LeaseLapses(j)
    \/ ReleaseExpired
    \/ Shutdown \/ Restart \/ Crash

Spec == Init /\ [][Next]_vars

\* Processors run and their handlers return; time passes; the reaper ticks; a
\* process that has ended is started again.
Fairness ==
    /\ \A w \in Workers : WF_vars(Processor(w))
    /\ \A j \in Jobs : WF_vars(LeaseLapses(j))
    /\ WF_vars(ReleaseExpired)
    /\ WF_vars(Restart)

FairSpec == Spec /\ Fairness

----------------------------------------------------------------------------
(* Properties                                                               *)

\* A job whose lease has not run out under its handler is worked on by the
\* one processor that holds the lease, through crashes, reaping and retries.
OneHandler ==
    \A w \in Workers : Working(w) /\ at[w] \notin overrun =>
        \/ state[at[w]] = "leased" /\ owner[at[w]] = w
        \/ state[at[w]] = "gone"

\* A job is completed only when one of its runs returned Ok.
CompletedMeansDone ==
    \A j \in Jobs : state[j] = "completed" => j \in succeeded

\* A job is failed only when its attempts are used up, and nobody is still
\* working on it unless its lease ran out.
FailedMeansExhausted ==
    \A j \in Jobs : state[j] = "failed" =>
        attempts[j] >= MaxAttempts /\ (WorkedOn(j) => j \in overrun)

\* One active job per type and target, however jobs return to the queue.
ActiveUnique ==
    \A i, j \in Jobs :
        Active(i) /\ Active(j) /\ kind[i] = kind[j] /\ target[i] = target[j] => i = j

\* A completed or failed job stays so, whatever late processors report about
\* it; only the removal of its node takes it away.
TerminalForever ==
    [][\A j \in Jobs : state[j] \in {"completed", "failed"} =>
          state'[j] \in {state[j], "gone"}]_vars

\* The job that an item of work, a type and a node, has in the queue.
Item(j) == <<kind[j], target[j]>>
Live(i) == {j \in Jobs : Active(j) /\ Item(j) = i}
Current(i) == CHOOSE j \in Live(i) : TRUE

Phase(i) ==
    IF Live(i) = {} THEN "idle"
    ELSE IF state[Current(i)] = "pending" THEN "queued" ELSE "running"
Tries(i) == IF Live(i) = {} THEN 0 ELSE attempts[Current(i)]
Loose == {i \in Kinds \X Nodes : Live(i) \cap overrun # {}}

\* What a processor has, inside its lease, and what it will report of it.
Doing(w) ==
    IF Working(w) /\ at[w] \notin overrun /\ state[at[w]] = "leased"
    THEN {Item(at[w])} ELSE {}
Verdict(w) ==
    CASE Doing(w) # {} /\ step[w] = "report_ok" -> "ok"
      [] Doing(w) # {} /\ step[w] = "report_error" -> "error"
      [] OTHER -> "none"
Failures == {i \in Kinds \X Nodes : \E j \in Jobs : state[j] = "failed" /\ Item(j) = i}

Contract == INSTANCE QueueContract WITH
    Types <- Kinds,
    phase <- [i \in Kinds \X Nodes |-> Phase(i)],
    tries <- [i \in Kinds \X Nodes |-> Tries(i)],
    loose <- Loose,
    doing <- [w \in Workers |-> Doing(w)],
    verdict <- [w \in Workers |-> Verdict(w)],
    failures <- Failures

\* Rows, leases, the reaper, late reports, crashes and the cascade are, to who
\* queues work and who does it, the queue of QueueContract: one run at a time
\* inside its lease, which alone decides how the work ends.
KeepsContract == Contract!Spec

\* While one processor is alive, every job that is queued is eventually
\* completed, failed or removed, crashes and lost leases notwithstanding.
JobsSettle ==
    []<>(\E w \in Workers : step[w] # "stopped")
        => \A j \in Jobs : Active(j) ~> ~Active(j)

\* "Returns an error when queue access ... fails": a processor that a database
\* error has ended ends run() too.  (It does not, see JobsQueueError.cfg.)
QueueErrorReturns ==
    \A w \in Workers : (step[w] = "stopped") ~> (step[w] # "stopped")

=============================================================================
