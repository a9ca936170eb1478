---------------------------- MODULE JobsProofs ----------------------------
(***************************************************************************)
(* Proofs about Jobs for any number of jobs, processors, restarts and       *)
(* overrunning handlers.  What each processor believes about its job is     *)
(* tied to the row by OneHandler; the other conjuncts of Inv say what the   *)
(* processor may still report and why the reaper never takes a job from a   *)
(* handler that is inside its lease.                                        *)
(***************************************************************************)
EXTENDS Jobs, TLAPS

\* A processor has a job exactly while it works.
HasJob == \A w \in Workers : Working(w) => at[w] \in Jobs

\* It reports success only after a run of the handler has succeeded.
ReportsTruly == \A w \in Workers : step[w] = "report_ok" => at[w] \in succeeded

\* A lease that has run out under a handler is remembered as an overrun.
LapseSeen ==
    \A w \in Workers : Working(w) /\ at[w] \in lapsed =>
        at[w] \in overrun \/ state[at[w]] = "gone"

\* The attempts of a failed job are used up.
FailedSpent == \A j \in Jobs : state[j] = "failed" => attempts[j] >= MaxAttempts

Handling == HasJob /\ OneHandler /\ LapseSeen
Outcomes == ReportsTruly /\ CompletedMeansDone /\ FailedSpent

Inv == TypeOK /\ Handling /\ Outcomes /\ ActiveUnique

----------------------------------------------------------------------------

\* ClaimNothing moves to another type or back to the first.
LEMMA NextKind ==
    ASSUME NEW k \in Kinds PROVE (k % KindCount) + 1 \in Kinds
  BY ConstantsOK, SMT DEF Kinds

\* The types of the variables hold at first and after every step.
LEMMA TypeStep ==
    /\ Init => TypeOK
    /\ TypeOK /\ HasJob /\ [Next]_vars => TypeOK'
<1> USE ConstantsOK DEF TypeOK, States, Steps, row, lease, process, history
<1>1. Init => TypeOK
  <2>1. 1 \in Kinds
    BY DEF Kinds
  <2>2. 0 \in 0 .. MaxRestarts /\ 0 \in 0 .. MaxOverruns
    OBVIOUS
  <2>3. ASSUME Init
        PROVE  /\ state \in [Jobs -> States]
               /\ attempts \in [Jobs -> Nat]
               /\ priority \in [Jobs -> Int]
               /\ step \in [Workers -> Steps]
    BY <2>3 DEF Init
  <2> QED BY <2>1, <2>2, <2>3 DEF Init
<1>2. SUFFICES ASSUME TypeOK, HasJob, [Next]_vars PROVE TypeOK'
  BY <1>1
<1>3. CASE \E j \in Jobs, k \in Kinds, n \in Nodes : \E p \in Priorities[k] : Enqueue(j, k, n, p)
  <2>1. PICK j \in Jobs, k \in Kinds, n \in Nodes : \E p \in Priorities[k] : Enqueue(j, k, n, p)
    BY <1>3
  <2>2. PICK p \in Priorities[k] : Enqueue(j, k, n, p)
    BY <2>1
  <2>3. p \in Int
    BY <2>2
  <2> QED BY <1>2, <2>2, <2>3 DEF Enqueue
<1>4. ASSUME NEW w \in Workers, NEW j \in Jobs, Claim(w, j) PROVE TypeOK'
  <2>1. 1 \in Kinds
    BY DEF Kinds
  <2> QED BY <1>2, <1>4, <2>1 DEF Claim
<1>5. ASSUME NEW w \in Workers, ClaimNothing(w) PROVE TypeOK'
  BY <1>2, <1>5, NextKind DEF ClaimNothing
<1>6. ASSUME NEW w \in Workers, HandleOk(w) PROVE TypeOK'
  BY <1>2, <1>6 DEF HandleOk, HasJob, Working
<1>7. ASSUME NEW w \in Workers, HandleError(w) PROVE TypeOK'
  BY <1>2, <1>7 DEF HandleError
<1>8. ASSUME NEW w \in Workers, Complete(w) PROVE TypeOK'
  BY <1>2, <1>8 DEF Complete, Rest
<1>9. ASSUME NEW w \in Workers, Fail(w) PROVE TypeOK'
  BY <1>2, <1>9 DEF Fail, Rest
<1>10. ASSUME NEW w \in Workers, Leave(w) \/ Die(w) PROVE TypeOK'
  <2>1. 1 \in Kinds
    BY DEF Kinds
  <2> QED BY <1>2, <1>10, <2>1 DEF Leave, Die
<1>11. ASSUME NEW j \in Jobs, LeaseLapses(j) PROVE TypeOK'
  BY <1>2, <1>11 DEF LeaseLapses
<1>12. CASE ReleaseExpired
  BY <1>2, <1>12 DEF ReleaseExpired
<1>13. CASE Shutdown
  BY <1>2, <1>13 DEF Shutdown
<1>14. CASE Restart \/ Crash
  <2>1. 1 \in Kinds
    BY DEF Kinds
  <2>2. restarts' \in 0 .. MaxRestarts
    BY <1>2, <1>14 DEF Restart, Crash, Fresh
  <2>3. Fresh
    BY <1>14 DEF Restart, Crash
  <2> QED BY <1>2, <2>1, <2>2, <2>3 DEF Fresh
<1>15. CASE UNCHANGED vars
  BY <1>2, <1>15 DEF vars
<1> QED
  BY <1>2, <1>3, <1>4, <1>5, <1>6, <1>7, <1>8, <1>9, <1>10, <1>11, <1>12, <1>13,
     <1>14, <1>15 DEF Next, Processor

\* No step makes two processors believe in one lease: claims, reports, late
\* reports, the reaper and the cascade of a purge keep Handling.
LEMMA HandlingStep ==
    TypeOK /\ Handling /\ [Next]_vars => Handling'
<1> SUFFICES ASSUME TypeOK, Handling, [Next]_vars PROVE Handling'
  OBVIOUS
<1> USE ConstantsOK DEF TypeOK, Handling, HasJob, OneHandler, LapseSeen, Working,
        States, Steps, row, lease, process, history
<1>1. ASSUME NEW j \in Jobs, NEW k \in Kinds, NEW n \in Nodes,
             NEW p \in Priorities[k], Enqueue(j, k, n, p)
      PROVE Handling'
  BY <1>1 DEF Enqueue
<1>2. ASSUME NEW w \in Workers, NEW j \in Jobs, Claim(w, j) PROVE Handling'
  BY <1>2 DEF Claim, Foremost
<1>3. ASSUME NEW w \in Workers, ClaimNothing(w) PROVE Handling'
  BY <1>3 DEF ClaimNothing
<1>4. ASSUME NEW w \in Workers, HandleOk(w) PROVE Handling'
  BY <1>4 DEF HandleOk
<1>5. ASSUME NEW w \in Workers, HandleError(w) PROVE Handling'
  BY <1>5 DEF HandleError
<1>6. ASSUME NEW w \in Workers, Complete(w) PROVE Handling'
  BY <1>6 DEF Complete, Rest
<1>7. ASSUME NEW w \in Workers, Fail(w) PROVE Handling'
  BY <1>7 DEF Fail, Rest
<1>8. ASSUME NEW w \in Workers, Leave(w) \/ Die(w) PROVE Handling'
  BY <1>8 DEF Leave, Die
<1>9. ASSUME NEW j \in Jobs, LeaseLapses(j) PROVE Handling'
  BY <1>9 DEF LeaseLapses, WorkedOn
<1>10. CASE ReleaseExpired
  BY <1>10 DEF ReleaseExpired
<1>11. CASE Shutdown
  BY <1>11 DEF Shutdown
<1>12. CASE Restart \/ Crash
  BY <1>12 DEF Restart, Crash, Fresh
<1>13. CASE UNCHANGED vars
  BY <1>13 DEF vars
<1> QED
  BY <1>1, <1>2, <1>3, <1>4, <1>5, <1>6, <1>7, <1>8, <1>9, <1>10, <1>11, <1>12, <1>13
  DEF Next, Processor

\* Whether a step ends a job as completed or failed, the reason holds.
LEMMA OutcomesStep ==
    TypeOK /\ HasJob /\ Outcomes /\ [Next]_vars => Outcomes'
<1> SUFFICES ASSUME TypeOK, HasJob, Outcomes, [Next]_vars PROVE Outcomes'
  OBVIOUS
<1> USE ConstantsOK DEF TypeOK, HasJob, Outcomes, ReportsTruly, CompletedMeansDone,
        FailedSpent, Working, States, Steps, row, lease, process, history
<1>1. ASSUME NEW j \in Jobs, NEW k \in Kinds, NEW n \in Nodes,
             NEW p \in Priorities[k], Enqueue(j, k, n, p)
      PROVE Outcomes'
  BY <1>1 DEF Enqueue
<1>2. ASSUME NEW w \in Workers, NEW j \in Jobs, Claim(w, j) PROVE Outcomes'
  BY <1>2 DEF Claim, Foremost
<1>3. ASSUME NEW w \in Workers, ClaimNothing(w) PROVE Outcomes'
  BY <1>3 DEF ClaimNothing
<1>4. ASSUME NEW w \in Workers, HandleOk(w) PROVE Outcomes'
  BY <1>4 DEF HandleOk
<1>5. ASSUME NEW w \in Workers, HandleError(w) PROVE Outcomes'
  BY <1>5 DEF HandleError
<1>6. ASSUME NEW w \in Workers, Complete(w) PROVE Outcomes'
  BY <1>6 DEF Complete, Rest
<1>7. ASSUME NEW w \in Workers, Fail(w) PROVE Outcomes'
  BY <1>7 DEF Fail, Rest
<1>8. ASSUME NEW w \in Workers, Leave(w) \/ Die(w) PROVE Outcomes'
  BY <1>8 DEF Leave, Die
<1>9. ASSUME NEW j \in Jobs, LeaseLapses(j) PROVE Outcomes'
  BY <1>9 DEF LeaseLapses
<1>10. CASE ReleaseExpired
  BY <1>10 DEF ReleaseExpired
<1>11. CASE Shutdown
  BY <1>11 DEF Shutdown
<1>12. CASE Restart \/ Crash
  BY <1>12 DEF Restart, Crash, Fresh
<1>13. CASE UNCHANGED vars
  BY <1>13 DEF vars
<1> QED
  BY <1>1, <1>2, <1>3, <1>4, <1>5, <1>6, <1>7, <1>8, <1>9, <1>10, <1>11, <1>12, <1>13
  DEF Next, Processor

\* Only an insert makes a job active, and then the index is consulted.
LEMMA OnlyEnqueueActivates ==
    ASSUME TypeOK, HasJob, [Next]_vars
    PROVE  \/ /\ UNCHANGED <<kind, target>>
              /\ \A j \in Jobs : Active(j)' => Active(j)
           \/ \E j \in Jobs, k \in Kinds, n \in Nodes : \E p \in Priorities[k] :
                Enqueue(j, k, n, p)
<1> USE DEF TypeOK, HasJob, Working, Active, States, Steps, row, lease, process, history
<1> DEFINE Frame ==
        UNCHANGED <<kind, target>> /\ \A j \in Jobs : Active(j)' => Active(j)
<1>1. ASSUME NEW w \in Workers, NEW j \in Jobs, Claim(w, j) PROVE Frame
  BY <1>1 DEF Claim, Foremost
<1>2. ASSUME NEW w \in Workers, ClaimNothing(w) \/ HandleError(w) \/ Leave(w) \/ Die(w)
      PROVE Frame
  BY <1>2 DEF ClaimNothing, HandleError, Leave, Die
<1>3. ASSUME NEW w \in Workers, HandleOk(w) PROVE Frame
  BY <1>3 DEF HandleOk
<1>4. ASSUME NEW w \in Workers, Complete(w) \/ Fail(w) PROVE Frame
  BY <1>4 DEF Complete, Fail, Rest
<1>5. ASSUME NEW j \in Jobs, LeaseLapses(j) PROVE Frame
  BY <1>5 DEF LeaseLapses
<1>6. CASE ReleaseExpired
  BY <1>6 DEF ReleaseExpired
<1>7. CASE Shutdown \/ Restart \/ Crash \/ UNCHANGED vars
  BY <1>7 DEF Shutdown, Restart, Crash, Fresh, vars
<1> QED
  BY <1>1, <1>2, <1>3, <1>4, <1>5, <1>6, <1>7 DEF Next, Processor

\* One active job per type and target after every step.
LEMMA ActiveUniqueStep ==
    TypeOK /\ HasJob /\ ActiveUnique /\ [Next]_vars => ActiveUnique'
<1> SUFFICES ASSUME TypeOK, HasJob, ActiveUnique, [Next]_vars PROVE ActiveUnique'
  OBVIOUS
<1>1. ASSUME UNCHANGED <<kind, target>>, \A j \in Jobs : Active(j)' => Active(j)
      PROVE  ActiveUnique'
  BY <1>1 DEF ActiveUnique
<1>2. ASSUME NEW j \in Jobs, NEW k \in Kinds, NEW n \in Nodes,
             NEW p \in Priorities[k], Enqueue(j, k, n, p)
      PROVE  ActiveUnique'
  BY <1>2 DEF Enqueue, Enqueued, ActiveUnique, Active, TypeOK
<1> QED
  BY <1>1, <1>2, OnlyEnqueueActivates

----------------------------------------------------------------------------

\* The invariant is inductive.
THEOREM Invariant == Spec => []Inv
<1>1. Init => Inv
  BY TypeStep DEF Init, Inv, Handling, HasJob, OneHandler, LapseSeen, Outcomes,
     ReportsTruly, CompletedMeansDone, FailedSpent, ActiveUnique, Active, Working
<1>2. Inv /\ [Next]_vars => Inv'
  BY TypeStep, HandlingStep, OutcomesStep, ActiveUniqueStep DEF Inv, Handling
<1> QED
  BY <1>1, <1>2, PTL DEF Spec

\* Every variable has its type in every reachable state.
THEOREM TypeCorrect == Spec => []TypeOK
  BY Invariant, PTL DEF Inv

\* A job inside its lease is worked on by the lease's owner alone, whatever
\* crashes, expires and is retried (claim_job, release_expired_leases).
THEOREM OneHandlerCorrect == Spec => []OneHandler
  BY Invariant, PTL DEF Inv, Handling

\* A completed job was done: no late or repeated report completes another.
THEOREM CompletedCorrect == Spec => []CompletedMeansDone
  BY Invariant, PTL DEF Inv, Outcomes

\* The partial unique index holds through every return to the queue.
THEOREM ActiveUniqueCorrect == Spec => []ActiveUnique
  BY Invariant, PTL DEF Inv

\* A failed job has used its attempts and is left alone by handlers that are
\* inside their lease.
THEOREM FailedCorrect == Spec => []FailedMeansExhausted
<1>1. Inv => FailedMeansExhausted
  BY DEF Inv, TypeOK, Handling, HasJob, OneHandler, Outcomes, FailedSpent,
     FailedMeansExhausted, WorkedOn, Working
<1> QED
  BY <1>1, Invariant, PTL

\* Completed and failed are final (complete_job and fail_job match on 'leased').
THEOREM TerminalCorrect == Spec => TerminalForever
<1> DEFINE Final == \A j \in Jobs : state[j] \in {"completed", "failed"} =>
                        state'[j] \in {state[j], "gone"}
<1>1. ASSUME Inv, [Next]_vars PROVE Final
  <2> USE <1>1 DEF Inv, TypeOK, Handling, HasJob, Working, States, Steps, row, lease,
          process, history
  <2>1. ASSUME NEW j \in Jobs, NEW k \in Kinds, NEW n \in Nodes,
               NEW p \in Priorities[k], Enqueue(j, k, n, p)
        PROVE Final
    BY <2>1 DEF Enqueue
  <2>2. ASSUME NEW w \in Workers, NEW j \in Jobs, Claim(w, j) PROVE Final
    BY <2>2 DEF Claim, Foremost
  <2>3. ASSUME NEW w \in Workers,
               ClaimNothing(w) \/ HandleError(w) \/ Leave(w) \/ Die(w)
        PROVE Final
    BY <2>3 DEF ClaimNothing, HandleError, Leave, Die
  <2>4. ASSUME NEW w \in Workers, HandleOk(w) PROVE Final
    BY <2>4 DEF HandleOk
  <2>5. ASSUME NEW w \in Workers, Complete(w) \/ Fail(w) PROVE Final
    BY <2>5 DEF Complete, Fail, Rest
  <2>6. ASSUME NEW j \in Jobs, LeaseLapses(j) PROVE Final
    BY <2>6 DEF LeaseLapses
  <2>7. CASE ReleaseExpired
    BY <2>7 DEF ReleaseExpired
  <2>8. CASE Shutdown \/ Restart \/ Crash \/ UNCHANGED vars
    BY <2>8 DEF Shutdown, Restart, Crash, Fresh, vars
  <2> QED
    BY <2>1, <2>2, <2>3, <2>4, <2>5, <2>6, <2>7, <2>8 DEF Next, Processor
<1>2. Inv /\ [Next]_vars => [Final]_vars
  BY <1>1
<1> QED
  BY <1>2, Invariant, PTL DEF Spec, TerminalForever

----------------------------------------------------------------------------
(* What the queue promises (QueueContract)                                  *)

Items == Kinds \X Nodes

\* A job that was put in is of a node; one that was not has nothing behind it.
RowsOK ==
    \A j \in Jobs :
        IF state[j] = "absent"
        THEN attempts[j] = 0 /\ j \notin overrun /\ target[j] = None
        ELSE target[j] \in Nodes

\* An item that waits or runs does so by one job, and is what the job is.
ViewOK ==
    \A j \in Jobs : Active(j) =>
        /\ Item(j) \in Items
        /\ Live(Item(j)) = {j}
        /\ Phase(Item(j)) = IF state[j] = "pending" THEN "queued" ELSE "running"
        /\ Tries(Item(j)) = attempts[j]
        /\ Item(j) \in Loose <=> j \in overrun

\* What is known of a row holds after every step.
LEMMA RowsStep ==
    TypeOK /\ Handling /\ RowsOK /\ [Next]_vars => RowsOK'
<1> SUFFICES ASSUME TypeOK, Handling, RowsOK, [Next]_vars PROVE RowsOK'
  OBVIOUS
<1> USE ConstantsOK DEF TypeOK, RowsOK, Handling, HasJob, Working, States, Steps, row,
        lease, process, history
<1>1. ASSUME NEW j \in Jobs, NEW k \in Kinds, NEW n \in Nodes,
             NEW p \in Priorities[k], Enqueue(j, k, n, p)
      PROVE RowsOK'
  BY <1>1 DEF Enqueue
<1>2. ASSUME NEW w \in Workers, NEW j \in Jobs, Claim(w, j) PROVE RowsOK'
  BY <1>2 DEF Claim, Foremost
<1>3. ASSUME NEW w \in Workers,
             ClaimNothing(w) \/ HandleError(w) \/ Leave(w) \/ Die(w)
      PROVE RowsOK'
  BY <1>3 DEF ClaimNothing, HandleError, Leave, Die
<1>4. ASSUME NEW w \in Workers, HandleOk(w) PROVE RowsOK'
  <2>1. target[at[w]] \in Nodes
    BY <1>4 DEF HandleOk, OneHandler
  <2>2. \A j \in Jobs : state'[j] = state[j] \/ (state'[j] = "gone" /\ target[j] \in Nodes)
    BY <1>4, <2>1 DEF HandleOk
  <2>3. \A j \in Jobs : state[j] = "absent" => state'[j] = "absent"
    BY <1>4, <2>1 DEF HandleOk
  <2> QED
    BY <1>4, <2>2, <2>3 DEF HandleOk
<1>5. ASSUME NEW w \in Workers, Complete(w) \/ Fail(w) PROVE RowsOK'
  BY <1>5 DEF Complete, Fail, Rest
<1>6. ASSUME NEW j \in Jobs, LeaseLapses(j) PROVE RowsOK'
  BY <1>6 DEF LeaseLapses
<1>7. CASE ReleaseExpired
  BY <1>7 DEF ReleaseExpired
<1>8. CASE Shutdown \/ Restart \/ Crash \/ UNCHANGED vars
  BY <1>8 DEF Shutdown, Restart, Crash, Fresh, vars
<1> QED
  BY <1>1, <1>2, <1>3, <1>4, <1>5, <1>6, <1>7, <1>8 DEF Next, Processor

\* The index makes the item's view of the job the job's own.
LEMMA View == TypeOK /\ ActiveUnique /\ RowsOK => ViewOK
<1> SUFFICES ASSUME TypeOK, ActiveUnique, RowsOK, NEW j \in Jobs, Active(j)
             PROVE  /\ Item(j) \in Items
                    /\ Live(Item(j)) = {j}
                    /\ Phase(Item(j)) = IF state[j] = "pending" THEN "queued" ELSE "running"
                    /\ Tries(Item(j)) = attempts[j]
                    /\ Item(j) \in Loose <=> j \in overrun
  BY DEF ViewOK
<1>1. Item(j) \in Items
  BY DEF RowsOK, Active, Item, Items, TypeOK
<1>2. Live(Item(j)) = {j}
  BY DEF ActiveUnique, Live, Item
<1>3. Current(Item(j)) = j
  BY <1>2 DEF Current
<1> QED
  BY <1>1, <1>2, <1>3 DEF Phase, Tries, Loose, Items

\* An item is as before if all its jobs are.
LEMMA SameItem ==
    ASSUME NEW i, UNCHANGED <<kind, target>>,
           \A j \in Jobs : Item(j) = i =>
                state'[j] = state[j] /\ attempts'[j] = attempts[j]
                    /\ (j \in overrun' <=> j \in overrun)
    PROVE  /\ Live(i)' = Live(i)
           /\ Phase(i)' = Phase(i)
           /\ Tries(i)' = Tries(i)
           /\ i \in Loose' <=> i \in Loose
<1>1. \A j : Item(j)' = Item(j)
  BY DEF Item
<1>2. Live(i)' = Live(i)
  BY <1>1 DEF Live, Active
<1>3. Current(i)' = Current(i)
  BY <1>2 DEF Current
<1>4. Live(i) = {} \/ Current(i) \in Live(i)
  BY DEF Current
<1>5. \A j \in Live(i) : j \in Jobs /\ Item(j) = i
  BY DEF Live
<1> QED
  BY <1>2, <1>3, <1>4, <1>5 DEF Phase, Tries, Loose

QInv == Inv /\ RowsOK /\ ViewOK

\* What a worker has, it has by a lease of its own, and nobody else has it; a
\* loose item nobody has.
LEMMA Holding ==
    ASSUME QInv, NEW w \in Workers, NEW i \in Doing(w)
    PROVE  /\ Working(w) /\ at[w] \in Jobs /\ at[w] \notin overrun
           /\ state[at[w]] = "leased" /\ Item(at[w]) = i
           /\ i \in Items /\ i \notin Loose /\ Doing(w) = {i}
           /\ \A j \in Jobs : Active(j) /\ Item(j) = i => j = at[w]
           /\ \A v \in Workers : i \in Doing(v) => v = w
<1>1. /\ Working(w) /\ at[w] \in Jobs /\ at[w] \notin overrun
      /\ state[at[w]] = "leased" /\ Item(at[w]) = i /\ Doing(w) = {i}
  BY DEF Doing, QInv, Inv, Handling, HasJob
<1>2. Active(at[w])
  BY <1>1 DEF Active
<1>3. i \in Items /\ i \notin Loose
  BY <1>1, <1>2 DEF QInv, ViewOK
<1>4. \A j \in Jobs : Active(j) /\ Item(j) = i => j = at[w]
  BY <1>1, <1>2 DEF QInv, Inv, ActiveUnique, Item
<1>5. ASSUME NEW v \in Workers, i \in Doing(v) PROVE v = w
  <2>1. Working(v) /\ at[v] \in Jobs /\ state[at[v]] = "leased" /\ Item(at[v]) = i
    BY <1>5 DEF Doing, QInv, Inv, Handling, HasJob
  <2>2. at[v] = at[w]
    BY <1>4, <2>1 DEF Active
  <2> QED
    BY <1>1, <2>1, <2>2 DEF QInv, Inv, Handling, OneHandler
<1> QED
  BY <1>1, <1>3, <1>4, <1>5

\* A processor has what it had if it, its job and the lease are as before.
LEMMA SameDoing ==
    ASSUME NEW w \in Workers, UNCHANGED <<kind, target>>,
           step'[w] = step[w], at'[w] = at[w],
           Working(w) => (state'[at[w]] = "leased" <=> state[at[w]] = "leased")
                            /\ (at[w] \in overrun' <=> at[w] \in overrun)
    PROVE  Doing(w)' = Doing(w) /\ Verdict(w)' = Verdict(w)
<1>1. Working(w)' <=> Working(w)
  BY DEF Working
<1>2. Item(at[w])' = Item(at[w])
  BY DEF Item
<1>3. Doing(w)' = Doing(w)
  BY <1>1, <1>2 DEF Doing, Item
<1> QED
  BY <1>3 DEF Verdict

\* Where nothing that the mapping reads has changed, the contract stutters.
LEMMA Stutters ==
    ASSUME UNCHANGED <<kind, target, state, attempts, overrun>>,
           \A w \in Workers : Doing(w)' = Doing(w) /\ Verdict(w)' = Verdict(w)
    PROVE  UNCHANGED Contract!vars
<1>1. \A i \in Items : /\ Phase(i)' = Phase(i)
                       /\ Tries(i)' = Tries(i)
                       /\ i \in Loose' <=> i \in Loose
  BY SameItem
<1>2. Loose' = Loose /\ Failures' = Failures
  BY <1>1 DEF Loose, Failures, Item, Items
<1> QED
  BY <1>1, <1>2 DEF Contract!vars, Items

\* An insert is Enqueue of its item.
LEMMA EnqueueKeeps ==
    ASSUME QInv, ViewOK', NEW j \in Jobs, NEW k \in Kinds, NEW n \in Nodes,
           NEW p \in Priorities[k], Enqueue(j, k, n, p)
    PROVE  Contract!Next
<1> DEFINE i == <<k, n>>
<1>1. i \in Items /\ Item(j)' = i /\ state'[j] = "pending" /\ Live(i) = {}
  BY DEF Enqueue, Item, Items, Enqueued, Live, QInv, Inv, TypeOK
<1>2. Active(j)'
  BY <1>1 DEF Active
<1>3. attempts'[j] = 0 /\ j \notin overrun'
  BY DEF Enqueue, QInv, RowsOK, lease, history
<1>4. Phase(i)' = "queued" /\ Tries(i)' = 0 /\ i \notin Loose'
  BY <1>1, <1>2, <1>3 DEF ViewOK
<1>5. Phase(i) = "idle" /\ Tries(i) = 0 /\ i \notin Loose
  BY <1>1 DEF Phase, Tries, Loose
<1>6. ASSUME NEW h \in Items, h # i
      PROVE  Phase(h)' = Phase(h) /\ Tries(h)' = Tries(h) /\ (h \in Loose' <=> h \in Loose)
  <2>1. \A g \in Jobs \ {j} : /\ Item(g)' = Item(g) /\ state'[g] = state[g]
                              /\ attempts'[g] = attempts[g]
    BY DEF Enqueue, Item, lease, QInv, Inv, TypeOK
  <2>2. ~Active(j)
    BY DEF Enqueue, Active
  <2>3. Live(h)' = Live(h)
    BY <1>1, <1>6, <2>1, <2>2 DEF Live, Active
  <2>4. Current(h)' = Current(h)
    BY <2>3 DEF Current
  <2>5. Live(h) = {} \/ Current(h) \in Live(h)
    BY DEF Current
  <2>6. \A g \in Live(h) : g \in Jobs \ {j}
    BY <2>2 DEF Live
  <2>7. overrun' = overrun
    BY DEF Enqueue, history
  <2> QED
    BY <2>1, <2>3, <2>4, <2>5, <2>6, <2>7 DEF Phase, Tries, Loose
<1>7. ASSUME NEW w \in Workers PROVE Doing(w)' = Doing(w) /\ Verdict(w)' = Verdict(w)
  <2>1. step' = step /\ at' = at /\ overrun' = overrun
    BY DEF Enqueue, process, history
  <2>2. Working(w) => at[w] \in Jobs
    BY DEF QInv, Inv, Handling, HasJob
  <2>3. Working(w) => (state'[at[w]] = "leased" <=> state[at[w]] = "leased")
    BY <2>2 DEF Enqueue, QInv, Inv, TypeOK
  <2>4. state[at[w]] = "leased" => at[w] # j
    BY DEF Enqueue
  <2>5. Working(w) /\ state[at[w]] = "leased" => Item(at[w])' = Item(at[w])
    BY <2>1, <2>2, <2>4 DEF Enqueue, Item, QInv, Inv, TypeOK
  <2>6. Doing(w)' = Doing(w)
    BY <2>1, <2>3, <2>5 DEF Doing, Working, Item
  <2> QED
    BY <2>1, <2>6 DEF Verdict
<1>8. Loose' = Loose
  BY <1>4, <1>5, <1>6 DEF Loose, Items
<1>9. Failures' = Failures
  BY DEF Enqueue, Failures, Item, QInv, Inv, TypeOK
<1>10. Contract!Enqueue({i})
  BY ONLY <1>1, <1>4, <1>5, <1>6, <1>7, <1>8, <1>9 DEF Contract!Enqueue, Contract!Items, Items
<1> QED
  BY <1>1, <1>10 DEF Contract!Next, Contract!Items, Items

\* A claim is Start.
LEMMA ClaimKeeps ==
    ASSUME QInv, ViewOK', NEW w \in Workers, NEW j \in Jobs, Claim(w, j)
    PROVE  Contract!Next
<1> DEFINE i == Item(j)
<1>1. /\ state[j] = "pending" /\ state'[j] = "leased" /\ attempts'[j] = attempts[j] + 1
      /\ Active(j) /\ Active(j)' /\ overrun' = overrun
      /\ UNCHANGED <<kind, target>>
      /\ step'[w] = "handle" /\ at'[w] = j /\ step[w] = "scan"
      /\ \A g \in Jobs \ {j} : state'[g] = state[g] /\ attempts'[g] = attempts[g]
      /\ \A v \in Workers \ {w} : step'[v] = step[v] /\ at'[v] = at[v]
  BY DEF Claim, Foremost, Active, row, history, QInv, Inv, TypeOK
<1>2. i \in Items /\ Item(j)' = i
  BY <1>1 DEF QInv, ViewOK, Item
<1>3. Phase(i) = "queued" /\ Tries(i) = attempts[j] /\ (i \in Loose <=> j \in overrun)
  BY <1>1 DEF QInv, ViewOK
<1>4. /\ Phase(i)' = "running" /\ Tries(i)' = Tries(i) + 1 /\ (i \in Loose' <=> i \in Loose)
  BY <1>1, <1>2, <1>3 DEF ViewOK
<1>5. \A h \in Items : h # i =>
        Phase(h)' = Phase(h) /\ Tries(h)' = Tries(h) /\ (h \in Loose' <=> h \in Loose)
  BY <1>1, SameItem
<1>6. Loose' = Loose
  BY <1>4, <1>5 DEF Loose, Items
<1>7. Failures' = Failures
  BY <1>1 DEF Failures, Item
<1>8. \A v \in Workers : i \notin Doing(v)
  BY <1>1, Holding
<1>9. Doing(w) = {} /\ Verdict(w) = "none" /\ Verdict(w)' = "none"
  BY <1>1 DEF Doing, Verdict, Working
<1>10. Doing(w)' = IF i \in Loose THEN {} ELSE {i}
  BY <1>1, <1>2, <1>3 DEF Doing, Working
<1>11. ASSUME NEW v \in Workers \ {w} PROVE Doing(v)' = Doing(v) /\ Verdict(v)' = Verdict(v)
  <2>1. Working(v) => at[v] \in Jobs
    BY DEF QInv, Inv, Handling, HasJob
  <2>2. CASE Working(v) /\ at[v] = j
    <3>1. j \in overrun
      BY <1>1, <2>2 DEF QInv, Inv, Handling, OneHandler
    <3> QED
      BY <1>1, <2>2, <3>1 DEF Doing, Verdict
  <2>3. CASE ~(Working(v) /\ at[v] = j)
    BY <1>1, <2>1, <2>3, SameDoing
  <2> QED
    BY <2>2, <2>3
<1>12. Contract!Start(w, i)
  BY ONLY <1>2, <1>3, <1>4, <1>5, <1>6, <1>7, <1>8, <1>9, <1>10, <1>11
     DEF Contract!Start, Contract!Nobody, Contract!Items, Items
<1> QED
  BY <1>2, <1>12 DEF Contract!Next, Contract!Items, Items

\* What is true when one leased job, j, loses its lease by w's report.
Reports(w, j) ==
    /\ state[j] = "leased" /\ state'[j] # "leased"
    /\ UNCHANGED <<kind, target, attempts, overrun>>
    /\ at[w] = j /\ step'[w] = "scan" /\ Working(w)
    /\ \A g \in Jobs \ {j} : state'[g] = state[g]
    /\ \A v \in Workers \ {w} : step'[v] = step[v] /\ at'[v] = at[v]

\* Then the item, and it alone, leaves the hands it was in.
LEMMA ReportFrees ==
    ASSUME QInv, NEW w \in Workers, NEW j \in Jobs, Reports(w, j)
    PROVE  /\ Item(j) \in Items /\ Item(j)' = Item(j)
           /\ Phase(Item(j)) = "running" /\ Tries(Item(j)) = attempts[j]
           /\ Item(j) \in Loose <=> j \in overrun
           /\ Item(j) \in Loose \/ Item(j) \in Doing(w)
           /\ \A h \in Items : h # Item(j) =>
                Phase(h)' = Phase(h) /\ Tries(h)' = Tries(h) /\ (h \in Loose' <=> h \in Loose)
           /\ \A v \in Workers :
                /\ Doing(v)' = Doing(v) \ {Item(j)}
                /\ Verdict(v)' = IF Doing(v) \subseteq {Item(j)} THEN "none" ELSE Verdict(v)
<1>1. Active(j)
  BY DEF Reports, Active
<1>2. /\ Item(j) \in Items /\ Item(j)' = Item(j)
      /\ Phase(Item(j)) = "running" /\ Tries(Item(j)) = attempts[j]
      /\ Item(j) \in Loose <=> j \in overrun
  BY <1>1 DEF Reports, QInv, ViewOK, Item
<1>3. Item(j) \in Loose \/ Item(j) \in Doing(w)
  BY <1>2 DEF Reports, Doing
<1>4. \A h \in Items : h # Item(j) =>
        Phase(h)' = Phase(h) /\ Tries(h)' = Tries(h) /\ (h \in Loose' <=> h \in Loose)
  <2>1. \A h \in Items : h # Item(j) => \A g \in Jobs : Item(g) = h =>
            state'[g] = state[g] /\ attempts'[g] = attempts[g]
                /\ (g \in overrun' <=> g \in overrun)
    BY DEF Reports
  <2> QED
    BY <2>1, SameItem DEF Reports
<1>5. ASSUME NEW v \in Workers
      PROVE  /\ Doing(v)' = Doing(v) \ {Item(j)}
             /\ Verdict(v)' = IF Doing(v) \subseteq {Item(j)} THEN "none" ELSE Verdict(v)
  <2>1. CASE v = w
    <3>1. Doing(w)' = {} /\ Verdict(w)' = "none"
      BY DEF Reports, Doing, Verdict, Working
    <3>2. Doing(w) \subseteq {Item(j)}
      BY DEF Reports, Doing
    <3> QED
      BY <2>1, <3>1, <3>2
  <2>2. CASE v # w /\ Working(v) /\ at[v] = j
    <3>1. j \in overrun
      BY <2>2 DEF Reports, QInv, Inv, Handling, OneHandler
    <3>2. Doing(v) = {} /\ Doing(v)' = {}
      BY <2>2, <3>1 DEF Reports, Doing
    <3> QED
      BY <3>2 DEF Verdict
  <2>3. CASE v # w /\ ~(Working(v) /\ at[v] = j)
    <3>1. Working(v) => at[v] \in Jobs
      BY DEF QInv, Inv, Handling, HasJob
    <3>2. Doing(v)' = Doing(v) /\ Verdict(v)' = Verdict(v)
      BY <2>3, <3>1, SameDoing DEF Reports
    <3>3. Item(j) \notin Doing(v)
      BY <1>1, <2>3, Holding
    <3> QED
      BY <3>2, <3>3 DEF Verdict
  <2> QED
    BY <2>1, <2>2, <2>3
<1> QED
  BY <1>2, <1>3, <1>4, <1>5

\* A job that is over leaves its item idle; one that waits again leaves it queued.
LEMMA ReportLeaves ==
    ASSUME QInv, ViewOK', NEW w \in Workers, NEW j \in Jobs, Reports(w, j)
    PROVE  /\ state'[j] = "pending" =>
                /\ Phase(Item(j))' = "queued" /\ Tries(Item(j))' = attempts[j]
                /\ Item(j) \in Loose' <=> j \in overrun
           /\ state'[j] # "pending" =>
                Phase(Item(j))' = "idle" /\ Tries(Item(j))' = 0 /\ Item(j) \notin Loose'
<1>1. Item(j)' = Item(j) /\ attempts' = attempts /\ overrun' = overrun
  BY DEF Reports, Item
<1>2. ASSUME state'[j] = "pending"
      PROVE  /\ Phase(Item(j))' = "queued" /\ Tries(Item(j))' = attempts[j]
             /\ Item(j) \in Loose' <=> j \in overrun
  BY <1>1, <1>2 DEF ViewOK, Active
<1>3. ASSUME state'[j] # "pending"
      PROVE  Phase(Item(j))' = "idle" /\ Tries(Item(j))' = 0 /\ Item(j) \notin Loose'
  <2>1. Live(Item(j)) = {j}
    BY DEF Reports, Active, QInv, ViewOK
  <2>2. \A g \in Jobs \ {j} : ~(Active(g) /\ Item(g) = Item(j))
    BY <2>1 DEF Live
  <2>3. \A g \in Jobs \ {j} : ~(Active(g)' /\ Item(g)' = Item(j))
    BY <2>2 DEF Reports, Active, Item
  <2>4. ~Active(j)'
    BY <1>3 DEF Reports, Active
  <2>5. Live(Item(j))' = {}
    BY <1>1, <2>3, <2>4 DEF Live
  <2> QED
    BY <1>1, <2>5 DEF Phase, Tries, Loose
<1> QED
  BY <1>2, <1>3

\* A report about a job that is not leased any more changes nothing.
LEMMA LateReport ==
    ASSUME QInv, NEW w \in Workers, Working(w), state[at[w]] # "leased",
           UNCHANGED <<kind, target, state, attempts, overrun>>, step'[w] = "scan",
           \A v \in Workers \ {w} : step'[v] = step[v] /\ at'[v] = at[v]
    PROVE  UNCHANGED Contract!vars
<1>1. /\ Doing(w) = {} /\ Verdict(w) = "none"
      /\ Doing(w)' = {} /\ Verdict(w)' = "none"
  BY DEF Doing, Verdict, Working
<1>2. \A v \in Workers \ {w} : Doing(v)' = Doing(v) /\ Verdict(v)' = Verdict(v)
  BY SameDoing
<1> QED
  BY <1>1, <1>2, Stutters

\* A report of success is Finish, for a loose item whoever makes it.
LEMMA CompleteKeeps ==
    ASSUME QInv, ViewOK', NEW w \in Workers, Complete(w)
    PROVE  Contract!Next \/ UNCHANGED Contract!vars
<1>0. at[w] \in Jobs
  BY DEF Complete, Working, QInv, Inv, Handling, HasJob
<1> PICK j \in Jobs : j = at[w]
  BY <1>0
<1> DEFINE i == Item(j)
<1>1. /\ at[w] = j /\ Working(w) /\ step[w] = "report_ok" /\ step'[w] = "scan"
      /\ UNCHANGED <<kind, target, attempts, overrun>>
      /\ \A v \in Workers \ {w} : step'[v] = step[v] /\ at'[v] = at[v]
  BY DEF Complete, Rest, Working, row, history, QInv, Inv, Handling, HasJob, TypeOK
<1>2. CASE state[j] # "leased"
  BY <1>1, <1>2, LateReport DEF Complete
<1>3. CASE state[j] = "leased"
  <2>1. state' = [state EXCEPT ![j] = "completed"]
    BY <1>3 DEF Complete
  <2>2. state'[j] = "completed" /\ \A g \in Jobs \ {j} : state'[g] = state[g]
    BY <1>1, <2>1 DEF QInv, Inv, TypeOK
  <2>3. Reports(w, j)
    BY <1>1, <1>3, <2>2 DEF Reports
  <2>4. i \in Items /\ Phase(i) = "running" /\ (i \in Loose \/ i \in Doing(w))
    BY <1>1, <2>3, ReportFrees
  <2>5. /\ i' = i
        /\ \A h \in Items : h # i =>
            Phase(h)' = Phase(h) /\ Tries(h)' = Tries(h) /\ (h \in Loose' <=> h \in Loose)
    BY <1>1, <2>3, ReportFrees
  <2>6. Phase(i)' = "idle" /\ Tries(i)' = 0 /\ i \notin Loose'
    BY <1>1, <2>2, <2>3, ReportLeaves
  <2>7. \A v \in Workers :
            /\ Doing(v)' = Doing(v) \ {i}
            /\ Verdict(v)' = IF Doing(v) \subseteq {i} THEN "none" ELSE Verdict(v)
    BY <1>1, <2>3, ReportFrees
  <2>8. Loose' = Loose \ {i}
    BY <2>5, <2>6 DEF Loose, Items
  <2>9. i \in Doing(w) => Verdict(w) = "ok"
    BY <1>1 DEF Verdict
  <2>10. Failures' = Failures
    BY <1>1, <1>3, <2>2 DEF Failures, Item
  <2>11. Contract!Finish(i)
    BY ONLY <2>4, <2>5, <2>6, <2>7, <2>8, <2>9, <2>10
       DEF Contract!Finish, Contract!Reported, Contract!End, Contract!LetGo,
           Contract!Items, Items
  <2> QED
    BY <2>4, <2>11 DEF Contract!Next, Contract!Items, Items
<1> QED
  BY <1>2, <1>3

\* A report of failure is Retry or, when the attempts are used up, GiveUp.
LEMMA FailKeeps ==
    ASSUME QInv, ViewOK', NEW w \in Workers, Fail(w)
    PROVE  Contract!Next \/ UNCHANGED Contract!vars
<1>0. at[w] \in Jobs
  BY DEF Fail, Working, QInv, Inv, Handling, HasJob
<1> PICK j \in Jobs : j = at[w]
  BY <1>0
<1> DEFINE i == Item(j)
<1>1. /\ at[w] = j /\ Working(w) /\ step[w] = "report_error" /\ step'[w] = "scan"
      /\ UNCHANGED <<kind, target, attempts, overrun>>
      /\ \A v \in Workers \ {w} : step'[v] = step[v] /\ at'[v] = at[v]
  BY DEF Fail, Rest, Working, row, history, QInv, Inv, Handling, HasJob, TypeOK
<1>2. CASE state[j] # "leased"
  BY <1>1, <1>2, LateReport DEF Fail
<1>3. CASE state[j] = "leased"
  <2>1. state' = [state EXCEPT ![j] =
                    IF attempts[j] >= MaxAttempts THEN "failed" ELSE "pending"]
    BY <1>3 DEF Fail
  <2>2. /\ state'[j] = IF attempts[j] >= MaxAttempts THEN "failed" ELSE "pending"
        /\ \A g \in Jobs \ {j} : state'[g] = state[g]
    BY <1>1, <2>1 DEF QInv, Inv, TypeOK
  <2>3. Reports(w, j)
    BY <1>1, <1>3, <2>2 DEF Reports
  <2>4. /\ i \in Items /\ Phase(i) = "running" /\ Tries(i) = attempts[j]
        /\ i \in Loose \/ i \in Doing(w)
        /\ i \in Loose <=> j \in overrun
    BY <1>1, <2>3, ReportFrees
  <2>5. /\ i' = i
        /\ \A h \in Items : h # i =>
            Phase(h)' = Phase(h) /\ Tries(h)' = Tries(h) /\ (h \in Loose' <=> h \in Loose)
    BY <1>1, <2>3, ReportFrees
  <2>6. \A v \in Workers :
            /\ Doing(v)' = Doing(v) \ {i}
            /\ Verdict(v)' = IF Doing(v) \subseteq {i} THEN "none" ELSE Verdict(v)
    BY <1>1, <2>3, ReportFrees
  <2>7. i \in Doing(w) => Verdict(w) = "error"
    BY <1>1 DEF Verdict
  <2>8. attempts[j] \in Nat /\ MaxAttempts \in Nat
    BY <1>1, ConstantsOK DEF QInv, Inv, TypeOK
  <2>9. CASE attempts[j] >= MaxAttempts
    <3>1. state'[j] = "failed"
      BY <2>2, <2>9
    <3>2. Phase(i)' = "idle" /\ Tries(i)' = 0 /\ i \notin Loose'
      BY <1>1, <2>3, <3>1, ReportLeaves
    <3>3. Loose' = Loose \ {i}
      BY <2>5, <3>2 DEF Loose, Items
    <3>4. Failures' = Failures \cup {i}
      BY <1>1, <1>3, <2>2, <2>4, <3>1 DEF Failures, Item, Items
    <3>5. Contract!GiveUp(i)
      BY ONLY <2>4, <2>5, <2>6, <2>7, <2>9, <3>2, <3>3, <3>4
         DEF Contract!GiveUp, Contract!Reported, Contract!End, Contract!LetGo,
             Contract!Items, Items
    <3> QED
      BY <2>4, <3>5 DEF Contract!Next, Contract!Items, Items
  <2>10. CASE attempts[j] < MaxAttempts
    <3>1. state'[j] = "pending"
      BY <2>2, <2>8, <2>10
    <3>2. Phase(i)' = "queued" /\ Tries(i)' = Tries(i) /\ (i \in Loose' <=> i \in Loose)
      BY <1>1, <2>3, <2>4, <3>1, ReportLeaves
    <3>3. Loose' = Loose
      BY <2>5, <3>2 DEF Loose, Items
    <3>4. Failures' = Failures
      BY <1>1, <1>3, <2>2, <3>1 DEF Failures, Item
    <3>5. Contract!Retry(i)
      BY ONLY <2>4, <2>5, <2>6, <2>7, <2>10, <3>2, <3>3, <3>4
         DEF Contract!Retry, Contract!Reported, Contract!LetGo, Contract!Items, Items
    <3> QED
      BY <2>4, <3>5 DEF Contract!Next, Contract!Items, Items
  <2> QED
    BY <2>8, <2>9, <2>10
<1> QED
  BY <1>2, <1>3

\* What a run returns is Judge, if it is still inside its lease.
LEMMA JudgeKeeps ==
    ASSUME QInv, NEW w \in Workers, NEW v \in {"ok", "error"}, step[w] = "handle",
           step' = [step EXCEPT ![w] = IF v = "ok" THEN "report_ok" ELSE "report_error"],
           at' = at, UNCHANGED <<kind, target, state, attempts, overrun>>
    PROVE  Contract!Next \/ UNCHANGED Contract!vars
<1>1. /\ step'[w] = IF v = "ok" THEN "report_ok" ELSE "report_error"
      /\ \A u \in Workers \ {w} : step'[u] = step[u] /\ at'[u] = at[u]
  BY DEF QInv, Inv, TypeOK
<1>2. Doing(w)' = Doing(w)
  BY <1>1 DEF Doing, Working, Item
<1>3. \A u \in Workers \ {w} : Doing(u)' = Doing(u) /\ Verdict(u)' = Verdict(u)
  BY <1>1, SameDoing
<1>4. Verdict(w) = "none" /\ Verdict(w)' = IF Doing(w) = {} THEN "none" ELSE v
  BY <1>1, <1>2 DEF Verdict
<1>5. CASE Doing(w) = {}
  BY <1>2, <1>3, <1>4, <1>5, Stutters
<1>6. CASE Doing(w) # {}
  <2>1. \A i \in Items : /\ Phase(i)' = Phase(i)
                         /\ Tries(i)' = Tries(i)
                         /\ i \in Loose' <=> i \in Loose
    BY SameItem
  <2>2. Loose' = Loose /\ Failures' = Failures
    BY <2>1 DEF Loose, Failures, Item, Items
  <2>3. Contract!Judge(w, v)
    BY ONLY <1>2, <1>3, <1>4, <1>6, <2>1, <2>2 DEF Contract!Judge, Items
  <2> QED
    BY <2>3 DEF Contract!Next
<1> QED
  BY <1>5, <1>6

\* A handler that succeeds is Judge or, if it has removed its node, Cancel.
LEMMA HandleKeeps ==
    ASSUME QInv, NEW w \in Workers, HandleOk(w)
    PROVE  Contract!Next \/ UNCHANGED Contract!vars
<1>0. at[w] \in Jobs /\ Working(w) /\ step[w] = "handle"
  BY DEF HandleOk, Working, QInv, Inv, Handling, HasJob
<1>1. target[at[w]] \in Nodes
  BY <1>0 DEF QInv, Inv, Handling, OneHandler, RowsOK
<1>2. PICK n \in Nodes : n = target[at[w]]
  BY <1>1
<1>3. /\ UNCHANGED <<kind, target, attempts, overrun>> /\ at' = at
      /\ step' = [step EXCEPT ![w] = "report_ok"]
  BY DEF HandleOk, row, lease
<1>4. CASE state' = state
  BY <1>0, <1>3, <1>4, JudgeKeeps
<1>5. CASE state' = [j \in Jobs |-> IF target[j] = n THEN "gone" ELSE state[j]]
  <2> DEFINE S == {i \in Items : i[2] = n}
  <2>1. \A j \in Jobs : Item(j)' = Item(j) /\ Item(j)[2] = target[j]
    BY <1>3 DEF Item
  <2>2. \A j \in Jobs : state'[j] = IF target[j] = n THEN "gone" ELSE state[j]
    BY <1>5
  <2>3. \A i \in Items \ S :
            Phase(i)' = Phase(i) /\ Tries(i)' = Tries(i) /\ (i \in Loose' <=> i \in Loose)
    <3>1. \A i \in Items \ S : \A j \in Jobs : Item(j) = i =>
            state'[j] = state[j] /\ attempts'[j] = attempts[j]
                /\ (j \in overrun' <=> j \in overrun)
      BY <1>3, <2>1, <2>2
    <3> QED
      BY <1>3, <3>1, SameItem
  <2>4. \A i \in S : Phase(i)' = "idle" /\ Tries(i)' = 0 /\ i \notin Loose'
    <3>1. \A i \in S : \A j \in Jobs : Item(j) = i => state'[j] = "gone"
      BY <2>1, <2>2
    <3>2. \A i \in S : Live(i)' = {}
      BY <2>1, <3>1 DEF Live, Active
    <3> QED
      BY <3>2 DEF Phase, Tries, Loose
  <2>5. Loose' = Loose \ S
    BY <2>3, <2>4 DEF Loose, Items
  <2>6. Failures' = {i \in Failures : i[2] # n}
    BY <2>1, <2>2 DEF Failures
  <2>7. ASSUME NEW v \in Workers
        PROVE  /\ Doing(v)' = Doing(v) \ S
               /\ Verdict(v)' = IF Doing(v) \subseteq S THEN "none" ELSE Verdict(v)
    <3>1. Working(v) => at[v] \in Jobs
      BY DEF QInv, Inv, Handling, HasJob
    <3>2. Working(v)' <=> Working(v)
      BY <1>0, <1>3 DEF Working, QInv, Inv, TypeOK
    <3>3. CASE Working(v) /\ target[at[v]] = n
      <4>1. Doing(v)' = {} /\ Verdict(v)' = "none"
        BY <1>3, <2>2, <3>1, <3>3 DEF Doing, Verdict
      <4>2. Doing(v) \subseteq {Item(at[v])} /\ Item(at[v])[2] = n
        BY <2>1, <3>1, <3>3 DEF Doing
      <4>3. \A i \in Doing(v) : i \in Items
        BY Holding
      <4> QED
        BY <4>1, <4>2, <4>3
    <3>4. CASE ~(Working(v) /\ target[at[v]] = n)
      <4>1. Working(v) => v # w
        BY <1>2, <3>4
      <4>2. Doing(v)' = Doing(v) /\ Verdict(v)' = Verdict(v)
        <5>1. CASE Working(v)
          <6>1. step'[v] = step[v] /\ at'[v] = at[v]
            BY <1>3, <4>1, <5>1 DEF QInv, Inv, TypeOK
          <6> QED
            BY <1>3, <2>2, <3>1, <3>4, <5>1, <6>1, SameDoing
        <5>2. CASE ~Working(v)
          BY <3>2, <5>2 DEF Doing, Verdict
        <5> QED
          BY <5>1, <5>2
      <4>3. Doing(v) \cap S = {}
        BY <2>1, <3>1, <3>4 DEF Doing
      <4> QED
        BY <4>2, <4>3 DEF Verdict
    <3> QED
      BY <3>3, <3>4
  <2>8. Contract!Cancel(n)
    BY ONLY <2>3, <2>4, <2>5, <2>6, <2>7
       DEF Contract!Cancel, Contract!End, Contract!LetGo, Contract!Items, Items
  <2> QED
    BY <2>8 DEF Contract!Next
<1> QED
  BY <1>2, <1>4, <1>5 DEF HandleOk

\* A lease that runs out under its handler is Outlive.
LEMMA LapseKeeps ==
    ASSUME QInv, ViewOK', NEW j \in Jobs, LeaseLapses(j)
    PROVE  Contract!Next \/ UNCHANGED Contract!vars
<1> DEFINE i == Item(j)
<1>1. /\ state[j] = "leased" /\ UNCHANGED <<kind, target, state, attempts, step, at>>
      /\ \/ ~WorkedOn(j) /\ overrun' = overrun
         \/ WorkedOn(j) /\ overrun' = overrun \cup {j}
  BY DEF LeaseLapses, row, process
<1>2. CASE overrun' = overrun
  <2>1. \A v \in Workers : Doing(v)' = Doing(v) /\ Verdict(v)' = Verdict(v)
    BY <1>1, <1>2, SameDoing
  <2> QED
    BY <1>1, <1>2, <2>1, Stutters
<1>3. CASE overrun' = overrun \cup {j}
  <2>1. i \in Items /\ i' = i /\ Phase(i) = "running" /\ Active(j) /\ Active(j)'
    BY <1>1 DEF QInv, ViewOK, Active, Item
  <2>2. Phase(i)' = Phase(i) /\ Tries(i)' = Tries(i) /\ i \in Loose'
    BY <1>1, <1>3, <2>1 DEF QInv, ViewOK
  <2>3. \A h \in Items : h # i =>
            Phase(h)' = Phase(h) /\ Tries(h)' = Tries(h) /\ (h \in Loose' <=> h \in Loose)
    BY <1>1, <1>3, SameItem
  <2>4. Loose' = Loose \cup {i}
    BY <2>1, <2>2, <2>3 DEF Loose, Items
  <2>5. Failures' = Failures
    BY <1>1 DEF Failures, Item
  <2>6. ASSUME NEW v \in Workers
        PROVE  /\ Doing(v)' = Doing(v) \ {i}
               /\ Verdict(v)' = IF Doing(v) \subseteq {i} THEN "none" ELSE Verdict(v)
    <3>1. CASE Working(v) /\ at[v] = j
      BY <1>1, <1>3, <3>1 DEF Doing, Verdict
    <3>2. CASE ~(Working(v) /\ at[v] = j)
      <4>1. Doing(v)' = Doing(v) /\ Verdict(v)' = Verdict(v)
        BY <1>1, <1>3, <3>2, SameDoing
      <4>2. i \notin Doing(v)
        BY <2>1, <3>2, Holding
      <4> QED
        BY <4>1, <4>2 DEF Verdict
    <3> QED
      BY <3>1, <3>2
  <2>7. Contract!Outlive(i)
    BY ONLY <2>1, <2>2, <2>3, <2>4, <2>5, <2>6
       DEF Contract!Outlive, Contract!LetGo, Contract!Items, Items
  <2> QED
    BY <2>1, <2>7 DEF Contract!Next, Contract!Items, Items
<1> QED
  BY <1>1, <1>2, <1>3

\* The reaper is Reclaim: by LapseSeen nobody is inside the leases it returns.
LEMMA ReleaseKeeps ==
    ASSUME QInv, ViewOK', ReleaseExpired
    PROVE  Contract!Next
<1> DEFINE due == {j \in lapsed : state[j] = "leased"}
           S == {i \in Items : \E j \in due : Item(j) = i}
<1>1. /\ state' = [j \in Jobs |-> IF j \in due THEN "pending" ELSE state[j]]
      /\ UNCHANGED <<kind, target, attempts, overrun, step, at>>
  BY DEF ReleaseExpired, row, process, history
<1>2. due \subseteq Jobs
  BY DEF QInv, Inv, TypeOK
<1>3. /\ \A j \in due : state[j] = "leased" /\ state'[j] = "pending" /\ Active(j) /\ Active(j)'
      /\ \A j \in Jobs : j \notin due => state'[j] = state[j]
      /\ \A j \in Jobs : Item(j)' = Item(j)
  BY <1>1, <1>2 DEF Active, Item
<1>4. ASSUME NEW i \in S
      PROVE  /\ Phase(i) = "running" /\ Phase(i)' = "queued"
             /\ Tries(i)' = Tries(i) /\ (i \in Loose' <=> i \in Loose)
             /\ \A v \in Workers : i \notin Doing(v)
  <2>1. PICK j \in due : Item(j) = i
    OBVIOUS
  <2>2. j \in Jobs /\ Item(j)' = i
    BY <1>2, <1>3, <2>1
  <2>3. Phase(i) = "running" /\ Tries(i) = attempts[j] /\ (i \in Loose <=> j \in overrun)
    BY <1>3, <2>1, <2>2 DEF QInv, ViewOK
  <2>4. Phase(i)' = "queued" /\ Tries(i)' = attempts[j] /\ (i \in Loose' <=> j \in overrun)
    BY <1>1, <1>3, <2>1, <2>2 DEF ViewOK
  <2>5. ASSUME NEW v \in Workers, i \in Doing(v) PROVE FALSE
    <3>1. j = at[v] /\ Working(v) /\ at[v] \notin overrun /\ state[at[v]] = "leased"
      BY <1>3, <2>1, <2>2, <2>5, Holding
    <3> QED
      BY <2>1, <3>1 DEF QInv, Inv, Handling, LapseSeen
  <2> QED
    BY <2>3, <2>4, <2>5
<1>5. ASSUME NEW i \in Items \ S
      PROVE  Phase(i)' = Phase(i) /\ Tries(i)' = Tries(i) /\ (i \in Loose' <=> i \in Loose)
  <2>1. \A j \in Jobs : Item(j) = i => state'[j] = state[j]
    BY <1>3
  <2> QED
    BY <1>1, <2>1, SameItem
<1>6. Loose' = Loose
  BY <1>4, <1>5 DEF Loose, Items
<1>7. Failures' = Failures
  BY <1>3 DEF Failures
<1>8. ASSUME NEW v \in Workers PROVE Doing(v)' = Doing(v) /\ Verdict(v)' = Verdict(v)
  <2>1. CASE Working(v) /\ at[v] \in due /\ at[v] \notin overrun
    BY <2>1 DEF QInv, Inv, Handling, LapseSeen
  <2>2. CASE at[v] \in overrun
    <3>1. Doing(v) = {} /\ Doing(v)' = {}
      BY <1>1, <2>2 DEF Doing
    <3> QED
      BY <3>1 DEF Verdict
  <2>3. CASE ~Working(v)
    BY <1>1, <2>3, SameDoing
  <2>4. CASE Working(v) /\ at[v] \notin due
    <3>1. at[v] \in Jobs
      BY <2>4 DEF QInv, Inv, Handling, HasJob
    <3> QED
      BY <1>1, <1>3, <2>4, <3>1, SameDoing
  <2> QED
    BY <2>1, <2>2, <2>3, <2>4
<1>9. Contract!Reclaim(S)
  BY ONLY <1>4, <1>5, <1>6, <1>7, <1>8
     DEF Contract!Reclaim, Contract!Nobody, Contract!Items, Items
<1> QED
  BY <1>9 DEF Contract!Next, Contract!Items, Items

\* Processors that die, alone or with their process, are Abandon.
LEMMA DeathKeeps ==
    ASSUME QInv, NEW W \in SUBSET Workers,
           UNCHANGED <<kind, target, state, attempts, overrun>>,
           \A w \in W : step'[w] \in {"scan", "stopped"},
           \A w \in Workers \ W : step'[w] = step[w] /\ at'[w] = at[w]
    PROVE  Contract!Next
<1>1. \A w \in W : Doing(w)' = {} /\ Verdict(w)' = "none"
  BY DEF Doing, Verdict, Working
<1>2. \A w \in Workers \ W : Doing(w)' = Doing(w) /\ Verdict(w)' = Verdict(w)
  BY SameDoing
<1>3. \A i \in Items : /\ Phase(i)' = Phase(i)
                       /\ Tries(i)' = Tries(i)
                       /\ i \in Loose' <=> i \in Loose
  BY SameItem
<1>4. Loose' = Loose /\ Failures' = Failures
  BY <1>3 DEF Loose, Failures, Item, Items
<1>5. Contract!Abandon(W)
  BY ONLY <1>1, <1>2, <1>3, <1>4 DEF Contract!Abandon, Items
<1> QED
  BY <1>5 DEF Contract!Next

\* Every step of the queue is one of the contract, or none.
LEMMA ContractStep ==
    QInv /\ ViewOK' /\ [Next]_vars => [Contract!Next]_(Contract!vars)
<1> SUFFICES ASSUME QInv, ViewOK', [Next]_vars
             PROVE  Contract!Next \/ UNCHANGED Contract!vars
  OBVIOUS
<1> DEFINE Kept == Contract!Next \/ UNCHANGED Contract!vars
<1>1. ASSUME NEW j \in Jobs, NEW k \in Kinds, NEW n \in Nodes,
             NEW p \in Priorities[k], Enqueue(j, k, n, p)
      PROVE  Kept
  BY <1>1, EnqueueKeeps
<1>2. ASSUME NEW w \in Workers, NEW j \in Jobs, Claim(w, j) PROVE Kept
  BY <1>2, ClaimKeeps
<1>3. ASSUME NEW w \in Workers, ClaimNothing(w) PROVE Kept
  <2>1. \A v \in Workers : Doing(v)' = Doing(v) /\ Verdict(v)' = Verdict(v)
    BY <1>3, SameDoing DEF ClaimNothing, row, history
  <2> QED
    BY <1>3, <2>1, Stutters DEF ClaimNothing, row, lease, history
<1>4. ASSUME NEW w \in Workers, HandleOk(w) PROVE Kept
  BY <1>4, HandleKeeps
<1>5. ASSUME NEW w \in Workers, HandleError(w) PROVE Kept
  <2>1. /\ step[w] = "handle" /\ step' = [step EXCEPT ![w] = "report_error"] /\ at' = at
        /\ UNCHANGED <<kind, target, state, attempts, overrun>>
    BY <1>5 DEF HandleError, row, lease, history
  <2> QED
    BY <2>1, JudgeKeeps
<1>6. ASSUME NEW w \in Workers, Complete(w) PROVE Kept
  BY <1>6, CompleteKeeps
<1>7. ASSUME NEW w \in Workers, Fail(w) PROVE Kept
  BY <1>7, FailKeeps
<1>8. ASSUME NEW w \in Workers, Leave(w) \/ Die(w) PROVE Kept
  <2>1. /\ UNCHANGED <<kind, target, state, attempts, overrun>>
        /\ step'[w] = "stopped"
        /\ \A v \in Workers \ {w} : step'[v] = step[v] /\ at'[v] = at[v]
    BY <1>8 DEF Leave, Die, row, lease, history, QInv, Inv, TypeOK
  <2>2. {w} \in SUBSET Workers /\ \A u \in {w} : step'[u] \in {"scan", "stopped"}
    BY <2>1
  <2> QED
    BY ONLY <2>1, <2>2, QInv, DeathKeeps
<1>9. ASSUME NEW j \in Jobs, LeaseLapses(j) PROVE Kept
  BY <1>9, LapseKeeps
<1>10. CASE ReleaseExpired
  BY <1>10, ReleaseKeeps
<1>11. CASE Shutdown \/ UNCHANGED vars
  <2>1. UNCHANGED <<kind, target, state, attempts, overrun, step, at>>
    BY <1>11 DEF Shutdown, vars, row, lease, process, history
  <2>2. \A v \in Workers : Doing(v)' = Doing(v) /\ Verdict(v)' = Verdict(v)
    BY <2>1, SameDoing
  <2> QED
    BY <2>1, <2>2, Stutters
<1>12. CASE Restart \/ Crash
  <2>1. /\ UNCHANGED <<kind, target, state, attempts, overrun>>
        /\ \A w \in Workers : step'[w] = "scan"
    BY <1>12 DEF Restart, Crash, Fresh, row, lease, history
  <2> QED
    BY <2>1, DeathKeeps
<1> QED
  BY <1>1, <1>2, <1>3, <1>4, <1>5, <1>6, <1>7, <1>8, <1>9, <1>10, <1>11, <1>12
  DEF Next, Processor

\* The queue starts empty, in both views.
LEMMA ContractInit == Init => Contract!Init /\ RowsOK
<1> SUFFICES ASSUME Init PROVE Contract!Init /\ RowsOK
  OBVIOUS
<1>1. RowsOK
  BY DEF Init, RowsOK
<1>2. \A i : Live(i) = {}
  BY DEF Init, Live, Active
<1>3. \A i \in Items : Phase(i) = "idle" /\ Tries(i) = 0
  BY <1>2 DEF Phase, Tries
<1>4. Loose = {} /\ Failures = {}
  BY <1>2 DEF Loose, Failures, Init
<1>5. \A w \in Workers : Doing(w) = {} /\ Verdict(w) = "none"
  BY DEF Init, Doing, Verdict, Working
<1> QED
  BY <1>1, <1>3, <1>4, <1>5 DEF Contract!Init, Contract!Items, Items

\* The jobs table, its leases, the reaper and the processors implement the
\* queue of QueueContract, for any number of jobs, crashes and overruns.
THEOREM ContractCorrect == Spec => KeepsContract
<1>1. Init => RowsOK
  BY ContractInit
<1>2. Inv /\ RowsOK /\ [Next]_vars => RowsOK'
  BY RowsStep DEF Inv
<1>3. Spec => []RowsOK
  BY <1>1, <1>2, Invariant, PTL DEF Spec
<1>4. Inv /\ RowsOK => QInv
  BY View DEF QInv, Inv
<1>5. QInv => ViewOK
  BY DEF QInv
<1>6. Init => Contract!Init
  BY ContractInit
<1> QED
  BY <1>3, <1>4, <1>5, <1>6, Invariant, ContractStep, PTL
     DEF Spec, KeepsContract, Contract!Spec

=============================================================================
