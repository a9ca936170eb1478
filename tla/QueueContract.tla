--------------------------- MODULE QueueContract ---------------------------
(***************************************************************************)
(* What the job queue promises to those who put work in and to the handlers *)
(* that do it, without ids of jobs, leases or processes.  An item of work   *)
(* is a type of job and its node.  It waits at most once; while it is       *)
(* running, one worker has it, and nobody takes it away from a worker that  *)
(* is inside its lease; it ends only as that worker says, or with its node. *)
(*                                                                          *)
(* An item of which a run has outlived its lease is loose: whoever runs or  *)
(* ran it may end it, until it has ended.                                   *)
(***************************************************************************)
EXTENDS Integers

CONSTANTS Types, Nodes, Workers, MaxAttempts

Items == Types \X Nodes

VARIABLES
    phase,      \* idle, queued or running
    tries,      \* runs since it was put in
    loose,      \* items of which a run has outlived its lease
    doing,      \* the item a worker has inside its lease; {} for none
    verdict,    \* what the worker is about to report of it
    failures    \* items that were given up

vars == <<phase, tries, loose, doing, verdict, failures>>

Init ==
    /\ phase \in [Items -> {"idle", "queued"}]
    /\ tries = [i \in Items |-> 0]
    /\ loose = {}
    /\ doing = [w \in Workers |-> {}]
    /\ verdict = [w \in Workers |-> "none"]
    /\ failures = {}

Nobody(i) == \A w \in Workers : i \notin doing[w]

\* A run inside its lease says v of the item; of a loose one anybody may.
Reported(i, v) ==
    i \in loose \/ \E w \in Workers : i \in doing[w] /\ verdict[w] = v

\* These items are no longer in anybody's hands.
LetGo(S) ==
    /\ doing' = [w \in Workers |-> doing[w] \ S]
    /\ verdict' = [w \in Workers |-> IF doing[w] \subseteq S THEN "none" ELSE verdict[w]]

End(S) ==
    /\ phase' = [i \in Items |-> IF i \in S THEN "idle" ELSE phase[i]]
    /\ tries' = [i \in Items |-> IF i \in S THEN 0 ELSE tries[i]]
    /\ loose' = loose \ S
    /\ LetGo(S)

Enqueue(S) ==
    /\ \A i \in S : phase[i] = "idle"
    /\ phase' = [i \in Items |-> IF i \in S THEN "queued" ELSE phase[i]]
    /\ UNCHANGED <<tries, loose, doing, verdict, failures>>

Start(w, i) ==
    /\ phase[i] = "queued" /\ doing[w] = {} /\ Nobody(i)
    /\ phase' = [phase EXCEPT ![i] = "running"]
    /\ tries' = [tries EXCEPT ![i] = @ + 1]
    /\ doing' = IF i \in loose THEN doing ELSE [doing EXCEPT ![w] = {i}]
    /\ UNCHANGED <<loose, verdict, failures>>

Judge(w, v) ==
    /\ doing[w] # {} /\ verdict[w] = "none"
    /\ verdict' = [verdict EXCEPT ![w] = v]
    /\ UNCHANGED <<phase, tries, loose, doing, failures>>

Finish(i) ==
    /\ phase[i] = "running" /\ Reported(i, "ok")
    /\ End({i})
    /\ UNCHANGED failures

Retry(i) ==
    /\ phase[i] = "running" /\ Reported(i, "error") /\ tries[i] < MaxAttempts
    /\ phase' = [phase EXCEPT ![i] = "queued"]
    /\ LetGo({i})
    /\ UNCHANGED <<tries, loose, failures>>

GiveUp(i) ==
    /\ phase[i] = "running" /\ Reported(i, "error") /\ tries[i] >= MaxAttempts
    /\ End({i})
    /\ failures' = failures \cup {i}

\* Workers die.
Abandon(W) ==
    /\ doing' = [w \in Workers |-> IF w \in W THEN {} ELSE doing[w]]
    /\ verdict' = [w \in Workers |-> IF w \in W THEN "none" ELSE verdict[w]]
    /\ UNCHANGED <<phase, tries, loose, failures>>

Outlive(i) ==
    /\ phase[i] = "running"
    /\ loose' = loose \cup {i}
    /\ LetGo({i})
    /\ UNCHANGED <<phase, tries, failures>>

\* What nobody works on goes back, whatever its attempts.
Reclaim(S) ==
    /\ \A i \in S : phase[i] = "running" /\ Nobody(i)
    /\ phase' = [i \in Items |-> IF i \in S THEN "queued" ELSE phase[i]]
    /\ UNCHANGED <<tries, loose, doing, verdict, failures>>

\* A node is removed, with all that was to be done with it.
Cancel(n) ==
    /\ End({i \in Items : i[2] = n})
    /\ failures' = {i \in failures : i[2] # n}

Next ==
    \/ \E S \in SUBSET Items : Enqueue(S) \/ Reclaim(S)
    \/ \E i \in Items :
        \/ \E w \in Workers : Start(w, i)
        \/ Finish(i) \/ Retry(i) \/ GiveUp(i) \/ Outlive(i)
    \/ \E w \in Workers, v \in {"ok", "error"} : Judge(w, v)
    \/ \E W \in SUBSET Workers : Abandon(W)
    \/ \E n \in Nodes : Cancel(n)

Spec == Init /\ [][Next]_vars

=============================================================================
