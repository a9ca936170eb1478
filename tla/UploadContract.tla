-------------------------- MODULE UploadContract --------------------------
(***************************************************************************)
(* What an upload promises its client, without handlers, staging files or  *)
(* chunks: acknowledged bytes are never lost or acknowledged twice, the     *)
(* file appears in one step with all of them in it, and from then on its    *)
(* content and the fate of the session never change.                        *)
(***************************************************************************)
CONSTANTS Sessions, Bytes

VARIABLES
    state,      \* none, active, completed, cancelled or expired
    acked,      \* bytes the server said it has
    content     \* the file a session has published; {} before that

vars == <<state, acked, content>>

Init ==
    /\ state = [s \in Sessions |-> "none"]
    /\ acked = [s \in Sessions |-> {}]
    /\ content = [s \in Sessions |-> {}]

Open(s) ==
    /\ state[s] = "none"
    /\ state' = [state EXCEPT ![s] = "active"]
    /\ UNCHANGED <<acked, content>>

\* No byte is acknowledged twice.
Acknowledge(s, bytes) ==
    /\ state[s] = "active"
    /\ bytes # {} /\ bytes \cap acked[s] = {}
    /\ acked' = [acked EXCEPT ![s] = @ \cup bytes]
    /\ UNCHANGED <<state, content>>

Publish(s, body) ==
    /\ state[s] = "active"
    /\ acked[s] \subseteq body
    /\ state' = [state EXCEPT ![s] = "completed"]
    /\ content' = [content EXCEPT ![s] = body]
    /\ UNCHANGED acked

Withdraw(s) ==
    /\ state[s] = "active"
    /\ \E end \in {"cancelled", "expired"} : state' = [state EXCEPT ![s] = end]
    /\ UNCHANGED <<acked, content>>

Next ==
    \E s \in Sessions :
        \/ Open(s)
        \/ \E b \in SUBSET Bytes : Acknowledge(s, b) \/ Publish(s, b)
        \/ Withdraw(s)

Spec == Init /\ [][Next]_vars

=============================================================================
