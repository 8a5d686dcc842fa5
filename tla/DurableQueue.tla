---------------------------- MODULE DurableQueue ----------------------------
(***************************************************************************)
(* What the durable realtime queue promises a producer, whatever workers,  *)
(* leases, retries and crashes lie behind it (docs/realtime-reliability.md *)
(* and the at_least_once delivery mode of internal/domain/event):          *)
(*                                                                         *)
(*   - an event counts once its transaction committed, and only then may   *)
(*     it be delivered;                                                    *)
(*   - it is delivered at least once before it is called published;        *)
(*   - once published or dead it stays so, unless a worker was late with   *)
(*     it (beyond its lease, or repeating a failure already recorded): a   *)
(*     late answer may settle the event again, or open it again.           *)
(***************************************************************************)
CONSTANT Events

VARIABLES
    accepted,   \* events whose transaction committed
    delivered,  \* events the stream has stored at least once
    outcome,    \* what the queue says of an event: open, published or dead
    late        \* events a worker held beyond its lease or reports as
                \* failed a second time

vars == <<accepted, delivered, outcome, late>>

Init ==
    /\ accepted = {}
    /\ delivered = {}
    /\ outcome = [e \in Events |-> "open"]
    /\ late = {}

Accept(e) ==
    /\ accepted' = accepted \cup {e}
    /\ UNCHANGED <<delivered, outcome, late>>

Deliver(e) ==
    /\ e \in accepted
    /\ delivered' = delivered \cup {e}
    /\ UNCHANGED <<accepted, outcome, late>>

MaySettle(e) == e \in accepted /\ (outcome[e] = "open" \/ e \in late)

Publish(e) ==
    /\ MaySettle(e)
    /\ e \in delivered
    /\ outcome' = [outcome EXCEPT ![e] = "published"]
    /\ UNCHANGED <<accepted, delivered, late>>

GiveUp(e) ==
    /\ MaySettle(e)
    /\ outcome' = [outcome EXCEPT ![e] = "dead"]
    /\ UNCHANGED <<accepted, delivered, late>>

Reopen(e) ==
    /\ e \in late
    /\ outcome' = [outcome EXCEPT ![e] = "open"]
    /\ UNCHANGED <<accepted, delivered, late>>

RunLate(e) ==
    /\ e \in accepted
    /\ late' = late \cup {e}
    /\ UNCHANGED <<accepted, delivered, outcome>>

Next ==
    \E e \in Events :
        \/ Accept(e) \/ Deliver(e) \/ Publish(e)
        \/ GiveUp(e) \/ Reopen(e) \/ RunLate(e)

Spec == Init /\ [][Next]_vars
=============================================================================
