----------------------------- MODULE DurableState -----------------------------
(***************************************************************************)
(* What an actor's persistence promises, whatever happens to its           *)
(* activations: effects become durable and stay so until the state is      *)
(* cleared, and a save is acknowledged only for what is durable (or was    *)
(* cleared after it had been asked for).  Activation implements this.      *)
(***************************************************************************)
CONSTANT Effects

VARIABLES durable, erased, acked

Init == durable = {} /\ erased = {} /\ acked = {}

Commit ==
    /\ \E S \in SUBSET Effects : durable' = durable \cup S
    /\ UNCHANGED <<erased, acked>>

Erase ==
    /\ durable' = {}
    /\ erased' = erased \cup durable
    /\ UNCHANGED acked

\* Effects that never became durable are given up with a clear.
Discard ==
    /\ \E S \in SUBSET Effects : erased' = erased \cup S
    /\ UNCHANGED <<durable, acked>>

Acknowledge ==
    /\ \E e \in durable \cup erased : acked' = acked \cup {e}
    /\ UNCHANGED <<durable, erased>>

Next == Commit \/ Erase \/ Discard \/ Acknowledge

Spec == Init /\ [][Next]_<<durable, erased, acked>>
=============================================================================
