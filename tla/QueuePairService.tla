-------------------------- MODULE QueuePairService --------------------------
(***************************************************************************)
(* What an NVMe queue pair promises the GPU threads that share it, without *)
(* marks, locks, phases or wrapping positions: commands reach the device   *)
(* in the order of their tickets, each once, never more than Capacity of   *)
(* them wait for it; the device completes them in any order; the thread    *)
(* that issued a command returns after the device completed that very      *)
(* command.  NvmQueue implements this specification.                       *)
(***************************************************************************)
EXTENDS Integers, Sequences

CONSTANT Capacity   \* commands that may wait for the device

VARIABLES
    announced,  \* number of commands announced; their tickets are 0, 1, ...
    ring,       \* tickets announced and not yet fetched by the device
    executing,  \* tickets the device works on
    completed,  \* tickets the device completed
    returned    \* tickets whose issuer returned

vars == <<announced, ring, executing, completed, returned>>

Init ==
    /\ announced = 0
    /\ ring = << >>
    /\ executing = {}
    /\ completed = {}
    /\ returned = {}

\* One doorbell write announces the next n commands.
Announce(n) ==
    /\ Len(ring) + n <= Capacity
    /\ ring' = ring \o [i \in 1 .. n |-> announced + i - 1]
    /\ announced' = announced + n
    /\ UNCHANGED <<executing, completed, returned>>

Fetch ==
    /\ ring # << >>
    /\ executing' = executing \cup {Head(ring)}
    /\ ring' = Tail(ring)
    /\ UNCHANGED <<announced, completed, returned>>

Complete(k) ==
    /\ k \in executing
    /\ executing' = executing \ {k}
    /\ completed' = completed \cup {k}
    /\ UNCHANGED <<announced, ring, returned>>

Return(k) ==
    /\ k \in completed \ returned
    /\ returned' = returned \cup {k}
    /\ UNCHANGED <<announced, ring, executing, completed>>

Next ==
    \/ \E n \in 1 .. Capacity : Announce(n)
    \/ Fetch
    \/ \E k \in executing : Complete(k)
    \/ \E k \in completed : Return(k)

Spec == Init /\ [][Next]_vars
=============================================================================
