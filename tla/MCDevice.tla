------------------------------ MODULE MCDevice ------------------------------
EXTENDS VirtualDevice

CONSTANTS base, m1, m2

\* The morphs' contracts end before their leases, the factory's last.
MCContract == [p \in Program |-> IF p = Factory THEN 3 ELSE 2]

\* Every contract is as long as the longest lease.
MCLongContract == [p \in Program |-> 3]
=============================================================================
