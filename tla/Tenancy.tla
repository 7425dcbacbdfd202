------------------------------ MODULE Tenancy ------------------------------
(***************************************************************************)
(* What a device promises about temporary firmware, with slots, probation, *)
(* clocks, faults and restarts left out: control of the device is let to   *)
(* one tenant at a time.  A tenancy is taken up once, under a number       *)
(* higher than any before it; it gets less control than its term; and once *)
(* it has ended it never resumes.  Tenant 0 is the landlord: the factory   *)
(* image, or nobody on a device that has none.                             *)
(***************************************************************************)
EXTENDS Naturals

CONSTANTS Tenants,    \* the numbers a tenancy may have
          Terms,      \* the terms that may be granted; 0 is "for good"
          Unit,       \* control is used in steps of this many seconds
          Ceiling     \* use is counted up to the longest term there is

VARIABLES holder, highest, term, used

vars == <<holder, highest, term, used>>

Init ==
  /\ holder = 0
  /\ highest = 0
  /\ term = [n \in Tenants |-> 0]
  /\ used = [n \in Tenants |-> 0]

TakeUp(n, t) ==
  /\ n > highest
  /\ highest' = n
  /\ holder' = n
  /\ term' = [term EXCEPT ![n] = t]
  /\ UNCHANGED used

UpToCeiling(s) == IF s > Ceiling THEN Ceiling ELSE s

Use(n) ==
  /\ holder = n
  /\ term[n] > 0 => used[n] + Unit < term[n]
  /\ used' = [used EXCEPT ![n] = UpToCeiling(@ + Unit)]
  /\ UNCHANGED <<holder, highest, term>>

End ==
  /\ holder' = 0
  /\ UNCHANGED <<highest, term, used>>

Next ==
  \/ \E n \in Tenants, t \in Terms : TakeUp(n, t)
  \/ \E n \in Tenants : Use(n)
  \/ End

Spec == Init /\ [][Next]_vars
=============================================================================
