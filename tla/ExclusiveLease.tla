---------------------------- MODULE ExclusiveLease ----------------------------
(***************************************************************************)
(* What the lease on a run promises, without records, ids or clocks: at    *)
(* any time one owner, or nobody, has the run to itself, and it passes     *)
(* from one owner to another only through a moment when nobody has it.     *)
(***************************************************************************)
CONSTANTS Owners,     \* the identities that compete for the run
          Nobody

VARIABLE owner        \* who has the run to itself

Init == owner = Nobody

\* An owner gets a run that nobody has.
Take(o) == owner = Nobody /\ owner' = o

\* The run is given back, or the time it was given for is over.
Lose == owner # Nobody /\ owner' = Nobody

Next == Lose \/ \E o \in Owners : Take(o)

Spec == Init /\ [][Next]_owner
==============================================================================
