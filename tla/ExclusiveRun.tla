----------------------------- MODULE ExclusiveRun -----------------------------
(***************************************************************************)
(* What the leases are there to promise about a research run, without      *)
(* records, messages or clocks: one owner, or nobody, is at work on it; it *)
(* passes from one owner to another only through a moment when nobody is;  *)
(* its status changes only while somebody is, and never again once an      *)
(* owner has left it, or closed it, with a final one.                      *)
(***************************************************************************)
CONSTANTS Owners,     \* the identities that compete for the run
          Nobody,
          Statuses,
          Final       \* those that an owner may close the run with

VARIABLES owner,      \* who is at work on the run
          status,
          closed      \* whether the status is not changed any more

Init ==
    /\ owner = Nobody
    /\ status \in Statuses
    /\ closed = (status \in Final)

\* An owner sets to work on a run that nobody is at work on.
Begin(o) ==
    /\ owner = Nobody /\ owner' = o
    /\ UNCHANGED <<status, closed>>

Update ==
    \/ ~closed /\ status' \in Statuses
    \/ UNCHANGED status

\* The owner writes the status, and may close the run.
Work ==
    /\ owner # Nobody /\ UNCHANGED owner
    /\ Update
    /\ closed' \in BOOLEAN
    /\ closed => closed'
    /\ closed' => status' \in Final

\* The owner stops, with a last update or without, or dies.
Leave ==
    /\ owner # Nobody /\ owner' = Nobody
    /\ Update
    /\ closed' = (status' \in Final)

Next == Work \/ Leave \/ \E o \in Owners : Begin(o)

Spec == Init /\ [][Next]_<<owner, status, closed>>
===============================================================================
