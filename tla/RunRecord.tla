------------------------------ MODULE RunRecord ------------------------------
(***************************************************************************)
(* The operations on a RunRecord (persistence/protocols.py) that the lease *)
(* managers, the workers, the supervisor and the API share.  A record here *)
(* is any record with the fields worker, lease and ttl; the modules that   *)
(* use it add the fields they need.                                        *)
(*                                                                         *)
(* ttl stands for lease_expires_at - now, in clock ticks and cut off at 0. *)
(* Every reader treats lease_expires_at = None as it treats a time in the  *)
(* past, so 0 stands for both.                                             *)
(***************************************************************************)
EXTENDS Naturals

CONSTANTS NoWorker,   \* worker_id is None
          NoLease     \* lease_id is None

\* The definitions that say "Mutant" are not the code's: each is a bug that the
\* definition after it could have, for the properties to find.

\* Mutant: a lease with one tick left is taken for an expired one.
LeaseAvailableEarly(rec, w) == rec.lease = NoLease \/ rec.ttl =< 1 \/ rec.worker = w

\* Mutant: an expired lease is not available.
LeaseAvailableNever(rec, w) == rec.lease = NoLease \/ rec.worker = w

\* The can_acquire test of acquire_lease.
LeaseAvailable(rec, w) ==
    \/ rec.lease = NoLease
    \/ rec.ttl = 0
    \/ rec.worker = w

\* Mutant: the lease id is not compared.
OwnsByWorker(rec, w, l) == rec.worker = w

\* The ownership test of renew_lease and release_lease.  Expiry is not tested:
\* a lapsed lease that nobody has reclaimed is still its holder's.
OwnsLease(rec, w, l) ==
    /\ rec.worker = w
    /\ rec.lease = l

\* with_updates(worker_id, lease_id, lease_expires_at) of acquire_lease.
Granted(rec, w, l, d) == [rec EXCEPT !.worker = w, !.lease = l, !.ttl = d]

\* Mutant: the lease is extended from its expiry, not from now.
RenewedOnTop(rec, d) == [rec EXCEPT !.ttl = @ + d]

\* with_updates(lease_expires_at) of renew_lease.
Renewed(rec, d) == [rec EXCEPT !.ttl = d]

\* with_updates(clear_lease=True).
ClearLease(rec) == [rec EXCEPT !.worker = NoWorker, !.lease = NoLease, !.ttl = 0]

\* One clock tick of remaining time, and a record one tick later.
OneTickLess(t) == IF t = 0 THEN 0 ELSE t - 1
Aged(rec) == [rec EXCEPT !.ttl = OneTickLess(@)]
==============================================================================
