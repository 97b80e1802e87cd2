----------------------------- MODULE RateLimiter ------------------------------
(***************************************************************************)
(* The sliding window of the rate limiter (security/rate_limiter.py).  For *)
(* every key it keeps the times of accepted requests that are not expired. *)
(* The dependency that calls it is a coroutine without an await, so that   *)
(* the calls of a process are made one after the other: the clock does not *)
(* advance between its reading and the use of what was read.               *)
(***************************************************************************)
EXTENDS Integers, Sequences

CONSTANTS Keys,         \* what _get_client_key makes of the requests
          MaxRequests,  \* rate_limit_requests
          Window,       \* rate_limit_window_seconds
          MaxClock      \* bound

ASSUME LimiterAssumption ==
    MaxRequests \in Nat \ {0} /\ Window \in Nat \ {0} /\ MaxClock \in Nat

VARIABLES clock,    \* time.monotonic()
          windows,  \* _windows
          passed    \* the times of all requests that were allowed since a reset

limiterVars == <<clock, windows, passed>>

LimiterInit ==
    /\ clock = 0
    /\ windows = [k \in Keys |-> <<>>]
    /\ passed = [k \in Keys |-> <<>>]

Advance ==
    /\ clock < MaxClock /\ clock' = clock + 1
    /\ UNCHANGED <<windows, passed>>

\* Mutant: a time as old as the window is expired.
ExpiredAtOnce(time) == time + Window =< clock

Expired(time) == time + Window < clock

\* The number of times that are removed from the left of a window.
IsPruned(k, n) ==
    /\ n \in 0..Len(windows[k])
    /\ \A i \in 1..n : Expired(windows[k][i])
    /\ n < Len(windows[k]) => ~Expired(windows[k][n + 1])

\* is_allowed: the window is pruned, and then has room for the request ...
Allow(k) ==
    /\ \E n \in 0..Len(windows[k]) :
          /\ IsPruned(k, n)
          /\ Len(windows[k]) - n < MaxRequests
          /\ windows' = [windows EXCEPT ![k] = Append(SubSeq(@, n + 1, Len(@)), clock)]
    /\ passed' = [passed EXCEPT ![k] = Append(@, clock)]
    /\ UNCHANGED clock

\* ... or has not.
RefuseRequest(k) ==
    /\ \E n \in 0..Len(windows[k]) :
          /\ IsPruned(k, n)
          /\ Len(windows[k]) - n >= MaxRequests
          /\ windows' = [windows EXCEPT ![k] = SubSeq(@, n + 1, Len(@))]
    /\ UNCHANGED <<clock, passed>>

\* reset, of some keys or all.
Reset(K) ==
    /\ windows' = [k \in Keys |-> IF k \in K THEN <<>> ELSE windows[k]]
    /\ passed' = [k \in Keys |-> IF k \in K THEN <<>> ELSE passed[k]]
    /\ UNCHANGED clock

LimiterNext ==
    \/ Advance
    \/ \E k \in Keys : Allow(k) \/ RefuseRequest(k) \/ Reset({k})
    \/ Reset(Keys)

LimiterSpec == LimiterInit /\ [][LimiterNext]_limiterVars

-------------------------------------------------------------------------------
LimiterTypeOK ==
    /\ clock \in Nat
    /\ windows \in [Keys -> Seq(Nat)]
    /\ passed \in [Keys -> Seq(Nat)]

\* No Window seconds have more than MaxRequests allowed requests of a key, wherever
\* they begin: of MaxRequests + 1 in a row the last is more than Window after the
\* first, although the limiter has forgotten all but the unexpired ones.
WindowNeverExceeded ==
    \A k \in Keys : \A i \in 1..Len(passed[k]) - MaxRequests :
        passed[k][i] + Window < passed[k][i + MaxRequests]

\* What the limiter still knows are the last requests it allowed, and the rest has
\* expired: the strengthening that makes WindowNeverExceeded inductive.
Remembers(k) ==
    LET forgotten == Len(passed[k]) - Len(windows[k])
    IN  /\ forgotten >= 0
        /\ \A i \in 1..Len(windows[k]) : windows[k][i] = passed[k][forgotten + i]
        /\ \A i \in 1..forgotten : Expired(passed[k][i])

LimiterInv == LimiterTypeOK /\ WindowNeverExceeded /\ \A k \in Keys : Remembers(k)
===============================================================================
