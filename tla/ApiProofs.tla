------------------------------ MODULE ApiProofs -------------------------------
(***************************************************************************)
(* Proofs about what clients of the API meet: the rate limiter, for any    *)
(* keys and limits, and the artifacts of a run, for any number of          *)
(* executions, retries and mishaps.                                        *)
(*                                                                         *)
(* LimiterInv is inductive: it says that the requests a limiter has        *)
(* forgotten have all expired.  When a request is allowed, fewer than      *)
(* MaxRequests are remembered, so that the one MaxRequests before it is    *)
(* among those forgotten, and has expired.                                 *)
(*                                                                         *)
(* ListedIsServed speaks of the answer that a client got.  That it will be *)
(* right is known while the client is still to download (AskedIsServed):   *)
(* what it asks for is stored as it was listed, or is of an execution      *)
(* before the latest.  This is not inductive, because after a crash the    *)
(* worker has an older dossier, which it may upload again over what the    *)
(* client was shown.  It can do so only once it executes the run again     *)
(* (AskedIsCurrent).                                                       *)
(***************************************************************************)
EXTENDS RateLimiter, RunResults, TLAPS

-------------------------------------------------------------------------------
(* The rate limiter.                                                           *)

\* What pruning leaves: the tail of the window, which is what is still remembered.
LEMMA Pruning ==
    ASSUME NEW s \in Seq(Nat), NEW n \in 0..Len(s)
    PROVE  /\ SubSeq(s, n + 1, Len(s)) \in Seq(Nat)
           /\ Len(SubSeq(s, n + 1, Len(s))) = Len(s) - n
           /\ \A i \in 1..Len(s) - n : SubSeq(s, n + 1, Len(s))[i] = s[n + i]
  OBVIOUS

LEMMA Appending ==
    ASSUME NEW s \in Seq(Nat), NEW x \in Nat
    PROVE  /\ Append(s, x) \in Seq(Nat)
           /\ Len(Append(s, x)) = Len(s) + 1
           /\ \A i \in 1..Len(s) : Append(s, x)[i] = s[i]
           /\ Append(s, x)[Len(s) + 1] = x
  OBVIOUS

\* In the initial state nothing was allowed, and nothing is remembered.
LEMMA InvHoldsAtFirst == LimiterInit => LimiterInv
  BY LimiterAssumption DEF LimiterInit, LimiterInv, LimiterTypeOK, WindowNeverExceeded, Remembers

\* Time only makes more requests expire.
LEMMA AdvanceKeepsInv ==
    ASSUME LimiterInv, Advance
    PROVE  LimiterInv'
<1>1. LimiterTypeOK'
  BY DEF LimiterInv, LimiterTypeOK, Advance
<1>2. WindowNeverExceeded'
  BY DEF LimiterInv, WindowNeverExceeded, Advance
<1>3. ASSUME NEW k \in Keys PROVE Remembers(k)'
  <2>1. /\ Remembers(k) /\ clock \in Nat /\ clock' = clock + 1
        /\ windows' = windows /\ passed' = passed
        /\ passed[k] \in Seq(Nat) /\ windows[k] \in Seq(Nat)
    BY DEF LimiterInv, LimiterTypeOK, Advance
  <2>2. \A i \in 1..Len(passed[k]) - Len(windows[k]) : passed[k][i] \in Nat
    BY <2>1 DEF Remembers
  <2>3. \A i \in 1..Len(passed[k]) - Len(windows[k]) : passed[k][i] + Window < clock'
    <3> SUFFICES ASSUME NEW i \in 1..Len(passed[k]) - Len(windows[k])
                 PROVE  passed[k][i] + Window < clock'
      OBVIOUS
    <3>1. passed[k][i] + Window < clock /\ passed[k][i] \in Nat
      BY <2>1, <2>2 DEF Remembers, Expired
    <3> QED
      BY <2>1, <3>1, LimiterAssumption
  <2> QED
    BY <2>1, <2>3 DEF Remembers, Expired
<1> QED
  BY <1>1, <1>2, <1>3 DEF LimiterInv

\* A pruned window is still the end of what was allowed, and what is no longer in it
\* has expired.
LEMMA PrunedIsRemembered ==
    ASSUME LimiterInv, NEW k \in Keys, NEW n \in 0..Len(windows[k]), IsPruned(k, n)
    PROVE  \E rest \in Seq(Nat) :
              /\ rest = SubSeq(windows[k], n + 1, Len(windows[k]))
              /\ Len(rest) = Len(windows[k]) - n
              /\ Len(rest) =< Len(passed[k])
              /\ \A i \in 1..Len(rest) : rest[i] = passed[k][Len(passed[k]) - Len(rest) + i]
              /\ \A i \in 1..Len(passed[k]) - Len(rest) : Expired(passed[k][i])
<1> DEFINE rest == SubSeq(windows[k], n + 1, Len(windows[k]))
           d == Len(passed[k]) - Len(windows[k])
<1>1. windows[k] \in Seq(Nat) /\ passed[k] \in Seq(Nat)
  BY DEF LimiterInv, LimiterTypeOK
<1>2. /\ rest \in Seq(Nat) /\ Len(rest) = Len(windows[k]) - n
      /\ \A i \in 1..Len(windows[k]) - n : rest[i] = windows[k][n + i]
  BY <1>1, Pruning
<1>3. rest = SubSeq(windows[k], n + 1, Len(windows[k]))
  OBVIOUS
<1> HIDE DEF rest
<1>4. /\ \A i \in 1..Len(windows[k]) : windows[k][i] = passed[k][d + i]
      /\ \A i \in 1..d : Expired(passed[k][i])
      /\ d >= 0
  BY DEF LimiterInv, Remembers
<1>5. \A i \in 1..n : Expired(windows[k][i])
  BY DEF IsPruned
<1>6. /\ d \in Nat /\ n \in Nat /\ n =< Len(windows[k])
      /\ Len(passed[k]) \in Nat /\ Len(windows[k]) \in Nat
  BY <1>1, <1>4
<1>7. Len(passed[k]) - Len(rest) = d + n /\ Len(rest) =< Len(passed[k])
  <2>1. Len(rest) = Len(windows[k]) - n
    BY <1>2
  <2>2. ASSUME NEW p \in Nat, NEW w \in Nat, NEW m \in Nat, m =< w, p - w \in Nat
        PROVE  p - (w - m) = (p - w) + m /\ w - m =< p
    BY <2>2
  <2>3. d = Len(passed[k]) - Len(windows[k])
    OBVIOUS
  <2> HIDE DEF d
  <2>4. Len(passed[k]) - Len(windows[k]) \in Nat
    BY <1>6, <2>3
  <2>5. /\ Len(passed[k]) - (Len(windows[k]) - n) = (Len(passed[k]) - Len(windows[k])) + n
        /\ Len(windows[k]) - n =< Len(passed[k])
    BY ONLY <1>6, <2>2, <2>4
  <2> QED
    BY ONLY <2>1, <2>3, <2>5
<1> HIDE DEF d
<1>8. ASSUME NEW i \in 1..Len(rest) PROVE rest[i] = passed[k][d + n + i]
  <2>1. rest[i] = windows[k][n + i] /\ n + i \in 1..Len(windows[k])
    BY <1>2, <1>6
  <2>2. windows[k][n + i] = passed[k][d + (n + i)]
    BY <1>4, <2>1
  <2>3. d + (n + i) = d + n + i
    BY <1>6
  <2> QED
    BY <2>1, <2>2, <2>3
<1>9. ASSUME NEW i \in 1..d + n PROVE Expired(passed[k][i])
  <2>1. CASE i \in 1..d
    BY <1>4, <2>1
  <2>2. CASE i \notin 1..d
    <3>1. i - d \in 1..n /\ i - d \in 1..Len(windows[k]) /\ d + (i - d) = i
      BY <1>6, <2>2
    <3> QED
      BY <1>4, <1>5, <3>1
  <2> QED
    BY <2>1, <2>2
<1> QED
  BY <1>2, <1>6, <1>7, <1>8, <1>9, <1>3

\* A refusal only forgets what has expired.
LEMMA RefuseKeepsInv ==
    ASSUME LimiterInv, NEW k \in Keys, RefuseRequest(k)
    PROVE  LimiterInv'
<1>1. PICK n \in 0..Len(windows[k]) :
          /\ IsPruned(k, n)
          /\ windows' = [windows EXCEPT ![k] = SubSeq(windows[k], n + 1, Len(windows[k]))]
  BY DEF RefuseRequest
<1>2. /\ windows \in [Keys -> Seq(Nat)] /\ passed \in [Keys -> Seq(Nat)] /\ clock \in Nat
      /\ clock' = clock /\ passed' = passed
  BY DEF LimiterInv, LimiterTypeOK, RefuseRequest
<1>3. PICK rest \in Seq(Nat) :
      /\ rest = SubSeq(windows[k], n + 1, Len(windows[k])) /\ Len(rest) =< Len(passed[k])
      /\ \A i \in 1..Len(rest) : rest[i] = passed[k][Len(passed[k]) - Len(rest) + i]
      /\ \A i \in 1..Len(passed[k]) - Len(rest) : Expired(passed[k][i])
  BY <1>1, PrunedIsRemembered
<1>4. windows'[k] = rest /\ \A j \in Keys \ {k} : windows'[j] = windows[j]
  BY <1>1, <1>2, <1>3
<1>5. LimiterTypeOK'
  BY <1>1, <1>2, <1>3 DEF LimiterTypeOK
<1>6. WindowNeverExceeded'
  BY <1>2 DEF LimiterInv, WindowNeverExceeded
<1>7. Remembers(k)'
  <2>1. Len(passed[k]) - Len(rest) >= 0
    BY <1>2, <1>3
  <2> QED
    BY <1>2, <1>3, <1>4, <2>1 DEF Remembers, Expired
<1>8. ASSUME NEW j \in Keys \ {k} PROVE Remembers(j)'
  BY <1>2, <1>4 DEF LimiterInv, Remembers, Expired
<1> QED
  BY <1>5, <1>6, <1>7, <1>8 DEF LimiterInv

\* A whole number that is at most n + 1 and not at most n.
LEMMA Squeeze ==
    ASSUME NEW i \in Nat, NEW n \in Nat, NEW m \in Nat, i =< n + 1 - m, ~(i + m =< n)
    PROVE  i + m = n + 1
  OBVIOUS

\* A request that is allowed is remembered, and MaxRequests requests before it is one
\* that is not, and has expired.
LEMMA AllowKeepsInv ==
    ASSUME LimiterInv, NEW k \in Keys, Allow(k)
    PROVE  LimiterInv'
<1>1. PICK n \in 0..Len(windows[k]) :
          /\ IsPruned(k, n)
          /\ Len(windows[k]) - n < MaxRequests
          /\ windows' = [windows EXCEPT
                            ![k] = Append(SubSeq(windows[k], n + 1, Len(windows[k])), clock)]
  BY DEF Allow
<1>2. /\ windows \in [Keys -> Seq(Nat)] /\ passed \in [Keys -> Seq(Nat)] /\ clock \in Nat
      /\ clock' = clock /\ passed' = [passed EXCEPT ![k] = Append(passed[k], clock)]
  BY DEF LimiterInv, LimiterTypeOK, Allow
<1>3a. PICK rest \in Seq(Nat) :
      /\ rest = SubSeq(windows[k], n + 1, Len(windows[k]))
      /\ Len(rest) =< Len(passed[k]) /\ Len(rest) = Len(windows[k]) - n
      /\ \A i \in 1..Len(rest) : rest[i] = passed[k][Len(passed[k]) - Len(rest) + i]
      /\ \A i \in 1..Len(passed[k]) - Len(rest) : Expired(passed[k][i])
  BY <1>1, PrunedIsRemembered
<1> DEFINE older == Len(passed[k]) - Len(rest)
<1>3. /\ \A i \in 1..Len(rest) : rest[i] = passed[k][older + i]
      /\ \A i \in 1..older : Expired(passed[k][i])
  BY <1>3a
<1>4. /\ windows'[k] = Append(rest, clock)
      /\ \A j \in Keys \ {k} : windows'[j] = windows[j] /\ passed'[j] = passed[j]
      /\ passed'[k] = Append(passed[k], clock)
  BY <1>1, <1>2, <1>3a
<1>5. Len(rest) < MaxRequests
  BY <1>1, <1>3a
<1>6. LimiterTypeOK'
  <2>1. Append(rest, clock) \in Seq(Nat) /\ Append(passed[k], clock) \in Seq(Nat)
    BY <1>2, Appending
  <2> QED
    BY <1>1, <1>2, <1>3a, <2>1 DEF LimiterTypeOK
<1>7. /\ Len(passed[k]) \in Nat /\ Len(rest) \in Nat /\ older \in Nat
      /\ Len(Append(passed[k], clock)) = Len(passed[k]) + 1
      /\ Len(Append(rest, clock)) = Len(rest) + 1
      /\ \A i \in 1..Len(passed[k]) : Append(passed[k], clock)[i] = passed[k][i]
      /\ \A i \in 1..Len(rest) : Append(rest, clock)[i] = rest[i]
      /\ Append(passed[k], clock)[Len(passed[k]) + 1] = clock
      /\ Append(rest, clock)[Len(rest) + 1] = clock
  <2>1. passed[k] \in Seq(Nat) /\ clock \in Nat /\ rest \in Seq(Nat)
    BY <1>2
  <2>2. Len(passed[k]) \in Nat /\ Len(rest) \in Nat
    BY <2>1
  <2>3. older \in Nat
    BY <1>3a, <2>2
  <2> QED
    BY <2>1, <2>2, <2>3, Appending
<1> HIDE DEF older
<1>7a. older = Len(passed[k]) - Len(rest)
  BY DEF older
<1>7b. Len(passed'[k]) = Len(passed[k]) + 1 /\ Len(windows'[k]) = Len(rest) + 1
  BY <1>4, <1>7
<1>8. WindowNeverExceeded'
  <2> SUFFICES ASSUME NEW j \in Keys, NEW i \in 1..Len(passed'[j]) - MaxRequests
               PROVE  passed'[j][i] + Window < passed'[j][i + MaxRequests]
    BY DEF WindowNeverExceeded
  <2>1. CASE j # k
    <3>1. passed'[j] = passed[j]
      BY <1>4, <2>1
    <3> QED
      BY <3>1 DEF LimiterInv, WindowNeverExceeded
  <2>2. CASE j = k /\ i + MaxRequests =< Len(passed[k])
    <3>1. /\ i \in 1..Len(passed[k]) - MaxRequests
          /\ i \in 1..Len(passed[k]) /\ i + MaxRequests \in 1..Len(passed[k])
      BY <1>7, <2>2, LimiterAssumption
    <3>2. passed[k][i] + Window < passed[k][i + MaxRequests]
      BY <3>1 DEF LimiterInv, WindowNeverExceeded
    <3> QED
      BY <1>4, <1>7, <2>2, <3>1, <3>2
  <2>3. CASE j = k /\ ~(i + MaxRequests =< Len(passed[k]))
    <3>0. Len(passed'[j]) = Len(passed[k]) + 1
      BY <1>7b, <2>3
    <3>1. i + MaxRequests = Len(passed[k]) + 1
      <4>1. Len(passed[k]) \in Nat
        BY <1>7
      <4>2. i \in Nat /\ i =< Len(passed[k]) + 1 - MaxRequests
        <5>1. i \in 1..(Len(passed[k]) + 1) - MaxRequests
          BY <2>3, <3>0
        <5> QED
          BY <4>1, <5>1, LimiterAssumption
      <4>3. ~(i + MaxRequests =< Len(passed[k]))
        BY <2>3
      <4>4. MaxRequests \in Nat
        BY LimiterAssumption
      <4> QED
        BY <4>1, <4>2, <4>3, <4>4, Squeeze
    <3>2. i \in 1..older /\ i \in 1..Len(passed[k])
      BY <1>5, <1>7, <1>7a, <3>1, LimiterAssumption
    <3>3. passed[k][i] + Window < clock
      BY <1>3, <3>2 DEF Expired
    <3> QED
      BY <1>4, <1>7, <2>3, <3>1, <3>2, <3>3
  <2> QED
    BY <2>1, <2>2, <2>3
<1>9. Remembers(k)'
  <2>1. Len(passed'[k]) - Len(windows'[k]) = older
    BY <1>7, <1>7a, <1>7b
  <2>2. ASSUME NEW i \in 1..Len(rest) + 1 PROVE windows'[k][i] = passed'[k][older + i]
    <3>1. CASE i \in 1..Len(rest)
      <4>1. older + i \in 1..Len(passed[k])
        BY <1>7, <1>7a, <3>1
      <4> QED
        BY <1>3, <1>4, <1>7, <3>1, <4>1
    <3>2. CASE i \notin 1..Len(rest)
      <4>1. i = Len(rest) + 1 /\ older + i = Len(passed[k]) + 1
        <5>1. Len(rest) \in Nat /\ Len(passed[k]) \in Nat
          BY <1>7
        <5> QED
          BY <1>7a, <3>2, <5>1
      <4> QED
        BY <1>4, <1>7, <4>1
    <3> QED
      BY <3>1, <3>2
  <2>3. ASSUME NEW i \in 1..older PROVE passed'[k][i] + Window < clock'
    <3>1. i \in 1..Len(passed[k])
      BY <1>7, <1>7a
    <3> QED
      BY <1>2, <1>3, <1>4, <1>7, <3>1 DEF Expired
  <2>4. older >= 0 /\ 1..Len(windows'[k]) = 1..Len(rest) + 1
    BY <1>7, <1>7b
  <2> QED
    BY <2>1, <2>2, <2>3, <2>4 DEF Remembers, Expired
<1>10. ASSUME NEW j \in Keys \ {k} PROVE Remembers(j)'
  <2>1. windows'[j] = windows[j] /\ passed'[j] = passed[j] /\ clock' = clock
    BY <1>2, <1>4
  <2> QED
    BY <2>1 DEF LimiterInv, Remembers, Expired
<1> QED
  BY <1>6, <1>8, <1>9, <1>10 DEF LimiterInv

\* A reset begins anew.
LEMMA ResetKeepsInv ==
    ASSUME LimiterInv, NEW K, Reset(K)
    PROVE  LimiterInv'
<1>1. LimiterTypeOK'
  BY DEF LimiterInv, LimiterTypeOK, Reset
<1>2. WindowNeverExceeded'
  <2> SUFFICES ASSUME NEW k \in Keys PROVE
                   \A i \in 1..Len(passed'[k]) - MaxRequests :
                       passed'[k][i] + Window < passed'[k][i + MaxRequests]
    BY DEF WindowNeverExceeded
  <2>1. CASE k \in K
    <3>1. Len(passed'[k]) = 0
      BY <2>1 DEF Reset
    <3> QED
      BY <3>1, LimiterAssumption
  <2>2. CASE k \notin K
    <3>1. passed'[k] = passed[k]
      BY <2>2 DEF Reset
    <3> QED
      BY <3>1 DEF LimiterInv, WindowNeverExceeded
  <2> QED
    BY <2>1, <2>2
<1>3. ASSUME NEW k \in Keys PROVE Remembers(k)'
  <2>1. CASE k \in K
    <3>1. windows'[k] = <<>> /\ passed'[k] = <<>>
      BY <2>1 DEF Reset
    <3> QED
      BY <3>1 DEF Remembers
  <2>2. CASE k \notin K
    <3>1. windows'[k] = windows[k] /\ passed'[k] = passed[k] /\ clock' = clock
      BY <2>2 DEF Reset
    <3> QED
      BY <3>1 DEF LimiterInv, Remembers, Expired
  <2> QED
    BY <2>1, <2>2
<1> QED
  BY <1>1, <1>2, <1>3 DEF LimiterInv

LEMMA StutteringKeepsInv ==
    ASSUME LimiterInv, UNCHANGED limiterVars
    PROVE  LimiterInv'
  BY DEF LimiterInv, LimiterTypeOK, WindowNeverExceeded, Remembers, Expired, limiterVars

\* The invariant of the limiter holds throughout, for any keys, limit and window.
THEOREM LimiterIsInvariant == LimiterSpec => []LimiterInv
<1>1. LimiterInv /\ [LimiterNext]_limiterVars => LimiterInv'
  <2> SUFFICES ASSUME LimiterInv, [LimiterNext]_limiterVars PROVE LimiterInv'
    OBVIOUS
  <2> QED
    BY AdvanceKeepsInv, AllowKeepsInv, RefuseKeepsInv, ResetKeepsInv, StutteringKeepsInv
       DEF LimiterNext
<1> QED
  BY <1>1, InvHoldsAtFirst, PTL DEF LimiterSpec

\* The clock, the windows and the requests allowed have their types in every state.
THEOREM LimiterTypeCorrectness == LimiterSpec => []LimiterTypeOK
  BY LimiterIsInvariant, PTL DEF LimiterInv

\* No Window seconds ever have more than MaxRequests allowed requests of a key.
THEOREM WindowsAreNeverExceeded == LimiterSpec => []WindowNeverExceeded
  BY LimiterIsInvariant, PTL DEF LimiterInv

-------------------------------------------------------------------------------
(* The artifacts of a run.                                                     *)

Contents == Nat \X Names
Metas == {m \in [name : Names, sha256 : Contents] : m.sha256[2] = m.name}

\* What has been uploaded or listed: contents of dossiers.
ResultsAreTyped ==
    /\ blobs \in [DOMAIN blobs -> Contents] /\ DOMAIN blobs \subseteq Names
    /\ artifacts \in Seq(Metas) /\ record.artifacts \in Seq(Metas)
    /\ record = [status |-> record.status, dossier |-> record.dossier,
                 artifacts |-> record.artifacts]
    /\ record.status \in {"QUEUED", "PLANNING", "FAILED", "COMPLETED"}
    /\ record.dossier \in Nat
    /\ asked \in {Nothing} \cup Metas

\* The record has what the context had when it was written.
RecordIsBehind ==
    /\ record.dossier =< compiled
    /\ Len(record.artifacts) =< Len(artifacts)
    /\ \A i \in 1..Len(record.artifacts) : record.artifacts[i] = artifacts[i]

\* Nothing listed is of a later dossier than the one at hand.
ListedIsOfDossier ==
    /\ \A i \in 1..Len(artifacts) : artifacts[i].sha256[1] =< compiled
    /\ \A i \in 1..Len(record.artifacts) : record.artifacts[i].sha256[1] =< record.dossier

\* An artifact that is stored as it was listed, unless a later execution has begun.
Served(m) ==
    \/ m.name \in DOMAIN blobs /\ blobs[m.name] = m.sha256
    \/ m.sha256[1] < execution

ListedIsThere == \A i \in 1..Len(artifacts) : Served(artifacts[i])

\* What a client asks for is served, and if it is of the latest execution, no other
\* dossier will be uploaded before the next.
AskedIsServed == asked # Nothing => Served(asked) /\ asked.sha256[1] =< execution
AskedIsCurrent ==
    asked # Nothing /\ asked.sha256[1] = execution /\ step # "idle" => compiled = execution

ResultsInv ==
    /\ ResultsTypeOK /\ ResultsAreTyped /\ RecordIsBehind /\ ListedIsOfDossier
    /\ ListedIsThere /\ AskedIsServed /\ AskedIsCurrent /\ ListedIsServed

-------------------------------------------------------------------------------
\* A list that has what another has, and perhaps more.
LEMMA ListsType ==
    ASSUME NEW r \in Seq(Metas), NEW a \in Seq(Metas),
           Len(r) =< Len(a), \A i \in 1..Len(r) : r[i] = a[i]
    PROVE  /\ IsPrefix(r, a)
           /\ \A i \in DOMAIN a : a[i] \in Metas /\ a[i].name \in Names
           /\ DOMAIN a = 1..Len(a) /\ Len(a) \in Nat
<1>1. Len(r) \in Nat /\ Len(a) \in Nat /\ DOMAIN a = 1..Len(a)
  OBVIOUS
<1>2. SubSeq(r, 1, Len(r)) = SubSeq(a, 1, Len(r))
  <2>1. SubSeq(r, 1, Len(r)) = [i \in 1..Len(r) |-> r[i]]
    BY <1>1
  <2>2. SubSeq(a, 1, Len(r)) = [i \in 1..Len(r) |-> a[i]]
    BY <1>1
  <2> QED
    BY <2>1, <2>2
<1>3. IsPrefix(r, a)
  BY <1>2 DEF IsPrefix
<1>4. \A i \in DOMAIN a : a[i] \in Metas
  OBVIOUS
<1> QED
  BY <1>1, <1>3, <1>4 DEF Metas

\* The initial state satisfies the invariant.
LEMMA InitResultsInv == ResultsConstants /\ ResultsInit => ResultsInv
<1> SUFFICES ASSUME ResultsConstants, ResultsInit PROVE ResultsInv
  OBVIOUS
<1>1. artifacts = <<>> /\ record.artifacts = <<>> /\ asked = Nothing /\ answer = Nothing
  BY DEF ResultsInit
<1>2. ResultsAreTyped /\ RecordIsBehind
  BY <1>1 DEF ResultsInit, ResultsAreTyped, RecordIsBehind, Nothing, NotCompiled
<1>3. ResultsTypeOK
  <2>1. IsPrefix(record.artifacts, artifacts)
    BY <1>2, ListsType DEF ResultsAreTyped, RecordIsBehind
  <2> QED
    BY <2>1 DEF ResultsInit, ResultsTypeOK, ResultsConstants, Nothing, NotCompiled
<1> QED
  BY <1>1, <1>2, <1>3
  DEF ResultsInv, ListedIsOfDossier, ListedIsThere, AskedIsServed, AskedIsCurrent, ListedIsServed

\* What the worker uploads.
LEMMA ContentType ==
    ASSUME ResultsInv, NEW name \in Names
    PROVE  /\ Content(name) \in Contents /\ Content(name)[1] = compiled
           /\ Meta(name) \in Metas
           /\ Meta(name).name = name /\ Meta(name).sha256 = Content(name)
  BY DEF ResultsInv, ResultsTypeOK, Content, Meta, Metas, Contents

\* An upload, done or not, keeps what clients were shown: what it replaces is of an
\* execution before.
LEMMA UploadShows ==
    ASSUME ResultsInv, NEW name \in Names, step = name,
           blobs' \in {blobs, Stored(name)},
           UNCHANGED <<execution, compiled, asked>>
    PROVE  /\ blobs' \in [DOMAIN blobs' -> Contents] /\ DOMAIN blobs' \subseteq Names
           /\ \A i \in 1..Len(artifacts) : \A m \in Metas : m = artifacts[i] => Served(m)'
           /\ asked # Nothing => Served(asked)'
<1>1. /\ Content(name) = <<compiled, name>> /\ Content(name) \in Contents
      /\ compiled \in Nat /\ execution \in Nat /\ compiled =< execution
  BY ContentType DEF ResultsInv, ResultsTypeOK, Content
<1>2. /\ blobs' \in [DOMAIN blobs' -> Contents] /\ DOMAIN blobs' \subseteq Names
      /\ \/ blobs' = blobs
         \/ /\ DOMAIN blobs' = DOMAIN blobs \cup {name}
            /\ blobs'[name] = <<compiled, name>>
            /\ \A n \in DOMAIN blobs : n # name => blobs'[n] = blobs[n]
  BY <1>1 DEF ResultsInv, ResultsAreTyped, Stored
<1>3. ASSUME NEW m \in Metas, Served(m), m.sha256[1] =< execution,
             m.sha256[1] = execution => compiled = execution
      PROVE  /\ m.name \in DOMAIN blobs' /\ blobs'[m.name] = m.sha256
             \/ m.sha256[1] < execution
  <2>1. m.sha256 = <<m.sha256[1], m.name>> /\ m.sha256[1] \in Nat
    BY DEF Metas, Contents
  <2>2. CASE m.sha256[1] = execution
    BY <1>1, <1>2, <1>3, <2>1, <2>2 DEF Served
  <2>3. CASE m.sha256[1] # execution
    BY <1>1, <1>3, <2>1, <2>3
  <2> QED
    BY <2>2, <2>3
<1>4. ASSUME NEW i \in 1..Len(artifacts), NEW m \in Metas, m = artifacts[i]
      PROVE  Served(m)'
  <2>1. artifacts[i] \in Metas
    BY DEF ResultsInv, ResultsAreTyped
  <2>2. Served(artifacts[i]) /\ artifacts[i].sha256[1] =< compiled
    BY DEF ResultsInv, ListedIsThere, ListedIsOfDossier
  <2>3. artifacts[i].sha256[1] \in Nat
    BY <2>1 DEF Metas, Contents
  <2> QED
    BY <1>1, <1>3, <1>4, <2>2, <2>3 DEF Served
<1>5. ASSUME asked # Nothing
      PROVE  Served(asked)'
  <2>1. asked \in Metas
    BY <1>5 DEF ResultsInv, ResultsAreTyped
  <2>2. Served(asked) /\ asked.sha256[1] =< execution
    BY <1>5 DEF ResultsInv, AskedIsServed
  <2>3. asked.sha256[1] = execution => compiled = execution
    BY <1>5 DEF ResultsInv, AskedIsCurrent, Names
  <2> QED
    BY <1>3, <2>1, <2>2, <2>3 DEF Served
<1> QED
  BY <1>2, <1>4, <1>5

\* A step that uploads nothing and lists nothing: it may write the record, begin an
\* execution, compile its dossier, or end a download.
LEMMA WorkerGoesOn ==
    ASSUME ResultsConstants, ResultsInv,
           Sync \/ UNCHANGED record,
           status' \in {"QUEUED", "PLANNING", "FAILED", "COMPLETED"},
           step' \in {"idle", "work", "complete", "sync"} \cup Names,
           try' \in 1..MaxStorageRetries,
           \/ execution' = execution /\ (step' # "idle" => step # "idle")
           \/ execution' = execution + 1 /\ execution < MaxExecutions,
           \/ compiled' = compiled
           \/ compiled' = execution /\ execution' = execution /\ UNCHANGED record,
           UNCHANGED <<blobs, artifacts, answer>>,
           asked' \in {asked, Nothing},
           Trouble \/ UNCHANGED troubles
    PROVE  ResultsInv'
<1>1. /\ compiled \in Nat /\ execution \in Nat
      /\ compiled =< execution /\ execution =< MaxExecutions
      /\ MaxExecutions \in Nat /\ compiled' \in Nat /\ execution' \in Nat
      /\ compiled' =< execution' /\ execution' =< MaxExecutions /\ compiled =< compiled'
      /\ execution =< execution'
  BY DEF ResultsConstants, ResultsInv, ResultsTypeOK
<1>2. /\ record' = record
      \/ /\ record' = [status |-> status', dossier |-> compiled, artifacts |-> artifacts]
         /\ compiled' = compiled
  BY DEF Sync
<1>3. ResultsAreTyped'
  BY <1>1, <1>2 DEF ResultsInv, ResultsAreTyped
<1>4. RecordIsBehind'
  <2>1. Len(artifacts) \in Nat
    BY DEF ResultsInv, ResultsAreTyped
  <2>2. CASE record' = record
    BY <1>1, <2>2 DEF ResultsInv, RecordIsBehind, ResultsAreTyped
  <2>3. CASE record' = [status |-> status', dossier |-> compiled, artifacts |-> artifacts]
    BY <1>1, <2>1, <2>3 DEF RecordIsBehind
  <2> QED
    BY <1>2, <2>2, <2>3
<1>5. ListedIsOfDossier'
  <2>1. ASSUME NEW i \in 1..Len(artifacts)
        PROVE  /\ artifacts[i].sha256[1] =< compiled
               /\ artifacts[i].sha256[1] =< compiled'
    <3>1. artifacts[i] \in Metas /\ artifacts[i].sha256[1] =< compiled
      BY DEF ResultsInv, ResultsAreTyped, ListedIsOfDossier
    <3>2. artifacts[i].sha256[1] \in Nat
      BY <3>1 DEF Metas, Contents
    <3> QED
      BY <1>1, <3>1, <3>2
  <2>2. CASE record' = record
    BY <2>1, <2>2 DEF ResultsInv, ListedIsOfDossier
  <2>3. CASE record' = [status |-> status', dossier |-> compiled, artifacts |-> artifacts]
    BY <2>1, <2>3 DEF ListedIsOfDossier
  <2> QED
    BY <1>2, <2>2, <2>3
<1>6. ASSUME NEW m \in Metas, Served(m)
      PROVE  Served(m)'
  <2>1. m.sha256[1] \in Nat
    BY DEF Metas, Contents
  <2> QED
    BY <1>1, <1>6, <2>1 DEF Served
<1>7. ListedIsThere'
  BY <1>6 DEF ResultsInv, ResultsAreTyped, ListedIsThere, Served
<1>8. AskedIsServed' /\ AskedIsCurrent'
  <2>1. CASE asked' = Nothing
    BY <2>1 DEF AskedIsServed, AskedIsCurrent
  <2>2. CASE asked' = asked /\ asked # Nothing
    <3>1. asked \in Metas /\ asked.sha256[1] \in Nat
      BY <2>2 DEF ResultsInv, ResultsAreTyped, Metas, Contents
    <3>2. Served(asked) /\ asked.sha256[1] =< execution
      BY <2>2 DEF ResultsInv, AskedIsServed
    <3>3. Served(asked)'
      BY <1>6, <2>2, <3>1, <3>2 DEF Served
    <3>4. AskedIsCurrent'
      BY <1>1, <2>2, <3>1, <3>2 DEF ResultsInv, AskedIsCurrent
    <3> QED
      BY <1>1, <2>2, <3>1, <3>2, <3>3, <3>4 DEF AskedIsServed
  <2> QED
    BY <2>1, <2>2
<1>9. ResultsTypeOK'
  <2>1. /\ IsPrefix(record'.artifacts, artifacts')
        /\ \A i \in DOMAIN artifacts' : artifacts'[i].name \in Names
    BY <1>3, <1>4, ListsType DEF ResultsAreTyped, RecordIsBehind
  <2> QED
    BY <1>1, <2>1 DEF ResultsInv, ResultsTypeOK
<1>10. ListedIsServed'
  BY DEF ResultsInv, ListedIsServed
<1> QED
  BY <1>3, <1>4, <1>5, <1>7, <1>8, <1>9, <1>10 DEF ResultsInv

\* Every step keeps the invariant.
LEMMA NextResultsInv == ResultsConstants /\ ResultsInv /\ [ResultsNext]_resultVars => ResultsInv'
<1> SUFFICES ASSUME ResultsConstants, ResultsInv, [ResultsNext]_resultVars PROVE ResultsInv'
  OBVIOUS
<1> USE DEF worker, client
<1>t. /\ step \in {"idle", "work", "complete", "sync"} \cup Names
      /\ status \in {"QUEUED", "PLANNING", "FAILED", "COMPLETED"}
      /\ try \in 1..MaxStorageRetries /\ 1 \in 1..MaxStorageRetries
      /\ execution \in Nat /\ compiled \in Nat /\ compiled =< execution
  BY DEF ResultsConstants, ResultsInv, ResultsTypeOK
<1>1. CASE BeginExecution
  BY <1>1, <1>t, WorkerGoesOn DEF BeginExecution, SyncRaises
<1>2. CASE Fail
  BY <1>2, <1>t, WorkerGoesOn DEF Fail, SyncRaises
<1>3. CASE Succeed
  BY <1>3, <1>t, WorkerGoesOn DEF Succeed, Names
<1>4. ASSUME NEW name \in Names, Upload(name)
      PROVE  ResultsInv'
  <2>1. /\ step = name /\ blobs' = Stored(name)
        /\ artifacts' = Append(artifacts, Meta(name))
        /\ step' \in {"complete"} \cup Names /\ try' = 1
        /\ UNCHANGED <<execution, status, compiled, record, asked, answer>>
    BY <1>4 DEF Upload, AfterUpload, Names
  <2>2. /\ artifacts \in Seq(Metas) /\ Meta(name) \in Metas /\ Len(artifacts) \in Nat
        /\ Meta(name).name = name /\ Meta(name).sha256 = <<compiled, name>>
    <3>1. artifacts \in Seq(Metas) /\ Len(artifacts) \in Nat
      BY DEF ResultsInv, ResultsAreTyped
    <3>2. Meta(name) \in Metas /\ Meta(name).name = name /\ Meta(name).sha256 = Content(name)
      BY ContentType
    <3> QED
      BY <3>1, <3>2 DEF Content
  <2>3. /\ artifacts' \in Seq(Metas) /\ Len(artifacts') = Len(artifacts) + 1
        /\ \A i \in 1..Len(artifacts) : artifacts'[i] = artifacts[i]
        /\ artifacts'[Len(artifacts) + 1] = Meta(name)
    <3> DEFINE m == Meta(name)
    <3>1. m \in Metas /\ artifacts' = Append(artifacts, m)
      BY <2>1, <2>2
    <3> HIDE DEF m
    <3>2. /\ artifacts' \in Seq(Metas) /\ Len(artifacts') = Len(artifacts) + 1
          /\ \A i \in 1..Len(artifacts) : artifacts'[i] = artifacts[i]
          /\ artifacts'[Len(artifacts) + 1] = m
      BY <2>2, <3>1
    <3> QED
      BY <3>2 DEF m
  <2>4. /\ blobs' \in [DOMAIN blobs' -> Contents] /\ DOMAIN blobs' \subseteq Names
        /\ \A i \in 1..Len(artifacts) : \A m \in Metas : m = artifacts[i] => Served(m)'
        /\ asked # Nothing => Served(asked)'
    BY <2>1, UploadShows DEF ResultsInv
  <2>5. ResultsAreTyped'
    BY <2>1, <2>3, <2>4 DEF ResultsInv, ResultsAreTyped
  <2>6. RecordIsBehind'
    <3>1. Len(record.artifacts) \in Nat
      BY DEF ResultsInv, ResultsAreTyped
    <3> QED
      BY <2>1, <2>2, <2>3, <3>1 DEF ResultsInv, RecordIsBehind
  <2>7. ListedIsOfDossier'
    <3>1. Meta(name).sha256[1] = compiled
      BY <2>2
    <3>2. \A i \in 1..Len(artifacts') : i \in 1..Len(artifacts) \/ i = Len(artifacts) + 1
      BY <2>2, <2>3
    <3> QED
      BY <1>t, <2>1, <2>3, <3>1, <3>2 DEF ResultsInv, ListedIsOfDossier
  <2>8. ListedIsThere'
    <3>1. blobs'[name] = <<compiled, name>> /\ name \in DOMAIN blobs'
      BY <2>1 DEF Stored, Content
    <3>2. \A i \in 1..Len(artifacts') : i \in 1..Len(artifacts) \/ i = Len(artifacts) + 1
      BY <2>2, <2>3
    <3> DEFINE Shown(m) == \/ m.name \in DOMAIN blobs' /\ blobs'[m.name] = m.sha256
                           \/ m.sha256[1] < execution'
    <3>3. ASSUME NEW i \in 1..Len(artifacts)
          PROVE  Shown(artifacts'[i])
      <4>1. artifacts[i] \in Metas /\ artifacts'[i] = artifacts[i]
        BY <2>2, <2>3
      <4> QED
        BY <2>4, <4>1 DEF Served
    <3>4. Shown(artifacts'[Len(artifacts) + 1])
      BY <2>2, <2>3, <3>1
    <3> HIDE DEF Shown
    <3>5. \A i \in 1..Len(artifacts') : Shown(artifacts'[i])
      BY <3>2, <3>3, <3>4
    <3> QED
      BY <3>5 DEF ListedIsThere, Served, Shown
  <2>9. AskedIsServed' /\ AskedIsCurrent'
    BY <2>1, <2>4 DEF ResultsInv, AskedIsServed, AskedIsCurrent, Names
  <2>10. ResultsTypeOK'
    <3>1. /\ IsPrefix(record'.artifacts, artifacts')
          /\ \A i \in DOMAIN artifacts' : artifacts'[i].name \in Names
      BY <2>5, <2>6, ListsType DEF ResultsAreTyped, RecordIsBehind
    <3> QED
      BY <1>t, <2>1, <2>4, <3>1 DEF ResultsInv, ResultsTypeOK
  <2>11. ListedIsServed'
    BY <2>1 DEF ResultsInv, ListedIsServed
  <2> QED
    BY <2>5, <2>6, <2>7, <2>8, <2>9, <2>10, <2>11 DEF ResultsInv
<1>5. ASSUME NEW name \in Names, UploadRaises(name)
      PROVE  ResultsInv'
  <2>1. /\ step = name /\ blobs' \in {blobs, Stored(name)}
        /\ step' \in {step, "complete"} /\ try' \in 1..MaxStorageRetries
        /\ UNCHANGED <<execution, status, compiled, artifacts, record, asked, answer>>
    BY <1>5, <1>t DEF UploadRaises, ResultsConstants
  <2>2. /\ blobs' \in [DOMAIN blobs' -> Contents] /\ DOMAIN blobs' \subseteq Names
        /\ \A i \in 1..Len(artifacts) : \A m \in Metas : m = artifacts[i] => Served(m)'
        /\ asked # Nothing => Served(asked)'
    BY <2>1, UploadShows
  <2>3. ResultsAreTyped' /\ RecordIsBehind' /\ ListedIsOfDossier' /\ ListedIsServed'
    BY <2>1, <2>2
    DEF ResultsInv, ResultsAreTyped, RecordIsBehind, ListedIsOfDossier, ListedIsServed
  <2>4. ListedIsThere' /\ AskedIsServed' /\ AskedIsCurrent'
    <3>1. ASSUME NEW i \in 1..Len(artifacts)
          PROVE  Served(artifacts[i])'
      <4>1. artifacts[i] \in Metas /\ artifacts'[i] = artifacts[i]
        BY <2>1 DEF ResultsInv, ResultsAreTyped
      <4> QED
        BY <2>2, <4>1 DEF Served
    <3>2. ListedIsThere'
      BY <2>1, <3>1 DEF ListedIsThere, Served
    <3>3. AskedIsServed' /\ AskedIsCurrent'
      BY <2>1, <2>2 DEF ResultsInv, AskedIsServed, AskedIsCurrent, Names
    <3> QED
      BY <3>2, <3>3
  <2>5. ResultsTypeOK'
    BY <1>t, <2>1, <2>2 DEF ResultsInv, ResultsTypeOK
  <2> QED
    BY <2>3, <2>4, <2>5 DEF ResultsInv
<1>6. CASE CompleteRun
  BY <1>6, <1>t, WorkerGoesOn DEF CompleteRun
<1>7. CASE Settle
  BY <1>7, <1>t, WorkerGoesOn DEF Settle, SyncRaises
<1>8. CASE Crash
  <2>1. /\ step' = "idle" /\ try' = 1
        /\ status' = record.status /\ compiled' = record.dossier /\ artifacts' = record.artifacts
        /\ UNCHANGED <<blobs, execution, record, asked, answer>>
    BY <1>8 DEF Crash
  <2>2. record.dossier \in Nat /\ record.dossier =< compiled /\ record.artifacts \in Seq(Metas)
        /\ Len(record.artifacts) \in Nat /\ Len(artifacts) \in Nat
    BY DEF ResultsInv, ResultsAreTyped, RecordIsBehind
  <2>3. ResultsAreTyped' /\ RecordIsBehind'
    BY <2>1, <2>2 DEF ResultsInv, ResultsAreTyped, RecordIsBehind
  <2>4. ListedIsOfDossier' /\ AskedIsServed' /\ AskedIsCurrent' /\ ListedIsServed'
    BY <2>1
    DEF ResultsInv, ListedIsOfDossier, AskedIsServed, Served, AskedIsCurrent, ListedIsServed
  <2>5. ListedIsThere'
    BY <2>1, <2>2 DEF ResultsInv, RecordIsBehind, ListedIsThere, Served
  <2>6. ResultsTypeOK'
    <3>1. /\ IsPrefix(record'.artifacts, artifacts')
          /\ \A i \in DOMAIN artifacts' : artifacts'[i].name \in Names
      BY <2>3, ListsType DEF ResultsAreTyped, RecordIsBehind
    <3>2. compiled' \in 0..execution
      BY <1>t, <2>1, <2>2
    <3> QED
      BY <1>t, <2>1, <3>1, <3>2 DEF ResultsInv, ResultsTypeOK, ResultsAreTyped
  <2> QED
    BY <2>3, <2>4, <2>5, <2>6 DEF ResultsInv
<1>9. CASE Ask
  <2>1. /\ UNCHANGED <<blobs, worker, record, answer>>
        /\ \E listed \in Listings : \E i \in DOMAIN listed : asked' = listed[i]
    BY <1>9 DEF Ask
  <2>2. /\ artifacts \in Seq(Metas) /\ record.artifacts \in Seq(Metas)
        /\ Len(artifacts) \in Nat /\ Len(record.artifacts) \in Nat
        /\ Len(record.artifacts) =< Len(artifacts)
        /\ \A i \in 1..Len(record.artifacts) : record.artifacts[i] = artifacts[i]
    BY DEF ResultsInv, ResultsAreTyped, RecordIsBehind
  <2>3. PICK i \in 1..Len(artifacts) : asked' = artifacts[i]
    <3> DEFINE r == record.artifacts
    <3>1. \A i \in DOMAIN r : i \in 1..Len(artifacts) /\ r[i] = artifacts[i]
      BY <2>2
    <3>2. ASSUME NEW i \in DOMAIN (artifacts \o r)
          PROVE  \E k \in 1..Len(artifacts) : (artifacts \o r)[i] = artifacts[k]
      <4>1. r \in Seq(Metas) /\ Len(r) \in Nat
        BY <2>2
      <4> HIDE DEF r
      <4>2. i \in 1..(Len(artifacts) + Len(r))
        BY <2>2, <3>2, <4>1
      <4>3. CASE i =< Len(artifacts)
        BY <2>2, <4>1, <4>2, <4>3
      <4>4. CASE i > Len(artifacts)
        <5>1. (artifacts \o r)[i] = r[i - Len(artifacts)] /\ i - Len(artifacts) \in DOMAIN r
          BY <2>2, <4>1, <4>2, <4>4
        <5> QED
          BY <3>1, <5>1
      <4> QED
        BY <2>2, <4>2, <4>3, <4>4
    <3> QED
      BY <2>1, <3>1, <3>2 DEF Listings
  <2>4. /\ asked' \in Metas /\ Served(artifacts[i]) /\ artifacts[i].sha256[1] =< compiled
        /\ artifacts[i].sha256[1] \in Nat
    BY <2>2, <2>3
    DEF ResultsInv, ResultsAreTyped, ListedIsThere, ListedIsOfDossier, Metas, Contents
  <2>5. ResultsAreTyped' /\ RecordIsBehind' /\ ListedIsOfDossier' /\ ListedIsServed'
    BY <2>1, <2>4
    DEF ResultsInv, ResultsAreTyped, RecordIsBehind, ListedIsOfDossier, ListedIsServed
  <2>6. ListedIsThere' /\ AskedIsServed' /\ AskedIsCurrent'
    BY <1>t, <2>1, <2>3, <2>4
    DEF ResultsInv, ListedIsThere, Served, AskedIsServed, AskedIsCurrent
  <2>7. ResultsTypeOK'
    BY <2>1 DEF ResultsInv, ResultsTypeOK
  <2> QED
    BY <2>5, <2>6, <2>7 DEF ResultsInv
<1>10. CASE Download
  <2> DEFINE name == asked.name
             served == name \in DOMAIN blobs /\ Verified(blobs[name], asked.sha256)
  <2>1. /\ asked # Nothing /\ asked' = Nothing
        /\ answer' = [meta |-> asked, latest |-> execution,
                      content |-> IF served THEN blobs[name] ELSE Nothing]
        /\ UNCHANGED <<blobs, worker, record>>
    BY <1>10 DEF Download
  <2>2. Served(asked)
    BY <2>1 DEF ResultsInv, AskedIsServed
  <2>3. ListedIsServed'
    BY <2>1, <2>2 DEF ListedIsServed, Served, Verified
  <2>4. /\ ResultsAreTyped' /\ RecordIsBehind' /\ ListedIsOfDossier'
        /\ ListedIsThere' /\ AskedIsServed' /\ AskedIsCurrent'
    BY <2>1
    DEF ResultsInv, ResultsAreTyped, RecordIsBehind, ListedIsOfDossier, ListedIsThere, Served,
        AskedIsServed, AskedIsCurrent
  <2>5. ResultsTypeOK'
    BY <2>1 DEF ResultsInv, ResultsTypeOK
  <2> QED
    BY <2>3, <2>4, <2>5 DEF ResultsInv
<1>11. CASE DownloadRaises
  BY <1>11, <1>t, WorkerGoesOn DEF DownloadRaises
<1>12. CASE UNCHANGED resultVars
  BY <1>12, <1>t, WorkerGoesOn DEF resultVars
<1> QED
  BY <1>1, <1>2, <1>3, <1>4, <1>5, <1>6, <1>7, <1>8, <1>9, <1>10, <1>11, <1>12 DEF ResultsNext

\* The storage, the worker, the lists and the record have their types, and the record's
\* list is the beginning of the context's, whatever call raises and whenever the worker
\* dies (jobs/worker.py, storage/).
THEOREM ResultsTypeCorrectness == ResultsConstants => (ResultsSpec => []ResultsTypeOK)
<1>1. SUFFICES ASSUME ResultsConstants PROVE ResultsSpec => []ResultsTypeOK
  OBVIOUS
<1>2. ResultsInit => ResultsInv
  BY <1>1, InitResultsInv
<1>3. ResultsInv /\ [ResultsNext]_resultVars => ResultsInv'
  BY <1>1, NextResultsInv
<1>4. ResultsInv => ResultsTypeOK
  BY DEF ResultsInv
<1>5. QED
  BY <1>2, <1>3, <1>4, PTL DEF ResultsSpec

\* A client that downloads what is listed gets what was uploaded when it was listed, or,
\* once a later execution has begun, nothing (get_artifact of api/service.py, and the
\* checksum of the download).
THEOREM ListedArtifactsAreServed == ResultsConstants => (ResultsSpec => []ListedIsServed)
<1>1. SUFFICES ASSUME ResultsConstants PROVE ResultsSpec => []ListedIsServed
  OBVIOUS
<1>2. ResultsInit => ResultsInv
  BY <1>1, InitResultsInv
<1>3. ResultsInv /\ [ResultsNext]_resultVars => ResultsInv'
  BY <1>1, NextResultsInv
<1>4. ResultsInv => ListedIsServed
  BY DEF ResultsInv
<1>5. QED
  BY <1>2, <1>3, <1>4, PTL DEF ResultsSpec
===============================================================================
