------------------------- MODULE EvidenceIndexProofs -------------------------
(***************************************************************************)
(* Proofs about EvidenceIndex, for any tasks and what they ask, any        *)
(* documents, sizes of chunks and limits, and any number of faults and     *)
(* restarts.                                                               *)
(*                                                                         *)
(* That what a completed task gathered can be searched rests on two        *)
(* things.  The last batch of a task is all that it gathered, however      *)
(* many of its records another task was the first to make, and a task      *)
(* completes only with that batch in the store.  And the chunks of a text  *)
(* leave no gap, for which they must overlap or touch: of the multiples of *)
(* the step whose chunk contains a position, the least is a start.         *)
(***************************************************************************)
EXTENDS EvidenceIndex, FiniteSetTheorems, TLAPS

-------------------------------------------------------------------------------
(* Chunks.                                                                     *)

\* A multiple of m other than 0 is at least m, and the one before it is one too.
LEMMA MultipleBefore ==
    ASSUME NEW n \in Nat, NEW m \in Nat, m > 0, n % m = 0, n # 0
    PROVE  n - m \in Nat /\ (n - m) % m = 0
<1> DEFINE q == n \div m
<1>1. q \in Nat /\ n = m * q
  OBVIOUS
<1>2. q # 0
  BY <1>1
<1>3. n >= m /\ n - m = m * (q - 1) /\ q - 1 \in Nat
  BY <1>1, <1>2
<1>4. \A k \in Nat : (m * k) % m = 0
  OBVIOUS
<1>5. (m * (q - 1)) % m = 0
  BY <1>3, <1>4
<1> HIDE DEF q
<1>6. QED
  BY <1>3, <1>5

\* Every number has a multiple of m less than m below it.
LEMMA MultipleBelow ==
    ASSUME NEW n \in Nat, NEW m \in Nat, m > 0
    PROVE  \E s \in 0..n : s % m = 0 /\ n < s + m
<1> DEFINE q == n \div m
<1>1. m * q \in 0..n
  OBVIOUS
<1>2. n < m * q + m
  OBVIOUS
<1>3. (m * q) % m = 0
  OBVIOUS
<1>4. QED
  BY <1>1, <1>2, <1>3

\* A set of numbers that is not empty has a least one.
LEMMA Least ==
    ASSUME NEW S \in SUBSET Nat, S # {}
    PROVE  \E n \in S : \A m \in S : n =< m
<1>1. PICK n \in S : \A m \in S : ~(<<m, n>> \in OpToRel(<, Nat))
  BY WFMin, NatLessThanWellFounded
<1>2. \A m \in S : ~(m < n)
  BY <1>1 DEF OpToRel
<1>3. QED
  BY <1>2

\* Every position of a text is in one of its chunks.
LEMMA ChunksLeaveNoGap ==
    ASSUME EvidenceConstants, NEW len \in Nat, NEW i \in 0..len - 1
    PROVE  \E s \in Starts(len) : i \in Text(len, s)
<1>1. ChunkSize \in Nat /\ Step \in Nat /\ Step > 0 /\ Step =< ChunkSize
  BY DEF EvidenceConstants, Step
<1>2. i \in Nat /\ i < len
  OBVIOUS
<1> DEFINE S == {s \in 0..i : s % Step = 0 /\ i < s + ChunkSize}
<1>3. S # {}
  <2>1. PICK s \in 0..i : s % Step = 0 /\ i < s + Step
    BY <1>1, <1>2, MultipleBelow
  <2>2. i < s + ChunkSize
    BY <1>1, <1>2, <2>1
  <2>3. QED
    BY <2>1, <2>2
<1>4. PICK s \in S : \A m \in S : s =< m
  <2>1. S \in SUBSET Nat
    BY <1>2
  <2> HIDE DEF S
  <2>2. QED
    BY <1>3, <2>1, Least
<1>5. s \in Starts(len)
  <2>1. CASE s = 0
    BY <1>4, <2>1 DEF Starts
  <2>2. CASE s # 0
    <3>1. s - Step \in Nat /\ (s - Step) % Step = 0
      BY <1>1, <1>4, <2>2, MultipleBefore
    <3>2. s - Step \in 0..i /\ s - Step < s
      BY <1>1, <1>4, <3>1
    <3>3. ~(i < s - Step + ChunkSize)
      BY <1>4, <3>1, <3>2
    <3>4. QED
      BY <1>1, <1>4, <3>3 DEF Starts
  <2>3. QED
    BY <2>1, <2>2
<1>6. i \in Text(len, s)
  BY <1>1, <1>4 DEF Text
<1>7. QED
  BY <1>5, <1>6

-------------------------------------------------------------------------------
(* Sequences.                                                                  *)

LEMMA ElementOfSeq ==
    ASSUME NEW S, NEW s \in Seq(S), NEW i \in DOMAIN s
    PROVE  s[i] \in S
  OBVIOUS

LEMMA TailOfSeq ==
    ASSUME NEW S, NEW s \in Seq(S), s # << >>
    PROVE  Head(s) \in S /\ Tail(s) \in Seq(S)
  OBVIOUS

-------------------------------------------------------------------------------
(* The inductive invariant.                                                    *)

Indexing == {"embed", "ensure", "create", "upsert"}
Records == [run : Runs, doc : Docs, epoch : 1..MaxRestarts + 1]

\* A task asks its queries, and ingests what they are answered or what it was given.
Asks(t) == ToSet(ExtractQueries(request[t]))
Offered(t) == {item.doc : item \in Offers(t)}
Attempts(t) == [at : Ats, ask : Seq(Asks(t)), todo : Seq(Offered(t)), got : SUBSET Nat,
                batch : SUBSET Nat, last : BOOLEAN, tries : 0..MaxCallRetries]

TasksAreTyped ==
    /\ request \in Assignments
    /\ task = [t \in Tasks |-> task[t]] /\ \A t \in Tasks : task[t] \in Attempts(t)
    /\ attempt \in [Tasks -> 1..MaxTaskAttempts]
    /\ faults \in [Tasks -> 0..MaxFaults] /\ epoch \in 1..MaxRestarts + 1

MemoryIsTyped ==
    /\ made \in Seq(Records)
    /\ registry \subseteq DOMAIN made
    /\ \A t \in Tasks : task[t].got \cup task[t].batch \subseteq DOMAIN made
    /\ known \in BOOLEAN /\ collection \in BOOLEAN /\ (known => collection)

\* The pipeline's table leads to records of the run and the content asked for.
SeenIsMade ==
    \A k \in DOMAIN seen :
        seen[k] \in DOMAIN made /\ k = <<made[seen[k]].run, made[seen[k]].doc>>

\* It has every record made since the process started, and so has the memory.
MadeIsSeen ==
    \A i \in DOMAIN made :
        /\ made[i].epoch =< epoch
        /\ made[i].epoch = epoch =>
              <<made[i].run, made[i].doc>> \in DOMAIN seen /\ i \in registry

OneRecordEach == \A i, j \in DOMAIN made : made[i] = made[j] => i = j

IsFor(t, record) == record.run = Run(t) /\ record.doc \in Offered(t)
GotIsOwn == \A t \in Tasks : \A id \in task[t].got : IsFor(t, made[id])

\* The batch that completes a task is all it gathered ...
LastIsAll ==
    \A t \in Tasks : task[t].at \in Indexing /\ task[t].last => task[t].batch = task[t].got

\* ... and is in the store when the task is done.
DoneIsStored ==
    \A t \in Tasks : task[t].at = "done" => \A id \in task[t].got : PointsOf(id) \subseteq points

\* The store holds nothing but chunks of records.
PointsAreChunks == \A p \in points : p[1] \in DOMAIN made /\ p \in PointsOf(p[1])

\* An attempt more than there were faults is one that lost the race to create the
\* collection; since there is one now, only a task that did not find it can lose that.
Raced(t) == IF collection /\ task[t].at # "create" THEN 1 ELSE 0
AttemptsAreCharged ==
    \A t \in Tasks :
        \/ Indigestible(t)
        \/ /\ attempt[t] - 1 =< faults[t] + Raced(t)
           /\ task[t].at = "exhausted" => MaxTaskAttempts - 1 =< faults[t]

EvidenceInv ==
    /\ TasksAreTyped
    /\ MemoryIsTyped
    /\ SeenIsMade
    /\ MadeIsSeen
    /\ OneRecordEach
    /\ GotIsOwn
    /\ LastIsAll
    /\ DoneIsStored
    /\ PointsAreChunks
    /\ AttemptsAreCharged

-------------------------------------------------------------------------------
(* What a task may ask and ingest.                                             *)

LEMMA AsksAreAnswered ==
    ASSUME EvidenceConstants, request \in Assignments, NEW t \in Tasks
    PROVE  /\ ExtractQueries(request[t]) \in Seq(Asks(t))
           /\ Asks(t) \subseteq DOMAIN Answer
           /\ request[t].documents \in Seq(Items)
<1> DEFINE queries == ExtractQueries(request[t])
<1>1. queries \in Seq(DOMAIN Answer) /\ request[t].documents \in Seq(Items)
  BY DEF EvidenceConstants
<1> HIDE DEF queries
<1>2. queries \in Seq(ToSet(queries)) /\ ToSet(queries) \subseteq DOMAIN Answer
  BY <1>1 DEF ToSet
<1>3. QED
  BY <1>1, <1>2 DEF Asks, queries

\* Items of a sequence are documents, and some of them do not fit if not all do.
LEMMA ItemsHaveDocs ==
    ASSUME NEW items \in Seq(Items)
    PROVE  /\ DocsOf(items) \in Seq({item.doc : item \in ToSet(items)})
           /\ {item.doc : item \in ToSet(items)} \subseteq Docs
           /\ ~AllFit(items) => \E item \in ToSet(items) : ~item.fit
<1>1. \A i \in DOMAIN items : items[i] \in Items /\ items[i] \in ToSet(items)
  BY ElementOfSeq DEF ToSet
<1>2. DOMAIN items = 1..Len(items) /\ Len(items) \in Nat
  OBVIOUS
<1>3. DocsOf(items) \in Seq({item.doc : item \in ToSet(items)})
  BY <1>1, <1>2 DEF DocsOf
<1>4. \A item \in ToSet(items) : item \in Items
  BY <1>1 DEF ToSet
<1>5. {item.doc : item \in ToSet(items)} \subseteq Docs
  BY <1>4 DEF Items
<1>6. ~AllFit(items) => \E item \in ToSet(items) : ~item.fit
  BY <1>1 DEF AllFit
<1>7. QED
  BY <1>3, <1>5, <1>6

\* What a query of the task is answered is offered to it.
LEMMA AnswersAreOffered ==
    ASSUME EvidenceConstants, request \in Assignments, NEW t \in Tasks, ~IsAnalysis(t),
           NEW q \in Asks(t),
           NEW hits,
           hits = IF request[t].type = "WEB_SEARCH" THEN TavilyHits(Answer[q])
                                                    ELSE ArxivHits(Answer[q])
    PROVE  hits \in Seq(Items) /\ ToSet(hits) \subseteq Offers(t)
<1>1. q \in DOMAIN Answer
  BY AsksAreAnswered
<1>2. hits \in Seq(Items)
  BY <1>1 DEF EvidenceConstants
<1>3. ToSet(hits) \subseteq Offers(t)
  BY DEF Offers, Asks
<1>4. QED
  BY <1>2, <1>3

LEMMA OffersAreItems ==
    ASSUME EvidenceConstants, request \in Assignments, NEW t \in Tasks
    PROVE  Offers(t) \subseteq Items /\ Offered(t) \subseteq Docs
<1>1. Offers(t) \subseteq Items
  <2>1. CASE IsAnalysis(t)
    <3>1. request[t].documents \in Seq(Items)
      BY AsksAreAnswered
    <3>2. Offers(t) = ToSet(request[t].documents)
      BY <2>1 DEF Offers
    <3>3. QED
      BY <3>1, <3>2, ElementOfSeq DEF ToSet
  <2>2. CASE ~IsAnalysis(t)
    <3>1. SUFFICES ASSUME NEW item \in Offers(t) PROVE item \in Items
      OBVIOUS
    <3>2. PICK q \in Asks(t) :
              item \in ToSet(IF request[t].type = "WEB_SEARCH" THEN TavilyHits(Answer[q])
                                                             ELSE ArxivHits(Answer[q]))
      BY <2>2 DEF Offers, Asks
    <3>3. PICK hits : hits = IF request[t].type = "WEB_SEARCH" THEN TavilyHits(Answer[q])
                                                               ELSE ArxivHits(Answer[q])
      OBVIOUS
    <3>4. hits \in Seq(Items)
      BY <2>2, <3>3, AnswersAreOffered
    <3>5. QED
      BY <3>2, <3>3, <3>4, ElementOfSeq DEF ToSet
  <2>3. QED
    BY <2>1, <2>2
<1>2. Offered(t) \subseteq Docs
  BY <1>1 DEF Offered, Items
<1>3. QED
  BY <1>1, <1>2

\* A document with a blank chunk is indigestible for whom it is offered.
LEMMA BlankIsIndigestible ==
    ASSUME NEW t \in Tasks, NEW d \in Offered(t), BlankChunk(d)
    PROVE  Indigestible(t)
BY DEF Offered, Indigestible

\* The request of a task stays what it was.
LEMMA RequestStays ==
    ASSUME request' = request, NEW t \in Tasks
    PROVE  /\ Asks(t)' = Asks(t) /\ Offers(t)' = Offers(t) /\ Offered(t)' = Offered(t)
           /\ Attempts(t)' = Attempts(t) /\ Run(t)' = Run(t)
           /\ Indigestible(t)' <=> Indigestible(t)
<1>1. Asks(t)' = Asks(t) /\ Run(t)' = Run(t)
  BY DEF Asks, Run
<1>2. Offers(t)' = Offers(t)
  BY DEF Offers, IsAnalysis
<1>3. Offered(t)' = Offered(t)
  BY <1>2 DEF Offered
<1>4. Attempts(t)' = Attempts(t)
  BY <1>1, <1>3 DEF Attempts
<1>5. Indigestible(t)' <=> Indigestible(t)
  BY <1>2 DEF Indigestible
<1>6. QED
  BY <1>1, <1>2, <1>3, <1>4, <1>5

-------------------------------------------------------------------------------
(* What a step does to the attempt of its task.                                *)

LEMMA AttemptType ==
    ASSUME TasksAreTyped, NEW t \in Tasks
    PROVE  /\ task[t] = [at |-> task[t].at, ask |-> task[t].ask, todo |-> task[t].todo,
                         got |-> task[t].got, batch |-> task[t].batch, last |-> task[t].last,
                         tries |-> task[t].tries]
           /\ task[t].at \in Ats /\ task[t].ask \in Seq(Asks(t))
           /\ task[t].todo \in Seq(Offered(t)) /\ task[t].got \in SUBSET Nat
           /\ task[t].batch \in SUBSET Nat /\ task[t].last \in BOOLEAN
           /\ task[t].tries \in 0..MaxCallRetries
           /\ attempt[t] \in 1..MaxTaskAttempts
<1>1. task[t] \in Attempts(t) /\ attempt[t] \in 1..MaxTaskAttempts
  BY DEF TasksAreTyped
<1>2. QED
  BY <1>1 DEF Attempts

\* An attempt begins with nothing gathered.
LEMMA BeginType ==
    ASSUME EvidenceConstants, request \in Assignments, NEW t \in Tasks
    PROVE  /\ BeginAttempt(t) \in Attempts(t)
           /\ BeginAttempt(t).at = "search"
           /\ BeginAttempt(t).got = {} /\ BeginAttempt(t).batch = {}
<1> DEFINE ask == IF IsAnalysis(t) THEN <<>> ELSE ExtractQueries(request[t])
<1>1. ask \in Seq(Asks(t)) /\ << >> \in Seq(Offered(t))
  BY AsksAreAnswered
<1>2. 0 \in 0..MaxCallRetries /\ "search" \in Ats
  BY DEF EvidenceConstants, Ats
<1>3. BeginAttempt(t) = [at |-> "search", ask |-> ask, todo |-> <<>>, got |-> {},
                         batch |-> {}, last |-> FALSE, tries |-> 0]
  BY DEF BeginAttempt
<1> HIDE DEF ask
<1>4. QED
  BY <1>1, <1>2, <1>3 DEF Attempts

\* Other tasks are where they were.
Alone(t) ==
    /\ task' = [u \in Tasks |-> task'[u]] /\ task'[t] \in Attempts(t)
    /\ \A u \in Tasks : u # t => task'[u] = task[u] /\ attempt'[u] = attempt[u]
    /\ attempt' \in [Tasks -> 1..MaxTaskAttempts]

\* A task moves on to r.
LEMMA MovesAlone ==
    ASSUME TasksAreTyped, NEW t \in Tasks, NEW r \in Attempts(t),
           task' = [task EXCEPT ![t] = r]
    PROVE  /\ task'[t] = r /\ task' = [u \in Tasks |-> task'[u]]
           /\ \A u \in Tasks : u # t => task'[u] = task[u]
           /\ attempt' = attempt => Alone(t)
<1>1. task' = [u \in Tasks |-> IF u = t THEN r ELSE task[u]]
  BY DEF TasksAreTyped
<1>2. task'[t] = r /\ task' = [u \in Tasks |-> task'[u]]
  BY <1>1
<1>3. \A u \in Tasks : u # t => task'[u] = task[u]
  BY <1>1
<1>4. attempt' = attempt => Alone(t)
  BY <1>2, <1>3 DEF Alone, TasksAreTyped
<1>5. QED
  BY <1>2, <1>3, <1>4

\* The attempt goes on with what it has, ends without completing, or a new one begins.
Quiet(t) ==
    /\ Alone(t)
    /\ task'[t].got \in {{}, task[t].got} /\ task'[t].batch \in {{}, task[t].batch}
    /\ task'[t].at # "done"
    /\ task'[t].at \in Indexing =>
          /\ task[t].at \in Indexing
          /\ task'[t].got = task[t].got
          /\ task'[t].batch = task[t].batch
          /\ task'[t].last = task[t].last

\* It is the last attempt, or there is another.
Failed(t) ==
    \/ attempt'[t] = attempt[t] + 1 /\ task'[t].at = "search"
    \/ attempt'[t] = MaxTaskAttempts /\ attempt[t] = MaxTaskAttempts /\ task'[t].at = "exhausted"

GoesOn(t) == attempt'[t] = attempt[t] /\ task'[t].at \notin {"create", "exhausted"}

LEMMA GoesType ==
    ASSUME EvidenceConstants, TasksAreTyped, NEW t \in Tasks, NEW at \in Ats, Goes(t, at)
    PROVE  /\ attempt' = attempt => Alone(t)
           /\ task' = [u \in Tasks |-> task'[u]] /\ task'[t] \in Attempts(t)
           /\ \A u \in Tasks : u # t => task'[u] = task[u]
           /\ task'[t].at = at /\ task'[t].got = task[t].got
           /\ task'[t].batch = task[t].batch /\ task'[t].last = task[t].last
<1> DEFINE r == [task[t] EXCEPT !.at = at, !.tries = 0]
<1>1. task[t] \in Attempts(t) /\ 0 \in 0..MaxCallRetries
  BY DEF TasksAreTyped, EvidenceConstants
<1>2. /\ r \in Attempts(t)
      /\ r.at = at /\ r.got = task[t].got /\ r.batch = task[t].batch /\ r.last = task[t].last
  BY <1>1 DEF Attempts
<1>3. task' = [task EXCEPT ![t] = r]
  BY DEF Goes, TasksAreTyped
<1> HIDE DEF r
<1>4. /\ task'[t] = r /\ task' = [u \in Tasks |-> task'[u]]
      /\ \A u \in Tasks : u # t => task'[u] = task[u]
      /\ attempt' = attempt => Alone(t)
  BY <1>2, <1>3, MovesAlone
<1>5. QED
  BY <1>2, <1>4

LEMMA FailingIsQuiet ==
    ASSUME EvidenceConstants, TasksAreTyped, NEW t \in Tasks, FailAttempt(t)
    PROVE  Quiet(t) /\ Failed(t)
<1>1. CASE attempt[t] < MaxTaskAttempts
  <2>1. /\ attempt' = [attempt EXCEPT ![t] = attempt[t] + 1]
        /\ task' = [task EXCEPT ![t] = BeginAttempt(t)]
    BY <1>1 DEF FailAttempt
  <2>2. /\ BeginAttempt(t) \in Attempts(t)
        /\ BeginAttempt(t).at = "search"
        /\ BeginAttempt(t).got = {} /\ BeginAttempt(t).batch = {}
    BY BeginType DEF TasksAreTyped
  <2>3. attempt[t] + 1 \in 1..MaxTaskAttempts
    <3>1. attempt[t] \in 1..MaxTaskAttempts
      BY AttemptType
    <3>2. QED
      BY <1>1, <3>1 DEF EvidenceConstants
  <2>4. Alone(t) /\ task'[t] = BeginAttempt(t) /\ attempt'[t] = attempt[t] + 1
    <3>1. /\ task'[t] = BeginAttempt(t) /\ task' = [u \in Tasks |-> task'[u]]
          /\ \A u \in Tasks : u # t => task'[u] = task[u]
      BY <2>1, <2>2, MovesAlone
    <3>2. /\ attempt' \in [Tasks -> 1..MaxTaskAttempts] /\ attempt'[t] = attempt[t] + 1
          /\ \A u \in Tasks : u # t => attempt'[u] = attempt[u]
      BY <2>1, <2>3 DEF TasksAreTyped
    <3>3. QED
      BY <2>2, <3>1, <3>2 DEF Alone
  <2>5. QED
    BY <2>2, <2>4 DEF Quiet, Failed, Indexing
<1>2. CASE ~(attempt[t] < MaxTaskAttempts)
  <2>1. Goes(t, "exhausted") /\ attempt' = attempt
    BY <1>2 DEF FailAttempt, EndTask
  <2>2. attempt[t] = MaxTaskAttempts
    <3>1. attempt[t] \in 1..MaxTaskAttempts
      BY AttemptType
    <3>2. QED
      BY <1>2, <3>1 DEF EvidenceConstants
  <2>3. "exhausted" \in Ats
    BY DEF Ats
  <2>4. Alone(t) /\ task'[t].at = "exhausted" /\ task'[t].got = task[t].got
        /\ task'[t].batch = task[t].batch
    BY <2>1, <2>3, GoesType
  <2>5. QED
    BY <2>1, <2>2, <2>4 DEF Quiet, Failed, Indexing
<1>3. QED
  BY <1>1, <1>2

\* A fault is the task's own.
Costs(t) ==
    /\ faults' \in [Tasks -> 0..MaxFaults] /\ faults'[t] = faults[t] + 1
    /\ \A u \in Tasks : u # t => faults'[u] = faults[u]

LEMMA FaultCosts ==
    ASSUME EvidenceConstants, TasksAreTyped, NEW t \in Tasks, Fault(t)
    PROVE  Costs(t)
<1>1. /\ faults \in [Tasks -> 0..MaxFaults] /\ MaxFaults \in Nat
      /\ faults[t] < MaxFaults /\ faults' = [faults EXCEPT ![t] = faults[t] + 1]
  BY DEF Fault, TasksAreTyped, EvidenceConstants
<1>2. faults[t] + 1 \in 0..MaxFaults
  BY <1>1
<1>3. QED
  BY <1>1, <1>2 DEF Costs

\* So does a call that fails, which is repeated or fails the attempt.
LEMMA CallFailsIsQuiet ==
    ASSUME EvidenceConstants, TasksAreTyped, NEW t \in Tasks,
           NEW again \in {"search", "embed", "ensure", "upsert"},
           again = "search" \/ task[t].at \in Indexing,
           CallFails(t, again)
    PROVE  /\ Quiet(t)
           /\ Failed(t) \/ GoesOn(t)
           /\ Costs(t)
<1>1. Costs(t)
  BY FaultCosts DEF CallFails
<1>2. CASE FailAttempt(t)
  BY <1>1, <1>2, FailingIsQuiet
<1>3. CASE /\ task[t].tries < MaxCallRetries
           /\ task' = [task EXCEPT ![t].at = again, ![t].tries = @ + 1]
           /\ UNCHANGED attempt
  <2> DEFINE r == [task[t] EXCEPT !.at = again, !.tries = task[t].tries + 1]
  <2>1. task' = [task EXCEPT ![t] = r]
    BY <1>3 DEF TasksAreTyped
  <2>2. /\ r \in Attempts(t) /\ r.at = again /\ r.got = task[t].got
        /\ r.batch = task[t].batch /\ r.last = task[t].last
    <3>1. /\ task[t].ask \in Seq(Asks(t)) /\ task[t].todo \in Seq(Offered(t))
          /\ task[t].got \in SUBSET Nat /\ task[t].batch \in SUBSET Nat
          /\ task[t].last \in BOOLEAN /\ task[t].tries \in 0..MaxCallRetries
      BY AttemptType
    <3>2. again \in Ats
      BY DEF Ats
    <3>3. task[t].tries + 1 \in 0..MaxCallRetries
      <4>1. task[t].tries < MaxCallRetries
        BY <1>3
      <4>2. MaxCallRetries \in Nat
        BY DEF EvidenceConstants
      <4>3. QED
        BY <3>1, <4>1, <4>2
    <3>4. task[t] \in Attempts(t)
      BY DEF TasksAreTyped
    <3>5. QED
      BY <3>2, <3>3, <3>4 DEF Attempts
  <2> HIDE DEF r
  <2>3. Alone(t) /\ task'[t] = r
    BY <1>3, <2>1, <2>2, MovesAlone
  <2>4. again # "done" /\ again \notin {"create", "exhausted"}
    OBVIOUS
  <2>5. again \in Indexing => task[t].at \in Indexing
    BY DEF Indexing
  <2>6. Quiet(t)
    BY <2>2, <2>3, <2>4, <2>5 DEF Quiet
  <2>7. GoesOn(t)
    BY <1>3, <2>2, <2>3, <2>4 DEF GoesOn
  <2>8. QED
    BY <1>1, <2>6, <2>7
<1>4. QED
  BY <1>2, <1>3 DEF CallFails

\* An attempt that is rejected is over.
LEMMA RejectIsQuiet ==
    ASSUME EvidenceConstants, TasksAreTyped, NEW t \in Tasks,
           NEW code \in {"invalid_input", "invalid_evidence", "ingestion_error",
                         "research_error"},
           EndTask(t, code)
    PROVE  Quiet(t) /\ GoesOn(t)
<1>1. Goes(t, code) /\ attempt' = attempt /\ code \in Ats
  BY DEF EndTask, Ats
<1>2. /\ Alone(t)
      /\ task'[t].at = code /\ task'[t].got = task[t].got
      /\ task'[t].batch = task[t].batch
  BY <1>1, GoesType
<1>3. QED
  BY <1>1, <1>2 DEF Quiet, GoesOn, Indexing

\* An attempt fails for a fault, over something that no attempt can take, or in the race
\* to create the collection, which is lost by a task that did not find it.
Paid(t) ==
    /\ request' = request
    /\ faults' = faults \/ Costs(t)
    /\ collection => collection'
    /\ \/ GoesOn(t)
       \/ Failed(t) /\ Costs(t)
       \/ Failed(t) /\ Indigestible(t)
       \/ Failed(t) /\ collection /\ task[t].at = "create"
       \/ attempt'[t] = attempt[t] /\ task'[t].at = "create" /\ ~collection'

LEMMA PaidKeepsCharges ==
    ASSUME EvidenceConstants, TasksAreTyped, AttemptsAreCharged, NEW t \in Tasks,
           Alone(t), Paid(t)
    PROVE  AttemptsAreCharged'
<1>1. SUFFICES ASSUME NEW u \in Tasks, ~Indigestible(u)
               PROVE  /\ attempt'[u] - 1 =< faults'[u] + Raced(u)'
                      /\ task'[u].at = "exhausted" => MaxTaskAttempts - 1 =< faults'[u]
  <2>1. \A u \in Tasks : Indigestible(u)' <=> Indigestible(u)
    BY RequestStays DEF Paid
  <2>2. QED
    BY <2>1 DEF AttemptsAreCharged
<1>2. /\ faults[u] \in Nat /\ faults'[u] \in Nat /\ MaxTaskAttempts \in Nat
      /\ faults[u] =< faults'[u] /\ (u # t => faults'[u] = faults[u])
  <2>1. /\ faults \in [Tasks -> 0..MaxFaults] /\ MaxFaults \in Nat
        /\ MaxTaskAttempts \in Nat
    BY DEF TasksAreTyped, EvidenceConstants
  <2>2. CASE faults' = faults
    BY <2>1, <2>2
  <2>3. CASE Costs(t)
    <3>1. /\ faults' \in [Tasks -> 0..MaxFaults] /\ faults'[t] = faults[t] + 1
          /\ u # t => faults'[u] = faults[u]
      BY <2>3 DEF Costs
    <3>2. faults[u] \in Nat /\ faults[t] \in Nat /\ faults'[u] \in Nat
      BY <2>1, <3>1
    <3>3. faults[u] =< faults'[u]
      <4>1. CASE u = t
        BY <3>1, <3>2, <4>1
      <4>2. CASE u # t
        BY <3>1, <3>2, <4>2
      <4>3. QED
        BY <4>1, <4>2
    <3>4. QED
      BY <2>1, <3>1, <3>2, <3>3
  <2>4. QED
    BY <2>2, <2>3 DEF Paid
<1>3. /\ attempt[u] - 1 =< faults[u] + Raced(u)
      /\ task[u].at = "exhausted" => MaxTaskAttempts - 1 =< faults[u]
      /\ attempt[u] \in Nat /\ attempt'[u] \in Nat
  BY <1>1 DEF AttemptsAreCharged, TasksAreTyped, Alone
<1>4. CASE u # t
  <2>1. task'[u] = task[u] /\ attempt'[u] = attempt[u]
    BY <1>4 DEF Alone
  <2>2. Raced(u) =< Raced(u)' /\ Raced(u) \in Nat /\ Raced(u)' \in Nat
    BY <2>1 DEF Raced, Paid
  <2>3. QED
    BY <1>2, <1>3, <1>4, <2>1, <2>2
<1>5. CASE u = t
  <2>1. CASE GoesOn(t)
    <3>1. Raced(t) =< Raced(t)' /\ Raced(t) \in Nat /\ Raced(t)' \in Nat
      BY <2>1 DEF Raced, Paid, GoesOn
    <3>2. QED
      BY <1>2, <1>3, <1>5, <2>1, <3>1 DEF Paid, GoesOn
  <2>2. CASE Failed(t) /\ Costs(t)
    <3>1. task'[t].at # "create"
      BY <2>2 DEF Failed
    <3>2. Raced(t) =< Raced(t)' /\ Raced(t) \in 0..1 /\ Raced(t)' \in 0..1
      BY <3>1 DEF Raced, Paid
    <3>3. QED
      BY <1>2, <1>3, <1>5, <2>2, <3>2 DEF Failed, Costs
  <2>3. CASE Failed(t) /\ collection /\ task[t].at = "create"
    <3>1. task'[t].at # "create"
      BY <2>3 DEF Failed
    <3>2. Raced(t) = 0 /\ Raced(t)' = 1
      BY <2>3, <3>1 DEF Raced, Paid
    <3>3. QED
      BY <1>2, <1>3, <1>5, <2>3, <3>2 DEF Failed, Paid
  <2>4. CASE attempt'[t] = attempt[t] /\ task'[t].at = "create" /\ ~collection'
    <3>1. Raced(t) = 0 /\ Raced(t)' = 0
      BY <2>4 DEF Raced, Paid
    <3>2. QED
      BY <1>2, <1>3, <1>5, <2>4, <3>1 DEF Paid
  <2>5. QED
    BY <1>1, <1>5, <2>1, <2>2, <2>3, <2>4 DEF Paid
<1>6. QED
  BY <1>4, <1>5

LEMMA TasksStayTyped ==
    ASSUME TasksAreTyped, NEW t \in Tasks, Alone(t), Paid(t), epoch' = epoch
    PROVE  TasksAreTyped'
<1>1. \A u \in Tasks : task'[u] \in Attempts(u)
  BY DEF TasksAreTyped, Alone
<1>2. \A u \in Tasks : Attempts(u)' = Attempts(u)
  BY RequestStays DEF Paid
<1>3. faults' \in [Tasks -> 0..MaxFaults]
  BY DEF TasksAreTyped, Paid, Costs
<1>4. QED
  BY <1>1, <1>2, <1>3 DEF TasksAreTyped, Alone, Paid

\* A quiet step that leaves the records alone and takes nothing from the store.
StoreGrows ==
    /\ UNCHANGED <<request, memory, epoch>>
    /\ points \subseteq points' /\ PointsAreChunks'
    /\ known' \in BOOLEAN /\ collection' \in BOOLEAN /\ (known' => collection')

LEMMA QuietStep ==
    ASSUME EvidenceConstants, EvidenceInv, NEW t \in Tasks,
           Quiet(t), Paid(t), StoreGrows
    PROVE  EvidenceInv'
<1>1. /\ request' = request /\ made' = made /\ seen' = seen /\ registry' = registry
      /\ epoch' = epoch
  BY DEF StoreGrows, memory
<1>2. TasksAreTyped'
  BY <1>1, TasksStayTyped DEF EvidenceInv, Quiet
<1>3. MemoryIsTyped'
  BY <1>1 DEF EvidenceInv, MemoryIsTyped, Quiet, Alone, StoreGrows
<1>4. SeenIsMade' /\ MadeIsSeen' /\ OneRecordEach'
  BY <1>1 DEF EvidenceInv, SeenIsMade, MadeIsSeen, OneRecordEach
<1>5. GotIsOwn'
  <2>1. \A u \in Tasks : \A id \in task'[u].got : IsFor(u, made[id])
    BY DEF EvidenceInv, GotIsOwn, Quiet, Alone
  <2>2. \A u \in Tasks : Run(u)' = Run(u) /\ Offered(u)' = Offered(u)
    BY <1>1, RequestStays
  <2>3. QED
    BY <1>1, <2>1, <2>2 DEF GotIsOwn, IsFor
<1>6. LastIsAll'
  BY DEF EvidenceInv, LastIsAll, Quiet, Alone
<1>7. DoneIsStored'
  <2>1. \A id : PointsOf(id)' = PointsOf(id)
    BY <1>1 DEF PointsOf
  <2>2. \A u \in Tasks : task'[u].at = "done" => task'[u] = task[u]
    BY DEF Quiet, Alone
  <2>3. QED
    BY <2>1, <2>2 DEF EvidenceInv, DoneIsStored, StoreGrows
<1>8. AttemptsAreCharged'
  BY PaidKeepsCharges DEF EvidenceInv, Quiet
<1>9. QED
  BY <1>2, <1>3, <1>4, <1>5, <1>6, <1>7, <1>8 DEF EvidenceInv, StoreGrows

LEMMA StoreIsKept ==
    ASSUME EvidenceInv, UNCHANGED <<request, memory, points, epoch>>,
           known' \in BOOLEAN, collection' \in BOOLEAN, known' => collection'
    PROVE  StoreGrows
<1>1. points' = points /\ made' = made
  BY DEF memory
<1>2. PointsAreChunks'
  BY <1>1 DEF EvidenceInv, PointsAreChunks, PointsOf
<1>3. QED
  BY <1>1, <1>2 DEF StoreGrows

LEMMA CallFailsKeeps ==
    ASSUME EvidenceConstants, EvidenceInv, NEW t \in Tasks,
           NEW again \in {"search", "embed", "ensure", "upsert"},
           again = "search" \/ task[t].at \in Indexing,
           CallFails(t, again), StoreGrows, collection => collection'
    PROVE  EvidenceInv'
<1>1. /\ Quiet(t)
      /\ Failed(t) \/ GoesOn(t)
      /\ Costs(t)
  BY CallFailsIsQuiet DEF EvidenceInv
<1>2. Paid(t)
  BY <1>1 DEF Paid, StoreGrows
<1>3. QED
  BY <1>1, <1>2, QuietStep

LEMMA RefusalKeeps ==
    ASSUME EvidenceConstants, EvidenceInv, NEW t \in Tasks,
           NEW code \in {"invalid_evidence", "research_error"},
           CallIsRefused(t, code), StoreGrows, collection' = collection
    PROVE  EvidenceInv'
<1>1. Quiet(t) /\ GoesOn(t) /\ Costs(t)
  BY RejectIsQuiet, FaultCosts DEF CallIsRefused, EvidenceInv
<1>2. Paid(t)
  BY <1>1 DEF Paid, StoreGrows
<1>3. QED
  BY <1>1, <1>2, QuietStep

LEMMA NothingToDoKeeps ==
    ASSUME EvidenceConstants, EvidenceInv, NEW t \in Tasks, NothingToDo(t)
    PROVE  EvidenceInv'
<1>1. /\ EndTask(t, "invalid_input")
      /\ UNCHANGED <<request, memory, points, collection, known, faults, epoch>>
  BY DEF NothingToDo, store
<1>2. Quiet(t) /\ GoesOn(t)
  BY <1>1, RejectIsQuiet DEF EvidenceInv
<1>3. StoreGrows
  BY <1>1, StoreIsKept DEF EvidenceInv, MemoryIsTyped
<1>4. Paid(t)
  BY <1>1, <1>2 DEF Paid
<1>5. QED
  BY <1>2, <1>3, <1>4, QuietStep

\* Documents that do not fit are indigestible.
LEMMA UnfitKeeps ==
    ASSUME EvidenceConstants, EvidenceInv, NEW t \in Tasks,
           NEW items \in Seq(Items), ToSet(items) \subseteq Offers(t), ~AllFit(items),
           FailAttempt(t), StoreGrows, collection' = collection, faults' = faults
    PROVE  EvidenceInv'
<1>1. Quiet(t) /\ Failed(t)
  BY FailingIsQuiet DEF EvidenceInv
<1>2. Indigestible(t)
  BY ItemsHaveDocs DEF Indigestible
<1>3. Paid(t)
  BY <1>1, <1>2 DEF Paid, StoreGrows
<1>4. QED
  BY <1>1, <1>3, QuietStep

LEMMA ExtractDocumentsKeeps ==
    ASSUME EvidenceConstants, EvidenceInv, NEW t \in Tasks, ExtractDocuments(t)
    PROVE  EvidenceInv'
<1> DEFINE items == request[t].documents
<1>1. /\ UNCHANGED <<request, memory, points, collection, known, faults, epoch>>
      /\ task[t].at = "search" /\ IsAnalysis(t) /\ TasksAreTyped
  BY DEF ExtractDocuments, store, EvidenceInv
<1>2. StoreGrows
  BY <1>1, StoreIsKept DEF EvidenceInv, MemoryIsTyped
<1>3. items \in Seq(Items) /\ ToSet(items) = Offers(t)
  BY <1>1, AsksAreAnswered DEF Offers, TasksAreTyped
<1>4. CASE ~AllFit(items) /\ FailAttempt(t)
  BY <1>1, <1>2, <1>3, <1>4, UnfitKeeps
<1>5. CASE /\ task' = [task EXCEPT ![t].at = "ingest", ![t].todo = DocsOf(items)]
           /\ UNCHANGED attempt
  <2> DEFINE r == [task[t] EXCEPT !.at = "ingest", !.todo = DocsOf(items)]
  <2>1. DocsOf(items) \in Seq(Offered(t))
    BY <1>3, ItemsHaveDocs DEF Offered
  <2>2. task' = [task EXCEPT ![t] = r]
    BY <1>1, <1>5 DEF TasksAreTyped
  <2>3. task[t] \in Attempts(t) /\ "ingest" \in Ats
    BY <1>1 DEF TasksAreTyped, Ats
  <2>4. /\ r \in Attempts(t) /\ r.at = "ingest"
        /\ r.got = task[t].got /\ r.batch = task[t].batch
    BY <2>1, <2>3 DEF Attempts
  <2> HIDE DEF r
  <2>5. Alone(t) /\ task'[t] = r
    BY <1>1, <1>5, <2>2, <2>4, MovesAlone
  <2>6. Quiet(t) /\ GoesOn(t)
    BY <1>5, <2>4, <2>5 DEF Quiet, GoesOn, Indexing
  <2>7. Paid(t)
    BY <1>1, <2>6 DEF Paid
  <2>8. QED
    BY <1>2, <2>6, <2>7, QuietStep
<1>6. QED
  BY <1>4, <1>5 DEF ExtractDocuments

\* The documents of the hits come after those there are.
LEMMA AskingKeeps ==
    ASSUME EvidenceConstants, EvidenceInv, NEW t \in Tasks,
           NEW hits \in Seq(Items), ToSet(hits) \subseteq Offers(t), Asking(t, hits)
    PROVE  EvidenceInv'
<1>1. UNCHANGED <<request, memory, points, collection, known, epoch>> /\ task[t].at = "search"
  BY DEF Asking, store
<1>2. StoreGrows
  BY <1>1, StoreIsKept DEF EvidenceInv, MemoryIsTyped
<1>3. CASE CallFails(t, "search")
  BY <1>1, <1>2, <1>3, CallFailsKeeps
<1>4. CASE CallIsRefused(t, "research_error")
  BY <1>1, <1>2, <1>4, RefusalKeeps
<1>5. CASE ~AllFit(hits) /\ FailAttempt(t) /\ UNCHANGED faults
  BY <1>1, <1>2, <1>5, UnfitKeeps
<1>6. CASE /\ task' = [task EXCEPT
                         ![t].ask = Tail(@),
                         ![t].tries = 0,
                         ![t].todo = @ \o DocsOf(hits),
                         ![t].at = IF Len(task[t].ask) = 1 THEN "ingest" ELSE "search"]
           /\ UNCHANGED <<attempt, faults>>
  <2> DEFINE at == IF Len(task[t].ask) = 1 THEN "ingest" ELSE "search"
             r == [task[t] EXCEPT !.ask = Tail(task[t].ask), !.tries = 0,
                                  !.todo = task[t].todo \o DocsOf(hits), !.at = at]
  <2>1. /\ task[t] \in Attempts(t) /\ task[t].todo \in Seq(Offered(t))
        /\ task[t].ask \in Seq(Asks(t)) /\ task[t].ask # << >>
    BY AttemptType DEF EvidenceInv, TasksAreTyped, Asking
  <2>2. DocsOf(hits) \in Seq(Offered(t))
    <3>1. DocsOf(hits) \in Seq({item.doc : item \in ToSet(hits)})
      BY ItemsHaveDocs
    <3>2. {item.doc : item \in ToSet(hits)} \subseteq Offered(t)
      BY DEF Offered
    <3>3. QED
      BY <3>1, <3>2
  <2>3. /\ task[t].todo \o DocsOf(hits) \in Seq(Offered(t))
        /\ Tail(task[t].ask) \in Seq(Asks(t))
        /\ at \in {"ingest", "search"} /\ at \in Ats /\ 0 \in 0..MaxCallRetries
    <3>1. task[t].todo \o DocsOf(hits) \in Seq(Offered(t))
      BY <2>1, <2>2
    <3>2. Tail(task[t].ask) \in Seq(Asks(t))
      BY <2>1, TailOfSeq
    <3>3. at \in {"ingest", "search"} /\ at \in Ats
      BY DEF Ats
    <3>4. QED
      BY <3>1, <3>2, <3>3 DEF EvidenceConstants
  <2> HIDE DEF at
  <2>4. /\ r \in Attempts(t)
        /\ r.at = at /\ r.got = task[t].got /\ r.batch = task[t].batch
    BY <2>1, <2>3 DEF Attempts
  <2>5. task' = [task EXCEPT ![t] = r]
    BY <1>6 DEF at, EvidenceInv, TasksAreTyped
  <2> HIDE DEF r
  <2>6. Alone(t) /\ task'[t] = r
    <3>1. UNCHANGED <<attempt, faults>> /\ TasksAreTyped
      BY <1>6 DEF EvidenceInv
    <3>2. QED
      BY <2>4, <2>5, <3>1, MovesAlone
  <2>7. Quiet(t) /\ GoesOn(t)
    BY <1>6, <2>3, <2>4, <2>6 DEF Quiet, GoesOn, Indexing
  <2>8. Paid(t)
    BY <1>1, <1>6, <2>7 DEF Paid
  <2>9. QED
    BY <1>2, <2>7, <2>8, QuietStep
<1>7. QED
  BY <1>3, <1>6, <1>4, <1>5 DEF Asking

LEMMA SearchesKeep ==
    ASSUME EvidenceConstants, EvidenceInv, NEW t \in Tasks, TavilySearch(t) \/ ArxivSearch(t)
    PROVE  EvidenceInv'
<1>1. task[t].ask # << >> /\ task[t].ask \in Seq(Asks(t)) /\ request \in Assignments
  BY AttemptType DEF TavilySearch, ArxivSearch, EvidenceInv, TasksAreTyped
<1>2. PICK q \in Asks(t) : q = Head(task[t].ask)
  BY <1>1, TailOfSeq
<1>3. PICK hits : hits = IF request[t].type = "WEB_SEARCH" THEN TavilyHits(Answer[q])
                                                           ELSE ArxivHits(Answer[q])
  OBVIOUS
<1>4. ~IsAnalysis(t)
  BY DEF TavilySearch, ArxivSearch, IsAnalysis
<1>5. hits \in Seq(Items) /\ ToSet(hits) \subseteq Offers(t)
  BY <1>1, <1>3, <1>4, AnswersAreOffered
<1>6. Asking(t, hits)
  BY <1>2, <1>3 DEF TavilySearch, ArxivSearch
<1>7. QED
  BY <1>5, <1>6, AskingKeeps

LEMMA EmbedKeeps ==
    ASSUME EvidenceConstants, EvidenceInv, NEW t \in Tasks, Embed(t)
    PROVE  EvidenceInv'
<1>1. UNCHANGED <<request, memory, points, collection, known, epoch>> /\ task[t].at = "embed"
  BY DEF Embed, store
<1>2. StoreGrows /\ TasksAreTyped /\ task[t].at \in Indexing
  BY <1>1, StoreIsKept DEF EvidenceInv, MemoryIsTyped, Indexing
<1>3. CASE CallFails(t, "embed")
  BY <1>1, <1>2, <1>3, CallFailsKeeps
<1>4. CASE Goes(t, IF known THEN "upsert" ELSE "ensure") /\ UNCHANGED <<attempt, faults>>
  <2>1. PICK at \in {"upsert", "ensure"} : Goes(t, at)
    BY <1>4
  <2>2. /\ Alone(t)
        /\ task'[t].at = at /\ task'[t].got = task[t].got
        /\ task'[t].batch = task[t].batch /\ task'[t].last = task[t].last
    BY <1>2, <1>4, <2>1, GoesType DEF Ats
  <2>3. Quiet(t) /\ GoesOn(t)
    BY <1>2, <1>4, <2>2 DEF Quiet, GoesOn
  <2>4. Paid(t)
    BY <1>1, <1>4, <2>3 DEF Paid
  <2>5. QED
    BY <1>2, <2>3, <2>4, QuietStep
<1>5. CASE CallIsRefused(t, "invalid_evidence")
  BY <1>1, <1>2, <1>5, RefusalKeeps
<1>6. QED
  BY <1>3, <1>4, <1>5 DEF Embed

LEMMA CheckCollectionKeeps ==
    ASSUME EvidenceConstants, EvidenceInv, NEW t \in Tasks, CheckCollection(t)
    PROVE  EvidenceInv'
<1>1. UNCHANGED <<request, memory, points, collection, epoch>> /\ task[t].at = "ensure"
  BY DEF CheckCollection
<1>2. TasksAreTyped /\ MemoryIsTyped /\ task[t].at \in Indexing
  BY <1>1 DEF EvidenceInv, Indexing
<1>3. CASE CallFails(t, "ensure") /\ UNCHANGED known
  <2>1. StoreGrows
    BY <1>1, <1>2, <1>3, StoreIsKept DEF MemoryIsTyped
  <2>2. QED
    BY <1>1, <1>2, <1>3, <2>1, CallFailsKeeps
<1>4. CASE collection /\ known' = TRUE /\ Goes(t, "upsert") /\ UNCHANGED <<attempt, faults>>
  <2>1. /\ Alone(t)
        /\ task'[t].at = "upsert" /\ task'[t].got = task[t].got
        /\ task'[t].batch = task[t].batch /\ task'[t].last = task[t].last
    BY <1>2, <1>4, GoesType DEF Ats
  <2>2. Quiet(t) /\ GoesOn(t)
    BY <1>2, <1>4, <2>1 DEF Quiet, GoesOn
  <2>3. StoreGrows
    BY <1>1, <1>2, <1>4, StoreIsKept DEF MemoryIsTyped
  <2>4. Paid(t)
    BY <1>1, <1>4, <2>2 DEF Paid
  <2>5. QED
    BY <2>2, <2>3, <2>4, QuietStep
<1>5. CASE /\ ~collection /\ task' = [task EXCEPT ![t].at = "create"]
           /\ UNCHANGED <<known, attempt, faults>>
  <2> DEFINE r == [task[t] EXCEPT !.at = "create"]
  <2>1. task[t] \in Attempts(t)
    BY <1>2 DEF TasksAreTyped
  <2>2. /\ r \in Attempts(t)
        /\ r.at = "create" /\ r.got = task[t].got /\ r.batch = task[t].batch
        /\ r.last = task[t].last
    BY <2>1 DEF Attempts, Ats
  <2>3. task' = [task EXCEPT ![t] = r]
    BY <1>2, <1>5 DEF TasksAreTyped
  <2> HIDE DEF r
  <2>4. Alone(t) /\ task'[t] = r /\ attempt'[t] = attempt[t]
    BY <1>2, <1>5, <2>2, <2>3, MovesAlone
  <2>5. Quiet(t)
    BY <1>2, <2>2, <2>4 DEF Quiet
  <2>6. StoreGrows
    BY <1>1, <1>2, <1>5, StoreIsKept DEF MemoryIsTyped
  <2>7. Paid(t)
    BY <1>1, <1>5, <2>2, <2>4 DEF Paid
  <2>8. QED
    BY <2>5, <2>6, <2>7, QuietStep
<1>6. QED
  BY <1>3, <1>4, <1>5 DEF CheckCollection, Exists

LEMMA CreateCollectionKeeps ==
    ASSUME EvidenceConstants, EvidenceInv, NEW t \in Tasks, CreateCollection(t)
    PROVE  EvidenceInv'
<1>1. UNCHANGED <<request, memory, points, epoch>> /\ task[t].at = "create"
  BY DEF CreateCollection
<1>2. TasksAreTyped /\ MemoryIsTyped /\ task[t].at \in Indexing
  BY <1>1 DEF EvidenceInv, Indexing
<1>3. CASE /\ ~collection /\ collection' = TRUE /\ known' = TRUE
           /\ Goes(t, "upsert") /\ UNCHANGED <<attempt, faults>>
  <2>1. /\ Alone(t)
        /\ task'[t].at = "upsert" /\ task'[t].got = task[t].got
        /\ task'[t].batch = task[t].batch /\ task'[t].last = task[t].last
    BY <1>2, <1>3, GoesType DEF Ats
  <2>2. Quiet(t) /\ GoesOn(t)
    BY <1>2, <1>3, <2>1 DEF Quiet, GoesOn
  <2>3. StoreGrows
    BY <1>1, <1>3, StoreIsKept
  <2>4. Paid(t)
    BY <1>1, <1>3, <2>2 DEF Paid
  <2>5. QED
    BY <2>2, <2>3, <2>4, QuietStep
<1>4. CASE collection /\ FailAttempt(t) /\ UNCHANGED <<collection, known, faults>>
  <2>1. Quiet(t) /\ Failed(t)
    BY <1>2, <1>4, FailingIsQuiet
  <2>2. StoreGrows
    BY <1>1, <1>2, <1>4, StoreIsKept DEF MemoryIsTyped
  <2>3. Paid(t)
    BY <1>1, <1>4, <2>1 DEF Paid
  <2>4. QED
    BY <2>1, <2>2, <2>3, QuietStep
<1>5. CASE collection' \in {collection, TRUE} /\ CallFails(t, "ensure") /\ UNCHANGED known
  <2>1. StoreGrows /\ (collection => collection')
    <3>1. collection' \in {collection, TRUE} /\ known' = known
      BY <1>5
    <3>2. known \in BOOLEAN /\ collection \in BOOLEAN /\ (known => collection)
      BY <1>2 DEF MemoryIsTyped
    <3>3. /\ known' \in BOOLEAN /\ collection' \in BOOLEAN /\ (known' => collection')
          /\ collection => collection'
      BY <3>1, <3>2
    <3>4. QED
      BY <1>1, <3>3, StoreIsKept
  <2>2. QED
    BY <1>2, <1>5, <2>1, CallFailsKeeps
<1>6. QED
  BY <1>3, <1>4, <1>5 DEF CreateCollection

LEMMA TaskTimeoutKeeps ==
    ASSUME EvidenceConstants, EvidenceInv, NEW t \in Tasks, TaskTimeout(t)
    PROVE  EvidenceInv'
<1>1. /\ FailAttempt(t) /\ Costs(t)
      /\ UNCHANGED <<request, memory, points, collection, known, epoch>>
  BY FaultCosts DEF TaskTimeout, EvidenceInv, store
<1>2. Quiet(t) /\ Failed(t)
  BY <1>1, FailingIsQuiet DEF EvidenceInv
<1>3. StoreGrows
  BY <1>1, StoreIsKept DEF EvidenceInv, MemoryIsTyped
<1>4. Paid(t)
  BY <1>1, <1>2 DEF Paid
<1>5. QED
  BY <1>2, <1>3, <1>4, QuietStep

LEMMA GotStays ==
    ASSUME GotIsOwn, UNCHANGED <<request, made>>,
           \A u \in Tasks : task'[u].got = task[u].got
    PROVE  GotIsOwn'
<1>1. \A u \in Tasks : Run(u)' = Run(u) /\ Offered(u)' = Offered(u)
  BY RequestStays
<1>2. QED
  BY <1>1 DEF GotIsOwn, IsFor

\* The batch is written, whether or not the answer comes back; the last completes the
\* task, all of whose records are then in the store.
LEMMA UpsertVectorsKeeps ==
    ASSUME EvidenceConstants, EvidenceInv, NEW t \in Tasks, UpsertVectors(t)
    PROVE  EvidenceInv'
<1> DEFINE written == points \cup UNION {PointsOf(id) : id \in task[t].batch}
<1>1. UNCHANGED <<request, memory, collection, known, epoch>> /\ task[t].at = "upsert"
  BY DEF UpsertVectors
<1>2. /\ TasksAreTyped /\ MemoryIsTyped /\ task[t].at \in Indexing
      /\ made' = made /\ \A id : PointsOf(id)' = PointsOf(id)
  BY <1>1 DEF EvidenceInv, Indexing, memory, PointsOf
<1>3. points' \in {points, written}
  BY DEF UpsertVectors
<1>4. StoreGrows
  <2>1. ASSUME NEW p \in written
        PROVE  p[1] \in DOMAIN made /\ p \in PointsOf(p[1])
    <3>1. CASE p \in points
      BY <3>1 DEF EvidenceInv, PointsAreChunks
    <3>2. CASE p \notin points
      <4>1. PICK id \in task[t].batch : p \in PointsOf(id)
        BY <3>2
      <4>2. p[1] = id
        BY <4>1 DEF PointsOf
      <4>3. QED
        BY <1>2, <4>1, <4>2 DEF MemoryIsTyped
    <3>3. QED
      BY <3>1, <3>2
  <2>2. PointsAreChunks'
    BY <1>2, <1>3, <2>1 DEF PointsAreChunks, EvidenceInv
  <2>3. QED
    BY <1>1, <1>2, <1>3, <2>2 DEF StoreGrows, MemoryIsTyped
<1>5. CASE CallFails(t, "upsert")
  BY <1>1, <1>2, <1>4, <1>5, CallFailsKeeps
<1>6. CASE /\ points' = written
           /\ Goes(t, IF task[t].last THEN "done" ELSE "ingest")
           /\ UNCHANGED <<attempt, faults>>
  <2>1. CASE ~task[t].last
    <3>1. Goes(t, "ingest")
      BY <1>6, <2>1
    <3>2. /\ Alone(t)
          /\ task'[t].at = "ingest" /\ task'[t].got = task[t].got
          /\ task'[t].batch = task[t].batch
      BY <1>2, <1>6, <3>1, GoesType DEF Ats
    <3>3. Quiet(t) /\ GoesOn(t)
      BY <1>6, <3>2 DEF Quiet, GoesOn, Indexing
    <3>4. Paid(t)
      BY <1>1, <1>6, <3>3 DEF Paid
    <3>5. QED
      BY <1>4, <3>3, <3>4, QuietStep
  <2>2. CASE task[t].last
    <3>1. Goes(t, "done")
      BY <1>6, <2>2
    <3>2. /\ Alone(t)
          /\ \A u \in Tasks : u # t => task'[u] = task[u]
          /\ task'[t].at = "done" /\ task'[t].got = task[t].got
          /\ task'[t].batch = task[t].batch
      BY <1>2, <1>6, <3>1, GoesType DEF Ats
    <3>3. task[t].batch = task[t].got
      BY <1>2, <2>2 DEF EvidenceInv, LastIsAll
    <3>4. Alone(t) /\ GoesOn(t)
      BY <1>6, <3>2 DEF GoesOn
    <3>5. Paid(t)
      BY <1>1, <1>6, <3>4 DEF Paid
    <3>6. AttemptsAreCharged'
      BY <1>2, <3>4, <3>5, PaidKeepsCharges DEF EvidenceInv
    <3>7. \A u \in Tasks : task'[u].got = task[u].got /\ task'[u].batch = task[u].batch
      BY <3>2
    <3>8. DoneIsStored'
      <4>1. \A id \in task[t].got : PointsOf(id) \subseteq points'
        BY <1>6, <3>3
      <4>2. points \subseteq points'
        BY <1>6
      <4>3. \A u \in Tasks : task'[u].at = "done" =>
               \A id \in task'[u].got : PointsOf(id) \subseteq points'
        BY <3>2, <4>1, <4>2 DEF EvidenceInv, DoneIsStored
      <4>4. QED
        BY <1>2, <4>3 DEF DoneIsStored
    <3>9. LastIsAll'
      BY <3>2 DEF EvidenceInv, LastIsAll, Indexing
    <3>10. TasksAreTyped' /\ MemoryIsTyped' /\ GotIsOwn'
      <4>1. TasksAreTyped'
        BY <1>1, <1>2, <3>4, <3>5, TasksStayTyped
      <4>2. MemoryIsTyped'
        BY <1>1, <1>6, <3>7 DEF EvidenceInv, MemoryIsTyped, memory
      <4>3. GotIsOwn'
        BY <1>1, <3>7, GotStays DEF EvidenceInv, memory
      <4>4. QED
        BY <4>1, <4>2, <4>3
    <3>11. SeenIsMade' /\ MadeIsSeen' /\ OneRecordEach' /\ PointsAreChunks'
      BY <1>1, <1>4 DEF EvidenceInv, SeenIsMade, MadeIsSeen, OneRecordEach, memory, StoreGrows
    <3>12. QED
      BY <3>6, <3>8, <3>9, <3>10, <3>11 DEF EvidenceInv
  <2>3. QED
    BY <2>1, <2>2
<1>7. QED
  BY <1>5, <1>6 DEF UpsertVectors

\* What an upsert sets out to do with records that are there for the task.
LEMMA UpsertType ==
    ASSUME EvidenceConstants, TasksAreTyped, NEW t \in Tasks,
           NEW ids \in SUBSET Nat, NEW recs, \A id \in ids : recs[id].doc \in Offered(t),
           UpsertEvidence(t, ids, recs)
    PROVE  /\ registry' = registry \cup ids
           /\ Alone(t) /\ (GoesOn(t) \/ (Failed(t) /\ Indigestible(t)))
           /\ \/ Quiet(t)
              \/ /\ task'[t].at = "embed" /\ task'[t].batch = ids
                 /\ task'[t].got = task[t].got \cup ids
                 /\ task'[t].last <=> task[t].todo = << >>
<1>1. registry' = registry \cup ids
  BY DEF UpsertEvidence
<1>2. CASE EndTask(t, "invalid_evidence")
  BY <1>1, <1>2, RejectIsQuiet DEF Quiet
<1>3. CASE (\E id \in ids : BlankChunk(recs[id].doc)) /\ FailAttempt(t)
  <2>1. Quiet(t) /\ Failed(t)
    BY <1>3, FailingIsQuiet
  <2>2. Indigestible(t)
    BY <1>3, BlankIsIndigestible
  <2>3. QED
    BY <1>1, <2>1, <2>2 DEF Quiet
<1>4. CASE /\ task' = [task EXCEPT ![t].at = "embed", ![t].batch = ids,
                           ![t].got = @ \cup ids,
                           ![t].last = task[t].todo = <<>>,
                           ![t].todo = IF @ = <<>> THEN @ ELSE Tail(@)]
           /\ UNCHANGED attempt
  <2> DEFINE last == task[t].todo = << >>
             rest == IF task[t].todo = << >> THEN task[t].todo ELSE Tail(task[t].todo)
             r == [task[t] EXCEPT !.at = "embed", !.batch = ids, !.got = task[t].got \cup ids,
                                  !.last = last, !.todo = rest]
  <2>1. /\ task[t] \in Attempts(t) /\ task[t].got \in SUBSET Nat
        /\ task[t].todo \in Seq(Offered(t))
    BY AttemptType DEF TasksAreTyped
  <2>2. rest \in Seq(Offered(t))
    BY <2>1, TailOfSeq
  <2>3. last \in BOOLEAN
    OBVIOUS
  <2>4. task[t].got \cup ids \in SUBSET Nat
    BY <2>1
  <2>5. task' = [task EXCEPT ![t] = r]
    BY <1>4 DEF TasksAreTyped
  <2>6. last <=> task[t].todo = << >>
    OBVIOUS
  <2> HIDE DEF last, rest
  <2>7. /\ r \in Attempts(t)
        /\ r.at = "embed" /\ r.batch = ids /\ r.got = task[t].got \cup ids /\ r.last = last
    BY <2>1, <2>2, <2>3, <2>4 DEF Attempts, Ats
  <2> HIDE DEF r
  <2>8. Alone(t) /\ task'[t] = r /\ attempt'[t] = attempt[t]
    <3>1. UNCHANGED attempt
      BY <1>4
    <3>2. QED
      BY <2>5, <2>7, <3>1, MovesAlone
  <2>9. QED
    BY <1>1, <2>6, <2>7, <2>8 DEF GoesOn
<1>5. QED
  BY <1>2, <1>4, <1>3 DEF UpsertEvidence

\* A step that gathers records of the run, of which one may be new.
RecordsGrow ==
    /\ made' \in Seq(Records) /\ DOMAIN made \subseteq DOMAIN made'
    /\ \A i \in DOMAIN made : made'[i] = made[i]
    /\ registry' \subseteq DOMAIN made'
    /\ SeenIsMade' /\ MadeIsSeen' /\ OneRecordEach'

Gathers(t, ids) ==
    /\ Alone(t) /\ (GoesOn(t) \/ (Failed(t) /\ Indigestible(t)))
    /\ task'[t].at # "done"
    /\ task'[t].got \subseteq task[t].got \cup ids
    /\ task'[t].batch \subseteq task[t].batch \cup ids
    /\ task'[t].at \in Indexing /\ task'[t].last => task'[t].batch = task'[t].got

LEMMA GatherStep ==
    ASSUME EvidenceConstants, EvidenceInv, NEW t \in Tasks, NEW ids,
           Gathers(t, ids), RecordsGrow, UNCHANGED <<request, store, faults, epoch>>,
           ids \subseteq DOMAIN made', \A id \in ids : IsFor(t, made'[id])
    PROVE  EvidenceInv'
<1>1. /\ request' = request /\ points' = points /\ collection' = collection /\ known' = known
      /\ faults' = faults /\ epoch' = epoch
      /\ TasksAreTyped /\ MemoryIsTyped
  BY DEF store, EvidenceInv
<1>2. Alone(t) /\ Paid(t)
  BY <1>1 DEF Paid, Gathers
<1>3. TasksAreTyped'
  BY <1>1, <1>2, TasksStayTyped
<1>4. /\ \A u \in Tasks : u # t => task'[u] = task[u] /\ attempt'[u] = attempt[u]
      /\ \A u \in Tasks : task[u].got \cup task[u].batch \subseteq DOMAIN made
  BY <1>1 DEF Gathers, Alone, MemoryIsTyped
<1>5. MemoryIsTyped'
  <2>1. \A u \in Tasks : task'[u].got \cup task'[u].batch \subseteq DOMAIN made'
    BY <1>4 DEF Gathers, RecordsGrow
  <2>2. QED
    BY <1>1, <2>1 DEF MemoryIsTyped, RecordsGrow
<1>6. GotIsOwn'
  <2>1. \A u \in Tasks : \A id \in task'[u].got :
            id \in task[u].got \/ (u = t /\ id \in ids)
    BY <1>4 DEF Gathers
  <2>2. \A u \in Tasks : \A id \in task[u].got : made'[id] = made[id]
    BY <1>4 DEF RecordsGrow
  <2>3. \A u \in Tasks : Run(u)' = Run(u) /\ Offered(u)' = Offered(u)
    BY <1>1, RequestStays
  <2>4. \A u \in Tasks : \A id \in task'[u].got : IsFor(u, made'[id])
    BY <2>1, <2>2 DEF EvidenceInv, GotIsOwn
  <2>5. QED
    BY <2>3, <2>4 DEF GotIsOwn, IsFor
<1>7. LastIsAll'
  BY <1>4 DEF EvidenceInv, LastIsAll, Gathers
<1>8. \A id \in DOMAIN made : PointsOf(id)' = PointsOf(id)
  BY DEF PointsOf, RecordsGrow
<1>9. DoneIsStored'
  <2>1. \A u \in Tasks : task'[u].at = "done" => u # t
    BY DEF Gathers
  <2>2. \A u \in Tasks : \A id \in task[u].got : PointsOf(id)' = PointsOf(id)
    BY <1>4, <1>8
  <2>3. QED
    BY <1>1, <1>4, <2>1, <2>2 DEF EvidenceInv, DoneIsStored
<1>10. PointsAreChunks'
  <2>1. \A p \in points : p[1] \in DOMAIN made /\ p \in PointsOf(p[1])
    BY DEF EvidenceInv, PointsAreChunks
  <2>2. QED
    BY <1>1, <1>8, <2>1 DEF PointsAreChunks, RecordsGrow
<1>11. AttemptsAreCharged'
  BY <1>1, <1>2, PaidKeepsCharges DEF EvidenceInv
<1>12. QED
  BY <1>3, <1>5, <1>6, <1>7, <1>9, <1>10, <1>11 DEF EvidenceInv, RecordsGrow

\* Records stay if none is made.
LEMMA RecordsStay ==
    ASSUME EvidenceInv, UNCHANGED <<made, seen, epoch>>,
           registry \subseteq registry', registry' \subseteq DOMAIN made
    PROVE  RecordsGrow
BY DEF EvidenceInv, RecordsGrow, MemoryIsTyped, SeenIsMade, MadeIsSeen, OneRecordEach

LEMMA IndexGatheredKeeps ==
    ASSUME EvidenceConstants, EvidenceInv, NEW t \in Tasks, IndexGathered(t)
    PROVE  EvidenceInv'
<1>1. /\ UNCHANGED <<request, made, seen, store, faults, epoch>>
      /\ task[t].at = "ingest" /\ task[t].todo = <<>>
      /\ TasksAreTyped /\ MemoryIsTyped
  BY DEF IndexGathered, EvidenceInv
<1>2. /\ task[t].got \in SUBSET Nat /\ task[t].got \subseteq DOMAIN made
      /\ \A id \in task[t].got : IsFor(t, made[id])
  BY <1>1, AttemptType DEF MemoryIsTyped, EvidenceInv, GotIsOwn
<1>3. CASE Gathered(t) # {}
  <2>1. UpsertEvidence(t, task[t].got, made)
    BY <1>3 DEF IndexGathered, Gathered
  <2>2. /\ registry' = registry \cup task[t].got
        /\ Alone(t) /\ (GoesOn(t) \/ (Failed(t) /\ Indigestible(t)))
        /\ \/ Quiet(t)
           \/ /\ task'[t].at = "embed" /\ task'[t].batch = task[t].got
              /\ task'[t].got = task[t].got \cup task[t].got
    BY <1>1, <1>2, <2>1, UpsertType DEF IsFor
  <2>3. Gathers(t, task[t].got)
    BY <1>1, <2>2 DEF Gathers, Quiet, Indexing
  <2>4. RecordsGrow
    BY <1>1, <1>2, <2>2, RecordsStay DEF MemoryIsTyped
  <2>5. QED
    BY <1>1, <1>2, <2>3, <2>4, GatherStep
<1>4. CASE Gathered(t) = {}
  <2>1. /\ task[t].got = {} /\ Goes(t, "done") /\ UNCHANGED <<attempt, registry>>
    BY <1>4 DEF IndexGathered, Gathered
  <2>2. /\ Alone(t)
        /\ \A u \in Tasks : u # t => task'[u] = task[u]
        /\ task'[t].at = "done" /\ task'[t].got = task[t].got
        /\ task'[t].batch = task[t].batch
    BY <1>1, <2>1, GoesType DEF Ats
  <2>3. Alone(t) /\ GoesOn(t)
    BY <2>1, <2>2 DEF GoesOn
  <2>4. /\ request' = request /\ points' = points /\ collection' = collection
        /\ known' = known /\ faults' = faults /\ epoch' = epoch /\ made' = made /\ seen' = seen
        /\ registry' = registry
    BY <1>1, <2>1 DEF store
  <2>5. \A u \in Tasks : task'[u].got = task[u].got /\ task'[u].batch = task[u].batch
    BY <2>2
  <2>6. Paid(t)
    BY <2>3, <2>4 DEF Paid
  <2>7. TasksAreTyped' /\ MemoryIsTyped' /\ GotIsOwn'
    <3>1. TasksAreTyped'
      BY <1>1, <2>3, <2>4, <2>6, TasksStayTyped
    <3>2. MemoryIsTyped'
      BY <1>1, <2>4, <2>5 DEF MemoryIsTyped
    <3>3. GotIsOwn'
      BY <2>4, <2>5, GotStays DEF EvidenceInv
    <3>4. QED
      BY <3>1, <3>2, <3>3
  <2>8. SeenIsMade' /\ MadeIsSeen' /\ OneRecordEach'
    BY <2>4 DEF EvidenceInv, SeenIsMade, MadeIsSeen, OneRecordEach
  <2>9. LastIsAll'
    BY <2>2 DEF EvidenceInv, LastIsAll, Indexing
  <2>10. DoneIsStored' /\ PointsAreChunks'
    <3>1. \A id : PointsOf(id)' = PointsOf(id)
      BY <2>4 DEF PointsOf
    <3>2. QED
      BY <2>1, <2>2, <2>4, <3>1 DEF EvidenceInv, DoneIsStored, PointsAreChunks
  <2>11. AttemptsAreCharged'
    BY <1>1, <2>3, <2>6, PaidKeepsCharges DEF EvidenceInv
  <2>12. QED
    BY <2>7, <2>8, <2>9, <2>10, <2>11 DEF EvidenceInv
<1>5. QED
  BY <1>3, <1>4

\* A document that the pipeline has seen is found at its record; one that it has not
\* becomes a record that there is not yet.
LEMMA IngestDocumentKeeps ==
    ASSUME EvidenceConstants, EvidenceInv, NEW t \in Tasks, IngestDocument(t)
    PROVE  EvidenceInv'
<1> DEFINE d == Head(task[t].todo)
<1>1. /\ UNCHANGED <<request, store, faults, epoch>>
      /\ task[t].at = "ingest" /\ task[t].todo # <<>>
      /\ TasksAreTyped /\ MemoryIsTyped
  BY DEF IngestDocument, EvidenceInv
<1>2. /\ d \in Offered(t) /\ d \in Docs
      /\ task[t] \in Attempts(t) /\ task[t].todo \in Seq(Offered(t))
  BY <1>1, AttemptType, TailOfSeq, OffersAreItems DEF TasksAreTyped
<1>3. CASE EndTask(t, "ingestion_error") /\ UNCHANGED memory
  <2>1. Quiet(t) /\ GoesOn(t)
    BY <1>1, <1>3, RejectIsQuiet
  <2>2. Gathers(t, {})
    BY <1>1, <2>1 DEF Gathers, Quiet, Indexing
  <2>3. RecordsGrow
    BY <1>1, <1>3, RecordsStay DEF memory, MemoryIsTyped
  <2>4. QED
    BY <1>1, <2>2, <2>3, GatherStep
<1>4. CASE /\ Key(t, d) \in DOMAIN seen
           /\ task' = [task EXCEPT ![t].got = @ \cup {seen[Key(t, d)]}, ![t].todo = Tail(@)]
           /\ UNCHANGED <<attempt, memory>>
  <2> DEFINE id == seen[Key(t, d)]
             r == [task[t] EXCEPT !.got = task[t].got \cup {id}, !.todo = Tail(task[t].todo)]
  <2>1. id \in DOMAIN made /\ IsFor(t, made[id])
    BY <1>2, <1>4 DEF EvidenceInv, SeenIsMade, Key, IsFor
  <2>2. id \in Nat
    BY <1>1, <2>1 DEF MemoryIsTyped
  <2>3. task' = [task EXCEPT ![t] = r]
    BY <1>1, <1>4 DEF TasksAreTyped
  <2>4. Tail(task[t].todo) \in Seq(Offered(t)) /\ task[t].got \cup {id} \in SUBSET Nat
    BY <1>1, <1>2, <2>2, TailOfSeq, AttemptType
  <2> HIDE DEF id
  <2>5. /\ r \in Attempts(t) /\ r.at = "ingest" /\ r.got = task[t].got \cup {id}
        /\ r.batch = task[t].batch
    BY <1>1, <1>2, <2>4 DEF Attempts
  <2> HIDE DEF r
  <2>6. Alone(t) /\ task'[t] = r /\ attempt'[t] = attempt[t]
    <3>1. UNCHANGED attempt
      BY <1>4
    <3>2. QED
      BY <1>1, <2>3, <2>5, <3>1, MovesAlone
  <2>7. Gathers(t, {id})
    BY <2>5, <2>6 DEF Gathers, GoesOn, Indexing
  <2>8. RecordsGrow /\ made' = made
    BY <1>1, <1>4, RecordsStay DEF memory, MemoryIsTyped
  <2>9. QED
    BY <1>1, <2>1, <2>7, <2>8, GatherStep
<1>5. CASE /\ Key(t, d) \notin DOMAIN seen
           /\ made' = Append(made, [run |-> Run(t), doc |-> d, epoch |-> epoch])
           /\ seen' = Register(t, d, Len(made'))
           /\ UpsertEvidence(t, {Len(made')}, made')
  <2> DEFINE id == Len(made)'
             new == [run |-> Run(t), doc |-> d, epoch |-> epoch]
  <2>1. new \in Records /\ made \in Seq(Records)
    <3>1. Run(t) \in Runs
      BY <1>1 DEF Run, TasksAreTyped, EvidenceConstants
    <3>2. epoch \in 1..MaxRestarts + 1
      BY <1>1 DEF TasksAreTyped
    <3>3. QED
      BY <1>1, <1>2, <3>1, <3>2 DEF Records, MemoryIsTyped
  <2>2. /\ made' \in Seq(Records) /\ id \in Nat /\ id \notin DOMAIN made
        /\ DOMAIN made' = DOMAIN made \cup {id}
        /\ \A i \in DOMAIN made : made'[i] = made[i]
        /\ made'[id] = new
    <3> HIDE DEF new
    <3>1. made' = Append(made, new)
      BY <1>5 DEF new
    <3>2. QED
      BY <2>1, <3>1
  <2>3. seen' = [k \in DOMAIN seen \cup {Key(t, d)} |-> IF k = Key(t, d) THEN id ELSE seen[k]]
    BY <1>5 DEF Register
  <2> HIDE DEF id
  <2>4. new.run = Run(t) /\ new.doc = d /\ new.epoch = epoch /\ Key(t, d) = <<new.run, new.doc>>
    BY DEF Key
  <2> HIDE DEF new
  <2>5. /\ registry' = registry \cup {id}
        /\ Alone(t) /\ (GoesOn(t) \/ (Failed(t) /\ Indigestible(t)))
        /\ \/ Quiet(t)
           \/ /\ task'[t].at = "embed" /\ task'[t].batch = {id}
              /\ task'[t].got = task[t].got \cup {id}
              /\ ~task'[t].last
    <3>1. UpsertEvidence(t, {id}, made') /\ {id} \in SUBSET Nat
      BY <1>5, <2>2 DEF id
    <3>2. \A i \in {id} : made'[i].doc \in Offered(t)
      BY <1>2, <2>2, <2>4
    <3>3. QED
      BY <1>1, <3>1, <3>2, UpsertType
  <2>6. Gathers(t, {id})
    BY <1>1, <2>5 DEF Gathers, Quiet, Indexing
  <2>7. SeenIsMade'
    <3>1. \A k \in DOMAIN seen' :
              \/ k = Key(t, d) /\ seen'[k] = id
              \/ k \in DOMAIN seen /\ seen'[k] = seen[k]
      BY <2>3
    <3>2. QED
      BY <2>2, <2>4, <3>1 DEF EvidenceInv, SeenIsMade
  <2>8. MadeIsSeen'
    <3>1. DOMAIN seen' = DOMAIN seen \cup {Key(t, d)}
      BY <2>3
    <3>2. epoch' = epoch /\ epoch \in Nat
      BY <1>1 DEF TasksAreTyped
    <3>3. QED
      BY <2>2, <2>4, <2>5, <3>1, <3>2 DEF EvidenceInv, MadeIsSeen
  <2>9. OneRecordEach'
    <3>1. \A i \in DOMAIN made : made[i] # new
      BY <1>5, <2>4 DEF EvidenceInv, MadeIsSeen
    <3>2. QED
      BY <2>2, <3>1 DEF EvidenceInv, OneRecordEach
  <2>10. RecordsGrow
    BY <1>1, <2>2, <2>5, <2>7, <2>8, <2>9 DEF RecordsGrow, MemoryIsTyped
  <2>11. IsFor(t, made'[id]) /\ id \in DOMAIN made'
    BY <1>2, <2>2, <2>4 DEF IsFor
  <2>12. QED
    BY <1>1, <2>6, <2>10, <2>11, GatherStep
<1>6. QED
  BY <1>3, <1>4, <1>5 DEF IngestDocument

\* Records of the process that died are of an earlier epoch.
LEMMA RestartKeeps ==
    ASSUME EvidenceConstants, EvidenceInv, Restart
    PROVE  EvidenceInv'
<1>1. /\ epoch =< MaxRestarts /\ epoch' = epoch + 1
      /\ seen' = <<>> /\ registry' = {} /\ known' = FALSE
      /\ task' = [t \in Tasks |-> IF Busy(t) THEN BeginAttempt(t) ELSE task[t]]
      /\ attempt' = [t \in Tasks |-> IF Busy(t) THEN 1 ELSE attempt[t]]
      /\ request' = request /\ made' = made /\ points' = points /\ collection' = collection
      /\ faults' = [t \in Tasks |-> IF Busy(t) THEN 0 ELSE faults[t]]
      /\ TasksAreTyped /\ MemoryIsTyped
  BY DEF Restart, EvidenceInv
<1>2. \A t \in Tasks :
          \/ /\ task'[t] = BeginAttempt(t) /\ attempt'[t] = 1 /\ task'[t] \in Attempts(t)
             /\ task'[t].at = "search" /\ faults'[t] = 0
             /\ task'[t].got = {} /\ task'[t].batch = {}
          \/ /\ task'[t] = task[t] /\ attempt'[t] = attempt[t] /\ faults'[t] = faults[t]
             /\ task[t].at \notin Indexing \cup {"create"}
  BY <1>1, BeginType DEF Busy, Indexing, TasksAreTyped
<1>3. TasksAreTyped'
  <2>1. epoch' \in 1..MaxRestarts + 1
    BY <1>1 DEF TasksAreTyped, EvidenceConstants
  <2>2. /\ task' = [t \in Tasks |-> task'[t]]
        /\ \A t \in Tasks : task'[t] \in Attempts(t) /\ Attempts(t)' = Attempts(t)
    BY <1>1, <1>2, RequestStays DEF TasksAreTyped
  <2>3. attempt' \in [Tasks -> 1..MaxTaskAttempts] /\ faults' \in [Tasks -> 0..MaxFaults]
    BY <1>1 DEF TasksAreTyped, EvidenceConstants
  <2>4. QED
    BY <1>1, <2>1, <2>2, <2>3 DEF TasksAreTyped
<1>4. MemoryIsTyped'
  BY <1>1, <1>2 DEF MemoryIsTyped
<1>5. SeenIsMade' /\ OneRecordEach'
  BY <1>1 DEF SeenIsMade, OneRecordEach, EvidenceInv
<1>6. MadeIsSeen'
  <2>1. \A i \in DOMAIN made : made[i].epoch \in Nat /\ made[i].epoch =< epoch
    <3>1. \A i \in DOMAIN made : made[i] \in Records
      BY <1>1, ElementOfSeq DEF MemoryIsTyped
    <3>2. \A x \in Records : x.epoch \in Nat
      BY DEF Records, EvidenceConstants
    <3>3. QED
      BY <3>1, <3>2 DEF EvidenceInv, MadeIsSeen
  <2>2. epoch \in Nat
    BY <1>1 DEF TasksAreTyped
  <2>3. QED
    BY <1>1, <2>1, <2>2 DEF MadeIsSeen
<1>7. GotIsOwn' /\ LastIsAll'
  <2>1. \A t \in Tasks : \A id \in task'[t].got : IsFor(t, made[id])
    BY <1>2 DEF EvidenceInv, GotIsOwn
  <2>2. \A t \in Tasks : Run(t)' = Run(t) /\ Offered(t)' = Offered(t)
    BY <1>1, RequestStays
  <2>3. GotIsOwn'
    BY <1>1, <2>1, <2>2 DEF GotIsOwn, IsFor
  <2>4. LastIsAll'
    BY <1>2 DEF LastIsAll, Indexing
  <2>5. QED
    BY <2>3, <2>4
<1>8. DoneIsStored' /\ PointsAreChunks'
  <2>1. \A id : PointsOf(id)' = PointsOf(id)
    BY <1>1 DEF PointsOf
  <2>2. QED
    BY <1>1, <1>2, <2>1 DEF EvidenceInv, DoneIsStored, PointsAreChunks
<1>9. AttemptsAreCharged'
  <2>1. SUFFICES ASSUME NEW t \in Tasks, ~Indigestible(t)
                 PROVE  /\ attempt'[t] - 1 =< faults'[t] + Raced(t)'
                        /\ task'[t].at = "exhausted" => MaxTaskAttempts - 1 =< faults'[t]
    BY <1>1, RequestStays DEF AttemptsAreCharged
  <2>2. Raced(t)' \in 0..1
    BY DEF Raced
  <2>3. CASE attempt'[t] = 1 /\ faults'[t] = 0 /\ task'[t].at = "search"
    BY <2>2, <2>3
  <2>4. CASE task'[t] = task[t] /\ attempt'[t] = attempt[t] /\ faults'[t] = faults[t]
    BY <1>1, <2>1, <2>4 DEF EvidenceInv, AttemptsAreCharged, Raced
  <2>5. QED
    BY <1>2, <2>3, <2>4
<1>10. QED
  BY <1>1, <1>3, <1>4, <1>5, <1>6, <1>7, <1>8, <1>9 DEF EvidenceInv

LEMMA StutterKeepsEvidence ==
    ASSUME EvidenceInv, UNCHANGED evidenceVars
    PROVE  EvidenceInv'
<1>1. /\ request' = request /\ task' = task /\ attempt' = attempt /\ made' = made
      /\ seen' = seen /\ registry' = registry /\ points' = points
      /\ collection' = collection /\ known' = known /\ faults' = faults /\ epoch' = epoch
  BY DEF evidenceVars, memory, store
<1>2. \A id : PointsOf(id)' = PointsOf(id)
  BY <1>1 DEF PointsOf
<1>3. MemoryIsTyped' /\ SeenIsMade' /\ MadeIsSeen' /\ OneRecordEach'
  BY <1>1 DEF EvidenceInv, MemoryIsTyped, SeenIsMade, MadeIsSeen, OneRecordEach
<1>4. \A t \in Tasks : Attempts(t)' = Attempts(t) /\ (Indigestible(t)' <=> Indigestible(t))
  BY <1>1, RequestStays
<1>5. TasksAreTyped'
  BY <1>1, <1>4 DEF EvidenceInv, TasksAreTyped
<1>6. GotIsOwn'
  BY <1>1, GotStays DEF EvidenceInv
<1>7. LastIsAll' /\ DoneIsStored' /\ PointsAreChunks'
  BY <1>1, <1>2 DEF EvidenceInv, LastIsAll, DoneIsStored, PointsAreChunks
<1>8. AttemptsAreCharged'
  BY <1>1, <1>4 DEF EvidenceInv, AttemptsAreCharged, Raced
<1>9. QED
  BY <1>3, <1>5, <1>6, <1>7, <1>8 DEF EvidenceInv

LEMMA EvidenceInvStarts == EvidenceConstants /\ EvidenceInit => EvidenceInv
<1> SUFFICES ASSUME EvidenceConstants, EvidenceInit PROVE EvidenceInv
  OBVIOUS
<1>1. \A t \in Tasks : /\ BeginAttempt(t) \in Attempts(t)
                      /\ BeginAttempt(t).at = "search"
                      /\ BeginAttempt(t).got = {} /\ BeginAttempt(t).batch = {}
  BY BeginType DEF EvidenceInit
<1>2. TasksAreTyped
  BY <1>1 DEF EvidenceInit, TasksAreTyped, EvidenceConstants
<1>3. MemoryIsTyped
  <2>1. made \in Seq(Records)
    BY DEF EvidenceInit
  <2>2. QED
    BY <1>1, <2>1 DEF EvidenceInit, MemoryIsTyped
<1>4. SeenIsMade /\ MadeIsSeen /\ OneRecordEach
  BY DEF EvidenceInit, SeenIsMade, MadeIsSeen, OneRecordEach
<1>5. GotIsOwn /\ LastIsAll /\ DoneIsStored /\ PointsAreChunks
  BY <1>1 DEF EvidenceInit, GotIsOwn, LastIsAll, DoneIsStored, PointsAreChunks, Indexing
<1>6. AttemptsAreCharged
  <2>1. \A t \in Tasks : /\ attempt[t] = 1 /\ faults[t] = 0
                         /\ Raced(t) \in 0..1 /\ task[t].at # "exhausted"
    BY <1>1 DEF EvidenceInit, Raced
  <2>2. QED
    BY <2>1 DEF AttemptsAreCharged
<1>7. QED
  BY <1>2, <1>3, <1>4, <1>5, <1>6 DEF EvidenceInv

LEMMA EvidenceInvHolds ==
    ASSUME EvidenceConstants
    PROVE  EvidenceSpec => []EvidenceInv
<1>1. EvidenceInv /\ [EvidenceNext]_evidenceVars => EvidenceInv'
  <2> SUFFICES ASSUME EvidenceInv, [EvidenceNext]_evidenceVars PROVE EvidenceInv'
    OBVIOUS
  <2>1. ASSUME NEW t \in Tasks, TaskStep(t)
        PROVE  EvidenceInv'
    BY <2>1, NothingToDoKeeps, ExtractDocumentsKeeps, SearchesKeep, IngestDocumentKeeps,
       IndexGatheredKeeps, EmbedKeeps, CheckCollectionKeeps, CreateCollectionKeeps,
       UpsertVectorsKeeps DEF TaskStep
  <2>2. QED
    BY <2>1, TaskTimeoutKeeps, RestartKeeps, StutterKeepsEvidence DEF EvidenceNext
<1>2. EvidenceInit => EvidenceInv
  BY EvidenceInvStarts
<1>3. QED
  BY <1>1, <1>2, PTL DEF EvidenceSpec

-------------------------------------------------------------------------------
(* Search.                                                                     *)

LEMMA LargestOfTwo ==
    ASSUME NEW a \in Nat, NEW b \in Nat
    PROVE  Max({a, b}) \in {a, b} /\ a =< Max({a, b}) /\ b =< Max({a, b})
<1>1. \E x \in {a, b} : \A y \in {a, b} : x >= y
  <2>1. CASE a >= b
    BY <2>1
  <2>2. CASE ~(a >= b)
    BY <2>2
  <2>3. QED
    BY <2>1, <2>2
<1>2. Max({a, b}) \in {a, b} /\ \A y \in {a, b} : Max({a, b}) >= y
  BY <1>1 DEF Max
<1>3. QED
  BY <1>2

LEMMA LeastOfTwo ==
    ASSUME NEW a \in Nat, NEW b \in Nat
    PROVE  Min({a, b}) = IF a =< b THEN a ELSE b
<1>1. \E x \in {a, b} : \A y \in {a, b} : x =< y
  <2>1. CASE a =< b
    BY <2>1
  <2>2. CASE ~(a =< b)
    BY <2>2
  <2>3. QED
    BY <2>1, <2>2
<1>2. Min({a, b}) \in {a, b} /\ \A y \in {a, b} : Min({a, b}) =< y
  BY <1>1 DEF Min
<1>3. QED
  BY <1>2

LEMMA FiniteRange ==
    ASSUME NEW S, IsFiniteSet(S), NEW T, NEW f \in [S -> T],
           \A y \in T : \E x \in S : f[x] = y
    PROVE  IsFiniteSet(T)
<1>1. f \in Surjection(S, T)
  BY DEF Surjection
<1>2. QED
  BY <1>1, FS_Surjection

\* The store is finite: it holds chunks of the records made.
LEMMA PointsAreFinite ==
    ASSUME EvidenceConstants, EvidenceInv
    PROVE  IsFiniteSet(points)
<1> DEFINE All == UNION {PointsOf(id) : id \in DOMAIN made}
<1>1. ASSUME NEW id \in DOMAIN made
      PROVE  IsFiniteSet(PointsOf(id))
  <2> DEFINE len == Length[made[id].doc]
             f == [s \in 0..len - 1 |-> <<id, s>>]
  <2>1. len \in Nat
    <3>1. made[id] \in Records
      BY ElementOfSeq DEF EvidenceInv, MemoryIsTyped
    <3>2. QED
      BY <3>1 DEF Records, EvidenceConstants
  <2> HIDE DEF len
  <2>2. IsFiniteSet(0..len - 1)
    BY <2>1, FS_Interval
  <2>3. IsFiniteSet({<<id, s>> : s \in 0..len - 1})
    <3> DEFINE T == {<<id, s>> : s \in 0..len - 1}
    <3>1. f \in [0..len - 1 -> T] /\ \A y \in T : \E x \in 0..len - 1 : f[x] = y
      OBVIOUS
    <3> HIDE DEF T, f
    <3>2. QED
      BY <2>2, <3>1, FiniteRange DEF T
  <2>4. PointsOf(id) \subseteq {<<id, s>> : s \in 0..len - 1}
    BY DEF PointsOf, Starts, len
  <2>5. QED
    BY <2>3, <2>4, FS_Subset
<1>2. IsFiniteSet(DOMAIN made)
  BY FS_Interval DEF EvidenceInv, MemoryIsTyped
<1>3. IsFiniteSet({PointsOf(id) : id \in DOMAIN made})
  <2> DEFINE T == {PointsOf(id) : id \in DOMAIN made}
             f == [id \in DOMAIN made |-> PointsOf(id)]
  <2>1. f \in [DOMAIN made -> T] /\ \A y \in T : \E x \in DOMAIN made : f[x] = y
    OBVIOUS
  <2> HIDE DEF T, f
  <2>2. QED
    BY <1>2, <2>1, FiniteRange DEF T
<1>4. IsFiniteSet(All)
  BY <1>1, <1>3, FS_UNION
<1>5. points \subseteq All
  BY DEF EvidenceInv, PointsAreChunks
<1>6. QED
  BY <1>4, <1>5, FS_Subset

-------------------------------------------------------------------------------
\* Tasks, records, points and the collection have their types.
THEOREM EvidenceTypeCorrectness == EvidenceConstants => (EvidenceSpec => []EvidenceTypeOK)
<1> SUFFICES ASSUME EvidenceConstants PROVE EvidenceSpec => []EvidenceTypeOK
  OBVIOUS
<1>1. EvidenceInv => EvidenceTypeOK
  <2> SUFFICES ASSUME EvidenceInv PROVE EvidenceTypeOK
    OBVIOUS
  <2>1. ASSUME NEW t \in Tasks
        PROVE  /\ task[t].at \in Ats
               /\ task[t].todo \in Seq(Docs)
               /\ task[t].got \cup task[t].batch \subseteq DOMAIN made
               /\ task[t].tries \in 0..MaxCallRetries
               /\ attempt[t] \in 1..MaxTaskAttempts
    <3>1. task[t] \in Attempts(t) /\ request \in Assignments /\ attempt[t] \in 1..MaxTaskAttempts
      BY DEF EvidenceInv, TasksAreTyped
    <3>2. task[t].at \in Ats /\ task[t].todo \in Seq(Offered(t)) /\ task[t].tries \in 0..MaxCallRetries
      BY <3>1 DEF Attempts
    <3>3. Offered(t) \subseteq Docs
      BY <3>1, OffersAreItems
    <3>4. task[t].todo \in Seq(Docs)
      BY <3>2, <3>3
    <3>5. task[t].got \cup task[t].batch \subseteq DOMAIN made
      BY DEF EvidenceInv, MemoryIsTyped
    <3>6. QED
      BY <3>1, <3>2, <3>4, <3>5
  <2>2. QED
    BY <2>1 DEF EvidenceInv, EvidenceTypeOK, TasksAreTyped, MemoryIsTyped, PointsAreChunks, Records
<1>2. QED
  BY <1>1, EvidenceInvHolds, PTL

\* A task completes (agents/researcher/worker.py) only when all it gathered, duplicates
\* of other tasks' records included, is in the store and, as long as the process lives that
\* made it, in the registry without which a search drops it (rag/memory.py); and the chunks
\* of a record (rag/chunking.py) contain every position of its text, whatever their size
\* and overlap.
THEOREM GatheredIsSearchable == EvidenceConstants => (EvidenceSpec => []EvidenceIsSearchable)
<1> SUFFICES ASSUME EvidenceConstants PROVE EvidenceSpec => []EvidenceIsSearchable
  OBVIOUS
<1>1. EvidenceInv => EvidenceIsSearchable
  <2> SUFFICES ASSUME EvidenceInv, NEW t \in Tasks, task[t].at = "done", NEW id \in task[t].got
               PROVE  /\ made[id].run = Run(t)
                      /\ \A i \in 0..Length[made[id].doc] - 1 :
                            \E p \in points : p[1] = id /\ i \in Text(Length[made[id].doc], p[2])
                      /\ made[id].epoch = epoch => id \in registry
    BY DEF EvidenceIsSearchable
  <2>1. made[id].run = Run(t) /\ PointsOf(id) \subseteq points
    BY DEF EvidenceInv, GotIsOwn, IsFor, DoneIsStored
  <2>2. Length[made[id].doc] \in Nat
    <3>1. id \in DOMAIN made /\ made \in Seq(Records)
      BY DEF EvidenceInv, MemoryIsTyped
    <3>2. made[id] \in Records
      BY <3>1, ElementOfSeq
    <3>3. QED
      BY <3>2 DEF Records, EvidenceConstants
  <2>3. ASSUME NEW i \in 0..Length[made[id].doc] - 1
        PROVE  \E p \in points : p[1] = id /\ i \in Text(Length[made[id].doc], p[2])
    <3>1. PICK s \in Starts(Length[made[id].doc]) : i \in Text(Length[made[id].doc], s)
      BY <2>2, ChunksLeaveNoGap
    <3>2. <<id, s>> \in points
      BY <2>1 DEF PointsOf
    <3>3. QED
      BY <3>1, <3>2
  <2>4. made[id].epoch = epoch => id \in registry
    BY DEF EvidenceInv, MemoryIsTyped, MadeIsSeen
  <2>5. QED
    BY <2>1, <2>3, <2>4
<1>2. QED
  BY <1>1, EvidenceInvHolds, PTL

\* The ingestion pipeline (intelligence/ingestion.py) looks a content up and registers it
\* without an await between: no two records of a process are of one.
THEOREM RecordsAreUnique == EvidenceConstants => (EvidenceSpec => []OneRecordPerContent)
<1> SUFFICES ASSUME EvidenceConstants PROVE EvidenceSpec => []OneRecordPerContent
  OBVIOUS
<1>1. EvidenceInv => OneRecordPerContent
  BY DEF EvidenceInv, OneRecordEach, OneRecordPerContent
<1>2. QED
  BY <1>1, EvidenceInvHolds, PTL

\* Whatever calls fail and time out, a task that used up its attempts was offered something
\* that no attempt can take (a document that is no RawDocument, a chunk of whitespace), or
\* had as many faults of its own as it had attempts but one: only once does it lose the
\* race of rag/qdrant.py to create the collection.
THEOREM FailuresAreEarned == EvidenceConstants => (EvidenceSpec => []FailureIsEarned)
<1> SUFFICES ASSUME EvidenceConstants PROVE EvidenceSpec => []FailureIsEarned
  OBVIOUS
<1>1. EvidenceInv => FailureIsEarned
  BY DEF EvidenceInv, AttemptsAreCharged, FailureIsEarned, TasksAreTyped, EvidenceConstants
<1>2. QED
  BY <1>1, EvidenceInvHolds, PTL

\* A search of the memory (rag/memory.py) asks the store for as many chunks as are
\* likely to be enough.  When no more than those of the run score min_score, it gets all of
\* them and none of another run, and keeps as many of their records as it was asked for, or
\* all that it knows: neither other runs nor chunks that score too little crowd them out.
THEOREM SearchesAreComplete ==
    EvidenceConstants =>
        (EvidenceSpec => [](SearchIsComplete /\ \A limit \in Nat : CompleteUpTo(limit)))
<1> SUFFICES ASSUME EvidenceConstants
             PROVE  EvidenceSpec =>
                        [](SearchIsComplete /\ \A limit \in Nat : CompleteUpTo(limit))
  OBVIOUS
<1>1. EvidenceInv => \A limit \in Nat : CompleteUpTo(limit)
  <2> SUFFICES ASSUME EvidenceInv, NEW limit \in Nat, NEW r \in Runs, NEW q \in DOMAIN Similar,
                      Cardinality({p \in Near(q) : made[p[1]].run = r}) =< SearchLimit(limit),
                      NEW found \in SimilaritySearch(q, r, limit)
               PROVE  LET near == {p \in Near(q) : made[p[1]].run = r}
                          indexed == {p[1] : p \in near} \cap registry
                      IN  /\ found \subseteq indexed
                          /\ Cardinality(found) = Min({limit, Cardinality(indexed)})
    BY DEF CompleteUpTo
  <2> DEFINE near == {p \in Near(q) : made[p[1]].run = r}
             indexed(hits) == {p[1] : p \in hits} \cap registry
             most == Min({SearchLimit(limit), Cardinality(OfRun(r))})
  <2>1. IsFiniteSet(OfRun(r)) /\ Cardinality(OfRun(r)) \in Nat
    BY PointsAreFinite, FS_Subset, FS_CardinalityType DEF OfRun
  <2>2. near = OfRun(r) \cap Near(q)
    BY DEF OfRun, Near
  <2> HIDE DEF near
  <2>3. /\ IsFiniteSet(near) /\ Cardinality(near) \in Nat
        /\ Cardinality(near) =< Cardinality(OfRun(r)) /\ Cardinality(near) =< SearchLimit(limit)
    <3>1. near \subseteq OfRun(r)
      BY <2>2
    <3>2. QED
      BY <2>1, <3>1, FS_Subset, FS_CardinalityType DEF near
  <2>4. most \in Nat /\ Cardinality(near) =< most
    <3>1. limit * HitsPerRecord \in Nat /\ MinHits \in Nat
      BY DEF EvidenceConstants
    <3>2. SearchLimit(limit) \in Nat
      BY <3>1, LargestOfTwo DEF SearchLimit
    <3>3. QED
      BY <2>1, <2>3, <3>2, LeastOfTwo
  <2>5. PICK hits \in Nearest(q, r, SearchLimit(limit)) :
            found \in kSubset(Min({limit, Cardinality(indexed(hits \cap Near(q)))}),
                              indexed(hits \cap Near(q)))
    BY DEF SimilaritySearch
  <2>6. /\ hits \subseteq OfRun(r) /\ Cardinality(hits) = most
        /\ hits \subseteq Near(q) \/ near \subseteq hits
    BY <2>2, <2>5 DEF Nearest, kSubset
  <2>7. hits \cap Near(q) = near
    <3>1. CASE near \subseteq hits
      BY <2>2, <2>6, <3>1
    <3>2. CASE hits \subseteq Near(q)
      <4>1. hits \subseteq near
        BY <2>2, <2>6, <3>2
      <4>2. hits = near
        BY <2>3, <2>4, <2>6, <4>1, FS_Subset
      <4>3. QED
        BY <3>2, <4>2
    <3>3. QED
      BY <2>6, <3>1, <3>2
  <2>8. /\ found \subseteq indexed(near)
        /\ Cardinality(found) = Min({limit, Cardinality(indexed(near))})
    BY <2>5, <2>7 DEF kSubset
  <2>9. QED
    BY <2>8 DEF near
<1>2. EvidenceInv => SearchIsComplete
  BY <1>1 DEF SearchIsComplete
<1>3. QED
  BY <1>1, <1>2, EvidenceInvHolds, PTL
===============================================================================
