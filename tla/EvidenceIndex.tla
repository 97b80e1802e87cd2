---------------------------- MODULE EvidenceIndex ----------------------------
(***************************************************************************)
(* Research tasks gather evidence (agents/researcher/worker.py): a search  *)
(* adapter answers their queries, the ingestion pipeline makes one record  *)
(* of each document (intelligence/ingestion.py), and the vector memory     *)
(* chunks, embeds and indexes the records (rag/).  All tasks of a process  *)
(* share the pipeline, the memory and the store; they interleave at every  *)
(* await.  The store is Qdrant and outlives the process.                   *)
(*                                                                         *)
(* A text is its length, its positions are 0..Length[d]-1.                 *)
(***************************************************************************)
EXTENDS Naturals, FiniteSetsExt, SequencesExt

CONSTANTS Tasks,
          Runs,
          Docs,          \* the documents there are
          Length,        \* of the text of each
          Blank,         \* its positions with whitespace
          Assignments,   \* the requests of the tasks, as they may be
          Answer,        \* for each query the items a provider lists
          MaxResults,    \* max_results_per_query
          ChunkSize, ChunkOverlap, MaxChunks,
          MaxText,       \* max_raw_text_bytes
          HitsPerRecord, MinHits,  \* of search_limit: 4 and 20 in the code
          Similar,         \* for each query of a search the chunks that score enough
          MaxCallRetries,  \* of every client
          MaxTaskAttempts, \* of the executor
          MaxFaults, MaxRestarts   \* bounds, of each task and of the process

VARIABLES request,     \* run, task_type and input of each task
          task,        \* what each task is doing
          attempt,     \* attempt_number of each
          made,        \* every record made, at its evidence_id
          seen,        \* _seen_hashes: (run, content) -> evidence_id
          registry,    \* _evidence_registry
          points,      \* what the store holds: evidence_id, chunk_index
          collection,  \* whether the store has the collection
          known,       \* whether it is in _known_collections
          faults,      \* what went wrong for each task since it began
          epoch

memory == <<made, seen, registry>>
store == <<points, collection, known>>
evidenceVars == <<request, task, attempt, memory, store, faults, epoch>>

-------------------------------------------------------------------------------
(* Chunks.                                                                     *)

Step == ChunkSize - ChunkOverlap

\* Where chunks start: one step further as long as the last did not reach the end.
Starts(len) == {s \in 0..len - 1 : s % Step = 0 /\ (s = 0 \/ s - Step + ChunkSize < len)}

\* The count is compared with the limit before the last chunk is added.
TooManyChunks(len) == Cardinality(Starts(len)) - 1 > MaxChunks

\* The text of a chunk, the last of which may be shorter.
Text(len, start) == {i \in start..start + ChunkSize - 1 : i < len}

\* A chunk of nothing but whitespace is no TextChunk.
BlankChunk(d) ==
    /\ ~TooManyChunks(Length[d])
    /\ \E s \in Starts(Length[d]) : Text(Length[d], s) \subseteq Blank[d]

\* A point for each chunk of a record, whose id is that of the chunk.
PointsOf(id) == {<<id, s>> : s \in Starts(Length[made[id].doc])}

-------------------------------------------------------------------------------
(* What a task asks, and what it is answered: items, with or without a URL,    *)
(* that fit or do not fit a RawDocument, for their URL scheme or their title.  *)

Items == [doc : Docs, url : BOOLEAN, fit : BOOLEAN]
AllFit(items) == \A i \in DOMAIN items : items[i].fit

Distinct(seq) == FoldLeft(LAMBDA s, x : IF Contains(s, x) THEN s ELSE Append(s, x), <<>>, seq)

\* The goal is asked only if no queries were given at all, blank ones included.
ExtractQueries(input) ==
    LET given == SelectSeq(input.queries, LAMBDA q : q # "")
    IN  Distinct(IF input.queries = <<>> /\ input.goal # "" THEN <<input.goal>> ELSE given)

\* An item without a URL is left out, and then the rest is cut to the maximum ...
TavilyHits(items) ==
    LET hits == SelectSeq(items, LAMBDA item : item.url)
    IN  SubSeq(hits, 1, IF Len(hits) < MaxResults THEN Len(hits) ELSE MaxResults)

\* ... and here the other way round.
ArxivHits(items) ==
    SelectSeq(SubSeq(items, 1, IF Len(items) < MaxResults THEN Len(items) ELSE MaxResults),
              LAMBDA item : item.url)

DocsOf(hits) == [i \in DOMAIN hits |-> hits[i].doc]

Run(t) == request[t].run
IsAnalysis(t) == request[t].type = "DOC_ANALYSIS"

-------------------------------------------------------------------------------
(* The life of an attempt.                                                     *)

\* An attempt begins with its queries, unless the task is given documents.
BeginAttempt(t) ==
    [at |-> "search", ask |-> IF IsAnalysis(t) THEN <<>> ELSE ExtractQueries(request[t]),
     todo |-> <<>>, got |-> {}, batch |-> {}, last |-> FALSE, tries |-> 0]

EvidenceInit ==
    /\ request \in Assignments
    /\ task = [t \in Tasks |-> BeginAttempt(t)]
    /\ attempt = [t \in Tasks |-> 1]
    /\ made = <<>> /\ seen = <<>> /\ registry = {}
    /\ points = {} /\ collection = FALSE /\ known = FALSE
    /\ faults = [t \in Tasks |-> 0] /\ epoch = 1

Goes(t, at) == task' = [task EXCEPT ![t].at = at, ![t].tries = 0]

\* An error envelope that is not retryable.
EndTask(t, code) == Goes(t, code) /\ UNCHANGED attempt

\* A retryable one: the executor starts over, as long as it has attempts.
FailAttempt(t) ==
    IF attempt[t] < MaxTaskAttempts
    THEN /\ attempt' = [attempt EXCEPT ![t] = @ + 1]
         /\ task' = [task EXCEPT ![t] = BeginAttempt(t)]
    ELSE EndTask(t, "exhausted")

Fault(t) == faults[t] < MaxFaults /\ faults' = [faults EXCEPT ![t] = @ + 1]

\* A client's call fails.  It is repeated if the error is transient and retries are
\* left; one that is not, or for which there are none, is retryable for the worker.
CallFails(t, again) ==
    /\ Fault(t)
    /\ \/ /\ task[t].tries < MaxCallRetries
          /\ task' = [task EXCEPT ![t].at = again, ![t].tries = @ + 1]
          /\ UNCHANGED attempt
       \/ FailAttempt(t)

\* A call raises an error of the worker's own kind, or answers with a vector that is
\* not valid: neither is retryable.
CallIsRefused(t, code) == Fault(t) /\ EndTask(t, code)

\* No query and no document is INVALID_RESEARCHER_INPUT.
NothingToDo(t) ==
    /\ task[t].at = "search"
    /\ IF IsAnalysis(t) THEN request[t].documents = <<>> ELSE ExtractQueries(request[t]) = <<>>
    /\ EndTask(t, "invalid_input")
    /\ UNCHANGED <<request, memory, store, faults, epoch>>

\* What the task is given is taken over.  Something that does not fit raises an error that
\* the worker takes for one of the search adapter's, which is retryable.
ExtractDocuments(t) ==
    /\ IsAnalysis(t) /\ task[t].at = "search" /\ request[t].documents # <<>>
    /\ \/ /\ AllFit(request[t].documents)
          /\ task' = [task EXCEPT ![t].at = "ingest", ![t].todo = DocsOf(request[t].documents)]
          /\ UNCHANGED attempt
       \/ ~AllFit(request[t].documents) /\ FailAttempt(t)
    /\ UNCHANGED <<request, memory, store, faults, epoch>>

\* The next query is answered, with items that fit or one that does not, or the call fails.
Asking(t, hits) ==
    /\ task[t].at = "search" /\ task[t].ask # <<>>
    /\ \/ /\ AllFit(hits)
          /\ task' = [task EXCEPT
                         ![t].ask = Tail(@),
                         ![t].tries = 0,
                         ![t].todo = @ \o DocsOf(hits),
                         ![t].at = IF Len(task[t].ask) = 1 THEN "ingest" ELSE "search"]
          /\ UNCHANGED <<attempt, faults>>
       \/ ~AllFit(hits) /\ FailAttempt(t) /\ UNCHANGED faults
       \/ CallFails(t, "search")
       \/ CallIsRefused(t, "research_error")
    /\ UNCHANGED <<request, memory, store, epoch>>

TavilySearch(t) ==
    /\ request[t].type = "WEB_SEARCH" /\ task[t].ask # <<>>
    /\ Asking(t, TavilyHits(Answer[Head(task[t].ask)]))

ArxivSearch(t) ==
    /\ request[t].type = "ACADEMIC_SEARCH" /\ task[t].ask # <<>>
    /\ Asking(t, ArxivHits(Answer[Head(task[t].ask)]))

\* upsert_evidence up to its first await: the records are registered and chunked.  Of
\* those that cannot be, whichever comes first ends the task or fails the attempt.  (Those
\* after it need not be registered any more: of several, all were when they were made.)
UpsertEvidence(t, ids, recs) ==
    /\ registry' = registry \cup ids
    /\ \/ /\ \E id \in ids : TooManyChunks(Length[recs[id].doc])
          /\ EndTask(t, "invalid_evidence")
       \/ /\ \E id \in ids : BlankChunk(recs[id].doc)
          /\ FailAttempt(t)
       \/ /\ \A id \in ids : ~TooManyChunks(Length[recs[id].doc]) /\ ~BlankChunk(recs[id].doc)
          /\ task' = [task EXCEPT ![t].at = "embed", ![t].batch = ids,
                         ![t].got = @ \cup ids,
                         ![t].last = task[t].todo = <<>>,
                         ![t].todo = IF @ = <<>> THEN @ ELSE Tail(@)]
          /\ UNCHANGED attempt

Key(t, d) == <<Run(t), d>>

\* Mutant: the registry of the pipeline is written after the upsert of the record.
Unregistered(t, d, id) == seen

Register(t, d, id) == [k \in DOMAIN seen \cup {Key(t, d)} |-> IF k = Key(t, d) THEN id ELSE seen[k]]

\* One document: too long, known already, or new and upserted at once.
IngestDocument(t) ==
    /\ task[t].at = "ingest" /\ task[t].todo # <<>>
    /\ LET d == Head(task[t].todo)
       IN  \/ /\ Length[d] > MaxText
              /\ EndTask(t, "ingestion_error")
              /\ UNCHANGED memory
           \/ /\ Length[d] =< MaxText /\ Key(t, d) \in DOMAIN seen
              /\ task' = [task EXCEPT ![t].got = @ \cup {seen[Key(t, d)]}, ![t].todo = Tail(@)]
              /\ UNCHANGED <<attempt, memory>>
           \/ /\ Length[d] =< MaxText /\ Key(t, d) \notin DOMAIN seen
              /\ made' = Append(made, [run |-> Run(t), doc |-> d, epoch |-> epoch])
              /\ seen' = Register(t, d, Len(made'))
              /\ UpsertEvidence(t, {Len(made')}, made')
    /\ UNCHANGED <<request, store, faults, epoch>>

\* Mutant: only what this attempt was the first to ingest is upserted at the end.
OnlyUnindexed(t) == {id \in task[t].got : id \notin registry}

\* What the worker upserts when all is ingested: duplicates too.
Gathered(t) == task[t].got

IndexGathered(t) ==
    /\ task[t].at = "ingest" /\ task[t].todo = <<>>
    /\ IF Gathered(t) = {} THEN Goes(t, "done") /\ UNCHANGED <<attempt, registry>>
       ELSE UpsertEvidence(t, Gathered(t), made)
    /\ UNCHANGED <<request, made, seen, store, faults, epoch>>

\* The provider answers with a vector for each chunk.
Embed(t) ==
    /\ task[t].at = "embed"
    /\ \/ Goes(t, IF known THEN "upsert" ELSE "ensure") /\ UNCHANGED <<attempt, faults>>
       \/ CallFails(t, "embed")
       \/ CallIsRefused(t, "invalid_evidence")
    /\ UNCHANGED <<request, memory, store, epoch>>

\* Mutant: ensure_collection does not look before it creates.
Unlooked == FALSE

Exists == collection

\* ensure_collection looks for the collection ...
CheckCollection(t) ==
    /\ task[t].at = "ensure"
    /\ \/ /\ Exists
          /\ known' = TRUE
          /\ Goes(t, "upsert") /\ UNCHANGED <<attempt, faults>>
       \/ /\ ~Exists
          /\ task' = [task EXCEPT ![t].at = "create"]
          /\ UNCHANGED <<known, attempt, faults>>
       \/ CallFails(t, "ensure") /\ UNCHANGED known
    /\ UNCHANGED <<request, memory, points, collection, epoch>>

\* ... and creates it.  One that another task created in between is a conflict, which
\* is not transient; a call that timed out may have been done.
CreateCollection(t) ==
    /\ task[t].at = "create"
    /\ \/ /\ ~collection
          /\ collection' = TRUE /\ known' = TRUE
          /\ Goes(t, "upsert") /\ UNCHANGED <<attempt, faults>>
       \/ collection /\ FailAttempt(t) /\ UNCHANGED <<collection, known, faults>>
       \/ collection' \in {collection, TRUE} /\ CallFails(t, "ensure") /\ UNCHANGED known
    /\ UNCHANGED <<request, memory, points, epoch>>

\* The points of the batch are written, again if they were before.
UpsertVectors(t) ==
    /\ task[t].at = "upsert"
    /\ LET written == points \cup UNION {PointsOf(id) : id \in task[t].batch}
       IN  \/ /\ points' = written
              /\ Goes(t, IF task[t].last THEN "done" ELSE "ingest")
              /\ UNCHANGED <<attempt, faults>>
           \/ points' \in {points, written} /\ CallFails(t, "upsert")
    /\ UNCHANGED <<request, memory, collection, known, epoch>>

Busy(t) == task[t].at \in {"search", "ingest", "embed", "ensure", "create", "upsert"}

\* The executor's timeout cancels the worker at an await.
TaskTimeout(t) ==
    /\ Busy(t)
    /\ Fault(t)
    /\ FailAttempt(t)
    /\ UNCHANGED <<request, memory, store, epoch>>

\* The process dies.  What completed was checkpointed, other tasks run anew elsewhere.
Restart ==
    /\ epoch =< MaxRestarts
    /\ epoch' = epoch + 1
    /\ seen' = <<>> /\ registry' = {} /\ known' = FALSE
    /\ task' = [t \in Tasks |-> IF Busy(t) THEN BeginAttempt(t) ELSE task[t]]
    /\ attempt' = [t \in Tasks |-> IF Busy(t) THEN 1 ELSE attempt[t]]
    /\ faults' = [t \in Tasks |-> IF Busy(t) THEN 0 ELSE faults[t]]
    /\ UNCHANGED <<request, made, points, collection>>

TaskStep(t) ==
    \/ NothingToDo(t)
    \/ ExtractDocuments(t)
    \/ TavilySearch(t)
    \/ ArxivSearch(t)
    \/ IngestDocument(t)
    \/ IndexGathered(t)
    \/ Embed(t)
    \/ CheckCollection(t)
    \/ CreateCollection(t)
    \/ UpsertVectors(t)

EvidenceNext == (\E t \in Tasks : TaskStep(t) \/ TaskTimeout(t)) \/ Restart

EvidenceSpec == EvidenceInit /\ [][EvidenceNext]_evidenceVars

-------------------------------------------------------------------------------
(* Search.                                                                     *)

\* The number of chunks that is asked for to find so many records.
SearchLimit(limit) == Max({limit * HitsPerRecord, MinHits})

\* Mutant: the filter on the run is not passed to the store.
Unfiltered(r) == points

OfRun(r) == {p \in points : made[p[1]].run = r}

\* The points that score min_score or more.
Near(q) == {p \in points : <<made[p[1]].doc, p[2]>> \in Similar[q]}

\* What the store may return: the nearest points of the run, of which those that score
\* enough come first.
Nearest(q, r, number) ==
    {hits \in kSubset(Min({number, Cardinality(OfRun(r))}), OfRun(r)) :
        hits \subseteq Near(q) \/ OfRun(r) \cap Near(q) \subseteq hits}

\* Of the points that score enough the first records, at most as many as asked for, that
\* the memory knows are kept.  Without a collection, or asked for none, it raises.
SimilaritySearch(q, r, limit) ==
    IF ~collection \/ limit = 0 THEN {}
    ELSE UNION {LET found == {p[1] : p \in hits \cap Near(q)} \cap registry
                IN  kSubset(Min({limit, Cardinality(found)}), found) :
                   hits \in Nearest(q, r, SearchLimit(limit))}

-------------------------------------------------------------------------------
\* What the constants are: chunks move on, and every query that a task may come to ask
\* has an answer, of which an adapter keeps items that are documents.
EvidenceConstants ==
    /\ Length \in [Docs -> Nat] /\ Blank \in [Docs -> SUBSET Nat]
    /\ ChunkSize \in Nat /\ ChunkOverlap \in Nat /\ ChunkOverlap < ChunkSize
    /\ HitsPerRecord \in Nat /\ MinHits \in Nat
    /\ MaxCallRetries \in Nat /\ MaxTaskAttempts \in Nat \ {0}
    /\ MaxFaults \in Nat /\ MaxRestarts \in Nat
    /\ \A q \in DOMAIN Answer :
          /\ TavilyHits(Answer[q]) \in Seq(Items)
          /\ ArxivHits(Answer[q]) \in Seq(Items)
    /\ \A requests \in Assignments : \A t \in Tasks :
          /\ requests[t].run \in Runs
          /\ requests[t].documents \in Seq(Items)
          /\ ExtractQueries(requests[t]) \in Seq(DOMAIN Answer)

Ats == {"search", "ingest", "embed", "ensure", "create", "upsert", "done", "exhausted",
        "invalid_input", "invalid_evidence", "ingestion_error", "research_error"}

EvidenceTypeOK ==
    /\ request \in Assignments
    /\ \A t \in Tasks :
          /\ task[t].at \in Ats
          /\ task[t].todo \in Seq(Docs)
          /\ task[t].got \cup task[t].batch \subseteq DOMAIN made
          /\ task[t].tries \in 0..MaxCallRetries
          /\ attempt[t] \in 1..MaxTaskAttempts
    /\ made \in Seq([run : Runs, doc : Docs, epoch : 1..MaxRestarts + 1])
    /\ registry \subseteq DOMAIN made
    /\ \A p \in points : p[1] \in DOMAIN made
    /\ known => collection
    /\ faults \in [Tasks -> 0..MaxFaults] /\ epoch \in 1..MaxRestarts + 1

\* Whatever failed, timed out or was found by another task first, every hit of every query
\* of a completed task is searched: each position of its text is in a chunk that the store
\* holds for a record of that run, and the memory knows that record, so that a search does
\* not drop it, as long as the process that made it lives.  (After a restart the registry
\* of the memory is empty, and a search drops the older records that the store returns.)
EvidenceIsSearchable ==
    \A t \in Tasks : task[t].at = "done" =>
        \A id \in task[t].got :
            /\ made[id].run = Run(t)
            /\ \A i \in 0..Length[made[id].doc] - 1 :
                  \E p \in points : p[1] = id /\ i \in Text(Length[made[id].doc], p[2])
            /\ made[id].epoch = epoch => id \in registry

\* However the tasks of a run interleave, a process makes one record of a content.
OneRecordPerContent ==
    \A i, j \in DOMAIN made : made[i] = made[j] => i = j

\* What a task is given, or its queries are answered.
Offers(t) ==
    IF IsAnalysis(t) THEN ToSet(request[t].documents)
    ELSE UNION {ToSet(IF request[t].type = "WEB_SEARCH" THEN TavilyHits(Answer[q])
                                                        ELSE ArxivHits(Answer[q])) :
                   q \in ToSet(ExtractQueries(request[t]))}

\* Something of it fails every attempt that comes to it.
Indigestible(t) == \E item \in Offers(t) : ~item.fit \/ BlankChunk(item.doc)

\* A task uses up its attempts only on something that no attempt can take, or if something
\* went wrong for it at every attempt but one since it began: what other tasks do costs it
\* no more than that one, in which it loses the race to create the collection.
FailureIsEarned ==
    \A t \in Tasks : task[t].at = "exhausted" =>
        Indigestible(t) \/ faults[t] >= MaxTaskAttempts - 1

\* As long as no more chunks of a run score enough than a search asks for, a search gives
\* as many of the records that they are of, and that the memory knows, as were asked for,
\* or all there are: what other runs have stored does not crowd them out, and what scores
\* too little neither.
CompleteUpTo(limit) ==
    \A r \in Runs : \A q \in DOMAIN Similar :
        LET near == {p \in Near(q) : made[p[1]].run = r}
            indexed == {p[1] : p \in near} \cap registry
        IN  Cardinality(near) =< SearchLimit(limit) =>
                \A found \in SimilaritySearch(q, r, limit) :
                    /\ found \subseteq indexed
                    /\ Cardinality(found) = Min({limit, Cardinality(indexed)})

\* Searches for one record and for two are complete.
SearchIsComplete == \A limit \in 1..2 : CompleteUpTo(limit)
===============================================================================
