------------------------------ MODULE RunResults ------------------------------
(***************************************************************************)
(* What clients get of a run (api/service.py): the job worker uploads the  *)
(* report and the dossier of an execution (jobs/worker.py) to an artifact  *)
(* storage (storage/), lists them in the run's context and writes the list *)
(* to the run's record; clients download what is listed in the context of  *)
(* their process or else in the record.  A run that failed is executed     *)
(* again, and its uploads replace those of before, under the same keys.    *)
(*                                                                         *)
(* A dossier is the number of the execution that compiled it.  A content   *)
(* is what is made of a dossier for an artifact, and its own checksum.     *)
(*                                                                         *)
(* The executions are one after another, as leases make them.  Where they  *)
(* overlap (RunLifecycle shows an API process that takes no leases execute *)
(* a run that a worker executes), they write the same keys at the same     *)
(* time, and what one lists the other may have replaced: that is outside   *)
(* this module.                                                            *)
(***************************************************************************)
EXTENDS Naturals, SequencesExt

CONSTANTS MaxStorageRetries,  \* max_retries of the storage
          MaxExecutions,      \* max_attempts of the run's job
          MaxTroubles         \* bound on what goes wrong

VARIABLES blobs,      \* what the storage holds, by name
          step,       \* what the worker is doing
          try,        \* attempt of an upload
          execution,  \* how often the run was executed
          status,     \* of the run's context
          compiled,   \* context.dossier
          artifacts,  \* context.artifacts
          record,     \* status, dossier and artifacts of the run's record
          asked,      \* what a client is downloading
          answer,     \* what it got last
          troubles

worker == <<step, try, execution, status, compiled, artifacts>>
client == <<asked, answer>>
resultVars == <<blobs, worker, record, client, troubles>>

Names == {"report.md", "dossier.json"}
Nothing == <<>>
NotCompiled == 0

Content(name) == <<compiled, name>>
Meta(name) == [name |-> name, sha256 |-> Content(name)]

ResultsInit ==
    /\ blobs = Nothing
    /\ step = "idle" /\ try = 1 /\ execution = 0
    /\ status = "QUEUED" /\ compiled = NotCompiled /\ artifacts = <<>>
    /\ record = [status |-> "QUEUED", dossier |-> NotCompiled, artifacts |-> <<>>]
    /\ asked = Nothing /\ answer = Nothing
    /\ troubles = 0

Trouble == troubles < MaxTroubles /\ troubles' = troubles + 1

\* _sync_to_repo.
Sync == record' = [status |-> status', dossier |-> compiled, artifacts |-> artifacts]

\* It raises: the run fails, which is written too unless that raises as well.
SyncRaises == Trouble /\ status' = "FAILED" /\ step' = "idle" /\ (Sync \/ UNCHANGED record)

-------------------------------------------------------------------------------
(* The worker.                                                                 *)

\* A run that is not completed is executed.  This abstraction has no execution begin before
\* the last has ended or died.
BeginExecution ==
    /\ step = "idle" /\ status # "COMPLETED" /\ execution < MaxExecutions
    /\ execution' = execution + 1
    /\ \/ status' = "PLANNING" /\ step' = "work" /\ Sync /\ UNCHANGED troubles
       \/ SyncRaises
    /\ UNCHANGED <<blobs, try, compiled, artifacts, client>>

Fail ==
    /\ step = "work"
    /\ \/ status' = "FAILED" /\ step' = "idle" /\ Sync /\ UNCHANGED troubles
       \/ SyncRaises
    /\ UNCHANGED <<blobs, try, execution, compiled, artifacts, client>>

\* No report may have come of it: then a dossier of an execution before is still there.
\* Unless it was refined, the run counts as completed before anything is uploaded.
Succeed ==
    /\ step = "work"
    /\ compiled' \in {compiled, execution}
    /\ status' \in {status, "COMPLETED"}
    /\ step' = IF compiled' = NotCompiled THEN "complete" ELSE "report.md"
    /\ try' = 1
    /\ UNCHANGED <<blobs, execution, artifacts, record, client, troubles>>

AfterUpload(name) == IF name = "report.md" THEN "dossier.json" ELSE "complete"

Stored(name) == [n \in DOMAIN blobs \cup {name} |-> IF n = name THEN Content(name) ELSE blobs[n]]

Upload(name) ==
    /\ step = name /\ step' = AfterUpload(name) /\ try' = 1
    /\ blobs' = Stored(name)
    /\ artifacts' = Append(artifacts, Meta(name))
    /\ UNCHANGED <<execution, status, compiled, record, client, troubles>>

\* Mutant: an artifact is listed whether or not its upload is known to have succeeded.
ListedAnyway(name) ==
    /\ step = name /\ Trouble
    /\ blobs' \in {blobs, Stored(name)}
    /\ step' = "complete" /\ UNCHANGED try
    /\ artifacts' = Append(artifacts, Meta(name))
    /\ UNCHANGED <<execution, status, compiled, record, client>>

\* An attempt raises, having stored the blob or not.  A transient error is retried;
\* otherwise the run completes with what was listed so far.
UploadRaises(name) ==
    /\ step = name /\ Trouble
    /\ blobs' \in {blobs, Stored(name)}
    /\ \/ try < MaxStorageRetries /\ try' = try + 1 /\ UNCHANGED step
       \/ step' = "complete" /\ UNCHANGED try
    /\ UNCHANGED <<execution, status, compiled, artifacts, record, client>>

CompleteRun ==
    /\ step = "complete"
    /\ status' = "COMPLETED" /\ step' = "sync"
    /\ UNCHANGED <<blobs, try, execution, compiled, artifacts, record, client, troubles>>

Settle ==
    /\ step = "sync"
    /\ UNCHANGED <<blobs, try, execution, compiled, artifacts, client>>
    /\ \/ step' = "idle" /\ UNCHANGED status /\ Sync /\ UNCHANGED troubles
       \/ SyncRaises

\* The worker's process dies; the next makes its context of the record.
Crash ==
    /\ Trouble
    /\ step' = "idle" /\ try' = 1
    /\ status' = record.status /\ compiled' = record.dossier /\ artifacts' = record.artifacts
    /\ UNCHANGED <<blobs, execution, record, client>>

-------------------------------------------------------------------------------
(* Clients.                                                                    *)

\* Where get_artifact looks: in the context, if its process has it, then in the record.
Listings == {artifacts \o record.artifacts, record.artifacts}

\* The first artifact listed under a name, or any by its id.
Ask ==
    /\ asked = Nothing
    /\ \E listed \in Listings : \E i \in DOMAIN listed : asked' = listed[i]
    /\ UNCHANGED <<blobs, worker, record, answer, troubles>>

Verified(content, sha256) == content = sha256

Download ==
    /\ asked # Nothing
    /\ asked' = Nothing
    /\ LET name == asked.name
           served == name \in DOMAIN blobs /\ Verified(blobs[name], asked.sha256)
       IN  answer' = [meta |-> asked, latest |-> execution,
                      content |-> IF served THEN blobs[name] ELSE Nothing]
    /\ UNCHANGED <<blobs, worker, record, troubles>>

DownloadRaises ==
    /\ asked # Nothing /\ Trouble
    /\ asked' = Nothing
    /\ UNCHANGED <<blobs, worker, record, answer>>

ResultsNext ==
    \/ BeginExecution \/ Fail \/ Succeed
    \/ \E name \in Names : Upload(name) \/ UploadRaises(name)
    \/ CompleteRun \/ Settle \/ Crash
    \/ Ask \/ Download \/ DownloadRaises

ResultsSpec == ResultsInit /\ [][ResultsNext]_resultVars

\* A call is tried at least once.
ResultsConstants ==
    /\ MaxStorageRetries \in Nat \ {0}
    /\ MaxExecutions \in Nat
    /\ MaxTroubles \in Nat

-------------------------------------------------------------------------------
ResultsTypeOK ==
    /\ DOMAIN blobs \subseteq Names
    /\ step \in {"idle", "work", "complete", "sync"} \cup Names
    /\ try \in 1..MaxStorageRetries /\ execution \in 0..MaxExecutions /\ compiled \in 0..execution
    /\ status \in {"QUEUED", "PLANNING", "FAILED", "COMPLETED"}
    /\ \A i \in DOMAIN artifacts : artifacts[i].name \in Names
    /\ IsPrefix(record.artifacts, artifacts)

\* A client that downloads a listed artifact gets what was uploaded when it was listed,
\* or, once a later execution may have replaced it, nothing.  Whatever call raised and
\* whenever the worker died, an artifact of the latest execution is there, as long as no two
\* executions of a run overlap.
ListedIsServed ==
    answer # Nothing =>
        \/ answer.content = answer.meta.sha256
        \/ answer.content = Nothing /\ answer.meta.sha256[1] < answer.latest
===============================================================================
