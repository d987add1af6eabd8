------------------------------ MODULE Enclave ------------------------------
(***************************************************************************)
(* The enclave (src/enclave): a console stages a file for encryption, two  *)
(* functions take staged blobs, encrypt them into another container and    *)
(* purge them.  Blobs are known by container and name, nothing else: the   *)
(* model keeps whose blob it is, and what was ever written.                *)
(*                                                                         *)
(* The storage, its trigger (one message for every blob version it sees,   *)
(* delivered again after a crash, up to a limit) and whoever stages a      *)
(* content for viewing are external.  Cryptography is opaque.              *)
(***************************************************************************)
EXTENDS Naturals, FiniteSets

CONSTANTS
    Uploads,   \* contents staged by a console
    Views,     \* contents staged to be encrypted again, for a viewer
    Names,     \* of blobs, which are paths
    Base,      \* the file name of a path
    MaxTries,  \* deliveries of one message
    MaxJobs,   \* how many are staged at all, a bound
    None       \* no blob

Jobs == Uploads \cup Views

ASSUME EnclaveAssumption ==
    /\ Base \in [Names -> Names]
    /\ MaxTries \in Nat \ {0} /\ MaxJobs \in Nat
    /\ Uploads \cap Views = {}
    /\ None \notin Jobs /\ None \notin Names

VARIABLES
    name,      \* of the blob of every job, once chosen
    meta,      \* the metadata of a view
    blob,      \* whose blob has a name, in each container
    console,   \* the console of every upload
    run,       \* the function on every job
    tries,     \* deliveries that ended in a crash
    staged,    \* the jobs that were ever there to be processed,
    signed,    \* whose signature went to IPFS,
    published  \* and that were ever there encrypted

vars == <<name, meta, blob, console, run, tries, staged, signed, published>>

history == <<staged, signed, published>>

Containers == {"original-content", "encrypted-content",
               "reencrypting-content", "reencrypted-content"}

Source(j) == IF j \in Uploads THEN "original-content" ELSE "reencrypting-content"
Target(j) == IF j \in Uploads THEN "encrypted-content" ELSE "reencrypted-content"

IsRunning(state) == state \in {"open", "ready", "uploaded"}

(* Purged, or left: without metadata, by a caught exception, because the   *)
(* version is gone, or because the deliveries are used up.                 *)
HasEnded(state) == state \in {"purged", "refused", "failed", "skipped", "poisoned"}

Init ==
    /\ name = [j \in Jobs |-> None]
    /\ meta = [j \in Views |-> "missing"]
    /\ blob = [c \in Containers |-> [n \in Names |-> None]]
    /\ console = [u \in Uploads |-> "none"]
    /\ run = [j \in Jobs |-> "none"]
    /\ tries = [j \in Jobs |-> 0]
    /\ staged = {} /\ signed = {} /\ published = {}

(* Upload and delete replace and remove whatever has the name.             *)
Write(container, n, j) == blob' = [blob EXCEPT ![container][n] = j]

Goes(j, state) == run' = [run EXCEPT ![j] = state]

-----------------------------------------------------------------------------
(* The console, and whoever wants a view.                                  *)

Stage(j, n) == Write(Source(j), n, j) /\ staged' = staged \cup {j}

FewJobs == Cardinality({j \in Jobs : name[j] # None}) < MaxJobs

(* The path is the name of the blob.                                       *)
UploadFile(u, n) ==
    /\ console[u] = "none" /\ FewJobs
    /\ name' = [name EXCEPT ![u] = n]
    /\ \/ Stage(u, n) /\ console' = [console EXCEPT ![u] = "waiting"]
       \/ Stage(u, n) /\ console' = [console EXCEPT ![u] = "failed"]
       \/ UNCHANGED <<blob, staged>> /\ console' = [console EXCEPT ![u] = "failed"]
    /\ UNCHANGED <<meta, run, tries, signed, published>>

FileExists(container, n) == blob[container][n] # None

(* Faulty variant: it is the staged file that is looked for.               *)
FaultyPoll(u) ==
    /\ console[u] = "waiting" /\ FileExists("original-content", Base[name[u]])
    /\ console' = [console EXCEPT ![u] = "succeeded"]
    /\ UNCHANGED <<name, meta, blob, run, tries, history>>

(* Busily, for the file name without its directories.                      *)
Poll(u) ==
    /\ console[u] = "waiting" /\ FileExists("encrypted-content", Base[name[u]])
    /\ console' = [console EXCEPT ![u] = "succeeded"]
    /\ UNCHANGED <<name, meta, blob, run, tries, history>>

PollFails(u) ==
    /\ console[u] = "waiting"
    /\ console' = [console EXCEPT ![u] = "failed"]
    /\ UNCHANGED <<name, meta, blob, run, tries, history>>

StageView(v, n, m) ==
    /\ name[v] = None /\ FewJobs
    /\ name' = [name EXCEPT ![v] = n]
    /\ meta' = [meta EXCEPT ![v] = m]
    /\ Stage(v, n)
    /\ UNCHANGED <<console, run, tries, signed, published>>

-----------------------------------------------------------------------------
(* The trigger.                                                            *)

IsStaged(j) == name[j] # None /\ blob[Source(j)][name[j]] = j

Notice(j) ==
    /\ run[j] = "none" /\ IsStaged(j)
    /\ Goes(j, "noticed")
    /\ UNCHANGED <<name, meta, blob, console, tries, history>>

(* Faulty variant: a message whose blob is gone is kept.                   *)
FaultyStart(j) ==
    /\ run[j] = "noticed" /\ IsStaged(j)
    /\ Goes(j, "open")
    /\ UNCHANGED <<name, meta, blob, console, tries, history>>

(* Only the version the message is about is processed.                     *)
Start(j) ==
    /\ run[j] = "noticed"
    /\ Goes(j, IF IsStaged(j) THEN "open" ELSE "skipped")
    /\ UNCHANGED <<name, meta, blob, console, tries, history>>

(* Faulty variant: one delivery too many.                                  *)
FaultyCrash ==
    /\ \E j \in Jobs : IsRunning(run[j])
    /\ run' = [j \in Jobs |->
                 IF ~IsRunning(run[j]) THEN run[j]
                 ELSE IF tries[j] < MaxTries THEN "noticed" ELSE "poisoned"]
    /\ tries' = [j \in Jobs |-> IF IsRunning(run[j]) THEN tries[j] + 1 ELSE tries[j]]
    /\ UNCHANGED <<name, meta, blob, console, history>>

(* The host restarts: what it was running is delivered again, or given up. *)
Crash ==
    /\ \E j \in Jobs : IsRunning(run[j])
    /\ run' = [j \in Jobs |->
                 IF ~IsRunning(run[j]) THEN run[j]
                 ELSE IF tries[j] + 1 < MaxTries THEN "noticed" ELSE "poisoned"]
    /\ tries' = [j \in Jobs |-> IF IsRunning(run[j]) THEN tries[j] + 1 ELSE tries[j]]
    /\ UNCHANGED <<name, meta, blob, console, history>>

-----------------------------------------------------------------------------
(* The two functions.  Every exception is logged, and ends the run.        *)

(* ProcessOriginalContentAsync: signed, the signature to IPFS, encrypted.  *)
Sign(j) ==
    /\ run[j] = "open" /\ j \in Uploads
    /\ \/ Goes(j, "ready") /\ signed' = signed \cup {j}
       \/ Goes(j, "failed") /\ signed' \in {signed, signed \cup {j}}
    /\ UNCHANGED <<name, meta, blob, console, tries, staged, published>>

(* Faulty variant: the stream is made whatever the signature is.           *)
FaultyValidate(j) ==
    /\ run[j] = "open" /\ j \in Views
    /\ \/ meta[j] = "missing" /\ Goes(j, "refused")
       \/ meta[j] # "missing" /\ (Goes(j, "failed") \/ Goes(j, "ready"))
    /\ UNCHANGED <<name, meta, blob, console, tries, history>>

(* ProcessContentForViewingAsync: an invalid signature leaves no stream,   *)
(* whose position then throws.                                             *)
Validate(j) ==
    /\ run[j] = "open" /\ j \in Views
    /\ \/ meta[j] = "missing" /\ Goes(j, "refused")
       \/ meta[j] # "missing" /\ Goes(j, "failed")
       \/ meta[j] = "valid" /\ Goes(j, "ready")
    /\ UNCHANGED <<name, meta, blob, console, tries, history>>

Publish(j) == Write(Target(j), name[j], j) /\ published' = published \cup {j}

(* Faulty variant: an error is taken for an answer.                        *)
FaultyUploadStream(j) ==
    /\ run[j] = "ready"
    /\ \/ Goes(j, "uploaded") /\ Publish(j)
       \/ Goes(j, "uploaded") /\ UNCHANGED <<blob, published>>
    /\ UNCHANGED <<name, meta, console, tries, staged, signed>>

UploadStream(j) ==
    /\ run[j] = "ready"
    /\ \/ Goes(j, "uploaded") /\ Publish(j)
       \/ Goes(j, "failed") /\ Publish(j)
       \/ Goes(j, "failed") /\ UNCHANGED <<blob, published>>
    /\ UNCHANGED <<name, meta, console, tries, staged, signed>>

(* By name: the blob may have been staged anew since it was opened.        *)
PurgeBlob(j) ==
    /\ run[j] = "uploaded"
    /\ \/ Goes(j, "purged") /\ Write(Source(j), name[j], None)
       \/ Goes(j, "failed") /\ Write(Source(j), name[j], None)
       \/ Goes(j, "failed") /\ UNCHANGED blob
    /\ UNCHANGED <<name, meta, console, tries, history>>

Function(j) == Sign(j) \/ Validate(j) \/ UploadStream(j) \/ PurgeBlob(j)

Next ==
    \/ \E u \in Uploads : Poll(u) \/ PollFails(u) \/ \E n \in Names : UploadFile(u, n)
    \/ \E v \in Views, n \in Names, m \in {"missing", "invalid", "valid"} : StageView(v, n, m)
    \/ \E j \in Jobs : Notice(j) \/ Start(j) \/ Function(j)
    \/ Crash

(* The console polls, and the functions host scans, delivers and runs.     *)
(* Nothing makes anyone stage, or anything fail.                           *)
Fairness ==
    /\ \A u \in Uploads : WF_vars(Poll(u))
    /\ \A j \in Jobs : WF_vars(Notice(j)) /\ WF_vars(Start(j)) /\ WF_vars(Function(j))

Spec == Init /\ [][Next]_vars /\ Fairness

-----------------------------------------------------------------------------
RunOK(state) == state \in {"none", "noticed"} \/ IsRunning(state) \/ HasEnded(state)

TypeOK ==
    /\ name \in [Jobs -> Names \cup {None}]
    /\ meta \in [Views -> {"missing", "invalid", "valid"}]
    /\ blob \in [Containers -> [Names -> Jobs \cup {None}]]
    /\ console \in [Uploads -> {"none", "waiting", "succeeded", "failed"}]
    /\ DOMAIN run = Jobs /\ \A j \in Jobs : RunOK(run[j])
    /\ tries \in [Jobs -> 0..MaxTries]
    /\ staged \subseteq Jobs /\ signed \subseteq Uploads /\ published \subseteq Jobs

Overlapped(j) ==
    \E k \in staged \ {j} : Source(k) = Source(j) /\ name[k] = name[j]

(* A staged content that is gone was encrypted, whatever failed, crashed   *)
(* or ran twice; but not if another one was staged under its name, whose   *)
(* function purges by name (EncryptOriginalContentFunction.cs:49-52).      *)
LostOnlyIfOverlapped ==
    \A j \in staged : IsStaged(j) \/ j \in published \/ Overlapped(j)

(* What is encrypted for sale has its signature in IPFS, and what is       *)
(* encrypted for a viewer had a valid one (EncryptionService.cs:47-122,    *)
(* ReencryptContentFunction.cs:30-84).                                     *)
PublishedIsVouchedFor ==
    \A j \in published : j \in signed \/ (j \in Views /\ meta[j] = "valid")

(* A console that reports success has seen its own content encrypted, or   *)
(* another one of the same file name (Program.cs:69-82).                   *)
SuccessIsOwnUnlessShared ==
    \A u \in Uploads :
        console[u] = "succeeded" =>
            \/ u \in published
            \/ \E k \in (published \cap Uploads) \ {u} : name[k] = Base[name[u]]

(* What is staged gets its run, and the run ends, unless it was replaced   *)
(* before the trigger saw it                                               *)
(* (EncryptOriginalContentFunction.cs:17, ReencryptContentFunction.cs:18). *)
StagedIsHandled ==
    \A j \in Jobs :
        (j \in staged) ~> (HasEnded(run[j]) \/ (run[j] = "none" /\ ~IsStaged(j)))

(* A console whose content was encrypted stops waiting, if its path has no *)
(* directory (Program.cs:71-76).                                           *)
WaitEnds ==
    \A u \in Uploads :
        (u \in published /\ name[u] = Base[name[u]]) ~> (console[u] # "waiting")
=============================================================================
