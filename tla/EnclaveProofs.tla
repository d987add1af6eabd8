---------------------------- MODULE EnclaveProofs ----------------------------
(***************************************************************************)
(* Proofs about the enclave, for any number of contents, any names and any *)
(* number of deliveries.                                                   *)
(***************************************************************************)
EXTENDS Enclave, TLAPS

(* What a run, a name and a console say of their job.                      *)
Stages ==
    /\ \A j \in Jobs : run[j] # "none" => j \in staged
    /\ \A j \in Jobs : run[j] = "uploaded" => j \in published
    /\ \A j \in staged : name[j] \in Names
    /\ published \subseteq staged
    /\ \A u \in Uploads : console[u] = "none" <=> name[u] = None
    /\ \A j \in Jobs : run[j] # "poisoned" => tries[j] < MaxTries

(* A stream is made only of what is signed, or has a valid signature.      *)
Vouched(j) == j \in signed \/ (j \in Views /\ meta[j] = "valid")

Streams == \A j \in Jobs : run[j] \in {"ready", "uploaded"} => Vouched(j)

(* Every encrypted blob is a published upload, under its name.             *)
IsOf(j, n) == j = None \/ (j \in published \cap Uploads /\ name[j] = n)

(* What lies in a container to be processed was staged there.              *)
StagedBlobs ==
    \A j \in Jobs, n \in Names : blob[Source(j)][n] = j => j \in staged

EncryptedBlobs == \A n \in Names : IsOf(blob["encrypted-content"][n], n)

IInv ==
    /\ TypeOK /\ Stages /\ Streams /\ StagedBlobs /\ EncryptedBlobs
    /\ LostOnlyIfOverlapped /\ PublishedIsVouchedFor /\ SuccessIsOwnUnlessShared

-----------------------------------------------------------------------------
(* Every state an action gives to a run is one.                            *)
LEMMA RunStates ==
    /\ RunOK("none") /\ RunOK("noticed") /\ RunOK("open") /\ RunOK("ready")
    /\ RunOK("uploaded") /\ RunOK("purged") /\ RunOK("refused")
    /\ RunOK("failed") /\ RunOK("skipped") /\ RunOK("poisoned")
<1>1. RunOK("none") /\ RunOK("noticed")
  BY DEF RunOK
<1>2. RunOK("open") /\ RunOK("ready") /\ RunOK("uploaded")
  BY DEF RunOK, IsRunning
<1>3. RunOK("purged") /\ RunOK("refused") /\ RunOK("failed")
  BY DEF RunOK, HasEnded
<1>4. RunOK("skipped") /\ RunOK("poisoned")
  BY DEF RunOK, HasEnded
<1> QED
  BY <1>1, <1>2, <1>3, <1>4

LEMMA ContainersOfJobs ==
    ASSUME NEW j \in Jobs
    PROVE  Source(j) \in Containers /\ Target(j) \in Containers /\ Source(j) # Target(j)
BY DEF Source, Target, Containers

LEMMA GoesType ==
    ASSUME TypeOK, NEW j \in Jobs, NEW s, RunOK(s), Goes(j, s)
    PROVE  /\ DOMAIN run' = Jobs /\ (\A k \in Jobs : RunOK(run'[k]))
           /\ run'[j] = s /\ \A k \in Jobs : k # j => run'[k] = run[k]
BY DEF TypeOK, Goes

(* Writing changes one blob.                                               *)
LEMMA WriteType ==
    ASSUME TypeOK, NEW c \in Containers, NEW n \in Names, NEW j \in Jobs \cup {None},
           Write(c, n, j)
    PROVE  /\ blob' \in [Containers -> [Names -> Jobs \cup {None}]]
           /\ blob'[c][n] = j
           /\ \A d \in Containers, m \in Names :
                 d # c \/ m # n => blob'[d][m] = blob[d][m]
BY DEF TypeOK, Write

(* What an action may do to one run: everything else about jobs stays.     *)
RunStep(j) == Notice(j) \/ Start(j) \/ Function(j)

LEMMA RunStepOutcome ==
    ASSUME TypeOK, NEW j \in Jobs, RunStep(j)
    PROVE  /\ \E s : Goes(j, s) /\ RunOK(s)
           /\ UNCHANGED <<name, meta, console, tries, staged>>
<1>1. CASE Notice(j) \/ Start(j)
  <2>1. Goes(j, "noticed") \/ Goes(j, "open") \/ Goes(j, "skipped")
    BY <1>1, Zenon DEF Notice, Start
  <2> QED
    BY <1>1, <2>1, RunStates, Zenon DEF Notice, Start, history
<1>2. CASE Sign(j)
  <2>1. Goes(j, "ready") \/ Goes(j, "failed")
    BY <1>2, Zenon DEF Sign
  <2> QED
    BY <1>2, <2>1, RunStates, Zenon DEF Sign
<1>3. CASE Validate(j)
  <2>1. Goes(j, "refused") \/ Goes(j, "failed") \/ Goes(j, "ready")
    BY <1>3, Zenon DEF Validate
  <2> QED
    BY <1>3, <2>1, RunStates, Zenon DEF Validate, history
<1>4. CASE UploadStream(j)
  <2>1. Goes(j, "uploaded") \/ Goes(j, "failed")
    BY <1>4, Zenon DEF UploadStream
  <2> QED
    BY <1>4, <2>1, RunStates, Zenon DEF UploadStream
<1>5. CASE PurgeBlob(j)
  <2>1. Goes(j, "purged") \/ Goes(j, "failed")
    BY <1>5, Zenon DEF PurgeBlob
  <2> QED
    BY <1>5, <2>1, RunStates, Zenon DEF PurgeBlob, history
<1> QED
  BY <1>1, <1>2, <1>3, <1>4, <1>5 DEF RunStep, Function

-----------------------------------------------------------------------------
LEMMA InitInv == Init => IInv
<1> SUFFICES ASSUME Init PROVE IInv
  OBVIOUS
<1>1. TypeOK
  <2>1. \A j \in Jobs : RunOK(run[j])
    BY RunStates DEF Init
  <2> QED
    BY <2>1, EnclaveAssumption DEF Init, TypeOK
<1>2. Stages /\ Streams
  BY EnclaveAssumption DEF Init, Stages, Streams, Jobs
<1>3. StagedBlobs /\ EncryptedBlobs
  BY EnclaveAssumption, ContainersOfJobs DEF Init, StagedBlobs, EncryptedBlobs, IsOf, Containers
<1>4. LostOnlyIfOverlapped /\ PublishedIsVouchedFor /\ SuccessIsOwnUnlessShared
  BY DEF Init, LostOnlyIfOverlapped, PublishedIsVouchedFor, SuccessIsOwnUnlessShared
<1> QED
  BY <1>1, <1>2, <1>3, <1>4 DEF IInv

(* An action of a run that writes no blob keeps the blobs' meaning.        *)
LEMMA QuietStep ==
    ASSUME IInv, NEW j \in Jobs, NEW s, RunOK(s), Goes(j, s),
           UNCHANGED <<name, meta, blob, console, tries, staged, published>>,
           signed \subseteq signed', signed' \subseteq Uploads,
           j \in staged, run[j] # "poisoned", s # "uploaded", s = "ready" => Vouched(j)'
    PROVE  IInv'
<1> USE DEF IInv
<1>1. TypeOK'
  BY GoesType DEF TypeOK
<1>2. Stages'
  BY GoesType DEF Stages
<1>3. Streams'
  BY GoesType DEF Streams, Vouched
<1>4. StagedBlobs' /\ EncryptedBlobs'
  BY DEF StagedBlobs, EncryptedBlobs, IsOf
<1>5. LostOnlyIfOverlapped'
  BY DEF LostOnlyIfOverlapped, IsStaged, Overlapped
<1>6. PublishedIsVouchedFor' /\ SuccessIsOwnUnlessShared'
  BY DEF PublishedIsVouchedFor, SuccessIsOwnUnlessShared
<1> QED
  BY <1>1, <1>2, <1>3, <1>4, <1>5, <1>6

(* Notice, Start, Sign and Validate are such steps.                        *)
LEMMA BeforeUpload ==
    ASSUME IInv, NEW j \in Jobs, Notice(j) \/ Start(j) \/ Sign(j) \/ Validate(j)
    PROVE  IInv'
<1> USE RunStates
<1>1. UNCHANGED <<name, meta, blob, console, tries, staged, published>>
  BY Zenon DEF Notice, Start, Sign, Validate, history
<1>2. signed \subseteq signed' /\ signed' \subseteq Uploads
  <2>1. signed \subseteq Uploads
    BY DEF IInv, TypeOK
  <2>2. CASE UNCHANGED signed
    BY <2>1, <2>2
  <2>3. CASE Sign(j)
    BY <2>1, <2>3 DEF Sign
  <2> QED
    BY <2>2, <2>3, Zenon DEF Notice, Start, Validate, history
<1>3. j \in staged
  <2>1. CASE run[j] # "none"
    BY <2>1 DEF IInv, Stages
  <2>2. CASE run[j] = "none"
    <3>1. IsStaged(j) /\ name[j] \in Names
      BY <2>2 DEF Notice, Start, Sign, Validate, IsStaged, IInv, TypeOK
    <3>2. j \in staged
      BY <3>1 DEF IInv, StagedBlobs, IsStaged
    <3> QED
      BY <3>2
  <2> QED
    BY <2>1, <2>2
<1>4. \E s : RunOK(s) /\ Goes(j, s) /\ s # "uploaded" /\ (s = "ready" => Vouched(j)')
  <2>1. CASE Notice(j) \/ Start(j)
    <3>1. Goes(j, "noticed") \/ Goes(j, "open") \/ Goes(j, "skipped")
      BY <2>1, Zenon DEF Notice, Start
    <3> QED
      BY <3>1
  <2>2. CASE Sign(j)
    <3>1. (Goes(j, "ready") /\ j \in signed') \/ Goes(j, "failed")
      BY <2>2 DEF Sign
    <3> QED
      BY <3>1 DEF Vouched
  <2>3. CASE Validate(j)
    <3>1. Goes(j, "refused") \/ Goes(j, "failed")
            \/ (Goes(j, "ready") /\ j \in Views /\ meta[j] = "valid")
      BY <2>3, Zenon DEF Validate
    <3> QED
      BY <1>1, <3>1 DEF Vouched
  <2> QED
    BY <2>1, <2>2, <2>3
<1>5. run[j] # "poisoned"
  BY DEF Notice, Start, Sign, Validate
<1> QED
  BY <1>1, <1>2, <1>3, <1>4, <1>5, QuietStep

LEMMA UploadStreamInv ==
    ASSUME IInv, NEW j \in Jobs, UploadStream(j)
    PROVE  IInv'
<1>1. /\ run[j] = "ready" /\ j \in staged /\ name[j] \in Names /\ Vouched(j)
      /\ UNCHANGED <<name, meta, console, tries, staged, signed>>
  BY DEF UploadStream, IInv, Stages, Streams
<1>2. CASE Publish(j)
  <2>1. (Goes(j, "uploaded") \/ Goes(j, "failed")) /\ published' = published \cup {j}
    BY <1>2, Zenon DEF UploadStream, Publish
  <2>2. PICK s : Goes(j, s) /\ RunOK(s) /\ s # "ready"
    BY <2>1, RunStates
  <2>3. Write(Target(j), name[j], j)
    BY <1>2 DEF Publish
  <2>4. TypeOK'
    BY <1>1, <2>1, <2>2, <2>3, GoesType, WriteType, ContainersOfJobs DEF IInv, TypeOK
  <2>5. Stages'
    BY <1>1, <2>1, <2>2, GoesType DEF IInv, Stages
  <2>6. Streams'
    BY <1>1, <2>1, <2>2, GoesType DEF IInv, Streams, Vouched
  <2>7. \A k \in Jobs, n \in Names : blob'[Source(k)][n] = blob[Source(k)][n]
    <3> SUFFICES ASSUME NEW k \in Jobs, NEW n \in Names
                 PROVE  blob'[Source(k)][n] = blob[Source(k)][n]
      OBVIOUS
    <3>1. Source(k) \in Containers /\ Target(j) \in Containers /\ Source(k) # Target(j)
      BY DEF Source, Target, Containers
    <3> QED
      BY <3>1, <1>1, <2>3, WriteType DEF IInv
  <2>8. StagedBlobs'
    BY <1>1, <2>7 DEF IInv, StagedBlobs
  <2>9. EncryptedBlobs'
    <3> SUFFICES ASSUME NEW n \in Names
                 PROVE  IsOf(blob["encrypted-content"][n], n)'
      BY DEF EncryptedBlobs
    <3>1. CASE Target(j) = "encrypted-content" /\ n = name[j]
      <4>1. blob'["encrypted-content"][n] = j /\ j \in Uploads
        BY <3>1, <1>1, <2>3, WriteType, ContainersOfJobs DEF IInv, Target
      <4> QED
        BY <4>1, <3>1, <1>1, <2>1 DEF IsOf
    <3>2. CASE ~(Target(j) = "encrypted-content" /\ n = name[j])
      <4>1. blob'["encrypted-content"][n] = blob["encrypted-content"][n]
        BY <3>2, <1>1, <2>3, WriteType, ContainersOfJobs DEF IInv, Containers
      <4> QED
        BY <4>1, <1>1, <2>1 DEF IInv, EncryptedBlobs, IsOf
    <3> QED
      BY <3>1, <3>2
  <2>10. LostOnlyIfOverlapped'
    BY <1>1, <2>1, <2>7 DEF IInv, Stages, LostOnlyIfOverlapped, IsStaged, Overlapped, TypeOK
  <2>11. PublishedIsVouchedFor'
    BY <1>1, <2>1 DEF IInv, PublishedIsVouchedFor, Vouched
  <2>12. SuccessIsOwnUnlessShared'
    BY <1>1, <2>1 DEF IInv, SuccessIsOwnUnlessShared
  <2> QED
    BY <2>4, <2>5, <2>6, <2>8, <2>9, <2>10, <2>11, <2>12 DEF IInv
<1>3. CASE ~Publish(j)
  <2>1. Goes(j, "failed") /\ UNCHANGED <<blob, published>>
    BY <1>3, Zenon DEF UploadStream
  <2>2. signed \subseteq Uploads
    BY DEF IInv, TypeOK
  <2> QED
    BY <1>1, <2>1, <2>2, RunStates, QuietStep
<1> QED
  BY <1>2, <1>3

LEMMA PurgeBlobInv ==
    ASSUME IInv, NEW j \in Jobs, PurgeBlob(j)
    PROVE  IInv'
<1>1. /\ run[j] = "uploaded" /\ j \in staged /\ name[j] \in Names /\ j \in published
      /\ UNCHANGED <<name, meta, console, tries, staged, signed, published>>
  BY DEF PurgeBlob, history, IInv, Stages
<1>2. CASE Write(Source(j), name[j], None)
  <2>1. Goes(j, "purged") \/ Goes(j, "failed")
    BY Zenon DEF PurgeBlob
  <2>2. PICK s : Goes(j, s) /\ RunOK(s) /\ s # "ready" /\ s # "uploaded"
    BY <2>1, RunStates
  <2>3. /\ Source(j) \in Containers
        /\ blob' \in [Containers -> [Names -> Jobs \cup {None}]]
        /\ blob'[Source(j)][name[j]] = None
        /\ \A d \in Containers, m \in Names :
              d # Source(j) \/ m # name[j] => blob'[d][m] = blob[d][m]
    BY <1>1, <1>2, WriteType, ContainersOfJobs DEF IInv
  <2>4. TypeOK'
    BY <1>1, <2>2, <2>3, GoesType DEF IInv, TypeOK
  <2>5. Stages'
    BY <1>1, <2>2, GoesType DEF IInv, Stages
  <2>6. Streams'
    BY <1>1, <2>2, GoesType DEF IInv, Streams, Vouched
  <2>7. \A k \in Jobs, n \in Names :
           blob'[Source(k)][n] = blob[Source(k)][n] \/ blob'[Source(k)][n] = None
    BY <2>3, ContainersOfJobs
  <2>8. StagedBlobs'
    BY <1>1, <2>7, EnclaveAssumption DEF IInv, StagedBlobs
  <2>9. EncryptedBlobs'
    BY <1>1, <2>3, EnclaveAssumption DEF IInv, EncryptedBlobs, IsOf, Source, Containers
  <2>10. LostOnlyIfOverlapped'
    <3> SUFFICES ASSUME NEW k \in staged
                 PROVE  (IsStaged(k) \/ k \in published \/ Overlapped(k))'
      BY <1>1 DEF LostOnlyIfOverlapped
    <3>1. IsStaged(k) \/ k \in published \/ Overlapped(k)
      BY DEF IInv, LostOnlyIfOverlapped
    <3>2. CASE k \in published \/ Overlapped(k)
      BY <1>1, <3>2 DEF Overlapped
    <3>3. CASE IsStaged(k) /\ k \notin published
      <4>1. k \in Jobs /\ name[k] \in Names /\ k # j
        BY <1>1, <3>3 DEF IInv, Stages, TypeOK
      <4>2. CASE Source(k) = Source(j) /\ name[k] = name[j]
        BY <1>1, <4>1, <4>2 DEF Overlapped
      <4>3. CASE Source(k) # Source(j) \/ name[k] # name[j]
        <5>1. blob'[Source(k)][name[k]] = blob[Source(k)][name[k]]
          BY <2>3, <4>1, <4>3, ContainersOfJobs
        <5> QED
          BY <1>1, <3>3, <5>1 DEF IsStaged
      <4> QED
        BY <4>2, <4>3
    <3> QED
      BY <3>1, <3>2, <3>3
  <2>11. PublishedIsVouchedFor' /\ SuccessIsOwnUnlessShared'
    BY <1>1 DEF IInv, PublishedIsVouchedFor, SuccessIsOwnUnlessShared
  <2> QED
    BY <2>4, <2>5, <2>6, <2>8, <2>9, <2>10, <2>11 DEF IInv
<1>3. CASE ~Write(Source(j), name[j], None)
  <2>1. Goes(j, "failed") /\ UNCHANGED blob
    BY <1>3, Zenon DEF PurgeBlob
  <2>2. signed \subseteq Uploads
    BY DEF IInv, TypeOK
  <2> QED
    BY <1>1, <2>1, <2>2, RunStates, QuietStep
<1> QED
  BY <1>2, <1>3

-----------------------------------------------------------------------------
(* A job that gets its name is staged, or never will be.                   *)
LEMMA NamedStep ==
    ASSUME IInv, NEW j \in Jobs, NEW n \in Names, name[j] = None,
           name' = [name EXCEPT ![j] = n],
           \/ Stage(j, n)
           \/ UNCHANGED <<blob, staged>>,
           UNCHANGED <<run, tries, signed, published>>,
           meta' \in [Views -> {"missing", "invalid", "valid"}],
           \A v \in Views : v # j => meta'[v] = meta[v],
           console' \in [Uploads -> {"none", "waiting", "succeeded", "failed"}],
           \A u \in Uploads : u # j => console'[u] = console[u],
           j \in Uploads => console'[j] \in {"waiting", "failed"}
    PROVE  IInv'
<1>1. j \notin staged /\ j \notin published /\ run[j] = "none"
  BY EnclaveAssumption DEF IInv, Stages
<1>2. name' \in [Jobs -> Names \cup {None}] /\ name'[j] = n
  BY DEF IInv, TypeOK
<1>3. \A k \in staged : k # j /\ k \in Jobs /\ name'[k] = name[k] /\ name[k] \in Names
  BY <1>1, <1>2 DEF IInv, TypeOK, Stages
<1>4. staged \subseteq staged' /\ staged' \subseteq staged \cup {j}
  BY Zenon DEF Stage
<1>5. /\ blob' \in [Containers -> [Names -> Jobs \cup {None}]]
      /\ \A c \in Containers, m \in Names :
            blob'[c][m] = blob[c][m]
              \/ (c = Source(j) /\ m = n /\ blob'[c][m] = j /\ j \in staged')
  <2>1. CASE Stage(j, n)
    BY <2>1, WriteType, ContainersOfJobs DEF IInv, Stage
  <2>2. CASE UNCHANGED <<blob, staged>>
    BY <2>2 DEF IInv, TypeOK
  <2> QED
    BY <2>1, <2>2
<1>6. TypeOK'
  BY <1>2, <1>4, <1>5 DEF IInv, TypeOK
<1>7. Stages'
  <2>1. \A u \in Uploads : console'[u] = "none" <=> name'[u] = None
    <3> SUFFICES ASSUME NEW u \in Uploads
                 PROVE  console'[u] = "none" <=> name'[u] = None
      OBVIOUS
    <3>1. CASE u = j
      BY <1>2, <3>1, EnclaveAssumption
    <3>2. CASE u # j
      BY <3>2 DEF IInv, Stages, TypeOK, Jobs
    <3> QED
      BY <3>1, <3>2
  <2>2. \A k \in staged' : name'[k] \in Names
    BY <1>2, <1>3, <1>4
  <2> QED
    BY <1>1, <1>4, <2>1, <2>2 DEF IInv, Stages
<1>8. Streams'
  BY <1>1 DEF IInv, Streams, Vouched
<1>9. StagedBlobs'
  BY <1>4, <1>5, ContainersOfJobs, EnclaveAssumption DEF IInv, StagedBlobs
<1>10. EncryptedBlobs'
  <2>1. "encrypted-content" \in Containers /\ Source(j) # "encrypted-content"
    BY DEF Containers, Source
  <2>2. \A m \in Names : blob'["encrypted-content"][m] = blob["encrypted-content"][m]
    BY <1>5, <2>1
  <2>3. \A m \in Names, k \in published : IsOf(k, m) => IsOf(k, m)'
    BY <1>3 DEF IInv, Stages, IsOf
  <2> QED
    BY <2>2, <2>3 DEF IInv, EncryptedBlobs, IsOf
<1>11. LostOnlyIfOverlapped'
  <2> SUFFICES ASSUME NEW k \in staged'
               PROVE  (IsStaged(k) \/ k \in published \/ Overlapped(k))'
    BY DEF LostOnlyIfOverlapped
  <2>1. CASE k = j
    <3>1. Stage(j, n)
      BY <1>1, <2>1
    <3>2. blob'[Source(j)][n] = j
      BY <3>1, WriteType, ContainersOfJobs DEF Stage, IInv
    <3> QED
      BY <1>2, <2>1, <3>2, EnclaveAssumption DEF IsStaged
  <2>2. CASE k # j
    <3>1. k \in staged /\ name'[k] = name[k] /\ name[k] \in Names /\ k \in Jobs
      BY <1>3, <1>4, <2>2
    <3>2. IsStaged(k) \/ k \in published \/ Overlapped(k)
      BY <3>1 DEF IInv, LostOnlyIfOverlapped
    <3>3. CASE k \in published
      BY <3>3
    <3>4. CASE Overlapped(k)
      BY <1>3, <1>4, <3>1, <3>4 DEF Overlapped
    <3>5. CASE IsStaged(k)
      <4>1. \/ blob'[Source(k)][name[k]] = k
            \/ Source(k) = Source(j) /\ name[k] = n /\ j \in staged'
        BY <1>5, <3>1, <3>5, ContainersOfJobs DEF IsStaged
      <4>2. CASE blob'[Source(k)][name[k]] = k
        BY <3>1, <4>2, EnclaveAssumption DEF IsStaged
      <4>3. CASE Source(k) = Source(j) /\ name[k] = n /\ j \in staged'
        BY <1>2, <2>2, <3>1, <4>3 DEF Overlapped
      <4> QED
        BY <4>1, <4>2, <4>3
    <3> QED
      BY <3>2, <3>3, <3>4, <3>5
  <2> QED
    BY <2>1, <2>2
<1>12. PublishedIsVouchedFor'
  BY <1>1 DEF IInv, PublishedIsVouchedFor
<1>13. SuccessIsOwnUnlessShared'
  <2> SUFFICES ASSUME NEW u \in Uploads, console'[u] = "succeeded", u \notin published
               PROVE  \E k \in (published \cap Uploads) \ {u} : name'[k] = Base[name'[u]]
    BY DEF SuccessIsOwnUnlessShared
  <2>1. u # j /\ console[u] = "succeeded" /\ name'[u] = name[u]
    BY DEF IInv, TypeOK, Jobs
  <2>2. PICK k \in (published \cap Uploads) \ {u} : name[k] = Base[name[u]]
    BY <2>1 DEF IInv, SuccessIsOwnUnlessShared
  <2>3. name'[k] = name[k]
    BY <1>3, <2>2 DEF IInv, Stages
  <2> QED
    BY <2>1, <2>2, <2>3
<1> QED
  BY <1>6, <1>7, <1>8, <1>9, <1>10, <1>11, <1>12, <1>13 DEF IInv

LEMMA UploadFileInv ==
    ASSUME IInv, NEW u \in Uploads, NEW n \in Names, UploadFile(u, n)
    PROVE  IInv'
<1>1. u \in Jobs /\ u \notin Views /\ name[u] = None
  BY EnclaveAssumption DEF Jobs, UploadFile, IInv, Stages
<1>2. console' = [console EXCEPT ![u] = "waiting"] \/ console' = [console EXCEPT ![u] = "failed"]
  BY Zenon DEF UploadFile
<1>3. /\ console' \in [Uploads -> {"none", "waiting", "succeeded", "failed"}]
      /\ \A w \in Uploads : w # u => console'[w] = console[w]
      /\ console'[u] \in {"waiting", "failed"}
  BY <1>2 DEF IInv, TypeOK
<1>4. meta' = meta /\ meta \in [Views -> {"missing", "invalid", "valid"}]
  BY DEF UploadFile, IInv, TypeOK
<1>5. Stage(u, n) \/ UNCHANGED <<blob, staged>>
  BY Zenon DEF UploadFile
<1>6. name' = [name EXCEPT ![u] = n] /\ UNCHANGED <<run, tries, signed, published>>
  BY Zenon DEF UploadFile
<1> QED
  BY <1>1, <1>3, <1>4, <1>5, <1>6, NamedStep

LEMMA StageViewInv ==
    ASSUME IInv, NEW v \in Views, NEW n \in Names,
           NEW m \in {"missing", "invalid", "valid"}, StageView(v, n, m)
    PROVE  IInv'
<1>1. v \in Jobs /\ v \notin Uploads
  BY EnclaveAssumption DEF Jobs
<1>2. /\ meta' \in [Views -> {"missing", "invalid", "valid"}]
      /\ \A w \in Views : w # v => meta'[w] = meta[w]
  BY DEF StageView, IInv, TypeOK
<1>3. console' = console /\ console \in [Uploads -> {"none", "waiting", "succeeded", "failed"}]
  BY DEF StageView, IInv, TypeOK
<1>4. /\ name[v] = None /\ name' = [name EXCEPT ![v] = n] /\ Stage(v, n)
      /\ UNCHANGED <<run, tries, signed, published>>
  BY Zenon DEF StageView
<1> QED
  BY <1>1, <1>2, <1>3, <1>4, NamedStep

LEMMA PollInv ==
    ASSUME IInv, NEW u \in Uploads, Poll(u) \/ PollFails(u)
    PROVE  IInv'
<1>1. console[u] = "waiting" /\ UNCHANGED <<name, meta, blob, run, tries, history>>
  BY Zenon DEF Poll, PollFails
<1>2. console' = [console EXCEPT ![u] = "succeeded"] \/ console' = [console EXCEPT ![u] = "failed"]
  BY Zenon DEF Poll, PollFails
<1>3. TypeOK'
  BY <1>1, <1>2 DEF IInv, TypeOK, history
<1>4. Stages'
  BY <1>1, <1>2 DEF IInv, TypeOK, Stages, history
<1>5. Streams' /\ StagedBlobs' /\ EncryptedBlobs'
  BY <1>1 DEF IInv, Streams, Vouched, StagedBlobs, EncryptedBlobs, IsOf, history
<1>6. LostOnlyIfOverlapped' /\ PublishedIsVouchedFor'
  BY <1>1 DEF IInv, LostOnlyIfOverlapped, IsStaged, Overlapped, PublishedIsVouchedFor, history
<1>7. SuccessIsOwnUnlessShared'
  <2> SUFFICES ASSUME NEW w \in Uploads, console'[w] = "succeeded", w \notin published
               PROVE  \E k \in (published \cap Uploads) \ {w} : name[k] = Base[name[w]]
    BY <1>1 DEF SuccessIsOwnUnlessShared, history
  <2>1. CASE w # u
    BY <1>2, <2>1 DEF IInv, TypeOK, SuccessIsOwnUnlessShared
  <2>2. CASE w = u
    <3>1. Poll(u)
      BY <1>2, <2>2 DEF Poll, PollFails, IInv, TypeOK
    <3>2. CASE name[u] \in Names
      <4>1. Base[name[u]] \in Names
        BY <3>2, EnclaveAssumption
      <4>2. blob["encrypted-content"][Base[name[u]]] # None
        BY <3>1 DEF Poll, FileExists
      <4>3. PICK k \in published \cap Uploads : name[k] = Base[name[u]]
        BY <4>1, <4>2 DEF IInv, EncryptedBlobs, IsOf
      <4> QED
        BY <2>2, <4>3
    <3>3. CASE name[u] \notin Names
      <4>1. u \in Jobs /\ name[u] = None
        BY <3>3 DEF IInv, TypeOK, Jobs
      <4> QED
        BY <1>1, <4>1 DEF IInv, Stages
    <3> QED
      BY <3>2, <3>3
  <2> QED
    BY <2>1, <2>2
<1> QED
  BY <1>3, <1>4, <1>5, <1>6, <1>7 DEF IInv

LEMMA CrashInv == IInv /\ Crash => IInv'
<1> SUFFICES ASSUME IInv, Crash PROVE IInv'
  OBVIOUS
<1>1. /\ DOMAIN run' = Jobs
      /\ \A j \in Jobs : run'[j] = run[j] \/ run'[j] = "noticed" \/ run'[j] = "poisoned"
      /\ \A j \in Jobs : run'[j] # run[j] => IsRunning(run[j])
      /\ UNCHANGED <<name, meta, blob, console, history>>
  BY DEF Crash
<1>2. \A j \in Jobs : run'[j] # "none" => run[j] # "none"
  BY <1>1 DEF IsRunning
<1>3. TypeOK'
  <2>1. \A j \in Jobs : RunOK(run'[j])
    BY <1>1, RunStates DEF IInv, TypeOK
  <2>2. tries' \in [Jobs -> 0..MaxTries]
    <3>1. \A j \in Jobs : IsRunning(run[j]) => tries[j] < MaxTries
      BY DEF IInv, Stages, IsRunning
    <3>2. \A j \in Jobs : tries[j] \in 0..MaxTries
      BY DEF IInv, TypeOK
    <3> QED
      BY <3>1, <3>2, EnclaveAssumption DEF Crash
  <2> QED
    BY <1>1, <2>1, <2>2 DEF IInv, TypeOK, history
<1>4. Stages'
  <2>1. \A j \in Jobs : run'[j] # "poisoned" => tries'[j] < MaxTries
    <3> SUFFICES ASSUME NEW j \in Jobs, run'[j] # "poisoned"
                 PROVE  tries'[j] < MaxTries
      OBVIOUS
    <3>1. CASE IsRunning(run[j])
      BY <3>1 DEF Crash
    <3>2. CASE ~IsRunning(run[j])
      BY <3>2 DEF Crash, IInv, Stages
    <3> QED
      BY <3>1, <3>2
  <2> QED
    BY <1>1, <1>2, <2>1 DEF IInv, Stages, history
<1>5. Streams' /\ StagedBlobs' /\ EncryptedBlobs'
  BY <1>1 DEF IInv, Streams, Vouched, StagedBlobs, EncryptedBlobs, IsOf, history
<1>6. LostOnlyIfOverlapped' /\ PublishedIsVouchedFor' /\ SuccessIsOwnUnlessShared'
  BY <1>1 DEF IInv, LostOnlyIfOverlapped, IsStaged, Overlapped, PublishedIsVouchedFor,
              SuccessIsOwnUnlessShared, history
<1> QED
  BY <1>3, <1>4, <1>5, <1>6 DEF IInv

(* The disjuncts of Next, by what they are about.                          *)
ConsoleStep == \E u \in Uploads : Poll(u) \/ PollFails(u) \/ \E n \in Names : UploadFile(u, n)
ViewStep == \E v \in Views, n \in Names, m \in {"missing", "invalid", "valid"} : StageView(v, n, m)

LEMMA Steps ==
    ASSUME Next
    PROVE  ConsoleStep \/ ViewStep \/ (\E j \in Jobs : RunStep(j)) \/ Crash
BY DEF Next, ConsoleStep, ViewStep, RunStep

(* Every step of the enclave keeps the invariant.                           *)
LEMMA NextInv == IInv /\ [Next]_vars => IInv'
<1> SUFFICES ASSUME IInv, [Next]_vars PROVE IInv'
  OBVIOUS
<1>1. CASE ConsoleStep
  BY <1>1, PollInv, UploadFileInv DEF ConsoleStep
<1>2. CASE ViewStep
  BY <1>2, StageViewInv DEF ViewStep
<1>3. CASE \E j \in Jobs : RunStep(j)
  BY <1>3, BeforeUpload, UploadStreamInv, PurgeBlobInv DEF RunStep, Function
<1>4. CASE Crash
  BY <1>4, CrashInv
<1>5. CASE UNCHANGED vars
  <2> USE <1>5 DEF vars, history, IInv
  <2>1. TypeOK' /\ Stages' /\ Streams'
    BY DEF TypeOK, Stages, Streams, Vouched
  <2>2. StagedBlobs' /\ EncryptedBlobs'
    BY DEF StagedBlobs, EncryptedBlobs, IsOf
  <2>3. LostOnlyIfOverlapped'
    BY DEF LostOnlyIfOverlapped, IsStaged, Overlapped
  <2>4. PublishedIsVouchedFor' /\ SuccessIsOwnUnlessShared'
    BY DEF PublishedIsVouchedFor, SuccessIsOwnUnlessShared
  <2> QED
    BY <2>1, <2>2, <2>3, <2>4
<1> QED
  BY <1>1, <1>2, <1>3, <1>4, <1>5, Steps

LEMMA Always == Spec => []IInv
BY InitInv, NextInv, PTL DEF Spec

-----------------------------------------------------------------------------
(* Every name, blob and run has its type (Enclave.tla), and no message is  *)
(* delivered more often than the trigger allows.                           *)
THEOREM TypeCorrect == Spec => []TypeOK
BY Always, PTL DEF IInv

(* A staged content that is gone was encrypted, unless two were staged     *)
(* under one name (EncryptOriginalContentFunction.cs:49-52).               *)
THEOREM LostOnlyByOverlap == Spec => []LostOnlyIfOverlapped
BY Always, PTL DEF IInv

(* Nothing is encrypted without a signature, or with an invalid one        *)
(* (EncryptionService.cs:47-122).                                          *)
THEOREM PublishedVouchedFor == Spec => []PublishedIsVouchedFor
BY Always, PTL DEF IInv

(* A console reports the success of its own upload, or of one that has its *)
(* file name (Program.cs:69-82).                                           *)
THEOREM SuccessIsOwn == Spec => []SuccessIsOwnUnlessShared
BY Always, PTL DEF IInv

-----------------------------------------------------------------------------
(* Why a run ends: what of StagedIsHandled needs no fairness.              *)

Rank(state) ==
    CASE state = "none" -> 5 [] state = "noticed" -> 4 [] state = "open" -> 3
      [] state = "ready" -> 2 [] state = "uploaded" -> 1
      [] OTHER -> 0

(* What is left to do for a job; a delivery that crashes is used up.       *)
Left(j) == 5 * (MaxTries - tries[j]) + Rank(run[j])

(* Whatever happens to a run brings its end nearer.                        *)
RunsForward ==
    \A j \in Jobs : (run'[j] = run[j] /\ tries'[j] = tries[j]) \/ Left(j)' < Left(j)

(* A run that has ended is over, and a blob that was replaced before the   *)
(* trigger saw it is never processed.                                      *)
Handled(j) == j \in staged /\ (HasEnded(run[j]) \/ (run[j] = "none" /\ ~IsStaged(j)))

HandledStays == \A j \in Jobs : Handled(j) => Handled(j)' /\ run'[j] = run[j]

RunsEnd == [][RunsForward /\ HandledStays]_vars

LEMMA RunStepForward ==
    ASSUME TypeOK, NEW j \in Jobs, RunStep(j)
    PROVE  /\ tries' = tries /\ \A k \in Jobs : k # j => run'[k] = run[k]
           /\ \/ run[j] = "none" /\ run'[j] = "noticed" /\ IsStaged(j)
              \/ run[j] = "noticed" /\ run'[j] \in {"open", "skipped"}
              \/ run[j] = "open" /\ run'[j] \in {"ready", "failed", "refused"}
              \/ run[j] = "ready" /\ run'[j] \in {"uploaded", "failed"}
              \/ run[j] = "uploaded" /\ run'[j] \in {"purged", "failed"}
<1>1. \A s : Goes(j, s) => run'[j] = s /\ \A k \in Jobs : k # j => run'[k] = run[k]
  BY DEF Goes, TypeOK
<1>2. tries' = tries
  BY RunStepOutcome
<1>3. CASE Notice(j)
  BY <1>1, <1>2, <1>3 DEF Notice
<1>4. CASE Start(j)
  <2>1. run[j] = "noticed" /\ (Goes(j, "open") \/ Goes(j, "skipped"))
    BY <1>4, Zenon DEF Start
  <2> QED
    BY <1>1, <1>2, <2>1
<1>5. CASE Sign(j)
  <2>1. run[j] = "open" /\ (Goes(j, "ready") \/ Goes(j, "failed"))
    BY <1>5, Zenon DEF Sign
  <2> QED
    BY <1>1, <1>2, <2>1
<1>6. CASE Validate(j)
  <2>1. run[j] = "open" /\ (Goes(j, "refused") \/ Goes(j, "failed") \/ Goes(j, "ready"))
    BY <1>6, Zenon DEF Validate
  <2> QED
    BY <1>1, <1>2, <2>1
<1>7. CASE UploadStream(j)
  <2>1. run[j] = "ready" /\ (Goes(j, "uploaded") \/ Goes(j, "failed"))
    BY <1>7, Zenon DEF UploadStream
  <2> QED
    BY <1>1, <1>2, <2>1
<1>8. CASE PurgeBlob(j)
  <2>1. run[j] = "uploaded" /\ (Goes(j, "purged") \/ Goes(j, "failed"))
    BY <1>8, Zenon DEF PurgeBlob
  <2> QED
    BY <1>1, <1>2, <2>1
<1> QED
  BY <1>3, <1>4, <1>5, <1>6, <1>7, <1>8 DEF RunStep, Function

(* Steps of a console or a viewer leave all runs alone.                    *)
LEMMA OthersLeaveRuns ==
    ASSUME ConsoleStep \/ ViewStep \/ UNCHANGED vars
    PROVE  run' = run /\ tries' = tries
  BY DEF ConsoleStep, ViewStep, Poll, PollFails, UploadFile, StageView, vars

LEMMA ForwardStep == IInv /\ [Next]_vars => RunsForward
<1> SUFFICES ASSUME IInv, [Next]_vars PROVE RunsForward
  OBVIOUS
<1>0. MaxTries \in Nat /\ \A j \in Jobs : tries[j] \in 0..MaxTries
  BY EnclaveAssumption DEF IInv, TypeOK
<1>1. ASSUME NEW j \in Jobs, RunStep(j) PROVE RunsForward
  <2>1. Left(j)' < Left(j)
    BY <1>0, <1>1, RunStepForward DEF IInv, Left, Rank
  <2> QED
    BY <1>1, <2>1, RunStepForward DEF IInv, RunsForward
<1>2. CASE Crash
  <2> SUFFICES ASSUME NEW j \in Jobs, IsRunning(run[j]) PROVE Left(j)' < Left(j)
    BY <1>2 DEF Crash, RunsForward
  <2>1. tries'[j] = tries[j] + 1 /\ run'[j] \in {"noticed", "poisoned"}
    BY <1>2 DEF Crash
  <2>2. tries[j] < MaxTries
    BY DEF IInv, Stages, IsRunning
  <2> QED
    BY <1>0, <2>1, <2>2 DEF Left, Rank, IsRunning
<1>3. CASE ConsoleStep \/ ViewStep \/ UNCHANGED vars
  BY <1>3, OthersLeaveRuns DEF RunsForward
<1> QED
  BY <1>1, <1>2, <1>3, Steps

(* Only staging a job puts it among the blobs to be processed.             *)
LEMMA StagedOnce ==
    ASSUME IInv, [Next]_vars, NEW k \in staged, ~IsStaged(k)
    PROVE  ~IsStaged(k)' /\ k \in staged'
<1>0. k \in Jobs /\ name[k] \in Names /\ name[k] # None /\ Source(k) \in Containers
  BY EnclaveAssumption, ContainersOfJobs DEF IInv, Stages, TypeOK
<1>1. blob[Source(k)][name[k]] # k
  BY <1>0 DEF IsStaged
<1>2. ASSUME name'[k] = name[k], staged \subseteq staged', blob' = blob
      PROVE  ~IsStaged(k)' /\ k \in staged'
  BY <1>1, <1>2 DEF IsStaged
<1>3. ASSUME NEW j \in Jobs \cup {None}, j # k, NEW c \in Containers, NEW n \in Names,
             Write(c, n, j), name'[k] = name[k], staged \subseteq staged'
      PROVE  ~IsStaged(k)' /\ k \in staged'
  BY <1>0, <1>1, <1>3, WriteType DEF IInv, IsStaged
<1>4. ASSUME NEW j \in Jobs, NEW n \in Names, name[j] = None,
             name' = [name EXCEPT ![j] = n], Stage(j, n) \/ UNCHANGED <<blob, staged>>
      PROVE  ~IsStaged(k)' /\ k \in staged'
  <2>1. j # k /\ name'[k] = name[k] /\ Source(j) \in Containers
    BY <1>0, <1>4, ContainersOfJobs
  <2>2. CASE Stage(j, n)
    BY <1>3, <2>1, <2>2 DEF Stage
  <2>3. CASE UNCHANGED <<blob, staged>>
    BY <1>2, <2>1, <2>3
  <2> QED
    BY <1>4, <2>2, <2>3
<1>5. ASSUME NEW u \in Uploads, NEW n \in Names, UploadFile(u, n)
      PROVE  ~IsStaged(k)' /\ k \in staged'
  <2>1. u \in Jobs /\ name[u] = None
    BY <1>5 DEF Jobs, UploadFile, IInv, Stages
  <2>2. name' = [name EXCEPT ![u] = n] /\ (Stage(u, n) \/ UNCHANGED <<blob, staged>>)
    BY <1>5, Zenon DEF UploadFile
  <2> QED
    BY <1>4, <2>1, <2>2
<1>6. ASSUME NEW v \in Views, NEW n \in Names,
             NEW m \in {"missing", "invalid", "valid"}, StageView(v, n, m)
      PROVE  ~IsStaged(k)' /\ k \in staged'
  BY <1>4, <1>6 DEF Jobs, StageView
<1>7. ASSUME NEW j \in Jobs, RunStep(j) PROVE ~IsStaged(k)' /\ k \in staged'
  <2>1. name' = name /\ staged' = staged
    BY <1>7, RunStepOutcome DEF IInv
  <2>2. \/ blob' = blob
        \/ run[j] = "ready" /\ Write(Target(j), name[j], j)
        \/ run[j] = "uploaded" /\ Write(Source(j), name[j], None)
    BY <1>7, Zenon DEF RunStep, Function, Notice, Start, Sign, Validate, UploadStream,
                       PurgeBlob, Publish
  <2>3. run[j] \in {"ready", "uploaded"} => name[j] \in Names
    BY DEF IInv, Stages
  <2>4. CASE run[j] = "ready" /\ Write(Target(j), name[j], j)
    <3>1. CASE j # k
      BY <1>3, <2>1, <2>3, <2>4, <3>1, ContainersOfJobs
    <3>2. CASE j = k
      <4>1. blob'[Source(k)][name[k]] = blob[Source(k)][name[k]]
        BY <1>0, <2>3, <2>4, <3>2, ContainersOfJobs, WriteType DEF IInv
      <4> QED
        BY <1>1, <2>1, <4>1 DEF IsStaged
    <3> QED
      BY <3>1, <3>2
  <2>5. CASE run[j] = "uploaded" /\ Write(Source(j), name[j], None)
    <3>1. None # k
      BY <1>0, EnclaveAssumption
    <3> QED
      BY <1>3, <2>1, <2>3, <2>5, <3>1, ContainersOfJobs
  <2> QED
    BY <1>2, <2>1, <2>2, <2>4, <2>5
<1>8. ASSUME blob' = blob, name' = name, staged' = staged
      PROVE  ~IsStaged(k)' /\ k \in staged'
  BY <1>2, <1>8
<1>9. CASE Crash \/ UNCHANGED vars
  BY <1>8, <1>9 DEF Crash, history, vars
<1>10. ASSUME NEW u \in Uploads, Poll(u) \/ PollFails(u)
       PROVE  ~IsStaged(k)' /\ k \in staged'
  BY <1>8, <1>10 DEF Poll, PollFails, history
<1> QED
  BY <1>5, <1>6, <1>7, <1>9, <1>10, Steps DEF ConsoleStep, ViewStep

LEMMA StagedGrows == IInv /\ [Next]_vars => staged \subseteq staged'
<1> SUFFICES ASSUME IInv, [Next]_vars PROVE staged \subseteq staged'
  OBVIOUS
<1>1. ASSUME NEW j \in Jobs, RunStep(j) PROVE staged' = staged
  BY <1>1, RunStepOutcome DEF IInv
<1>2. ASSUME ConsoleStep \/ ViewStep \/ Crash \/ UNCHANGED vars PROVE staged \subseteq staged'
  BY <1>2 DEF ConsoleStep, ViewStep, Poll, PollFails, UploadFile, StageView, Stage, Crash,
              history, vars
<1> QED
  BY <1>1, <1>2, Steps

LEMMA HandledStep == IInv /\ [Next]_vars => HandledStays
<1> SUFFICES ASSUME IInv, [Next]_vars, NEW k \in Jobs, Handled(k)
             PROVE  Handled(k)' /\ run'[k] = run[k]
  BY DEF HandledStays
<1>1. k \in staged' /\ (~IsStaged(k) => ~IsStaged(k)')
  BY StagedOnce, StagedGrows DEF Handled
<1>2. run'[k] = run[k]
  <2>1. ASSUME NEW j \in Jobs, RunStep(j) PROVE run'[k] = run[k]
    <3>1. j # k
      BY <2>1, RunStepForward DEF IInv, Handled, HasEnded
    <3> QED
      BY <2>1, <3>1, RunStepForward DEF IInv
  <2>2. CASE Crash
    BY <2>2 DEF Crash, Handled, HasEnded, IsRunning
  <2>3. CASE ConsoleStep \/ ViewStep \/ UNCHANGED vars
    BY <2>3, OthersLeaveRuns
  <2> QED
    BY <2>1, <2>2, <2>3, Steps
<1> QED
  BY <1>1, <1>2 DEF Handled

(* A run makes at most 5 * MaxTries + 5 steps, crashes included, and when  *)
(* it is over stays so: no content is processed a second time, and one     *)
(* that another replaced before the trigger saw it never is                *)
(* (EncryptOriginalContentFunction.cs:17, ReencryptContentFunction.cs:18). *)
THEOREM RunsAreBounded == Spec => RunsEnd
<1>1. IInv /\ [Next]_vars => [RunsForward /\ HandledStays]_vars
  BY ForwardStep, HandledStep
<1> QED
  BY <1>1, Always, PTL DEF Spec, RunsEnd
=============================================================================
