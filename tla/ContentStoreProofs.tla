------------------------- MODULE ContentStoreProofs -------------------------
(***************************************************************************)
(* Proofs about the content store, for any number of uploads, downloads    *)
(* and bucket keys.                                                        *)
(***************************************************************************)
EXTENDS ContentStore, TLAPS

(* An answer is a request's last step.                                     *)
AnswersEnd == \A r \in Requests : answer[r] # "none" => pc[r] = "done"

(* The buckets an upload knows are its own, of the right kind...           *)
KeysAreOwn ==
    \A u \in Uploads, f \in Phases : keys[u][f] # NoKey =>
        /\ buckets[keys[u][f]].of = u
        /\ buckets[keys[u][f]].private = (f = "original")

(* ...and every bucket is known to the upload that made it.                *)
BucketsAreKnown ==
    \A k \in Keys :
        LET b == buckets[k]
        IN  /\ b # NoBucket => b.of \in Uploads
            /\ b.of \in Uploads => keys[b.of][IF b.private THEN "original" ELSE "preview"] = k
            /\ b.private => b.holds # "preview"

(* What an upload has made agrees with where its goroutine stands.         *)
Stage(u) ==
    /\ pc[u] # "pull"
    /\ pc[u] = "idle" => phase[u] = "original" /\ keys[u]["original"] = NoKey
    /\ pc[u] \in Calling => input[u].length >= input[u].size
    /\ phase[u] = "original" => keys[u]["preview"] = NoKey
    /\ pc[u] = "bucket" => keys[u][phase[u]] = NoKey
    /\ pc[u] = "push" =>
          keys[u][phase[u]] # NoKey /\ buckets[keys[u][phase[u]]].holds = "nothing"
    /\ pc[u] = "links" \/ (pc[u] = "insert" /\ phase[u] = "preview") =>
          keys[u][phase[u]] # NoKey /\ buckets[keys[u][phase[u]]].holds # "nothing"
    /\ pc[u] = "preview" => phase[u] = "original"
    /\ pc[u] \in {"preview", "insert"} \/ phase[u] = "preview" =>
          keys[u]["original"] # NoKey /\ buckets[keys[u]["original"]].holds = "original"

(* The record an upload leaves.                                            *)
RecordOf(u) ==
    [bucketKey |-> keys[u]["original"], previewUrl |-> keys[u]["preview"],
     size |-> input[u].size]

RecordsHaveUpload ==
    \A c \in records : \E u \in Uploads : pc[u] = "done" /\ c = RecordOf(u)

AcceptedIsRecorded == \A u \in Uploads : answer[u] = "ok" => RecordOf(u) \in records

DownloadStage(d) ==
    /\ pc[d] = "pull" => found[d] \in records /\ Matches(found[d], input[d])
    /\ answer[d] = "ok" => served[d] \in Uploads

QueriesTellRecords == \A q \in Queries : results[q] \subseteq records

IInv ==
    /\ TypeOK
    /\ AnswersEnd
    /\ KeysAreOwn
    /\ BucketsAreKnown
    /\ \A u \in Uploads : Stage(u)
    /\ RecordsHaveUpload
    /\ RecordIsWhole
    /\ AcceptedIsRecorded
    /\ \A d \in Downloads : DownloadStage(d)
    /\ ServedAsAsked
    /\ QueriesTellRecords
    /\ OriginalsStayPrivate

-----------------------------------------------------------------------------
LEMMA InitInv == Init => IInv
<1> SUFFICES ASSUME Init PROVE IInv
  OBVIOUS
<1> USE RequestAssumption, KeyAssumption, LengthAssumption DEF Init
<1>1. TypeOK
  BY DEF TypeOK, Requests, UploadData, DownloadData, NoInput, Previews, Phases
<1>2. AnswersEnd /\ KeysAreOwn /\ BucketsAreKnown
  BY DEF AnswersEnd, KeysAreOwn, BucketsAreKnown, NoBucket, Requests
<1>3. \A u \in Uploads : Stage(u)
  BY DEF Stage, Calling, Phases, Requests
<1>4. RecordsHaveUpload /\ RecordIsWhole /\ AcceptedIsRecorded
  BY DEF RecordsHaveUpload, RecordIsWhole, AcceptedIsRecorded, Requests
<1>5. \A d \in Downloads : DownloadStage(d)
  BY DEF DownloadStage, Requests
<1>6. ServedAsAsked /\ QueriesTellRecords /\ OriginalsStayPrivate
  BY DEF ServedAsAsked, QueriesTellRecords, OriginalsStayPrivate, NoBucket, Requests
<1> QED
  BY <1>1, <1>2, <1>3, <1>4, <1>5, <1>6 DEF IInv

-----------------------------------------------------------------------------
(* A step of one goroutine, in the control state and the answers.          *)
LEMMA ControlType ==
  ASSUME TypeOK, NEW r \in Requests, NEW where \in {"idle", "done", "lost"} \cup Calling,
         Goto(r, where) \/ Answer(r, "error") \/ Answer(r, "ok")
  PROVE  /\ pc' \in [Requests -> {"idle", "done", "lost"} \cup Calling]
         /\ answer' \in [Requests -> {"none", "ok", "error"}]
  BY DEF TypeOK, Goto, Answer

LEMMA TypeNext == IInv /\ [Next]_vars => TypeOK'
<1> SUFFICES ASSUME IInv, [Next]_vars PROVE TypeOK'
  OBVIOUS
<1> USE RequestAssumption, KeyAssumption DEF Requests, IInv
<1>1. ASSUME NEW u \in Uploads, NEW data \in UploadData, ReceiveUpload(u, data) PROVE TypeOK'
  <2>1. Goto(u, "bucket") \/ Answer(u, "error")
    BY <1>1 DEF ReceiveUpload
  <2>2. "bucket" \in Calling
    BY DEF Calling
  <2> QED
    BY <1>1, <2>1, <2>2, ControlType DEF ReceiveUpload, TypeOK
<1>2. ASSUME NEW u \in Uploads, CreateBucket(u) PROVE TypeOK'
  <2>1. Goto(u, "push") \/ Answer(u, "error")
    BY <1>2 DEF CreateBucket, GoOnOrFail
  <2>2. "push" \in Calling
    BY DEF Calling
  <2>3. PICK k \in Keys :
          /\ buckets' = [buckets EXCEPT ![k] =
                [of |-> u, private |-> phase[u] = "original", holds |-> "nothing"]]
          /\ keys' = [keys EXCEPT ![u][phase[u]] = k]
    BY <1>2 DEF CreateBucket
  <2>4. keys' \in [Uploads -> [Phases -> Keys \cup {NoKey}]]
    BY <2>3 DEF TypeOK
  <2>5. [of |-> u, private |-> phase[u] = "original", holds |-> "nothing"] \in Bucket
    BY DEF Bucket
  <2>6. buckets' \in [Keys -> Bucket \cup {NoBucket}]
    BY <2>3, <2>5 DEF TypeOK
  <2> QED
    BY <1>2, <2>1, <2>2, <2>4, <2>6, ControlType DEF CreateBucket, TypeOK
<1>3. ASSUME NEW u \in Uploads, PushPath(u) PROVE TypeOK'
  <2>1. Goto(u, "links") \/ Answer(u, "error")
    BY <1>3 DEF PushPath, GoOnOrFail
  <2>2. "links" \in Calling
    BY DEF Calling
  <2>3. keys[u][phase[u]] \in Keys /\ buckets[keys[u][phase[u]]] \in Bucket
    <3>1. Stage(u) /\ phase[u] \in Phases /\ keys[u] \in [Phases -> Keys \cup {NoKey}]
      BY DEF TypeOK
    <3>2. keys[u][phase[u]] \in Keys
      BY <1>3, <3>1 DEF PushPath, Stage
    <3>3. buckets[keys[u][phase[u]]] # NoBucket
      BY <3>1, <3>2 DEF KeysAreOwn, NoBucket
    <3> QED
      BY <3>2, <3>3 DEF TypeOK
  <2>4. \A b \in Bucket, h \in {"nothing", "original", "preview"} : [b EXCEPT !.holds = h] \in Bucket
    BY DEF Bucket
  <2>5. buckets' \in [Keys -> Bucket \cup {NoBucket}]
    BY <1>3, <2>3, <2>4 DEF PushPath, TypeOK
  <2> QED
    BY <1>3, <2>1, <2>2, <2>5, ControlType DEF PushPath, TypeOK
<1>4. ASSUME NEW u \in Uploads, Links(u) PROVE TypeOK'
  <2>1. \E where \in Calling : Goto(u, where)
    BY <1>4 DEF Links, Calling
  <2> QED
    BY <1>4, <2>1, ControlType DEF Links, TypeOK
<1>5. ASSUME NEW u \in Uploads, GetPreviewFrom(u) PROVE TypeOK'
  <2>1. \E where \in Calling : Goto(u, where)
    BY <1>5 DEF GetPreviewFrom, Calling
  <2>2. phase' \in [Uploads -> Phases]
    BY <1>5 DEF GetPreviewFrom, TypeOK, Phases
  <2> QED
    BY <1>5, <2>1, <2>2, ControlType DEF GetPreviewFrom, TypeOK
<1>6. ASSUME NEW u \in Uploads, InsertToContentDB(u) PROVE TypeOK'
  <2>1. Stage(u) /\ pc[u] = "insert" /\ keys[u] \in [Phases -> Keys \cup {NoKey}]
    BY <1>6 DEF InsertToContentDB, TypeOK
  <2>2. RecordOf(u) \in ContentData
    BY <1>6, <2>1 DEF InsertToContentDB, Insertable, Stage, RecordOf, ContentData, Phases,
       TypeOK, UploadData
  <2> QED
    BY <1>6, <2>2, ControlType DEF InsertToContentDB, TypeOK, RecordOf
<1>7. ASSUME NEW q \in Queries, QueryWithJsonApiQuery(q) PROVE TypeOK'
  <2>1. Answer(q, "ok") \/ Answer(q, "error")
    BY <1>7 DEF QueryWithJsonApiQuery
  <2>2. results' \in [Queries -> SUBSET ContentData]
    BY <1>7 DEF QueryWithJsonApiQuery, TypeOK
  <2> QED
    BY <1>7, <2>1, <2>2, ControlType DEF QueryWithJsonApiQuery, TypeOK
<1>8. ASSUME NEW d \in Downloads, NEW data \in DownloadData, GetContentDataRecord(d, data)
      PROVE  TypeOK'
  <2>1. Goto(d, "pull") \/ Answer(d, "error")
    BY <1>8 DEF GetContentDataRecord
  <2>2. "pull" \in Calling
    BY DEF Calling
  <2>3. found' \in [Downloads -> ContentData \cup {NoRecord}]
    BY <1>8 DEF GetContentDataRecord, TypeOK
  <2> QED
    BY <1>8, <2>1, <2>2, <2>3, ControlType DEF GetContentDataRecord, TypeOK
<1>9. ASSUME NEW d \in Downloads, PullBytesFromBucket(d) PROVE TypeOK'
  <2>1. Answer(d, "ok") \/ Answer(d, "error")
    BY <1>9 DEF PullBytesFromBucket
  <2>2. served' \in [Downloads -> Uploads \cup {NoUpload}]
    <3>1. found[d].bucketKey \in Keys =>
            buckets[found[d].bucketKey].of \in Uploads \cup {NoUpload}
      BY DEF TypeOK, Bucket, NoBucket
    <3>2. found[d].bucketKey \in Keys
      BY <1>9 DEF PullBytesFromBucket, DownloadStage, TypeOK, ContentData
    <3> QED
      BY <1>9, <3>1, <3>2 DEF PullBytesFromBucket, TypeOK
  <2> QED
    BY <1>9, <2>1, <2>2, ControlType DEF PullBytesFromBucket, TypeOK
<1>10. ASSUME NEW r \in Requests, Unsupported(r) \/ CallFails(r) PROVE TypeOK'
  <2>1. Answer(r, "error")
    BY <1>10 DEF Unsupported, CallFails
  <2> QED
    BY <1>10, <2>1, ControlType DEF Unsupported, CallFails, TypeOK
<1>11. CASE ServerCrash
  BY <1>11 DEF ServerCrash, TypeOK
<1>12. CASE UNCHANGED vars
  BY <1>12 DEF vars, TypeOK
<1> QED
  BY <1>1, <1>2, <1>3, <1>4, <1>5, <1>6, <1>7, <1>8, <1>9, <1>10, <1>11, <1>12 DEF Next

-----------------------------------------------------------------------------
(* Nothing that was made is undone.                                        *)
Kept ==
    /\ \A k \in Keys : buckets[k] # NoBucket =>
          /\ buckets'[k].of = buckets[k].of
          /\ buckets'[k].private = buckets[k].private
          /\ buckets[k].holds # "nothing" => buckets'[k].holds = buckets[k].holds
    /\ \A r \in Requests : pc[r] = "done" => pc'[r] = "done" /\ answer'[r] = answer[r]
    /\ \A r \in Requests : pc[r] # "idle" => input'[r] = input[r]
    /\ \A u \in Uploads : pc[u] = "done" => keys'[u] = keys[u]
    /\ records \subseteq records'
    /\ \A q \in Queries : results'[q] = results[q] \/ results'[q] \subseteq records

LEMMA StepControl ==
  ASSUME TypeOK, NEW r \in Requests, NEW where, pc[r] # "done",
         Goto(r, where) \/ Answer(r, "error") \/ Answer(r, "ok")
  PROVE  \A s \in Requests : pc[s] = "done" => pc'[s] = "done" /\ answer'[s] = answer[s]
  BY DEF TypeOK, Goto, Answer

LEMMA NextKeeps == IInv /\ [Next]_vars => Kept
<1> SUFFICES ASSUME IInv, [Next]_vars PROVE Kept
  OBVIOUS
<1> USE RequestAssumption, KeyAssumption DEF Requests, IInv
<1>1. ASSUME NEW u \in Uploads, NEW data \in UploadData, ReceiveUpload(u, data) PROVE Kept
  <2>1. \A s \in Requests : pc[s] = "done" => pc'[s] = "done" /\ answer'[s] = answer[s]
    BY <1>1, StepControl DEF ReceiveUpload
  <2>2. \A r \in Requests : pc[r] # "idle" => input'[r] = input[r]
    BY <1>1 DEF ReceiveUpload, TypeOK
  <2> QED
    BY <1>1, <2>1, <2>2 DEF ReceiveUpload, Kept
<1>2. ASSUME NEW u \in Uploads, CreateBucket(u) PROVE Kept
  <2>1. \A s \in Requests : pc[s] = "done" => pc'[s] = "done" /\ answer'[s] = answer[s]
    BY <1>2, StepControl DEF CreateBucket, GoOnOrFail
  <2> QED
    BY <1>2, <2>1 DEF CreateBucket, Kept, TypeOK
<1>3. ASSUME NEW u \in Uploads, PushPath(u) PROVE Kept
  <2>1. \A s \in Requests : pc[s] = "done" => pc'[s] = "done" /\ answer'[s] = answer[s]
    BY <1>3, StepControl DEF PushPath, GoOnOrFail
  <2>2. buckets[keys[u][phase[u]]].holds = "nothing"
    BY <1>3 DEF PushPath, Stage
  <2>3. \A k \in Keys : buckets[k] # NoBucket =>
          /\ buckets'[k].of = buckets[k].of
          /\ buckets'[k].private = buckets[k].private
          /\ buckets[k].holds # "nothing" => buckets'[k].holds = buckets[k].holds
    BY <1>3, <2>2 DEF PushPath, TypeOK, Bucket
  <2> QED
    BY <1>3, <2>1, <2>3 DEF PushPath, Kept
<1>4. ASSUME NEW u \in Uploads, Links(u) \/ GetPreviewFrom(u) PROVE Kept
  <2>1. \A s \in Requests : pc[s] = "done" => pc'[s] = "done" /\ answer'[s] = answer[s]
    BY <1>4 DEF Links, GetPreviewFrom, TypeOK, Goto
  <2> QED
    BY <1>4, <2>1 DEF Links, GetPreviewFrom, Kept
<1>5. ASSUME NEW u \in Uploads, InsertToContentDB(u) PROVE Kept
  BY <1>5, StepControl DEF InsertToContentDB, Kept
<1>6. ASSUME NEW d \in Downloads, NEW data \in DownloadData, GetContentDataRecord(d, data)
      PROVE  Kept
  <2>1. \A s \in Requests : pc[s] = "done" => pc'[s] = "done" /\ answer'[s] = answer[s]
    BY <1>6, StepControl DEF GetContentDataRecord
  <2>2. \A r \in Requests : pc[r] # "idle" => input'[r] = input[r]
    BY <1>6 DEF GetContentDataRecord, TypeOK
  <2> QED
    BY <1>6, <2>1, <2>2 DEF GetContentDataRecord, Kept
<1>7. ASSUME NEW d \in Downloads, PullBytesFromBucket(d) PROVE Kept
  <2>1. \A s \in Requests : pc[s] = "done" => pc'[s] = "done" /\ answer'[s] = answer[s]
    BY <1>7, StepControl DEF PullBytesFromBucket
  <2> QED
    BY <1>7, <2>1 DEF PullBytesFromBucket, Kept
<1>11. ASSUME NEW q \in Queries, QueryWithJsonApiQuery(q) PROVE Kept
  <2>1. \A s \in Requests : pc[s] = "done" => pc'[s] = "done" /\ answer'[s] = answer[s]
    BY <1>11, StepControl DEF QueryWithJsonApiQuery
  <2>2. \A p \in Queries : results'[p] = results[p] \/ results'[p] \subseteq records
    BY <1>11 DEF QueryWithJsonApiQuery, TypeOK
  <2> QED
    BY <1>11, <2>1, <2>2 DEF QueryWithJsonApiQuery, Kept
<1>8. ASSUME NEW r \in Requests, Unsupported(r) \/ CallFails(r) PROVE Kept
  <2>1. \A s \in Requests : pc[s] = "done" => pc'[s] = "done" /\ answer'[s] = answer[s]
    BY <1>8, StepControl DEF Unsupported, CallFails, Calling
  <2> QED
    BY <1>8, <2>1 DEF Unsupported, CallFails, Kept
<1>9. CASE ServerCrash
  BY <1>9 DEF ServerCrash, Kept, Calling, TypeOK
<1>10. CASE UNCHANGED vars
  BY <1>10 DEF vars, Kept
<1> QED
  BY <1>1, <1>2, <1>3, <1>4, <1>5, <1>6, <1>7, <1>8, <1>9, <1>10, <1>11 DEF Next

LEMMA AnswersNext == IInv /\ [Next]_vars => AnswersEnd'
<1> SUFFICES ASSUME IInv, [Next]_vars PROVE AnswersEnd'
  OBVIOUS
<1>1. ASSUME NEW r \in Requests, answer'[r] = answer[r] PROVE answer'[r] # "none" => pc'[r] = "done"
  BY <1>1, NextKeeps DEF Kept, IInv, AnswersEnd
<1>2. ASSUME NEW r \in Requests, NEW s \in Requests, NEW where,
             Goto(r, where) \/ Answer(r, "error") \/ Answer(r, "ok")
      PROVE  answer'[s] = answer[s] \/ pc'[s] = "done"
  BY <1>2 DEF Goto, Answer, IInv, TypeOK
<1>3. \A s \in Requests : answer'[s] = answer[s] \/ pc'[s] = "done"
  BY <1>2 DEF Next, ReceiveUpload, CreateBucket, PushPath, Links, GetPreviewFrom,
     InsertToContentDB, QueryWithJsonApiQuery, GetContentDataRecord, PullBytesFromBucket,
     Unsupported, CallFails, ServerCrash, GoOnOrFail, vars, Requests
<1> QED
  BY <1>1, <1>3 DEF AnswersEnd

-----------------------------------------------------------------------------
(* What an upload knows stays true under the steps of others, and when its *)
(* own goroutine ends.                                                     *)
LEMMA StageFrame ==
  ASSUME NEW u \in Uploads, Stage(u),
         pc'[u] \in {pc[u], "done", "lost"},
         phase'[u] = phase[u], keys'[u] = keys[u], phase[u] \in Phases,
         pc[u] # "idle" => input'[u] = input[u],
         \A f \in Phases : keys[u][f] # NoKey =>
            buckets'[keys[u][f]].holds = buckets[keys[u][f]].holds
  PROVE  Stage(u)'
  BY DEF Stage, Calling, Phases

CoreInv ==
    /\ KeysAreOwn
    /\ BucketsAreKnown
    /\ \A u \in Uploads : Stage(u)

(* A step that makes and fills no bucket and moves no upload on.           *)
LEMMA CoreFrame ==
  ASSUME IInv, UNCHANGED <<phase, keys, buckets>>,
         \A v \in Uploads : pc'[v] \in {pc[v], "done", "lost"},
         \A v \in Uploads : pc[v] # "idle" => input'[v] = input[v]
  PROVE  CoreInv'
<1>1. \A v \in Uploads : Stage(v)'
  BY StageFrame DEF IInv, TypeOK
<1>2. KeysAreOwn' /\ BucketsAreKnown'
  BY DEF IInv, KeysAreOwn, BucketsAreKnown
<1> QED
  BY <1>1, <1>2 DEF CoreInv

LEMMA CreateBucketCore ==
  ASSUME IInv, NEW u \in Uploads, CreateBucket(u)
  PROVE  CoreInv'
<1> USE RequestAssumption, KeyAssumption
<1>1. PICK k \in Keys :
        /\ buckets[k] = NoBucket
        /\ buckets' = [buckets EXCEPT ![k] =
              [of |-> u, private |-> phase[u] = "original", holds |-> "nothing"]]
        /\ keys' = [keys EXCEPT ![u][phase[u]] = k]
  BY DEF CreateBucket
<1>2. /\ TypeOK /\ KeysAreOwn /\ BucketsAreKnown
      /\ \A v \in Uploads : Stage(v)
  BY DEF IInv
<1>3. /\ pc[u] = "bucket" /\ pc' \in {[pc EXCEPT ![u] = "push"], [pc EXCEPT ![u] = "done"]}
      /\ phase' = phase /\ input' = input
  BY DEF CreateBucket, GoOnOrFail, Goto, Answer
<1>4. /\ phase[u] \in Phases /\ keys[u][phase[u]] = NoKey
      /\ keys \in [Uploads -> [Phases -> Keys \cup {NoKey}]]
      /\ buckets \in [Keys -> Bucket \cup {NoBucket}]
      /\ pc \in [Requests -> {"idle", "done", "lost"} \cup Calling] /\ u \in Requests
  BY <1>2, <1>3 DEF TypeOK, Stage, Requests
<1>5. \A v \in Uploads, f \in Phases : keys[v][f] # NoKey =>
        /\ keys[v][f] # k
        /\ keys'[v][f] = keys[v][f]
        /\ buckets'[keys[v][f]] = buckets[keys[v][f]]
  <2> SUFFICES ASSUME NEW v \in Uploads, NEW f \in Phases, keys[v][f] # NoKey
               PROVE  /\ keys[v][f] # k
                      /\ keys'[v][f] = keys[v][f]
                      /\ buckets'[keys[v][f]] = buckets[keys[v][f]]
    OBVIOUS
  <2>1. keys[v][f] # k
    BY <1>1, <1>2 DEF KeysAreOwn, NoBucket
  <2>2. keys'[v][f] = keys[v][f]
    BY <1>1, <1>4
  <2> QED
    BY <2>1, <2>2, <1>1, <1>4
<1>6. /\ keys'[u][phase[u]] = k
      /\ buckets'[k] = [of |-> u, private |-> phase[u] = "original", holds |-> "nothing"]
      /\ \A v \in Uploads, f \in Phases : v # u \/ f # phase[u] => keys'[v][f] = keys[v][f]
      /\ \A v \in Uploads : v # u => keys'[v] = keys[v]
      /\ \A j \in Keys : j # k => buckets'[j] = buckets[j]
  BY <1>1, <1>4
<1>7. KeysAreOwn'
  <2> SUFFICES ASSUME NEW v \in Uploads, NEW f \in Phases, keys'[v][f] # NoKey
               PROVE  /\ buckets'[keys'[v][f]].of = v
                      /\ buckets'[keys'[v][f]].private = (f = "original")
    BY DEF KeysAreOwn
  <2>1. CASE v = u /\ f = phase[u]
    BY <2>1, <1>6
  <2>2. CASE v # u \/ f # phase[u]
    BY <2>2, <1>2, <1>5, <1>6 DEF KeysAreOwn
  <2> QED
    BY <2>1, <2>2
<1>8. BucketsAreKnown'
  <2>2. phase[u] = IF phase[u] = "original" THEN "original" ELSE "preview"
    BY <1>4 DEF Phases
  <2> SUFFICES ASSUME NEW j \in Keys
               PROVE  /\ buckets'[j] # NoBucket => buckets'[j].of \in Uploads
                      /\ buckets'[j].of \in Uploads =>
                           keys'[buckets'[j].of]
                                [IF buckets'[j].private THEN "original" ELSE "preview"] = j
                      /\ buckets'[j].private => buckets'[j].holds # "preview"
    BY DEF BucketsAreKnown
  <2>3. CASE j = k
    <3>1. buckets'[j].of = u /\ buckets'[j].holds = "nothing"
      BY <2>3, <1>6
    <3>2. buckets'[j].private = (phase[u] = "original")
      BY <2>3, <1>6
    <3>3. phase[u] = IF buckets'[j].private THEN "original" ELSE "preview"
      BY <2>2, <3>2
    <3> QED
      BY <2>3, <3>1, <3>3, <1>6
  <2>4. CASE j # k
    <3>1. buckets'[j] = buckets[j]
      BY <2>4, <1>6
    <3> DEFINE g == IF buckets[j].private THEN "original" ELSE "preview"
    <3>3. g \in Phases
      BY DEF Phases
    <3>4. /\ buckets[j] # NoBucket => buckets[j].of \in Uploads
          /\ buckets[j].of \in Uploads => keys[buckets[j].of][g] = j
          /\ buckets[j].private => buckets[j].holds # "preview"
      BY <1>2 DEF BucketsAreKnown
    <3>5. j # NoKey
      OBVIOUS
    <3> HIDE DEF g
    <3>6. buckets[j].of \in Uploads => keys'[buckets[j].of][g] = j
      BY <3>3, <3>4, <3>5, <1>5
    <3> QED
      BY <3>1, <3>4, <3>6 DEF g
  <2> QED
    BY <2>3, <2>4
<1>9. \A v \in Uploads : Stage(v)'
  <2> TAKE v \in Uploads
  <2>1. CASE v # u
    <3>1. pc'[v] = pc[v] /\ phase'[v] = phase[v] /\ keys'[v] = keys[v] /\ input'[v] = input[v]
      BY <2>1, <1>3, <1>4, <1>6 DEF Requests
    <3>2. phase[v] \in Phases
      BY <1>2 DEF TypeOK
    <3> QED
      BY <3>1, <3>2, <1>2, <1>5, StageFrame
  <2>2. CASE v = u
    <3>1. pc'[u] \in {"push", "done"} /\ phase'[u] = phase[u] /\ input'[u] = input[u]
      BY <1>3, <1>4
    <3>2. CASE phase[u] = "original"
      <4>1. keys'[u]["original"] = k /\ keys'[u]["preview"] = keys[u]["preview"]
        BY <3>2, <1>6 DEF Phases
      <4> QED
        BY <3>1, <3>2, <4>1, <1>2, <1>3, <1>6, <2>2 DEF Stage, Calling
    <3>3. CASE phase[u] = "preview"
      <4>1. keys'[u]["original"] = keys[u]["original"] /\ keys'[u]["preview"] = k
        BY <3>3, <1>6 DEF Phases
      <4>2. keys[u]["original"] # NoKey
        BY <3>3, <1>2 DEF Stage
      <4>3. buckets'[keys'[u]["original"]] = buckets[keys[u]["original"]]
        BY <4>1, <4>2, <1>5 DEF Phases
      <4> QED
        BY <3>1, <3>3, <4>1, <4>2, <4>3, <1>2, <1>3, <1>6, <2>2 DEF Stage, Calling
    <3> QED
      BY <3>2, <3>3, <1>4 DEF Phases
  <2> QED
    BY <2>1, <2>2
<1> QED
  BY <1>7, <1>8, <1>9 DEF CoreInv

LEMMA PushPathCore ==
  ASSUME IInv, NEW u \in Uploads, PushPath(u)
  PROVE  CoreInv'
<1> USE RequestAssumption, KeyAssumption
<1> DEFINE key == keys[u][phase[u]]
<1> DEFINE what == IF phase[u] = "original" \/ input[u].preview = "fake"
                   THEN "original" ELSE "preview"
<1>1. /\ TypeOK /\ KeysAreOwn /\ BucketsAreKnown
      /\ \A v \in Uploads : Stage(v)
  BY DEF IInv
<1>2. /\ pc[u] = "push" /\ pc' \in {[pc EXCEPT ![u] = "links"], [pc EXCEPT ![u] = "done"]}
      /\ phase' = phase /\ input' = input /\ keys' = keys
      /\ buckets' = [buckets EXCEPT ![key].holds = what]
  BY DEF PushPath, GoOnOrFail, Goto, Answer
<1>3. /\ phase[u] \in Phases
      /\ keys \in [Uploads -> [Phases -> Keys \cup {NoKey}]]
      /\ buckets \in [Keys -> Bucket \cup {NoBucket}]
      /\ pc \in [Requests -> {"idle", "done", "lost"} \cup Calling] /\ u \in Requests
  BY <1>1, <1>2 DEF TypeOK, Requests
<1>4. /\ key \in Keys /\ buckets[key].of = u
      /\ buckets[key].private = (phase[u] = "original")
  BY <1>1, <1>2, <1>3 DEF Stage, KeysAreOwn
<1>5. buckets[key] \in Bucket
  BY <1>3, <1>4 DEF NoBucket
<1>6. /\ \A j \in Keys : j # key => buckets'[j] = buckets[j]
      /\ buckets'[key] = [buckets[key] EXCEPT !.holds = what]
  BY <1>2, <1>3, <1>4
<1>7. /\ buckets'[key].of = u
      /\ buckets'[key].private = buckets[key].private
      /\ buckets'[key].holds = what
  BY <1>4, <1>5, <1>6 DEF Bucket
<1>8. \A v \in Uploads, f \in Phases : keys[v][f] # NoKey /\ (v # u \/ f # phase[u]) =>
        buckets'[keys[v][f]] = buckets[keys[v][f]]
  <2> SUFFICES ASSUME NEW v \in Uploads, NEW f \in Phases,
                      keys[v][f] # NoKey, v # u \/ f # phase[u]
               PROVE  keys[v][f] # key
    BY <1>3, <1>6
  <2>1. buckets[keys[v][f]].of = v /\ buckets[keys[v][f]].private = (f = "original")
    BY <1>1 DEF KeysAreOwn
  <2>2. f # phase[u] => (f = "original") # (phase[u] = "original")
    BY <1>3 DEF Phases
  <2> QED
    BY <1>4, <2>1, <2>2
<1> HIDE DEF key, what
<1>9. KeysAreOwn'
  BY <1>1, <1>2, <1>6, <1>7 DEF KeysAreOwn
<1>10. BucketsAreKnown'
  <2> SUFFICES ASSUME NEW j \in Keys
               PROVE  /\ buckets'[j] # NoBucket => buckets'[j].of \in Uploads
                      /\ buckets'[j].of \in Uploads =>
                           keys'[buckets'[j].of]
                                [IF buckets'[j].private THEN "original" ELSE "preview"] = j
                      /\ buckets'[j].private => buckets'[j].holds # "preview"
    BY DEF BucketsAreKnown
  <2>1. CASE j # key
    BY <2>1, <1>1, <1>2, <1>6 DEF BucketsAreKnown
  <2>2. CASE j = key
    <3>1. phase[u] = "original" => what = "original"
      BY DEF what
    <3>2. keys[u][IF buckets[key].private THEN "original" ELSE "preview"] = key
      BY <1>1, <1>4 DEF BucketsAreKnown
    <3> QED
      BY <2>2, <3>1, <3>2, <1>2, <1>4, <1>7
  <2> QED
    BY <2>1, <2>2
<1>11. \A v \in Uploads : Stage(v)'
  <2> TAKE v \in Uploads
  <2>1. CASE v # u
    <3>1. pc'[v] = pc[v] /\ phase'[v] = phase[v] /\ keys'[v] = keys[v] /\ input'[v] = input[v]
      BY <2>1, <1>2, <1>3 DEF Requests
    <3>2. phase[v] \in Phases
      BY <1>1 DEF TypeOK
    <3> QED
      BY <2>1, <3>1, <3>2, <1>1, <1>8, StageFrame
  <2>2. CASE v = u
    <3>1. /\ pc'[u] \in {"links", "done"} /\ phase'[u] = phase[u]
          /\ input'[u] = input[u] /\ keys'[u] = keys[u]
      BY <1>2, <1>3
    <3>2. what # "nothing" /\ (phase[u] = "original" => what = "original")
      BY DEF what
    <3>3. key = keys[u][phase[u]] /\ key # NoKey
      BY <1>4 DEF key
    <3>4. phase[u] = "preview" /\ keys[u]["original"] # NoKey =>
            buckets'[keys[u]["original"]] = buckets[keys[u]["original"]]
      BY <1>8 DEF Phases
    <3> QED
      BY <2>2, <3>1, <3>2, <3>3, <3>4, <1>1, <1>2, <1>3, <1>7 DEF Stage, Calling, Phases
  <2> QED
    BY <2>1, <2>2
<1> QED
  BY <1>9, <1>10, <1>11 DEF CoreInv

(* A step of an upload that neither makes nor fills a bucket.              *)
LEMMA MoveOnCore ==
  ASSUME IInv, NEW u \in Uploads,
         \/ \E data \in UploadData : ReceiveUpload(u, data)
         \/ Links(u) \/ GetPreviewFrom(u)
  PROVE  CoreInv'
<1> USE RequestAssumption, KeyAssumption
<1>1. /\ TypeOK /\ KeysAreOwn /\ BucketsAreKnown
      /\ \A v \in Uploads : Stage(v)
  BY DEF IInv
<1>2. /\ keys' = keys /\ buckets' = buckets
      /\ \A v \in Uploads : v # u =>
            pc'[v] = pc[v] /\ phase'[v] = phase[v] /\ input'[v] = input[v]
  BY <1>1 DEF ReceiveUpload, Links, GetPreviewFrom, Goto, Answer, TypeOK, Requests
<1>3. Stage(u)'
  <2>1. ASSUME NEW data \in UploadData, ReceiveUpload(u, data) PROVE Stage(u)'
    BY <2>1, <1>1 DEF ReceiveUpload, Goto, Answer, TypeOK, Requests, Stage, Calling, Phases
  <2>2. CASE Links(u)
    BY <2>2, <1>1 DEF Links, Goto, TypeOK, Requests, Stage, Calling, Phases,
       KeysAreOwn, BucketsAreKnown, Bucket, NoBucket
  <2>3. CASE GetPreviewFrom(u)
    BY <2>3, <1>1 DEF GetPreviewFrom, Goto, TypeOK, Requests, Stage, Calling, Phases
  <2> QED
    BY <2>1, <2>2, <2>3
<1>4. \A v \in Uploads : Stage(v)'
  BY <1>1, <1>2, <1>3, StageFrame DEF TypeOK
<1>5. KeysAreOwn' /\ BucketsAreKnown'
  BY <1>1, <1>2 DEF KeysAreOwn, BucketsAreKnown
<1> QED
  BY <1>4, <1>5 DEF CoreInv

LEMMA CoreNext == IInv /\ [Next]_vars => CoreInv'
<1> SUFFICES ASSUME IInv, [Next]_vars PROVE CoreInv'
  OBVIOUS
<1> USE RequestAssumption DEF Requests
<1>1. TypeOK
  BY DEF IInv
<1>2. ASSUME NEW u \in Uploads, InsertToContentDB(u) PROVE CoreInv'
  BY <1>1, <1>2, CoreFrame DEF InsertToContentDB, Answer, TypeOK
<1>3. ASSUME NEW d \in Downloads, NEW data \in DownloadData, GetContentDataRecord(d, data)
      PROVE  CoreInv'
  BY <1>1, <1>3, CoreFrame DEF GetContentDataRecord, Goto, Answer, TypeOK
<1>4. ASSUME NEW d \in Downloads, PullBytesFromBucket(d) PROVE CoreInv'
  BY <1>1, <1>4, CoreFrame DEF PullBytesFromBucket, Answer, TypeOK
<1>8. ASSUME NEW q \in Queries, QueryWithJsonApiQuery(q) PROVE CoreInv'
  BY <1>1, <1>8, CoreFrame DEF QueryWithJsonApiQuery, Answer, TypeOK
<1>5. ASSUME NEW r \in Requests, Unsupported(r) \/ CallFails(r) PROVE CoreInv'
  BY <1>1, <1>5, CoreFrame DEF Unsupported, CallFails, Answer, TypeOK
<1>6. CASE ServerCrash
  BY <1>1, <1>6, CoreFrame DEF ServerCrash, TypeOK
<1>7. CASE UNCHANGED vars
  BY <1>7, CoreFrame DEF vars
<1> QED
  BY <1>2, <1>3, <1>4, <1>5, <1>6, <1>7, <1>8, CreateBucketCore, PushPathCore, MoveOnCore DEF Next

-----------------------------------------------------------------------------
(* Only an insertion makes a record or accepts an upload.                  *)
LEMMA OnlyInsertionsAccept ==
  ASSUME TypeOK, [Next]_vars, \A u \in Uploads : ~InsertToContentDB(u)
  PROVE  /\ records' = records
         /\ \A u \in Uploads : answer'[u] = "ok" => answer[u] = "ok"
<1> USE RequestAssumption DEF Requests
<1>1. ASSUME NEW u \in Uploads, NEW r \in Requests, NEW where, Goto(r, where) \/ Answer(r, "error")
      PROVE  answer'[u] = "ok" => answer[u] = "ok"
  BY <1>1 DEF Goto, Answer, TypeOK
<1>2. ASSUME NEW u \in Uploads, NEW d \in Downloads \cup Queries, Answer(d, "ok")
      PROVE  answer'[u] = "ok" => answer[u] = "ok"
  BY <1>2 DEF Answer, TypeOK
<1>3. records' = records
  BY DEF Next, ReceiveUpload, CreateBucket, PushPath, Links, GetPreviewFrom,
     QueryWithJsonApiQuery, GetContentDataRecord, PullBytesFromBucket, Unsupported, CallFails, ServerCrash, vars
<1>4. \A u \in Uploads : answer'[u] = "ok" => answer[u] = "ok"
  BY <1>1, <1>2 DEF Next, ReceiveUpload, CreateBucket, PushPath, Links, GetPreviewFrom,
     QueryWithJsonApiQuery, GetContentDataRecord, PullBytesFromBucket, Unsupported, CallFails,
     ServerCrash, GoOnOrFail, vars
<1> QED
  BY <1>3, <1>4

(* What an insertion finds.                                                *)
LEMMA InsertionIsWhole ==
  ASSUME IInv, NEW u \in Uploads, InsertToContentDB(u)
  PROVE  /\ records' = records \cup {RecordOf(u)}
         /\ pc'[u] = "done" /\ keys' = keys /\ input' = input /\ buckets' = buckets
         /\ input[u].length >= input[u].size
         /\ keys[u]["original"] # NoKey
         /\ buckets[keys[u]["original"]].of = u
         /\ buckets[keys[u]["original"]].private
         /\ buckets[keys[u]["original"]].holds = "original"
         /\ keys[u]["preview"] # NoKey
         /\ buckets[keys[u]["preview"]].of = u
         /\ ~buckets[keys[u]["preview"]].private
         /\ buckets[keys[u]["preview"]].holds # "nothing"
<1>1. TypeOK /\ Stage(u) /\ KeysAreOwn
  BY DEF IInv
<1>2. pc[u] = "insert" /\ pc[u] \in Calling /\ phase[u] \in Phases /\ u \in Requests
  BY <1>1 DEF InsertToContentDB, Calling, TypeOK, Requests
<1>3. keys[u]["original"] # NoKey /\ buckets[keys[u]["original"]].holds = "original"
  BY <1>1, <1>2 DEF Stage
<1>4. keys[u]["preview"] # NoKey /\ buckets[keys[u]["preview"]].holds # "nothing"
  BY <1>1, <1>2 DEF InsertToContentDB, Insertable, Stage, Phases
<1>5. /\ buckets[keys[u]["original"]].of = u /\ buckets[keys[u]["original"]].private
      /\ buckets[keys[u]["preview"]].of = u /\ ~buckets[keys[u]["preview"]].private
  BY <1>1, <1>3, <1>4 DEF KeysAreOwn, Phases
<1>6. pc'[u] = "done"
  BY <1>1, <1>2 DEF InsertToContentDB, Answer, TypeOK
<1> QED
  BY <1>1, <1>2, <1>3, <1>4, <1>5, <1>6 DEF InsertToContentDB, RecordOf, Stage

LEMMA RecordsNext ==
  IInv /\ [Next]_vars => RecordsHaveUpload' /\ RecordIsWhole' /\ AcceptedIsRecorded'
<1> SUFFICES ASSUME IInv, [Next]_vars
             PROVE  RecordsHaveUpload' /\ RecordIsWhole' /\ AcceptedIsRecorded'
  OBVIOUS
<1> USE RequestAssumption, KeyAssumption
<1>1. /\ TypeOK /\ AnswersEnd /\ KeysAreOwn /\ RecordsHaveUpload /\ RecordIsWhole
      /\ AcceptedIsRecorded /\ Kept
  BY NextKeeps DEF IInv
<1>2. \A u \in Uploads : pc[u] = "done" => pc'[u] = "done" /\ RecordOf(u)' = RecordOf(u)
  BY <1>1 DEF Kept, RecordOf, Requests
<1>3. ASSUME NEW c \in records
      PROVE  \E u \in Uploads : pc'[u] = "done" /\ c = RecordOf(u)'
  BY <1>1, <1>2 DEF RecordsHaveUpload
<1>4. ASSUME NEW c \in records
      PROVE  LET file == buckets'[c.bucketKey]
                 preview == buckets'[c.previewUrl]
             IN  /\ file.of \in Uploads /\ file.private /\ file.holds = "original"
                 /\ input'[file.of].length >= c.size
                 /\ preview.of = file.of /\ ~preview.private /\ preview.holds # "nothing"
  <2>1. c.bucketKey \in Keys /\ c.previewUrl \in Keys
    BY <1>1 DEF TypeOK, ContentData
  <2>2. PICK u \in Uploads : pc[u] = "done" /\ c = RecordOf(u)
    BY <1>1 DEF RecordsHaveUpload
  <2>3. c.bucketKey = keys[u]["original"]
    BY <2>2 DEF RecordOf
  <2>4. buckets[c.bucketKey].of = u
    BY <1>1, <2>1, <2>3 DEF KeysAreOwn, Phases
  <2>5. /\ buckets[c.bucketKey].private /\ buckets[c.bucketKey].holds = "original"
        /\ input[u].length >= c.size
        /\ c.previewUrl # NoKey =>
             /\ buckets[c.previewUrl].of = u /\ ~buckets[c.previewUrl].private
             /\ buckets[c.previewUrl].holds # "nothing"
    BY <1>1, <2>4 DEF RecordIsWhole
  <2>6. input'[u] = input[u]
    BY <1>1, <2>2 DEF Kept, Requests
  <2>7. \A k \in Keys : buckets[k].of = u =>
          /\ buckets'[k].of = u /\ buckets'[k].private = buckets[k].private
          /\ buckets[k].holds # "nothing" => buckets'[k].holds = buckets[k].holds
    BY <1>1 DEF Kept, NoBucket
  <2> QED
    BY <2>1, <2>4, <2>5, <2>6, <2>7
<1>5. CASE \A u \in Uploads : ~InsertToContentDB(u)
  <2>1. records' = records /\ \A u \in Uploads : answer'[u] = "ok" => answer[u] = "ok"
    BY <1>1, <1>5, OnlyInsertionsAccept
  <2>2. RecordsHaveUpload'
    BY <1>3, <2>1 DEF RecordsHaveUpload
  <2>3. RecordIsWhole'
    BY <1>4, <2>1 DEF RecordIsWhole
  <2>4. AcceptedIsRecorded'
    BY <1>1, <1>2, <2>1 DEF AcceptedIsRecorded, AnswersEnd, Requests
  <2> QED
    BY <2>2, <2>3, <2>4
<1>6. ASSUME NEW u \in Uploads, InsertToContentDB(u)
      PROVE  RecordsHaveUpload' /\ RecordIsWhole' /\ AcceptedIsRecorded'
  <2>1. records' = records \cup {RecordOf(u)} /\ RecordOf(u)' = RecordOf(u) /\ pc'[u] = "done"
    BY <1>6, InsertionIsWhole DEF RecordOf
  <2>2. RecordsHaveUpload'
    BY <1>3, <2>1 DEF RecordsHaveUpload
  <2>3. RecordIsWhole'
    BY <1>4, <1>6, <2>1, InsertionIsWhole DEF RecordIsWhole, RecordOf
  <2>4. \A v \in Uploads : v # u => answer'[v] = answer[v]
    BY <1>1, <1>6 DEF InsertToContentDB, Answer, TypeOK, Requests
  <2>5. AcceptedIsRecorded'
    BY <1>1, <1>2, <2>1, <2>4 DEF AcceptedIsRecorded, AnswersEnd, Requests
  <2> QED
    BY <2>2, <2>3, <2>5
<1> QED
  BY <1>5, <1>6

-----------------------------------------------------------------------------
(* A step that starts a download.                                          *)
LookUp(d) == \E data \in DownloadData : GetContentDataRecord(d, data)

LEMMA OnlyDownloadsServe ==
  ASSUME TypeOK, [Next]_vars, NEW d \in Downloads,
         ~LookUp(d), ~PullBytesFromBucket(d)
  PROVE  /\ found'[d] = found[d] /\ served'[d] = served[d]
         /\ answer'[d] = "ok" => answer[d] = "ok"
         /\ pc'[d] = "pull" => pc[d] = "pull"
<1> USE RequestAssumption DEF Requests
<1>1. ASSUME NEW r \in Requests, NEW where, where # "pull" \/ r # d,
             Goto(r, where) \/ Answer(r, "error")
      PROVE  /\ answer'[d] = "ok" => answer[d] = "ok"
             /\ pc'[d] = "pull" => pc[d] = "pull"
  BY <1>1 DEF Goto, Answer, TypeOK
<1>2. ASSUME NEW r \in Requests, r # d, NEW a, Answer(r, a)
      PROVE  /\ answer'[d] = "ok" => answer[d] = "ok"
             /\ pc'[d] = "pull" => pc[d] = "pull"
  BY <1>2 DEF Answer, TypeOK
<1>3. found'[d] = found[d] /\ served'[d] = served[d]
  <2>1. ASSUME UNCHANGED <<found, served>> PROVE found'[d] = found[d] /\ served'[d] = served[d]
    BY <2>1
  <2>2. ASSUME NEW e \in Downloads, NEW data \in DownloadData, GetContentDataRecord(e, data)
        PROVE  found'[d] = found[d] /\ served'[d] = served[d]
    BY <2>2 DEF GetContentDataRecord, LookUp, TypeOK
  <2>3. ASSUME NEW e \in Downloads, PullBytesFromBucket(e)
        PROVE  found'[d] = found[d] /\ served'[d] = served[d]
    BY <2>3 DEF PullBytesFromBucket, TypeOK
  <2>4. ASSUME NEW u \in Uploads,
               \/ \E data \in UploadData : ReceiveUpload(u, data)
               \/ CreateBucket(u) \/ PushPath(u) \/ Links(u)
               \/ GetPreviewFrom(u) \/ InsertToContentDB(u)
        PROVE  UNCHANGED <<found, served>>
    BY <2>4, Zenon DEF ReceiveUpload, CreateBucket, PushPath, Links, GetPreviewFrom, InsertToContentDB
  <2>5. ASSUME \/ \E q \in Queries : QueryWithJsonApiQuery(q)
               \/ \E r \in Requests : Unsupported(r) \/ CallFails(r)
               \/ ServerCrash \/ UNCHANGED vars
        PROVE  UNCHANGED <<found, served>>
    BY <2>5 DEF QueryWithJsonApiQuery, Unsupported, CallFails, ServerCrash, vars
  <2> QED
    BY <2>1, <2>2, <2>3, <2>4, <2>5 DEF Next
<1>4. /\ answer'[d] = "ok" => answer[d] = "ok"
      /\ pc'[d] = "pull" => pc[d] = "pull"
  <2>1. ASSUME NEW u \in Uploads,
               \/ \E data \in UploadData : ReceiveUpload(u, data)
               \/ CreateBucket(u) \/ PushPath(u) \/ Links(u)
               \/ GetPreviewFrom(u) \/ InsertToContentDB(u)
        PROVE  /\ answer'[d] = "ok" => answer[d] = "ok"
               /\ pc'[d] = "pull" => pc[d] = "pull"
    <3>1. u # d /\ u \in Requests
      OBVIOUS
    <3> QED
      BY <1>1, <1>2, <2>1, <3>1 DEF ReceiveUpload, CreateBucket, PushPath, Links,
         GetPreviewFrom, InsertToContentDB, GoOnOrFail
  <2>2. ASSUME NEW e \in Downloads,
               \/ \E data \in DownloadData : GetContentDataRecord(e, data)
               \/ PullBytesFromBucket(e)
        PROVE  /\ answer'[d] = "ok" => answer[d] = "ok"
               /\ pc'[d] = "pull" => pc[d] = "pull"
    <3>1. CASE e = d
      BY <2>2, <3>1 DEF LookUp
    <3>2. CASE e # d
      <4>1. \E a : Goto(e, "pull") \/ Answer(e, a)
        BY <2>2 DEF GetContentDataRecord, PullBytesFromBucket
      <4> QED
        BY <1>1, <1>2, <3>2, <4>1
    <3> QED
      BY <3>1, <3>2
  <2>6. ASSUME NEW q \in Queries, QueryWithJsonApiQuery(q)
        PROVE  /\ answer'[d] = "ok" => answer[d] = "ok"
               /\ pc'[d] = "pull" => pc[d] = "pull"
    BY <1>2, <2>6 DEF QueryWithJsonApiQuery
  <2>3. ASSUME NEW r \in Requests, Unsupported(r) \/ CallFails(r)
        PROVE  /\ answer'[d] = "ok" => answer[d] = "ok"
               /\ pc'[d] = "pull" => pc[d] = "pull"
    BY <1>1, <2>3 DEF Unsupported, CallFails
  <2>4. CASE ServerCrash
    BY <2>4 DEF ServerCrash, TypeOK
  <2>5. CASE UNCHANGED vars
    BY <2>5 DEF vars
  <2> QED
    BY <2>1, <2>2, <2>3, <2>4, <2>5, <2>6 DEF Next
<1> QED
  BY <1>3, <1>4

LEMMA DownloadsNext ==
  IInv /\ [Next]_vars => (\A d \in Downloads : DownloadStage(d)') /\ ServedAsAsked'
<1> DEFINE AskedFor(d, k) ==
        /\ \/ input[d].bucketKey = k
           \/ input[d].bucketKey = NoKey /\ input[d].previewUrl = k
        /\ buckets[k].of = served[d]
<1> SUFFICES ASSUME IInv, [Next]_vars, NEW d \in Downloads
             PROVE  /\ DownloadStage(d)'
                    /\ answer'[d] = "ok" => \E k \in Keys : AskedFor(d, k)'
  BY DEF ServedAsAsked
<1> USE RequestAssumption, KeyAssumption DEF Requests
<1>1. /\ TypeOK /\ AnswersEnd /\ RecordsHaveUpload /\ RecordIsWhole
      /\ DownloadStage(d) /\ ServedAsAsked /\ Kept
  BY NextKeeps DEF IInv
<1>2. ASSUME NEW data \in DownloadData, GetContentDataRecord(d, data)
      PROVE  /\ DownloadStage(d)'
             /\ answer'[d] = "ok" => \E k \in Keys : AskedFor(d, k)'
  <2>1. /\ input'[d] = data /\ records' = records /\ answer[d] # "ok"
        /\ answer' = answer \/ answer'[d] = "error"
    BY <1>1, <1>2 DEF GetContentDataRecord, Goto, Answer, AnswersEnd, TypeOK
  <2>2. pc'[d] = "pull" => found'[d] \in records /\ Matches(found'[d], data)
    BY <1>1, <1>2 DEF GetContentDataRecord, Goto, Answer, TypeOK
  <2> QED
    BY <2>1, <2>2 DEF DownloadStage, Matches
<1>3. CASE PullBytesFromBucket(d)
  <2>1. /\ pc[d] = "pull" /\ input' = input /\ buckets' = buckets /\ pc'[d] = "done"
    BY <1>1, <1>3 DEF PullBytesFromBucket, Answer, TypeOK
  <2>2. answer'[d] = "ok" => served'[d] = buckets[found[d].bucketKey].of
    BY <1>1, <1>3 DEF PullBytesFromBucket, Answer, TypeOK
  <2>3. found[d] \in records /\ Matches(found[d], input[d])
    BY <1>1, <2>1 DEF DownloadStage
  <2>4. /\ found[d].bucketKey \in Keys /\ found[d].previewUrl \in Keys
        /\ buckets[found[d].bucketKey].of \in Uploads
        /\ buckets[found[d].previewUrl].of = buckets[found[d].bucketKey].of
    BY <1>1, <2>3 DEF TypeOK, ContentData, RecordIsWhole
  <2>5. answer'[d] = "ok" => \E k \in Keys : AskedFor(d, k)'
    BY <2>1, <2>2, <2>3, <2>4 DEF Matches
  <2> QED
    BY <2>1, <2>2, <2>4, <2>5 DEF DownloadStage
<1>4. CASE ~LookUp(d) /\ ~PullBytesFromBucket(d)
  <2>1. /\ found'[d] = found[d] /\ served'[d] = served[d]
        /\ answer'[d] = "ok" => answer[d] = "ok"
        /\ pc'[d] = "pull" => pc[d] = "pull"
    BY <1>1, <1>4, OnlyDownloadsServe DEF LookUp
  <2>2. pc[d] # "idle" => input'[d] = input[d]
    BY <1>1 DEF Kept
  <2>3. records \subseteq records'
    BY <1>1 DEF Kept
  <2>4. DownloadStage(d)'
    BY <1>1, <2>1, <2>2, <2>3 DEF DownloadStage, Matches
  <2>5. ASSUME answer'[d] = "ok" PROVE \E k \in Keys : AskedFor(d, k)'
    <3>1. answer[d] = "ok" /\ pc[d] = "done" /\ input'[d] = input[d] /\ served[d] \in Uploads
      BY <1>1, <2>1, <2>2, <2>5 DEF AnswersEnd, DownloadStage
    <3>2. PICK k \in Keys : AskedFor(d, k)
      BY <1>1, <3>1 DEF ServedAsAsked
    <3>3. buckets'[k].of = buckets[k].of
      BY <1>1, <3>1, <3>2 DEF Kept, NoBucket
    <3> QED
      BY <2>1, <3>1, <3>2, <3>3
  <2> QED
    BY <2>4, <2>5
<1> QED
  BY <1>2, <1>3, <1>4 DEF LookUp

-----------------------------------------------------------------------------
LEMMA PrivateNext == IInv /\ [Next]_vars => OriginalsStayPrivate'
<1> SUFFICES ASSUME IInv, [Next]_vars, NEW k \in Keys,
                    buckets'[k].holds = "original", ~buckets'[k].private
             PROVE  input'[buckets'[k].of].preview = "fake"
  BY DEF OriginalsStayPrivate
<1> USE RequestAssumption, KeyAssumption
<1>1. /\ TypeOK /\ KeysAreOwn /\ BucketsAreKnown /\ OriginalsStayPrivate /\ Kept
      /\ \A u \in Uploads : Stage(u)
  BY NextKeeps DEF IInv
<1>2. CASE buckets'[k] = buckets[k]
  <2>1. buckets[k] # NoBucket
    BY <1>2 DEF NoBucket
  <2>2. PICK u \in Uploads : buckets[k].of = u /\ keys[u]["preview"] = k
    BY <1>1, <1>2, <2>1 DEF BucketsAreKnown
  <2>3. pc[u] # "idle"
    BY <1>1, <2>2 DEF Stage
  <2>4. input'[u] = input[u]
    BY <1>1, <2>3 DEF Kept, Requests
  <2> QED
    BY <1>1, <1>2, <2>2, <2>4 DEF OriginalsStayPrivate
<1>3. ASSUME NEW u \in Uploads, CreateBucket(u), buckets'[k] # buckets[k] PROVE FALSE
  BY <1>1, <1>3 DEF CreateBucket, TypeOK
<1>4. ASSUME NEW u \in Uploads, PushPath(u), buckets'[k] # buckets[k]
      PROVE  input'[buckets'[k].of].preview = "fake"
  <2>1. /\ phase[u] \in Phases /\ keys[u][phase[u]] # NoKey
        /\ keys[u][phase[u]] = k /\ buckets[k] # NoBucket
    BY <1>1, <1>4 DEF PushPath, TypeOK, Stage, KeysAreOwn, NoBucket
  <2>2. buckets[k] \in Bucket /\ buckets[k].of = u /\ buckets[k].private = (phase[u] = "original")
    BY <1>1, <2>1 DEF TypeOK, KeysAreOwn
  <2>3. /\ input' = input /\ buckets'[k].of = u
        /\ buckets'[k].private = (phase[u] = "original")
        /\ buckets'[k].holds = IF phase[u] = "original" \/ input[u].preview = "fake"
                               THEN "original" ELSE "preview"
    BY <1>1, <1>4, <2>1, <2>2 DEF PushPath, TypeOK, Bucket
  <2>4. input[u].preview = "fake"
    BY <2>3
  <2> QED
    BY <2>3, <2>4
<1>5. buckets' = buckets \/ \E u \in Uploads : CreateBucket(u) \/ PushPath(u)
  BY DEF Next, ReceiveUpload, Links, GetPreviewFrom, InsertToContentDB, QueryWithJsonApiQuery,
     GetContentDataRecord, PullBytesFromBucket, Unsupported, CallFails, ServerCrash, vars
<1> QED
  BY <1>2, <1>3, <1>4, <1>5

LEMMA QueriesNext == IInv /\ [Next]_vars => QueriesTellRecords'
  BY NextKeeps DEF IInv, QueriesTellRecords, Kept

LEMMA InvNext == IInv /\ [Next]_vars => IInv'
  BY TypeNext, AnswersNext, CoreNext, RecordsNext, DownloadsNext, QueriesNext,
     PrivateNext DEF IInv, CoreInv

LEMMA Invariant == Spec => []IInv
<1>1. IInv /\ [Next]_vars => IInv'
  BY InvNext
<1> QED
  BY <1>1, InitInv, PTL DEF Spec

-----------------------------------------------------------------------------
(* Every variable keeps its type, across failed calls and crashes of the   *)
(* server.                                                                 *)
THEOREM TypeCorrect == Spec => []TypeOK
<1>1. IInv => TypeOK
  BY DEF IInv
<1> QED
  BY <1>1, Invariant, PTL

(* No upload, failed or accepted, leaves a record of a half-made content   *)
(* (upload.go:75-109).                                                     *)
THEOREM RecordsAreWhole == Spec => []RecordIsWhole
<1>1. IInv => RecordIsWhole
  BY DEF IInv
<1> QED
  BY <1>1, Invariant, PTL

(* A public bucket holds an original only for want of a preview            *)
(* (preview.go:83-85).                                                     *)
THEOREM OriginalsArePrivate == Spec => []OriginalsStayPrivate
<1>1. IInv => OriginalsStayPrivate
  BY DEF IInv
<1> QED
  BY <1>1, Invariant, PTL

(* A download is given what it named, its bucket or its preview            *)
(* (download.go:47-76).                                                    *)
THEOREM DownloadsAreServedAsAsked == Spec => []ServedAsAsked
<1>1. IInv => ServedAsAsked
  BY DEF IInv
<1> QED
  BY <1>1, Invariant, PTL

(* What a lookup or a query finds can be pulled (upload.go:69,             *)
(* download.go:94, jsonapi.go:65-84).                                      *)
THEOREM FoundCanBePulled == Spec => []FoundIsPullable
<1>1. IInv => FoundIsPullable
  BY DEF IInv, DownloadStage, QueriesTellRecords, RecordIsWhole, FoundIsPullable, Pullable
<1> QED
  BY <1>1, Invariant, PTL

(* No lookup has to choose between two records (download.go:74).           *)
THEOREM LookupsAreUnambiguous == Spec => []LookupUnambiguous
<1>1. IInv => LookupUnambiguous
  <2> SUFFICES ASSUME IInv, NEW b \in records, NEW c \in records,
                      \/ b.bucketKey = c.bucketKey
                      \/ b.previewUrl = c.previewUrl
               PROVE  b = c
    BY DEF LookupUnambiguous
  <2>1. TypeOK /\ KeysAreOwn /\ RecordsHaveUpload
    BY DEF IInv
  <2>2. PICK u \in Uploads : b = RecordOf(u)
    BY <2>1 DEF RecordsHaveUpload
  <2>3. PICK v \in Uploads : c = RecordOf(v)
    BY <2>1 DEF RecordsHaveUpload
  <2>4. b.bucketKey # NoKey /\ c.bucketKey # NoKey /\ b.previewUrl # NoKey
    BY <2>1, KeyAssumption DEF TypeOK, ContentData
  <2>5. \/ keys[u]["original"] = keys[v]["original"] /\ keys[u]["original"] # NoKey
        \/ keys[u]["preview"] = keys[v]["preview"] /\ keys[u]["preview"] # NoKey
    BY <2>2, <2>3, <2>4 DEF RecordOf
  <2>6. u = v
    BY <2>1, <2>5 DEF KeysAreOwn, Phases
  <2> QED
    BY <2>2, <2>3, <2>6
<1> QED
  BY <1>1, Invariant, PTL

(* The record of an accepted upload names every bucket it made             *)
(* (upload.go:109).                                                        *)
THEOREM AcceptedUploadsLeaveNoOrphan == Spec => []AcceptedLeavesNoOrphan
<1>1. IInv => AcceptedLeavesNoOrphan
  <2> SUFFICES ASSUME IInv, NEW k \in Keys,
                      buckets[k].of \in Uploads, answer[buckets[k].of] = "ok"
               PROVE  \E c \in records : k \in {c.bucketKey, c.previewUrl}
    BY DEF AcceptedLeavesNoOrphan
  <2>1. RecordOf(buckets[k].of) \in records
    BY DEF IInv, AcceptedIsRecorded
  <2>2. k \in {keys[buckets[k].of]["original"], keys[buckets[k].of]["preview"]}
    BY DEF IInv, BucketsAreKnown
  <2> QED
    BY <2>1, <2>2 DEF RecordOf
<1> QED
  BY <1>1, Invariant, PTL

-----------------------------------------------------------------------------
(* The store implements the catalogue.                                     *)
Listed == UploadsOf(records)
Told == [q \in Queries |-> UploadsOf(results[q])]

catVars == <<Listed, answer, served, Told>>

LEMMA ListedKept ==
  ASSUME IInv, [Next]_vars
  PROVE  \A c \in records : buckets'[c.bucketKey].of = buckets[c.bucketKey].of
  BY NextKeeps, RequestAssumption
     DEF IInv, TypeOK, ContentData, RecordIsWhole, Kept, NoBucket

(* An error ends a request, and refuses it.                                *)
LEMMA ErrorRefuses ==
  ASSUME IInv, NEW r \in Requests, pc[r] # "done", Answer(r, "error"),
         Listed' = Listed, served' = served, Told' = Told
  PROVE  Cat!Refuse(r)
  BY DEF Answer, IInv, AnswersEnd, TypeOK, Listed, Told, Cat!Refuse

LEMMA StepRefines ==
  IInv /\ [Next]_vars => [Cat!Next]_catVars
<1> SUFFICES ASSUME IInv, [Next]_vars
             PROVE  Cat!Next \/ UNCHANGED catVars
  OBVIOUS
<1> USE RequestAssumption DEF Requests, Cat!Requests
<1>1. TypeOK /\ AnswersEnd
  BY DEF IInv
<1>2. records' = records => Listed' = Listed
  BY ListedKept DEF Listed, UploadsOf
<1>10. \A q \in Queries : results'[q] = results[q] => UploadsOf(results[q])' = UploadsOf(results[q])
  BY ListedKept DEF UploadsOf, IInv, QueriesTellRecords
<1>11. results' = results => Told' = Told
  BY <1>10 DEF Told
<1>3. ASSUME NEW r \in Requests, NEW where, pc[r] # "done",
             Goto(r, where) \/ Answer(r, "error"), records' = records, served' = served,
             results' = results
      PROVE  Cat!Next \/ UNCHANGED catVars
  <2>1. CASE Answer(r, "error")
    BY <1>2, <1>3, <1>11, <2>1, ErrorRefuses DEF Cat!Next
  <2>2. CASE Goto(r, where)
    BY <1>2, <1>3, <1>11, <2>2 DEF Goto, catVars
  <2> QED
    BY <1>3, <2>1, <2>2
<1>4. ASSUME NEW u \in Uploads, InsertToContentDB(u) PROVE Cat!Next
  <2>1. /\ records' = records \cup {RecordOf(u)} /\ buckets' = buckets
        /\ buckets[RecordOf(u).bucketKey].of = u
    BY <1>4, InsertionIsWhole DEF RecordOf
  <2>2. Listed' = Listed \cup {u}
    BY <2>1 DEF Listed, UploadsOf
  <2>3. answer[u] = "none"
    BY <1>1, <1>4 DEF InsertToContentDB, AnswersEnd, TypeOK
  <2>4. /\ \E a \in {"ok", "error"} : answer' = [answer EXCEPT ![u] = a]
        /\ served' = served /\ Told' = Told
    BY <1>4, <1>11 DEF InsertToContentDB, Answer
  <2>5. Cat!List(u)
    BY <2>2, <2>3, <2>4 DEF Cat!List, Listed, Told
  <2> QED
    BY <2>5 DEF Cat!Next
<1>5. ASSUME NEW d \in Downloads, PullBytesFromBucket(d), Answer(d, "ok"),
             served' = [served EXCEPT ![d] = buckets[found[d].bucketKey].of]
      PROVE  Cat!Next
  <2>1. found[d] \in records /\ answer[d] = "none" /\ records' = records /\ results' = results
    BY <1>1, <1>5 DEF PullBytesFromBucket, IInv, DownloadStage, AnswersEnd
  <2>2. buckets[found[d].bucketKey].of \in Uploads /\ buckets[found[d].bucketKey].of \in Listed
    BY <2>1 DEF IInv, RecordIsWhole, Listed, UploadsOf
  <2>3. Cat!Serve(d, buckets[found[d].bucketKey].of)
    BY <1>2, <1>5, <1>11, <2>1, <2>2 DEF Cat!Serve, Answer, Listed, Told
  <2> QED
    BY <2>2, <2>3 DEF Cat!Next
<1>6. ASSUME NEW u \in Uploads,
             \/ \E data \in UploadData : ReceiveUpload(u, data)
             \/ CreateBucket(u) \/ PushPath(u) \/ Links(u) \/ GetPreviewFrom(u)
      PROVE  Cat!Next \/ UNCHANGED catVars
  BY <1>3, <1>6 DEF ReceiveUpload, CreateBucket, PushPath, Links, GetPreviewFrom, GoOnOrFail
<1>7. ASSUME NEW d \in Downloads,
             \/ \E data \in DownloadData : GetContentDataRecord(d, data)
             \/ PullBytesFromBucket(d)
      PROVE  Cat!Next \/ UNCHANGED catVars
  BY <1>3, <1>5, <1>7 DEF GetContentDataRecord, PullBytesFromBucket
<1>8. ASSUME NEW r \in Requests, Unsupported(r) \/ CallFails(r)
      PROVE  Cat!Next \/ UNCHANGED catVars
  BY <1>3, <1>8 DEF Unsupported, CallFails, Calling
<1>9. CASE ServerCrash \/ UNCHANGED vars
  BY <1>2, <1>9, <1>11 DEF ServerCrash, vars, catVars
<1>12. ASSUME NEW q \in Queries, QueryWithJsonApiQuery(q)
       PROVE  Cat!Next
  <2>1. /\ pc[q] = "idle" /\ answer[q] = "none" /\ records' = records /\ served' = served
        /\ q \in Requests
    BY <1>1, <1>12 DEF QueryWithJsonApiQuery, AnswersEnd, TypeOK
  <2>2. CASE Answer(q, "error") /\ UNCHANGED results
    BY <1>2, <1>11, <2>1, <2>2, ErrorRefuses DEF Cat!Next
  <2>3. ASSUME NEW S \in SUBSET records, results' = [results EXCEPT ![q] = S], Answer(q, "ok")
        PROVE  Cat!Next
    <3>1. UploadsOf(S)' = UploadsOf(S) /\ UploadsOf(S) \subseteq Listed
      BY ListedKept DEF UploadsOf, Listed
    <3>2. UploadsOf(S) \subseteq Uploads
      BY DEF UploadsOf, IInv, RecordIsWhole
    <3>3. Told' = [Told EXCEPT ![q] = UploadsOf(S)]
      BY <1>1, <1>10, <2>3, <3>1 DEF Told, TypeOK
    <3>4. Cat!Tell(q, UploadsOf(S))
      BY <1>2, <2>1, <2>3, <3>1, <3>3 DEF Cat!Tell, Answer, Listed, Told
    <3> QED
      BY <3>2, <3>4 DEF Cat!Next
  <2> QED
    BY <1>12, <2>2, <2>3 DEF QueryWithJsonApiQuery
<1> QED
  BY <1>4, <1>6, <1>7, <1>8, <1>9, <1>12 DEF Next

(* To its clients the chain of remote calls of an upload is one: it enters *)
(* the catalogue whole, or not at all (upload.go, jsonapi.go, download.go).*)
THEOREM StoreImplementsCatalogue == Spec => KeepsCatalogue
<1>1. Init => Cat!Init
  BY DEF Init, Cat!Init, UploadsOf, Requests, Cat!Requests
<1>2. IInv /\ [Next]_vars => [Cat!Next]_(Cat!vars)
  BY StepRefines DEF catVars, Listed, Told, Cat!vars
<1> QED
  BY <1>1, <1>2, Invariant, PTL DEF Spec, KeepsCatalogue, Cat!Spec
=============================================================================
