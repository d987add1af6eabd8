---------------------------- MODULE ContentStore ----------------------------
(***************************************************************************)
(* What the server makes of a request (backend/pkg/libp2pnode, over        *)
(* backend/pkg/textilehelper).                                             *)
(*                                                                         *)
(* An upload is a chain of remote calls: a private bucket with the file, a *)
(* public bucket with a preview, a ContentData record that names both.     *)
(* Every call may fail, before or after it took effect, nothing is undone, *)
(* and the server may die between any two.  Requests run side by side, one *)
(* goroutine each.                                                         *)
(*                                                                         *)
(* The upload and download protocols and the json protocol's "upload" and  *)
(* "download" run the same code over different envelopes; "query" is json  *)
(* only.  A file is known by the upload that brought it, without names or  *)
(* descriptions: an upload without a file or owner name is refused by the  *)
(* collection like one of size zero.                                       *)
(***************************************************************************)
EXTENDS Naturals

CONSTANTS
    Uploads,    \* requests that bring a file
    Downloads,  \* requests that ask for one
    Queries,    \* requests that ask for records
    Keys,       \* bucket keys Textile hands out, also the links to buckets
    NoKey,      \* the empty key
    NoUpload,   \* "nothing served"
    Lengths     \* file lengths

Requests == Uploads \cup Downloads \cup Queries

ASSUME RequestAssumption ==
    /\ Uploads \cap Downloads = {}
    /\ Queries \cap (Uploads \cup Downloads) = {}
    /\ NoUpload \notin Uploads
ASSUME KeyAssumption == NoKey \notin Keys
ASSUME LengthAssumption == Lengths \subseteq Nat /\ 0 \in Lengths

VARIABLES
    pc,       \* where the goroutine of each request stands
    input,    \* what each request carries
    phase,    \* which of its buckets an upload is filling
    keys,     \* the keys of the buckets an upload has made, by phase
    found,    \* the record a download has found
    answer,   \* what each request was answered
    served,   \* the upload whose file a download was given
    results,  \* the records a query was given
    buckets,  \* Textile: the buckets
    records   \* Textile: the ContentData collection

vars == <<pc, input, phase, keys, found, answer, served, results, buckets, records>>

Phases == {"original", "preview"}

(* How the preview of an upload comes about (preview.go): not wanted,      *)
(* brought along, converted from an image or a video, or - for any other   *)
(* file - the file itself.                                                 *)
Previews == {"none", "given", "converted", "fake"}

UploadData == [length : Lengths, size : Lengths, preview : Previews]
DownloadData == [bucketKey : Keys \cup {NoKey}, previewUrl : Keys \cup {NoKey}]
NoInput == [length |-> 0, size |-> 0, preview |-> "none"]

Bucket == [of : Uploads, private : BOOLEAN, holds : {"nothing", "original", "preview"}]
NoBucket == [of |-> NoUpload, private |-> FALSE, holds |-> "nothing"]

ContentData == [bucketKey : Keys, previewUrl : Keys, size : Lengths \ {0}]
NoRecord == [bucketKey |-> NoKey, previewUrl |-> NoKey, size |-> 0]

Calling == {"bucket", "push", "links", "preview", "insert", "pull"}

Init ==
    /\ pc = [r \in Requests |-> "idle"]
    /\ input = [r \in Uploads \cup Downloads |->
                  IF r \in Uploads THEN NoInput
                  ELSE [bucketKey |-> NoKey, previewUrl |-> NoKey]]
    /\ phase = [u \in Uploads |-> "original"]
    /\ keys = [u \in Uploads |-> [f \in Phases |-> NoKey]]
    /\ found = [d \in Downloads |-> NoRecord]
    /\ answer = [r \in Requests |-> "none"]
    /\ served = [d \in Downloads |-> NoUpload]
    /\ results = [q \in Queries |-> {}]
    /\ buckets = [k \in Keys |-> NoBucket]
    /\ records = {}

Goto(r, where) == pc' = [pc EXCEPT ![r] = where] /\ UNCHANGED answer

Answer(r, a) ==
    /\ pc' = [pc EXCEPT ![r] = "done"]
    /\ answer' = [answer EXCEPT ![r] = a]

(* The remote call was made: the goroutine hears of it, or of an error.    *)
GoOnOrFail(r, where) == Goto(r, where) \/ Answer(r, "error")

(* The schema of the collection requires every field, and a field that is  *)
(* empty or zero is not sent: without a preview or a size no record is     *)
(* made, whatever the upload has made before (models/content.go).          *)
Insertable(u) == keys[u]["preview"] # NoKey /\ input[u].size # 0

-----------------------------------------------------------------------------
(* Faulty variants of actions below, each a slip the code could have.      *)

(* The length is not looked at.                                            *)
FaultyReceiveUpload(u, data) ==
    /\ pc[u] = "idle"
    /\ input' = [input EXCEPT ![u] = data]
    /\ Goto(u, "bucket")
    /\ UNCHANGED <<phase, keys, found, served, results, buckets, records>>

(* The file is pushed in the background, and its error not waited for.     *)
FaultyCreateBucketNoPush(u) ==
    /\ pc[u] = "bucket"
    /\ \E k \in Keys :
          /\ buckets[k] = NoBucket
          /\ buckets' = [buckets EXCEPT ![k] =
                [of |-> u, private |-> phase[u] = "original", holds |-> "nothing"]]
          /\ keys' = [keys EXCEPT ![u][phase[u]] = k]
    /\ GoOnOrFail(u, "links")
    /\ UNCHANGED <<input, phase, found, served, results, records>>

(* Private and public are mixed up.                                        *)
FaultyCreateBucketPublic(u) ==
    /\ pc[u] = "bucket"
    /\ \E k \in Keys :
          /\ buckets[k] = NoBucket
          /\ buckets' = [buckets EXCEPT ![k] =
                [of |-> u, private |-> phase[u] # "original", holds |-> "nothing"]]
          /\ keys' = [keys EXCEPT ![u][phase[u]] = k]
    /\ GoOnOrFail(u, "push")
    /\ UNCHANGED <<input, phase, found, served, results, records>>

(* The error of the insertion is lost.                                     *)
FaultyInsertUnchecked(u) ==
    /\ pc[u] = "insert"
    /\ \/ UNCHANGED records
       \/ /\ Insertable(u)
          /\ records' = records \cup
               {[bucketKey |-> keys[u]["original"], previewUrl |-> keys[u]["preview"],
                 size |-> input[u].size]}
    /\ Answer(u, "ok")
    /\ UNCHANGED <<input, phase, keys, found, served, results, buckets>>

(* The collection is made without its schema.                              *)
FaultyInsertSparse(u) ==
    /\ pc[u] = "insert"
    /\ records' = records \cup
          {[bucketKey |-> keys[u]["original"], previewUrl |-> keys[u]["preview"],
            size |-> input[u].size]}
    /\ Answer(u, "ok") \/ Answer(u, "error")
    /\ UNCHANGED <<input, phase, keys, found, served, results, buckets>>

(* A download is answered with whatever the collection has first.          *)
FaultyLookUpAny(d, data) ==
    /\ pc[d] = "idle"
    /\ input' = [input EXCEPT ![d] = data]
    /\ \E c \in records : found' = [found EXCEPT ![d] = c]
    /\ Goto(d, "pull")
    /\ UNCHANGED <<phase, keys, served, results, buckets, records>>

-----------------------------------------------------------------------------
(* Uploads.                                                                *)

(* Only a file shorter than announced is refused.  Json input that does    *)
(* not decode is taken for an upload of nothing.                           *)
ReceiveUpload(u, data) ==
    /\ pc[u] = "idle"
    /\ input' = [input EXCEPT ![u] = data]
    /\ \/ data.length < data.size /\ Answer(u, "error")
       \/ data.length >= data.size /\ Goto(u, "bucket")
    /\ UNCHANGED <<phase, keys, found, served, results, buckets, records>>

(* A new bucket, private for the file and public for the preview.          *)
CreateBucket(u) ==
    /\ pc[u] = "bucket"
    /\ \E k \in Keys :
          /\ buckets[k] = NoBucket
          /\ buckets' = [buckets EXCEPT ![k] =
                [of |-> u, private |-> phase[u] = "original", holds |-> "nothing"]]
          /\ keys' = [keys EXCEPT ![u][phase[u]] = k]
    /\ GoOnOrFail(u, "push")
    /\ UNCHANGED <<input, phase, found, served, results, records>>

PushPath(u) ==
    /\ pc[u] = "push"
    /\ buckets' = [buckets EXCEPT ![keys[u][phase[u]]].holds =
                     IF phase[u] = "original" \/ input[u].preview = "fake"
                     THEN "original" ELSE "preview"]
    /\ GoOnOrFail(u, "links")
    /\ UNCHANGED <<input, phase, keys, found, served, results, records>>

(* The bucket's link is read; the other bucket, or the record, is next.    *)
Links(u) ==
    /\ pc[u] = "links"
    /\ Goto(u, IF phase[u] = "original" THEN "preview" ELSE "insert")
    /\ UNCHANGED <<input, phase, keys, found, served, results, buckets, records>>

GetPreviewFrom(u) ==
    /\ pc[u] = "preview"
    /\ \/ /\ input[u].preview = "none"
          /\ Goto(u, "insert")
          /\ UNCHANGED phase
       \/ /\ input[u].preview # "none"
          /\ Goto(u, "bucket")
          /\ phase' = [phase EXCEPT ![u] = "preview"]
    /\ UNCHANGED <<input, keys, found, served, results, buckets, records>>

InsertToContentDB(u) ==
    /\ pc[u] = "insert"
    /\ Insertable(u)
    /\ records' = records \cup
          {[bucketKey |-> keys[u]["original"], previewUrl |-> keys[u]["preview"],
            size |-> input[u].size]}
    /\ Answer(u, "ok") \/ Answer(u, "error")
    /\ UNCHANGED <<input, phase, keys, found, served, results, buckets>>

-----------------------------------------------------------------------------
(* Downloads.                                                              *)

(* The bucket key is looked at first; with neither there is no query.      *)
Matches(c, data) ==
    \/ data.bucketKey # NoKey /\ c.bucketKey = data.bucketKey
    \/ data.bucketKey = NoKey /\ data.previewUrl # NoKey /\ c.previewUrl = data.previewUrl

(* The first of the records that match is taken, in no stated order; the   *)
(* error is that of the query, or that nothing matches.                    *)
GetContentDataRecord(d, data) ==
    /\ pc[d] = "idle"
    /\ input' = [input EXCEPT ![d] = data]
    /\ \/ \E c \in records :
             /\ Matches(c, data)
             /\ found' = [found EXCEPT ![d] = c]
             /\ Goto(d, "pull")
       \/ Answer(d, "error") /\ UNCHANGED found
    /\ UNCHANGED <<phase, keys, served, results, buckets, records>>

(* The bucket a record names holds a file as long as the record says.      *)
Pullable(c) ==
    /\ buckets[c.bucketKey].holds # "nothing"
    /\ input[buckets[c.bucketKey].of].length >= c.size

PullBytesFromBucket(d) ==
    /\ pc[d] = "pull"
    /\ \/ /\ Pullable(found[d])
          /\ served' = [served EXCEPT ![d] = buckets[found[d].bucketKey].of]
          /\ Answer(d, "ok")
       \/ ~Pullable(found[d]) /\ Answer(d, "error") /\ UNCHANGED served
    /\ UNCHANGED <<input, phase, keys, found, results, buckets, records>>

-----------------------------------------------------------------------------
(* Queries: the records the collection finds for the field, operation and  *)
(* value asked for, in one call.                                           *)
QueryWithJsonApiQuery(q) ==
    /\ pc[q] = "idle"
    /\ \/ \E S \in SUBSET records : results' = [results EXCEPT ![q] = S] /\ Answer(q, "ok")
       \/ UNCHANGED results /\ Answer(q, "error")
    /\ UNCHANGED <<input, phase, keys, found, served, buckets, records>>

-----------------------------------------------------------------------------
(* Json of an unknown type.                                                *)
Unsupported(r) ==
    /\ pc[r] = "idle"
    /\ Answer(r, "error")
    /\ UNCHANGED <<input, phase, keys, found, served, results, buckets, records>>

(* A remote call, or the conversion of a preview, fails without effect.    *)
CallFails(r) ==
    /\ pc[r] \in Calling
    /\ pc[r] = "preview" => input[r].preview = "converted"
    /\ Answer(r, "error")
    /\ UNCHANGED <<input, phase, keys, found, served, results, buckets, records>>

(* The server dies; Textile keeps what it has.                             *)
ServerCrash ==
    /\ pc' = [r \in Requests |-> IF pc[r] \in Calling THEN "lost" ELSE pc[r]]
    /\ UNCHANGED <<input, phase, keys, found, answer, served, results, buckets, records>>

Next ==
    \/ \E u \in Uploads :
          \/ \E data \in UploadData : ReceiveUpload(u, data)
          \/ CreateBucket(u) \/ PushPath(u) \/ Links(u)
          \/ GetPreviewFrom(u) \/ InsertToContentDB(u)
    \/ \E d \in Downloads :
          \/ \E data \in DownloadData : GetContentDataRecord(d, data)
          \/ PullBytesFromBucket(d)
    \/ \E q \in Queries : QueryWithJsonApiQuery(q)
    \/ \E r \in Requests : Unsupported(r) \/ CallFails(r)
    \/ ServerCrash

Spec == Init /\ [][Next]_vars

-----------------------------------------------------------------------------
TypeOK ==
    /\ pc \in [Requests -> {"idle", "done", "lost"} \cup Calling]
    /\ input \in [Uploads \cup Downloads -> UploadData \cup DownloadData]
    /\ \A u \in Uploads : input[u] \in UploadData
    /\ \A d \in Downloads : input[d] \in DownloadData
    /\ phase \in [Uploads -> Phases]
    /\ keys \in [Uploads -> [Phases -> Keys \cup {NoKey}]]
    /\ found \in [Downloads -> ContentData \cup {NoRecord}]
    /\ answer \in [Requests -> {"none", "ok", "error"}]
    /\ served \in [Downloads -> Uploads \cup {NoUpload}]
    /\ results \in [Queries -> SUBSET ContentData]
    /\ buckets \in [Keys -> Bucket \cup {NoBucket}]
    /\ records \subseteq ContentData

(* A record never names a half-made content, whatever failed around it:    *)
(* its file lies in a private bucket, at least as long as the record says, *)
(* and its preview in a public bucket of the same upload (upload.go:75-109, *)
(* jsonapi.go:123-157).                                                    *)
RecordIsWhole ==
    \A c \in records :
        LET file == buckets[c.bucketKey]
            preview == buckets[c.previewUrl]
        IN  /\ file.of \in Uploads /\ file.private /\ file.holds = "original"
            /\ input[file.of].length >= c.size
            /\ preview.of = file.of /\ ~preview.private /\ preview.holds # "nothing"

(* A record once found, or listed by a query, can be pulled from then on:  *)
(* the checks of the upload imply those of the download (upload.go:69,     *)
(* download.go:94, jsonapi.go:65-84).                                      *)
FoundIsPullable ==
    /\ \A d \in Downloads : pc[d] = "pull" => Pullable(found[d])
    /\ \A q \in Queries : \A c \in results[q] : Pullable(c)

(* A bucket key is "unique for each content" (p2p.proto:45), and so is the *)
(* link to a preview: a lookup never has to choose between two records, as *)
(* the code fears it might (download.go:74).                               *)
LookupUnambiguous ==
    \A b, c \in records :
        \/ b.bucketKey = c.bucketKey
        \/ b.previewUrl = c.previewUrl
        => b = c

(* A download is given the file of the very upload whose bucket, or whose  *)
(* preview, it named (download.go:47-76).                                  *)
ServedAsAsked ==
    \A d \in Downloads : answer[d] = "ok" =>
        \E k \in Keys :
            /\ \/ input[d].bucketKey = k
               \/ input[d].bucketKey = NoKey /\ input[d].previewUrl = k
            /\ buckets[k].of = served[d]

(* A failed upload may leave buckets that no record names, an accepted one *)
(* leaves none.                                                            *)
AcceptedLeavesNoOrphan ==
    \A k \in Keys :
        LET u == buckets[k].of
        IN  u \in Uploads /\ answer[u] = "ok" =>
              \E c \in records : k \in {c.bucketKey, c.previewUrl}

(* A public bucket holds an original only where the code falls back to the *)
(* whole file for a preview (preview.go:83-85).                            *)
OriginalsStayPrivate ==
    \A k \in Keys :
        (buckets[k].holds = "original" /\ ~buckets[k].private)
            => input[buckets[k].of].preview = "fake"

UploadsOf(S) == {buckets[c.bucketKey].of : c \in S}

Cat == INSTANCE Catalogue
         WITH listed <- UploadsOf(records),
              told <- [q \in Queries |-> UploadsOf(results[q])]

(* To its clients the chain of remote calls is one: the store implements   *)
(* the catalogue.                                                          *)
KeepsCatalogue == Cat!Spec
=============================================================================
