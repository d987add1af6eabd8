------------------------------ MODULE Preview ------------------------------
(***************************************************************************)
(* How the preview of one upload is made (libp2pnode/preview.go, tools/    *)
(* imagepreview, tools/videopreview).                                      *)
(*                                                                         *)
(* A gif is cut by ffmpeg, a child process behind the goffmpeg library     *)
(* (external).  Its input is a file in a temporary directory, its standard *)
(* error is drained for progress by the caller, its standard output is     *)
(* read by a goroutine that shares "err" and "data" with the caller.  What *)
(* is published is counted in chunks of output.                            *)
(***************************************************************************)
EXTENDS Naturals

CONSTANTS
    Output,    \* chunks of a whole gif
    PipeSize   \* what a pipe between processes holds

ASSUME SizeAssumption == Output \in Nat /\ PipeSize \in Nat \ {0}

VARIABLES
    request,  \* what the upload says of its preview
    pc,       \* where the caller stands
    dir,      \* is the temporary directory there?
    ffmpeg,   \* the child process
    at,       \* how far ffmpeg is: a progress line, a chunk, a line, ...
    stdout,   \* chunks between ffmpeg and the reader
    stderr,   \* progress lines between ffmpeg and the caller
    pipe,     \* the write end of the output pipe
    done,     \* what goffmpeg sends on its done channel
    reader,   \* where the reading goroutine stands
    got,      \* chunks the reader has read
    data,     \* the shared data, nil being 0
    err,      \* the shared err, and who wrote its nil
    preview   \* what GetPreviewFrom returns

vars == <<request, pc, dir, ffmpeg, at, stdout, stderr, pipe, done,
          reader, got, data, err, preview>>

child == <<ffmpeg, at, stdout, stderr>>
shared == <<data, err>>

Request == [wanted : BOOLEAN, given : BOOLEAN,
            fileType : {"", "image", "video", "other"}, media : {"image", "video", "other"}]

Init ==
    /\ request \in Request
    /\ pc = "asked" /\ dir = FALSE
    /\ ffmpeg = "none" /\ at = 0 /\ stdout = 0 /\ stderr = 0
    /\ pipe = "none" /\ done = "none"
    /\ reader = "none" /\ got = 0
    /\ data = 0 /\ err = "nil"
    /\ preview = "none"

-----------------------------------------------------------------------------
(* The caller.                                                             *)

(* The declared type decides if it is one of the two, the content if not.  *)
Converted(req) == IF req.fileType \in {"image", "video"} THEN req.fileType ELSE req.media

GetPreviewFrom ==
    /\ pc = "asked"
    /\ \/ ~request.wanted /\ preview' = "nothing" /\ pc' = "returned"
       \/ request.wanted /\ request.given /\ preview' = "given" /\ pc' = "returned"
       \/ /\ request.wanted /\ ~request.given
          /\ \/ /\ Converted(request) = "image"
                /\ preview' \in {"thumbnail", "error"} /\ pc' = "returned"
             \/ Converted(request) = "video" /\ pc' = "dir" /\ UNCHANGED preview
             \/ Converted(request) = "other" /\ preview' = "fake" /\ pc' = "returned"
    /\ UNCHANGED <<request, dir, child, pipe, done, reader, got, shared>>

(* Every return removes the directory.                                     *)
Return(what) == pc' = "returned" /\ preview' = what /\ dir' = FALSE

TempDir ==
    /\ pc = "dir"
    /\ \/ pc' = "prepare" /\ dir' = TRUE /\ UNCHANGED preview
       \/ Return("error")
    /\ UNCHANGED <<request, child, pipe, done, reader, got, shared>>

(* The input is written, and the reader started on the output pipe.        *)
Prepare ==
    /\ pc = "prepare"
    /\ \/ pc' = "run" /\ pipe' = "open" /\ reader' = "reading" /\ UNCHANGED <<preview, dir>>
       \/ Return("error") /\ UNCHANGED <<pipe, reader>>
    /\ UNCHANGED <<request, child, done, got, shared>>

(* Faulty variant: the caller waits for the end first, and drains later.   *)
FaultyRun ==
    /\ pc = "run"
    /\ pc' = "await"
    /\ \/ ffmpeg' = "running" /\ UNCHANGED done
       \/ ffmpeg' = "unstarted" /\ done' = "error"
    /\ UNCHANGED <<request, dir, at, stdout, stderr, pipe, reader, got, shared, preview>>

Run ==
    /\ pc = "run"
    /\ pc' = "drain"
    /\ \/ ffmpeg' = "running" /\ UNCHANGED done
       \/ ffmpeg' = "unstarted" /\ done' = "error"
    /\ UNCHANGED <<request, dir, at, stdout, stderr, pipe, reader, got, shared, preview>>

(* Until the progress channel is closed; lines can be lost at the end.     *)
Drain ==
    /\ pc = "drain"
    /\ \/ stderr > 0 /\ stderr' = stderr - 1 /\ pc' = pc
       \/ ffmpeg # "running" /\ pc' = "await" /\ UNCHANGED stderr
    /\ UNCHANGED <<request, dir, ffmpeg, at, stdout, pipe, done, reader, got, shared, preview>>

Await ==
    /\ pc = "await"
    /\ done \in {"nil", "error"}
    /\ pc' = "check" /\ err' = done
    /\ UNCHANGED <<request, dir, child, pipe, done, reader, got, data, preview>>

(* Faulty variant: the error is only logged.                               *)
FaultyCheck ==
    /\ pc = "check"
    /\ pc' = "wait"
    /\ UNCHANGED <<request, dir, child, pipe, done, reader, got, shared, preview>>

(* A data race: another goroutine may have written "err" since, and what   *)
(* is looked at is what was received or what is there now.                 *)
Check ==
    /\ pc = "check"
    /\ \E seen \in {done, err} :
          \/ seen = "error" /\ Return("error")
          \/ seen # "error" /\ pc' = "wait" /\ UNCHANGED <<preview, dir>>
    /\ UNCHANGED <<request, child, pipe, done, reader, got, shared>>

(* Faulty variant: the reader is not waited for.                           *)
FaultyWait ==
    /\ pc = "wait"
    /\ Return("gif")
    /\ UNCHANGED <<request, child, pipe, done, reader, got, shared>>

Wait ==
    /\ pc = "wait"
    /\ reader = "done"
    /\ Return("gif")
    /\ UNCHANGED <<request, child, pipe, done, reader, got, shared>>

-----------------------------------------------------------------------------
(* The reader.                                                             *)
Read ==
    /\ reader = "reading"
    /\ \/ stdout > 0 /\ stdout' = stdout - 1 /\ got' = got + 1
          /\ UNCHANGED <<reader, shared>>
       \/ stdout = 0 /\ pipe = "closed" /\ reader' = "assigned"
          /\ data' = got /\ err' = "nil of reader" /\ UNCHANGED <<stdout, got>>
    /\ UNCHANGED <<request, pc, dir, ffmpeg, at, stderr, pipe, done, preview>>

ReaderDone ==
    /\ reader = "assigned"
    /\ reader' = "done"
    /\ UNCHANGED <<request, pc, dir, child, pipe, done, got, shared, preview>>

-----------------------------------------------------------------------------
(* ffmpeg and goffmpeg.                                                    *)
Total == 2 * Output

(* A line of progress before every chunk; a full pipe holds it up.         *)
FfmpegWrites ==
    /\ ffmpeg = "running" /\ at < Total
    /\ \/ at % 2 = 0 /\ stderr < PipeSize /\ stderr' = stderr + 1 /\ UNCHANGED stdout
       \/ at % 2 = 1 /\ stdout < PipeSize /\ stdout' = stdout + 1 /\ UNCHANGED stderr
    /\ at' = at + 1
    /\ UNCHANGED <<request, pc, dir, ffmpeg, pipe, done, reader, got, shared, preview>>

FfmpegEnds ==
    /\ ffmpeg = "running"
    /\ ffmpeg' \in {"failed"} \cup (IF at = Total THEN {"succeeded"} ELSE {})
    /\ UNCHANGED <<request, pc, dir, at, stdout, stderr, pipe, done, reader, got, shared, preview>>

(* proc.Wait: the process has ended and its output has been copied.        *)
ProcWait ==
    /\ ffmpeg \in {"succeeded", "failed"} /\ stdout = 0 /\ done = "none"
    /\ done' = IF ffmpeg = "failed" THEN "error" ELSE "nil"
    /\ UNCHANGED <<request, pc, dir, child, pipe, reader, got, shared, preview>>

(* Faulty variant: the pipes of a failed process are left open.            *)
FaultyClosePipes ==
    /\ ffmpeg = "succeeded" /\ done # "none" /\ pipe = "open"
    /\ pipe' = "closed"
    /\ UNCHANGED <<request, pc, dir, child, done, reader, got, shared, preview>>

(* In a goroutine of its own, next to the answer on the channel.           *)
ClosePipes ==
    /\ ffmpeg \in {"succeeded", "failed"} /\ done # "none" /\ pipe = "open"
    /\ pipe' = "closed"
    /\ UNCHANGED <<request, pc, dir, child, done, reader, got, shared, preview>>

Caller == GetPreviewFrom \/ TempDir \/ Prepare \/ Run \/ Drain \/ Await \/ Check \/ Wait
Reader == Read \/ ReaderDone
Ffmpeg == FfmpegWrites \/ FfmpegEnds

Next == Caller \/ Reader \/ Ffmpeg \/ ProcWait \/ ClosePipes

(* Goroutines and processes that can run do.  Nothing makes ffmpeg fail.   *)
Fairness ==
    /\ WF_vars(Caller) /\ WF_vars(Reader)
    /\ WF_vars(FfmpegWrites) /\ WF_vars(at = Total /\ FfmpegEnds)
    /\ WF_vars(ProcWait) /\ WF_vars(ClosePipes)

Spec == Init /\ [][Next]_vars /\ Fairness

-----------------------------------------------------------------------------
TypeOK ==
    /\ request \in Request
    /\ pc \in {"asked", "dir", "prepare", "run", "drain", "await", "check", "wait", "returned"}
    /\ dir \in BOOLEAN
    /\ ffmpeg \in {"none", "running", "unstarted", "succeeded", "failed"}
    /\ at \in 0..Total
    /\ stdout \in 0..PipeSize /\ stderr \in 0..PipeSize
    /\ pipe \in {"none", "open", "closed"}
    /\ done \in {"none", "nil", "error"}
    /\ reader \in {"none", "reading", "assigned", "done"}
    /\ got \in 0..Output /\ data \in 0..Output
    /\ err \in {"nil", "nil of reader", "error"}
    /\ preview \in {"none", "nothing", "given", "thumbnail", "gif", "fake", "error"}

(* A gif that ffmpeg has finished is returned whole, though three parties  *)
(* hold parts of it when the last one ends (videopreview.go:52-98).        *)
FinishedGifIsWhole ==
    preview = "gif" /\ ffmpeg = "succeeded" => data = Output

(* Only the race on "err" makes a preview of what a failed ffmpeg has left *)
(* behind: the reader wrote its nil after the caller received the error    *)
(* (videopreview.go:58, 92-93).                                            *)
FailureHiddenOnlyByRace ==
    preview = "gif" /\ ffmpeg # "succeeded" =>
        ffmpeg = "failed" /\ err = "nil of reader"

(* The input stays as long as ffmpeg may read it, and no longer than the   *)
(* call (videopreview.go:24-28).                                           *)
InputSpansFfmpeg ==
    /\ ffmpeg = "running" => dir
    /\ pc = "returned" => ~dir

(* The reader outlives the call only if ffmpeg failed; it is never left on *)
(* a pipe that stays open but where ffmpeg did not start                   *)
(* (videopreview.go:52-62).                                                *)
ReaderEnds == (reader = "reading" /\ ffmpeg = "running") ~> (reader = "done")

(* The call comes back: neither of the pipes ffmpeg writes to fills up for *)
(* good (videopreview.go:82-97).                                           *)
Returns == (pc = "asked") ~> (pc = "returned")
=============================================================================
