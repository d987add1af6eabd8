--------------------------- MODULE PreviewProofs ---------------------------
(***************************************************************************)
(* Proofs about the making of a preview, for a gif of any length and pipes *)
(* of any size.                                                            *)
(***************************************************************************)
EXTENDS Preview, TLAPS

Ended == {"succeeded", "failed"}

(* The type invariant, in two parts: the counters and the rest.            *)
Counters ==
    /\ Output \in Nat /\ PipeSize \in Nat
    /\ at \in Nat /\ at <= 2 * Output
    /\ stdout \in Nat /\ stdout <= PipeSize
    /\ stderr \in Nat /\ stderr <= PipeSize
    /\ got \in Nat /\ got <= Output
    /\ data \in Nat /\ data <= Output

Places ==
    /\ pc \in {"asked", "dir", "prepare", "run", "drain", "await", "check", "wait", "returned"}
    /\ ffmpeg \in {"none", "running", "unstarted", "succeeded", "failed"}
    /\ pipe \in {"none", "open", "closed"}
    /\ done \in {"none", "nil", "error"}

ReaderPlaces ==
    /\ reader \in {"none", "reading", "assigned", "done"}
    /\ err \in {"nil", "nil of reader", "error"}
    /\ preview \in {"none", "nothing", "given", "thumbnail", "gif", "fake", "error"}

ControlType ==
    /\ request \in Request /\ dir \in BOOLEAN
    /\ Places /\ ReaderPlaces

LEMMA TypeInParts == TypeOK <=> Counters /\ ControlType
<1>1. Counters <=>
        /\ at \in 0..Total /\ stdout \in 0..PipeSize /\ stderr \in 0..PipeSize
        /\ got \in 0..Output /\ data \in 0..Output
  BY SizeAssumption DEF Counters, Total
<1> QED
  BY <1>1, Zenon DEF TypeOK, ControlType, Places, ReaderPlaces

(* Every chunk written is read or in the pipe.                             *)
Flow == got + stdout = at \div 2

(* What the caller's place says of the child and the directory.            *)
CallerStage ==
    /\ dir <=> pc \in {"prepare", "run", "drain", "await", "check", "wait"}
    /\ pc \in {"asked", "dir", "prepare", "run"} => ffmpeg = "none"
    /\ ffmpeg = "running" => pc = "drain"
    /\ ffmpeg \in {"none", "running"} => done = "none"
    /\ pc \in {"check", "wait"} => done # "none"

(* What the end of ffmpeg says.                                            *)
ChildStage ==
    /\ ffmpeg = "succeeded" => at = Total
    /\ done = "nil" => ffmpeg = "succeeded"
    /\ done = "error" => ffmpeg \in {"failed", "unstarted"}
    /\ ffmpeg \in Ended /\ done # "none" => stdout = 0
    /\ pipe = "closed" => ffmpeg \in Ended /\ done # "none"

ReaderStage ==
    /\ reader \in {"none", "reading"} => data = 0
    /\ reader \in {"assigned", "done"} => data = got /\ stdout = 0 /\ pipe = "closed"

(* Who has written err last.                                               *)
ErrStage ==
    /\ err = "nil of reader" => pipe = "closed"
    /\ pc \in {"check", "wait"} => err \in {done, "nil of reader"}
    /\ pc = "wait" /\ done = "error" => err = "nil of reader"
    /\ preview = "gif" =>
          /\ pc = "returned" /\ reader = "done"
          /\ ffmpeg # "succeeded" => done = "error" /\ err = "nil of reader"

IInv ==
    /\ TypeOK /\ Flow
    /\ CallerStage /\ ChildStage /\ ReaderStage /\ ErrStage

-----------------------------------------------------------------------------
LEMMA InitInv == Init => IInv
<1> SUFFICES ASSUME Init PROVE IInv
  OBVIOUS
<1> USE SizeAssumption DEF Init
<1>1. Counters
  BY DEF Counters
<1>3. ControlType
  <2>1. Places /\ ReaderPlaces
    BY DEF Places, ReaderPlaces
  <2> QED
    BY <2>1 DEF ControlType
<1>2. Flow /\ CallerStage /\ ChildStage /\ ReaderStage /\ ErrStage
  BY DEF Flow, CallerStage, ChildStage, ReaderStage, ErrStage, Ended
<1> QED
  BY <1>1, <1>2, <1>3, TypeInParts DEF IInv

LEMMA CountersNext == IInv /\ [Next]_vars => Counters'
<1> SUFFICES ASSUME IInv, [Next]_vars PROVE Counters'
  OBVIOUS
<1>0. Counters /\ Flow /\ ReaderStage
  BY TypeInParts DEF IInv
<1> USE <1>0 DEF child, shared
<1>1. CASE GetPreviewFrom
  BY <1>1 DEF GetPreviewFrom, Counters
<1>2. CASE TempDir
  BY <1>2 DEF TempDir, Return, Counters
<1>3. CASE Prepare
  BY <1>3 DEF Prepare, Return, Counters
<1>4. CASE Run
  BY <1>4 DEF Run, Counters
<1>5. CASE Drain
  BY <1>5 DEF Drain, Counters
<1>6. CASE Await
  BY <1>6 DEF Await, Counters
<1>7. CASE Check
  BY <1>7 DEF Check, Return, Counters
<1>8. CASE Wait
  BY <1>8 DEF Wait, Return, Counters
<1>9. CASE Read
  <2>1. got + stdout <= Output
    BY DEF Flow, Counters
  <2>2. /\ UNCHANGED <<at, stderr>> /\ data' \in {got, data}
        /\ \/ stdout > 0 /\ stdout' = stdout - 1 /\ got' = got + 1
           \/ UNCHANGED <<stdout, got>>
    BY <1>9 DEF Read, Counters
  <2> QED
    BY <2>1, <2>2 DEF Counters
<1>10. CASE ReaderDone
  BY <1>10 DEF ReaderDone, Counters
<1>11. CASE FfmpegWrites
  BY <1>11 DEF FfmpegWrites, Counters, Total
<1>12. CASE FfmpegEnds
  BY <1>12 DEF FfmpegEnds, Counters
<1>13. CASE ProcWait
  BY <1>13 DEF ProcWait, Counters
<1>14. CASE ClosePipes
  BY <1>14 DEF ClosePipes, Counters
<1>15. CASE UNCHANGED vars
  BY <1>15 DEF vars, Counters
<1> QED
  BY <1>1, <1>2, <1>3, <1>4, <1>5, <1>6, <1>7, <1>8,
     <1>9, <1>10, <1>11, <1>12, <1>13, <1>14, <1>15
     DEF Next, Caller, Reader, Ffmpeg

LEMMA PlacesNext == IInv /\ [Next]_vars => Places'
<1> SUFFICES ASSUME IInv, [Next]_vars PROVE Places'
  OBVIOUS
<1>0. Places /\ ReaderPlaces
  BY TypeInParts DEF IInv, ControlType
<1> USE <1>0 DEF child, shared, Places
<1>1. CASE GetPreviewFrom
  BY <1>1 DEF GetPreviewFrom
<1>2. CASE TempDir
  BY <1>2 DEF TempDir, Return
<1>3. CASE Prepare
  BY <1>3 DEF Prepare, Return
<1>4. CASE Run
  BY <1>4 DEF Run
<1>5. CASE Drain
  BY <1>5 DEF Drain
<1>6. CASE Await
  BY <1>6 DEF Await
<1>7. CASE Check
  BY <1>7 DEF Check, Return
<1>8. CASE Wait
  BY <1>8 DEF Wait, Return
<1>9. CASE Read
  BY <1>9 DEF Read
<1>10. CASE ReaderDone
  BY <1>10 DEF ReaderDone
<1>11. CASE FfmpegWrites
  BY <1>11 DEF FfmpegWrites
<1>12. CASE FfmpegEnds
  BY <1>12 DEF FfmpegEnds
<1>13. CASE ProcWait
  BY <1>13 DEF ProcWait
<1>14. CASE ClosePipes
  BY <1>14 DEF ClosePipes
<1>15. CASE UNCHANGED vars
  BY <1>15 DEF vars
<1> QED
  BY <1>1, <1>2, <1>3, <1>4, <1>5, <1>6, <1>7, <1>8,
     <1>9, <1>10, <1>11, <1>12, <1>13, <1>14, <1>15
     DEF Next, Caller, Reader, Ffmpeg

LEMMA ReaderPlacesNext == IInv /\ [Next]_vars => ReaderPlaces'
<1> SUFFICES ASSUME IInv, [Next]_vars PROVE ReaderPlaces'
  OBVIOUS
<1>0. Places /\ ReaderPlaces
  BY TypeInParts DEF IInv, ControlType
<1> USE <1>0 DEF child, shared, ReaderPlaces
<1>1. CASE GetPreviewFrom
  BY <1>1 DEF GetPreviewFrom
<1>2. CASE TempDir
  BY <1>2 DEF TempDir, Return
<1>3. CASE Prepare
  BY <1>3 DEF Prepare, Return
<1>4. CASE Run
  BY <1>4 DEF Run
<1>5. CASE Drain
  BY <1>5 DEF Drain
<1>6. CASE Await
  BY <1>6 DEF Await, Places
<1>7. CASE Check
  BY <1>7 DEF Check, Return
<1>8. CASE Wait
  BY <1>8 DEF Wait, Return
<1>9. CASE Read
  BY <1>9 DEF Read
<1>10. CASE ReaderDone
  BY <1>10 DEF ReaderDone
<1>11. CASE FfmpegWrites
  BY <1>11 DEF FfmpegWrites
<1>12. CASE FfmpegEnds
  BY <1>12 DEF FfmpegEnds
<1>13. CASE ProcWait
  BY <1>13 DEF ProcWait
<1>14. CASE ClosePipes
  BY <1>14 DEF ClosePipes
<1>15. CASE UNCHANGED vars
  BY <1>15 DEF vars
<1> QED
  BY <1>1, <1>2, <1>3, <1>4, <1>5, <1>6, <1>7, <1>8,
     <1>9, <1>10, <1>11, <1>12, <1>13, <1>14, <1>15
     DEF Next, Caller, Reader, Ffmpeg

LEMMA ControlTypeNext == IInv /\ [Next]_vars => ControlType'
<1> SUFFICES ASSUME IInv, [Next]_vars PROVE ControlType'
  OBVIOUS
<1>1. ControlType
  BY TypeInParts DEF IInv
<1>2. request' = request
  BY DEF Next, Caller, Reader, Ffmpeg, GetPreviewFrom, TempDir, Prepare, Run, Drain, Await, Check,
     Wait, Read, ReaderDone, FfmpegWrites, FfmpegEnds, ProcWait, ClosePipes, vars
<1>3. dir' \in {dir, TRUE, FALSE}
  BY DEF Next, Caller, Reader, Ffmpeg, GetPreviewFrom, TempDir, Prepare, Run, Drain, Await, Check,
     Wait, Read, ReaderDone, FfmpegWrites, FfmpegEnds, ProcWait, ClosePipes, Return, vars
<1> QED
  BY <1>1, <1>2, <1>3, PlacesNext, ReaderPlacesNext DEF ControlType, Request

LEMMA FlowNext == IInv /\ [Next]_vars => Flow'
<1> SUFFICES ASSUME IInv, [Next]_vars PROVE Flow'
  OBVIOUS
<1>0. Flow /\ Counters
  BY TypeInParts DEF IInv
<1> USE <1>0 DEF child, shared
<1>1. CASE GetPreviewFrom
  BY <1>1 DEF GetPreviewFrom, Flow
<1>2. CASE TempDir
  BY <1>2 DEF TempDir, Return, Flow
<1>3. CASE Prepare
  BY <1>3 DEF Prepare, Return, Flow
<1>4. CASE Run
  BY <1>4 DEF Run, Flow
<1>5. CASE Drain
  BY <1>5 DEF Drain, Flow
<1>6. CASE Await
  BY <1>6 DEF Await, Flow
<1>7. CASE Check
  BY <1>7 DEF Check, Return, Flow
<1>8. CASE Wait
  BY <1>8 DEF Wait, Return, Flow
<1>9. CASE Read
  <2>1. /\ at' = at
        /\ \/ stdout' = stdout - 1 /\ got' = got + 1
           \/ UNCHANGED <<stdout, got>>
    BY <1>9 DEF Read, Counters
  <2> QED
    BY <2>1 DEF Flow, Counters
<1>10. CASE ReaderDone
  BY <1>10 DEF ReaderDone, Flow
<1>11. CASE FfmpegWrites
  <2>1. at % 2 = 0 => (at + 1) \div 2 = at \div 2
    BY DEF Counters
  <2>2. at % 2 = 1 => (at + 1) \div 2 = at \div 2 + 1
    BY DEF Counters
  <2> QED
    BY <1>11, <2>1, <2>2 DEF FfmpegWrites, Flow, Counters
<1>12. CASE FfmpegEnds
  BY <1>12 DEF FfmpegEnds, Flow
<1>13. CASE ProcWait
  BY <1>13 DEF ProcWait, Flow
<1>14. CASE ClosePipes
  BY <1>14 DEF ClosePipes, Flow
<1>15. CASE UNCHANGED vars
  BY <1>15 DEF vars, Flow
<1> QED
  BY <1>1, <1>2, <1>3, <1>4, <1>5, <1>6, <1>7, <1>8,
     <1>9, <1>10, <1>11, <1>12, <1>13, <1>14, <1>15
     DEF Next, Caller, Reader, Ffmpeg

LEMMA CallerStageNext == IInv /\ [Next]_vars => CallerStage'
<1> SUFFICES ASSUME IInv, [Next]_vars PROVE CallerStage'
  OBVIOUS
<1>0. CallerStage /\ ControlType
  BY TypeInParts DEF IInv
<1> USE <1>0 DEF child, shared
<1>1. CASE GetPreviewFrom
  BY <1>1 DEF GetPreviewFrom, CallerStage, ControlType, Places, ReaderPlaces
<1>2. CASE TempDir
  BY <1>2 DEF TempDir, Return, CallerStage, ControlType, Places, ReaderPlaces
<1>3. CASE Prepare
  BY <1>3 DEF Prepare, Return, CallerStage, ControlType, Places, ReaderPlaces
<1>4. CASE Run
  BY <1>4 DEF Run, CallerStage, ControlType, Places, ReaderPlaces
<1>5. CASE Drain
  BY <1>5 DEF Drain, CallerStage, ControlType, Places, ReaderPlaces
<1>6. CASE Await
  BY <1>6 DEF Await, CallerStage, ControlType, Places, ReaderPlaces
<1>7. CASE Check
  <2>1. /\ pc = "check" /\ UNCHANGED <<ffmpeg, done>>
        /\ \/ pc' = "returned" /\ dir' = FALSE
           \/ pc' = "wait" /\ dir' = dir
    BY <1>7 DEF Check, Return
  <2> QED
    BY <2>1 DEF CallerStage, ControlType, Places
<1>8. CASE Wait
  BY <1>8 DEF Wait, Return, CallerStage, ControlType, Places, ReaderPlaces
<1>9. CASE Read
  BY <1>9 DEF Read, CallerStage, ControlType, Places, ReaderPlaces
<1>10. CASE ReaderDone
  BY <1>10 DEF ReaderDone, CallerStage, ControlType, Places, ReaderPlaces
<1>11. CASE FfmpegWrites
  BY <1>11 DEF FfmpegWrites, CallerStage, ControlType, Places, ReaderPlaces
<1>12. CASE FfmpegEnds
  BY <1>12 DEF FfmpegEnds, CallerStage, ControlType, Places, ReaderPlaces
<1>13. CASE ProcWait
  BY <1>13 DEF ProcWait, CallerStage, ControlType, Places, ReaderPlaces
<1>14. CASE ClosePipes
  BY <1>14 DEF ClosePipes, CallerStage, ControlType, Places, ReaderPlaces
<1>15. CASE UNCHANGED vars
  BY <1>15 DEF vars, CallerStage, ControlType, Places, ReaderPlaces
<1> QED
  BY <1>1, <1>2, <1>3, <1>4, <1>5, <1>6, <1>7, <1>8,
     <1>9, <1>10, <1>11, <1>12, <1>13, <1>14, <1>15
     DEF Next, Caller, Reader, Ffmpeg

LEMMA ChildStageNext == IInv /\ [Next]_vars => ChildStage'
<1> SUFFICES ASSUME IInv, [Next]_vars PROVE ChildStage'
  OBVIOUS
<1>0. ChildStage /\ CallerStage /\ ControlType /\ Counters
  BY TypeInParts DEF IInv
<1> USE <1>0 DEF child, shared
<1>1. CASE GetPreviewFrom
  BY <1>1 DEF GetPreviewFrom, ChildStage, CallerStage, ControlType, Places, ReaderPlaces, Ended
<1>2. CASE TempDir
  BY <1>2 DEF TempDir, Return, ChildStage, CallerStage, ControlType, Places, ReaderPlaces, Ended
<1>3. CASE Prepare
  BY <1>3 DEF Prepare, Return, ChildStage, CallerStage, ControlType, Places, ReaderPlaces, Ended
<1>4. CASE Run
  BY <1>4 DEF Run, ChildStage, CallerStage, ControlType, Places, ReaderPlaces, Ended
<1>5. CASE Drain
  BY <1>5 DEF Drain, ChildStage, CallerStage, ControlType, Places, ReaderPlaces, Ended
<1>6. CASE Await
  BY <1>6 DEF Await, ChildStage, CallerStage, ControlType, Places, ReaderPlaces, Ended
<1>7. CASE Check
  BY <1>7 DEF Check, Return, ChildStage, CallerStage, ControlType, Places, ReaderPlaces, Ended
<1>8. CASE Wait
  BY <1>8 DEF Wait, Return, ChildStage, CallerStage, ControlType, Places, ReaderPlaces, Ended
<1>9. CASE Read
  <2>1. /\ UNCHANGED <<ffmpeg, at, pipe, done>>
        /\ (stdout > 0 /\ stdout' = stdout - 1) \/ stdout' = stdout
    BY <1>9 DEF Read, Counters
  <2> QED
    BY <2>1 DEF ChildStage, Counters, Ended
<1>10. CASE ReaderDone
  BY <1>10 DEF ReaderDone, ChildStage, CallerStage, ControlType, Places, ReaderPlaces, Ended
<1>11. CASE FfmpegWrites
  BY <1>11 DEF FfmpegWrites, ChildStage, CallerStage, ControlType, Places, ReaderPlaces, Ended
<1>12. CASE FfmpegEnds
  BY <1>12 DEF FfmpegEnds, ChildStage, CallerStage, ControlType, Places, ReaderPlaces, Ended
<1>13. CASE ProcWait
  BY <1>13 DEF ProcWait, ChildStage, CallerStage, ControlType, Places, ReaderPlaces, Ended
<1>14. CASE ClosePipes
  BY <1>14 DEF ClosePipes, ChildStage, CallerStage, ControlType, Places, ReaderPlaces, Ended
<1>15. CASE UNCHANGED vars
  BY <1>15 DEF vars, ChildStage, CallerStage, ControlType, Places, ReaderPlaces, Ended
<1> QED
  BY <1>1, <1>2, <1>3, <1>4, <1>5, <1>6, <1>7, <1>8,
     <1>9, <1>10, <1>11, <1>12, <1>13, <1>14, <1>15
     DEF Next, Caller, Reader, Ffmpeg

LEMMA ReaderStageNext == IInv /\ [Next]_vars => ReaderStage'
<1> SUFFICES ASSUME IInv, [Next]_vars PROVE ReaderStage'
  OBVIOUS
<1>0. ReaderStage /\ ChildStage /\ CallerStage /\ ControlType
  BY TypeInParts DEF IInv
<1> USE <1>0 DEF child, shared
<1>1. CASE GetPreviewFrom
  BY <1>1 DEF GetPreviewFrom, ReaderStage, ChildStage, CallerStage, ControlType, Places, ReaderPlaces, Ended
<1>2. CASE TempDir
  BY <1>2 DEF TempDir, Return, ReaderStage, ChildStage, CallerStage, ControlType, Places, ReaderPlaces, Ended
<1>3. CASE Prepare
  BY <1>3 DEF Prepare, Return, ReaderStage, ChildStage, CallerStage, ControlType, Places, ReaderPlaces, Ended
<1>4. CASE Run
  BY <1>4 DEF Run, ReaderStage, ChildStage, CallerStage, ControlType, Places, ReaderPlaces, Ended
<1>5. CASE Drain
  BY <1>5 DEF Drain, ReaderStage, ChildStage, CallerStage, ControlType, Places, ReaderPlaces, Ended
<1>6. CASE Await
  BY <1>6 DEF Await, ReaderStage, ChildStage, CallerStage, ControlType, Places, ReaderPlaces, Ended
<1>7. CASE Check
  BY <1>7 DEF Check, Return, ReaderStage, ChildStage, CallerStage, ControlType, Places, ReaderPlaces, Ended
<1>8. CASE Wait
  BY <1>8 DEF Wait, Return, ReaderStage, ChildStage, CallerStage, ControlType, Places, ReaderPlaces, Ended
<1>9. CASE Read
  BY <1>9 DEF Read, ReaderStage, ChildStage, CallerStage, ControlType, Places, ReaderPlaces, Ended
<1>10. CASE ReaderDone
  BY <1>10 DEF ReaderDone, ReaderStage, ChildStage, CallerStage, ControlType, Places, ReaderPlaces, Ended
<1>11. CASE FfmpegWrites
  BY <1>11 DEF FfmpegWrites, ReaderStage, ChildStage, CallerStage, ControlType, Places, ReaderPlaces, Ended
<1>12. CASE FfmpegEnds
  BY <1>12 DEF FfmpegEnds, ReaderStage, ChildStage, CallerStage, ControlType, Places, ReaderPlaces, Ended
<1>13. CASE ProcWait
  BY <1>13 DEF ProcWait, ReaderStage, ChildStage, CallerStage, ControlType, Places, ReaderPlaces, Ended
<1>14. CASE ClosePipes
  BY <1>14 DEF ClosePipes, ReaderStage, ChildStage, CallerStage, ControlType, Places, ReaderPlaces, Ended
<1>15. CASE UNCHANGED vars
  BY <1>15 DEF vars, ReaderStage, ChildStage, CallerStage, ControlType, Places, ReaderPlaces, Ended
<1> QED
  BY <1>1, <1>2, <1>3, <1>4, <1>5, <1>6, <1>7, <1>8,
     <1>9, <1>10, <1>11, <1>12, <1>13, <1>14, <1>15
     DEF Next, Caller, Reader, Ffmpeg

LEMMA ErrStageNext == IInv /\ [Next]_vars => ErrStage'
<1> SUFFICES ASSUME IInv, [Next]_vars PROVE ErrStage'
  OBVIOUS
<1>0. ErrStage /\ ReaderStage /\ ChildStage /\ CallerStage /\ ControlType
  BY TypeInParts DEF IInv
<1> USE <1>0 DEF child, shared
<1>1. CASE GetPreviewFrom
  BY <1>1 DEF GetPreviewFrom, ErrStage, ReaderStage, ChildStage, CallerStage, ControlType, Places, ReaderPlaces, Ended
<1>2. CASE TempDir
  BY <1>2 DEF TempDir, Return, ErrStage, ReaderStage, ChildStage, CallerStage, ControlType, Places, ReaderPlaces, Ended
<1>3. CASE Prepare
  BY <1>3 DEF Prepare, Return, ErrStage, ReaderStage, ChildStage, CallerStage, ControlType, Places, ReaderPlaces, Ended
<1>4. CASE Run
  BY <1>4 DEF Run, ErrStage, ReaderStage, ChildStage, CallerStage, ControlType, Places, ReaderPlaces, Ended
<1>5. CASE Drain
  BY <1>5 DEF Drain, ErrStage, ReaderStage, ChildStage, CallerStage, ControlType, Places, ReaderPlaces, Ended
<1>6. CASE Await
  BY <1>6 DEF Await, ErrStage, ReaderStage, ChildStage, CallerStage, ControlType, Places, ReaderPlaces, Ended
<1>7. CASE Check
  BY <1>7 DEF Check, Return, ErrStage, ReaderStage, ChildStage, CallerStage, ControlType, Places, ReaderPlaces, Ended
<1>8. CASE Wait
  BY <1>8 DEF Wait, Return, ErrStage, ReaderStage, ChildStage, CallerStage, ControlType, Places, ReaderPlaces, Ended
<1>9. CASE Read
  BY <1>9 DEF Read, ErrStage, ReaderStage, ChildStage, CallerStage, ControlType, Places, ReaderPlaces, Ended
<1>10. CASE ReaderDone
  BY <1>10 DEF ReaderDone, ErrStage, ReaderStage, ChildStage, CallerStage, ControlType, Places, ReaderPlaces, Ended
<1>11. CASE FfmpegWrites
  BY <1>11 DEF FfmpegWrites, ErrStage, ReaderStage, ChildStage, CallerStage, ControlType, Places, ReaderPlaces, Ended
<1>12. CASE FfmpegEnds
  BY <1>12 DEF FfmpegEnds, ErrStage, ReaderStage, ChildStage, CallerStage, ControlType, Places, ReaderPlaces, Ended
<1>13. CASE ProcWait
  BY <1>13 DEF ProcWait, ErrStage, ReaderStage, ChildStage, CallerStage, ControlType, Places, ReaderPlaces, Ended
<1>14. CASE ClosePipes
  BY <1>14 DEF ClosePipes, ErrStage, ReaderStage, ChildStage, CallerStage, ControlType, Places, ReaderPlaces, Ended
<1>15. CASE UNCHANGED vars
  BY <1>15 DEF vars, ErrStage, ReaderStage, ChildStage, CallerStage, ControlType, Places, ReaderPlaces, Ended
<1> QED
  BY <1>1, <1>2, <1>3, <1>4, <1>5, <1>6, <1>7, <1>8,
     <1>9, <1>10, <1>11, <1>12, <1>13, <1>14, <1>15
     DEF Next, Caller, Reader, Ffmpeg

LEMMA Invariant == Spec => []IInv
<1>1. IInv /\ [Next]_vars => IInv'
  <2>1. Counters' /\ ControlType' => TypeOK'
    BY TypeInParts, PTL
  <2> QED
    BY <2>1, CountersNext, ControlTypeNext, FlowNext, CallerStageNext, ChildStageNext,
       ReaderStageNext, ErrStageNext DEF IInv
<1> QED
  BY <1>1, InitInv, PTL DEF Spec

-----------------------------------------------------------------------------
(* Every variable keeps its type: no more is read than ffmpeg has written. *)
THEOREM TypeCorrect == Spec => []TypeOK
<1>1. IInv => TypeOK
  BY DEF IInv
<1> QED
  BY <1>1, Invariant, PTL

(* What is returned of a finished gif is all of it (videopreview.go:52-98).*)
THEOREM FinishedGifsAreWhole == Spec => []FinishedGifIsWhole
<1>1. IInv => FinishedGifIsWhole
  BY TypeInParts
     DEF IInv, Counters, Flow, ChildStage, ReaderStage, ErrStage, FinishedGifIsWhole, Total
<1> QED
  BY <1>1, Invariant, PTL

(* A failed ffmpeg goes unnoticed only by the race on "err"                *)
(* (videopreview.go:58, 92-93).                                            *)
THEOREM FailuresHiddenOnlyByRace == Spec => []FailureHiddenOnlyByRace
<1>1. IInv => FailureHiddenOnlyByRace
  BY TypeInParts DEF IInv, ControlType, Places, ReaderPlaces, ChildStage, ErrStage, Ended, FailureHiddenOnlyByRace
<1> QED
  BY <1>1, Invariant, PTL

(* ffmpeg never runs without its input, and no call leaves it behind       *)
(* (videopreview.go:24-28).                                                *)
THEOREM InputsSpanFfmpeg == Spec => []InputSpansFfmpeg
<1>1. IInv => InputSpansFfmpeg
  BY DEF IInv, CallerStage, InputSpansFfmpeg
<1> QED
  BY <1>1, Invariant, PTL

-----------------------------------------------------------------------------
(* Why the call comes back: what of Returns and ReaderEnds needs no        *)
(* fairness.  Every step brings the end nearer, and until the caller has   *)
(* returned someone can make one.                                          *)

(* The steps the caller may still take, and the reader and goffmpeg.       *)
CallerLeft ==
    CASE pc = "asked" -> 8 [] pc = "dir" -> 7 [] pc = "prepare" -> 6 [] pc = "run" -> 5
      [] pc = "drain" -> 4 [] pc = "await" -> 3 [] pc = "check" -> 2 [] pc = "wait" -> 1
      [] OTHER -> 0

OthersLeft ==
    (CASE reader = "reading" -> 2 [] reader = "assigned" -> 1 [] OTHER -> 0)
      + (IF ffmpeg = "running" THEN 1 ELSE 0)
      + (IF done = "none" THEN 1 ELSE 0) + (IF pipe = "open" THEN 1 ELSE 0)

(* A step of ffmpeg puts one more thing into a pipe, to be taken out; the  *)
(* caller's next step may start a process, or a reader and a pipe.         *)
InPipes == 2 * (Total - at) + stdout + stderr

ToGo == InPipes + 4 * CallerLeft + OthersLeft

GetsNearer == [][ToGo' < ToGo]_vars

(* Once prepared, the output has a pipe and a reader, and what was run was *)
(* either started or reported.                                             *)
Launched ==
    /\ pc \in {"run", "drain", "await", "check", "wait"} => reader # "none" /\ pipe # "none"
    /\ pc \in {"drain", "await"} => ffmpeg # "none"
    /\ ffmpeg = "unstarted" => done = "error"

(* When each party can go on, written out; ffmpeg without failing.         *)
CallerCan ==
    \/ pc \in {"asked", "dir", "prepare", "run", "check"}
    \/ pc = "drain" /\ (stderr > 0 \/ ffmpeg # "running")
    \/ pc = "await" /\ done \in {"nil", "error"}
    \/ pc = "wait" /\ reader = "done"

ReaderCan == reader = "assigned" \/ (reader = "reading" /\ (stdout > 0 \/ pipe = "closed"))

FfmpegCan ==
    /\ ffmpeg = "running"
    /\ \/ at = Total
       \/ at < Total /\ at % 2 = 0 /\ stderr < PipeSize
       \/ at < Total /\ at % 2 = 1 /\ stdout < PipeSize

GoffmpegCan ==
    ffmpeg \in Ended /\ \/ done = "none" /\ stdout = 0
                        \/ done # "none" /\ pipe = "open"

(* Caller, reader, ffmpeg and goffmpeg never all wait for each other.      *)
NeverStuck == pc # "returned" => CallerCan \/ ReaderCan \/ FfmpegCan \/ GoffmpegCan

-----------------------------------------------------------------------------
LEMMA LeftType ==
  CallerLeft \in Nat /\ OthersLeft \in Nat /\ CallerLeft' \in Nat /\ OthersLeft' \in Nat
  BY DEF CallerLeft, OthersLeft

LEMMA InPipesType == Counters => InPipes \in Nat
  BY DEF Counters, Total, InPipes

LEMMA Smaller ==
  ASSUME NEW n \in Nat, NEW c \in Nat, NEW d \in Nat, NEW m \in Nat, NEW o \in Nat
  PROVE  /\ n + 4 * c + o \in Nat
         /\ d < c /\ m <= o + 3 => n + 4 * d + m < n + 4 * c + o
         /\ m < o => n + 4 * c + m < n + 4 * c + o
         /\ d < n => d + 4 * c + o < n + 4 * c + o
  OBVIOUS

LEMMA ToGoType == Counters => ToGo \in Nat
  BY InPipesType, LeftType, Smaller, Zenon DEF ToGo

(* A step of the caller that leaves the pipes alone.                       *)
LEMMA CallerNearer ==
  ASSUME Counters, UNCHANGED <<at, stdout, stderr>>, CallerLeft' < CallerLeft,
         OthersLeft' <= OthersLeft + 3
  PROVE  ToGo' < ToGo
<1>1. InPipes \in Nat /\ InPipes' = InPipes
  BY InPipesType DEF InPipes, Total
<1>2. InPipes + 4 * CallerLeft' + OthersLeft' < InPipes + 4 * CallerLeft + OthersLeft
  BY <1>1, LeftType, Smaller, Zenon
<1> QED
  BY <1>1, <1>2, Zenon DEF ToGo

(* A step of another that leaves the caller and the pipes alone.           *)
LEMMA OtherNearer ==
  ASSUME Counters, UNCHANGED <<at, stdout, stderr, pc>>, OthersLeft' < OthersLeft
  PROVE  ToGo' < ToGo
<1>1. InPipes \in Nat /\ InPipes' = InPipes /\ CallerLeft' = CallerLeft
  BY InPipesType DEF InPipes, Total, CallerLeft
<1>2. InPipes + 4 * CallerLeft + OthersLeft' < InPipes + 4 * CallerLeft + OthersLeft
  BY <1>1, LeftType, Smaller, Zenon
<1> QED
  BY <1>1, <1>2, Zenon DEF ToGo

(* A step that moves something into or out of a pipe, and nothing else.    *)
LEMMA PipeNearer ==
  ASSUME Counters, UNCHANGED <<pc, ffmpeg, reader, done, pipe>>,
         \/ UNCHANGED at /\ UNCHANGED stdout /\ stderr > 0 /\ stderr' = stderr - 1
         \/ UNCHANGED at /\ UNCHANGED stderr /\ stdout > 0 /\ stdout' = stdout - 1
         \/ at < Total /\ at' = at + 1 /\ UNCHANGED stdout /\ stderr' = stderr + 1
         \/ at < Total /\ at' = at + 1 /\ UNCHANGED stderr /\ stdout' = stdout + 1
  PROVE  ToGo' < ToGo
<1>1. CallerLeft' = CallerLeft /\ OthersLeft' = OthersLeft
  BY DEF CallerLeft, OthersLeft
<1>2. InPipes' \in Nat /\ InPipes \in Nat /\ InPipes' < InPipes
  BY DEF InPipes, Counters, Total
<1>3. InPipes' + 4 * CallerLeft + OthersLeft < InPipes + 4 * CallerLeft + OthersLeft
  BY <1>2, LeftType, Smaller, Zenon
<1> QED
  BY <1>1, <1>3, Zenon DEF ToGo

LEMMA NearerNext == IInv /\ Next => ToGo' < ToGo
<1> SUFFICES ASSUME IInv, Next PROVE ToGo' < ToGo
  OBVIOUS
<1>0. Counters
  BY TypeInParts DEF IInv
<1> USE <1>0 DEF child, shared
<1>1. ASSUME GetPreviewFrom \/ TempDir \/ Await \/ Check \/ Wait PROVE ToGo' < ToGo
  <2>1. UNCHANGED <<at, stdout, stderr, ffmpeg, reader, done, pipe>>
    BY <1>1 DEF GetPreviewFrom, TempDir, Await, Check, Wait
  <2>2. \/ pc = "asked" /\ pc' \in {"dir", "returned"}
        \/ pc = "dir" /\ pc' \in {"prepare", "returned"}
        \/ pc = "await" /\ pc' = "check"
        \/ pc = "check" /\ pc' \in {"wait", "returned"}
        \/ pc = "wait" /\ pc' = "returned"
    BY <1>1 DEF GetPreviewFrom, TempDir, Await, Check, Wait, Return
  <2>3. CallerLeft' < CallerLeft
    BY <2>2 DEF CallerLeft
  <2>4. OthersLeft' <= OthersLeft + 3
    BY <2>1 DEF OthersLeft
  <2> QED
    BY <2>1, <2>3, <2>4, CallerNearer
<1>2. ASSUME Prepare \/ Run PROVE ToGo' < ToGo
  <2>1. UNCHANGED <<at, stdout, stderr>>
    BY <1>2 DEF Prepare, Run
  <2>2. CallerLeft' < CallerLeft
    BY <1>2 DEF Prepare, Run, Return, CallerLeft
  <2>3. CASE Prepare
    <3>1. /\ UNCHANGED <<ffmpeg, done>>
          /\ \/ pipe' = "open" /\ reader' = "reading"
             \/ UNCHANGED <<pipe, reader>>
      BY <2>3 DEF Prepare
    <3>2. OthersLeft' <= OthersLeft + 3
      BY <3>1 DEF OthersLeft
    <3> QED
      BY <2>1, <2>2, <3>2, CallerNearer
  <2>4. CASE Run
    <3>1. UNCHANGED <<pipe, reader>> /\ (UNCHANGED done \/ done' = "error")
      BY <2>4 DEF Run
    <3>2. OthersLeft' <= OthersLeft + 3
      BY <3>1 DEF OthersLeft
    <3> QED
      BY <2>1, <2>2, <3>2, CallerNearer
  <2> QED
    BY <1>2, <2>3, <2>4
<1>3. CASE Drain
  <2>1. CASE stderr > 0 /\ stderr' = stderr - 1 /\ pc' = pc
    BY <1>3, <2>1, PipeNearer DEF Drain
  <2>2. CASE pc' = "await" /\ UNCHANGED stderr
    <3>1. CallerLeft' < CallerLeft /\ UNCHANGED <<at, stdout, stderr>>
      BY <1>3, <2>2 DEF Drain, CallerLeft
    <3>2. OthersLeft' <= OthersLeft + 3
      BY <1>3 DEF Drain, OthersLeft
    <3> QED
      BY <3>1, <3>2, CallerNearer
  <2> QED
    BY <1>3, <2>1, <2>2 DEF Drain
<1>4. CASE Read
  <2>1. CASE stdout > 0 /\ stdout' = stdout - 1 /\ UNCHANGED reader
    BY <1>4, <2>1, PipeNearer DEF Read
  <2>2. CASE reader' = "assigned" /\ UNCHANGED stdout
    <3>1. reader = "reading" /\ UNCHANGED <<at, stdout, stderr, pc, ffmpeg, done, pipe>>
      BY <1>4, <2>2 DEF Read
    <3>2. OthersLeft' < OthersLeft
      BY <2>2, <3>1 DEF OthersLeft
    <3> QED
      BY <3>1, <3>2, OtherNearer
  <2> QED
    BY <1>4, <2>1, <2>2 DEF Read
<1>5. ASSUME ReaderDone \/ FfmpegEnds \/ ProcWait \/ ClosePipes PROVE ToGo' < ToGo
  <2>1. UNCHANGED <<at, stdout, stderr, pc>>
    BY <1>5 DEF ReaderDone, FfmpegEnds, ProcWait, ClosePipes
  <2>2. \/ reader = "assigned" /\ reader' = "done" /\ UNCHANGED <<ffmpeg, done, pipe>>
        \/ /\ ffmpeg = "running" /\ ffmpeg' \in {"succeeded", "failed"}
           /\ UNCHANGED <<reader, done, pipe>>
        \/ done = "none" /\ done' \in {"nil", "error"} /\ UNCHANGED <<reader, ffmpeg, pipe>>
        \/ pipe = "open" /\ pipe' = "closed" /\ UNCHANGED <<reader, ffmpeg, done>>
    BY <1>5 DEF ReaderDone, FfmpegEnds, ProcWait, ClosePipes
  <2>3. OthersLeft' < OthersLeft
    BY <2>2 DEF OthersLeft
  <2> QED
    BY <2>1, <2>3, OtherNearer
<1>6. CASE FfmpegWrites
  BY <1>6, PipeNearer DEF FfmpegWrites
<1> QED
  BY <1>1, <1>2, <1>3, <1>4, <1>5, <1>6 DEF Next, Caller, Reader, Ffmpeg

(* Every step of anybody brings the end nearer: a preview takes at most    *)
(* 4 * Output + 33 steps, and nothing in it is tried again                 *)
(* (videopreview.go:22-100).                                               *)
THEOREM PreviewsGetNearer == Spec => [](ToGo \in Nat) /\ GetsNearer
<1>1. IInv => ToGo \in Nat
  BY TypeInParts, ToGoType DEF IInv
<1>2. IInv /\ [Next]_vars => [ToGo' < ToGo]_vars
  BY NearerNext
<1> QED
  BY <1>1, <1>2, Invariant, PTL DEF Spec, GetsNearer

LEMMA LaunchedNext == IInv /\ Launched /\ [Next]_vars => Launched'
<1> SUFFICES ASSUME IInv, Launched, [Next]_vars PROVE Launched'
  OBVIOUS
<1>0. CallerStage /\ ControlType
  BY TypeInParts DEF IInv
<1> USE <1>0 DEF child, shared, Launched
<1>1. ASSUME GetPreviewFrom \/ TempDir \/ Prepare \/ Run PROVE Launched'
  BY <1>1 DEF GetPreviewFrom, TempDir, Prepare, Run, Return, CallerStage
<1>2. ASSUME Drain \/ Await \/ Check \/ Wait PROVE Launched'
  BY <1>2 DEF Drain, Await, Check, Wait, Return
<1>3. ASSUME Read \/ ReaderDone \/ FfmpegWrites \/ FfmpegEnds PROVE Launched'
  BY <1>3 DEF Read, ReaderDone, FfmpegWrites, FfmpegEnds
<1>4. ASSUME ProcWait \/ ClosePipes PROVE Launched'
  BY <1>4 DEF ProcWait, ClosePipes
<1>5. CASE UNCHANGED vars
  BY <1>5 DEF vars
<1> QED
  BY <1>1, <1>2, <1>3, <1>4, <1>5 DEF Next, Caller, Reader, Ffmpeg

(* Until the call has returned, the caller, the reader, ffmpeg or goffmpeg *)
(* can go on: ffmpeg is never held up by a pipe that nobody empties while  *)
(* they wait for its end, whatever the pipes hold (videopreview.go:52-97). *)
THEOREM PreviewsNeverStick == Spec => []NeverStuck
<1>1. Init => Launched
  BY DEF Init, Launched
<1>2. ASSUME IInv, Launched PROVE NeverStuck
  <2>0. Counters /\ ControlType /\ CallerStage /\ ChildStage /\ ReaderStage /\ ErrStage
    BY <1>2, TypeInParts DEF IInv
  <2>1. CASE pc \in {"asked", "dir", "prepare", "run", "check", "returned"}
    BY <2>1 DEF NeverStuck, CallerCan
  <2>2. ASSUME stdout > 0, pipe # "none", reader # "none" PROVE ReaderCan
    <3>1. stdout # 0
      BY <2>0, <2>2 DEF Counters
    <3>2. reader = "reading"
      BY <2>0, <2>2, <3>1, Zenon DEF ReaderStage, ControlType, ReaderPlaces
    <3> QED
      BY <2>2, <3>2 DEF ReaderCan
  <2>3. CASE pc = "drain"
    <3>1. CASE ffmpeg # "running" \/ stderr > 0
      BY <2>3, <3>1 DEF NeverStuck, CallerCan
    <3>2. CASE ffmpeg = "running" /\ ~(stderr > 0)
      <4>1. stderr < PipeSize /\ (stdout < PipeSize \/ stdout > 0)
        BY <2>0, <3>2, SizeAssumption DEF Counters
      <4>2. at = Total \/ (at < Total /\ at % 2 \in {0, 1})
        BY <2>0 DEF Counters, Total
      <4>3. reader # "none" /\ pipe # "none"
        BY <1>2, <2>3 DEF Launched
      <4> QED
        BY <2>2, <3>2, <4>1, <4>2, <4>3 DEF NeverStuck, FfmpegCan
    <3> QED
      BY <3>1, <3>2
  <2>4. CASE pc = "await"
    <3>1. CASE done \in {"nil", "error"}
      BY <2>4, <3>1 DEF NeverStuck, CallerCan
    <3>2. CASE done = "none"
      <4>1. ffmpeg \in Ended /\ reader # "none" /\ pipe # "none"
        BY <1>2, <2>0, <2>4, <3>2 DEF Launched, CallerStage, ControlType, Places, Ended
      <4>2. stdout = 0 \/ stdout > 0
        BY <2>0 DEF Counters
      <4> QED
        BY <2>2, <3>2, <4>1, <4>2 DEF NeverStuck, GoffmpegCan
    <3> QED
      BY <2>0, <3>1, <3>2 DEF ControlType, Places
  <2>5. CASE pc = "wait"
    <3>1. CASE reader \in {"assigned", "done"}
      BY <2>5, <3>1 DEF NeverStuck, CallerCan, ReaderCan
    <3>2. CASE reader = "reading"
      <4>1. CASE pipe = "closed"
        BY <3>2, <4>1 DEF NeverStuck, ReaderCan
      <4>2. CASE pipe = "open"
        <5>1. done # "none" /\ ffmpeg \in Ended
          BY <2>0, <2>5, <4>2 DEF CallerStage, ChildStage, ErrStage, ControlType, Places, Ended
        <5> QED
          BY <4>2, <5>1 DEF NeverStuck, GoffmpegCan
      <4> QED
        BY <1>2, <2>0, <2>5, <4>1, <4>2 DEF Launched, ControlType, Places
    <3> QED
      BY <1>2, <2>0, <2>5, <3>1, <3>2 DEF Launched, ControlType, ReaderPlaces
  <2> QED
    BY <2>0, <2>1, <2>3, <2>4, <2>5 DEF ControlType, Places
<1> QED
  BY <1>1, <1>2, Invariant, LaunchedNext, PTL DEF Spec
=============================================================================
