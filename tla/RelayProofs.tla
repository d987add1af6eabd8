---------------------------- MODULE RelayProofs ----------------------------
(***************************************************************************)
(* Proofs about the relay, for any number of calls on any routes.          *)
(*                                                                         *)
(* Some theorems hold whatever ids the calls draw: the types, that an     *)
(* answer has the id that was asked for and answers once, that calls only  *)
(* move forward.  The others hold as long as no two requests have one id   *)
(* (IdsUnique), which the code does not ensure: GetUlid is not locked.     *)
(* UniqueUnlessRacy shows that its race is all that stands against it.     *)
(***************************************************************************)
EXTENDS Relay, TLAPS

(* No two requests that left for the server have one id.                   *)
IdsUnique ==
    \A c, d \in Calls : c # d /\ job[c] # "none" /\ job[d] # "none" => id[c] # id[d]

(* A response exists only once the server has run its call.                *)
ResultBeforeResponse ==
    \A c \in Calls :
        job[c] \in {"respond", "done", "dropped"} \cup OnProxy => result[c] # "no"

(* How far a call's message is agrees with where its handler stands.       *)
JobMatchesHandler ==
    \A c \in Calls :
        /\ pc[c] \in {"idle", "ulid", "send"} => job[c] = "none"
        /\ pc[c] = "close" => job[c] \notin {"none", "done"}
        /\ pc[c] = "store" => job[c] \notin {"none", "request", "cut", "done"}
        /\ pc[c] = "recv" => job[c] \notin {"none", "request", "cut"}
        /\ pc[c] = "ok" => job[c] = "done"
        /\ job[c] \in {"none", "request", "process"} => result[c] = "no"

(* A response on the channel has used up its entry of the map.             *)
DeliverUsedEntry ==
    \A c \in Calls : job[c] = "deliver" => id[c] \notin requests[Protocol(c)]

TypeInv == TypeOK /\ ResultBeforeResponse

IInv ==
    /\ TypeInv
    /\ JobMatchesHandler
    /\ EntryHasWaiter
    /\ DeliverHasReceiver
    /\ DeliverUsedEntry
    /\ AnswerIsOwn

-----------------------------------------------------------------------------
(* A call's protocol is one of the three.                                  *)
LEMMA ProtocolType == \A c \in Calls : Protocol(c) \in Protocols
  BY EndpointAssumption DEF Protocol, Protocols, Endpoints

LEMMA TypeInit == Init => TypeInv
  BY DEF Init, TypeInv, TypeOK, ResultBeforeResponse, OnProxy

LEMMA TypeNext == TypeInv /\ [Next]_vars => TypeInv'
<1> SUFFICES ASSUME TypeInv, [Next]_vars PROVE TypeInv'
  OBVIOUS
<1> USE ProtocolType DEF TypeInv, TypeOK, ResultBeforeResponse, InFlight, Results, OnServer, OnProxy, JobEnd
<1>1. ASSUME NEW c \in Calls, Reject(c) PROVE TypeInv'
  BY <1>1 DEF Reject
<1>2. ASSUME NEW c \in Calls, EnterUlid(c) PROVE TypeInv'
  BY <1>2 DEF EnterUlid
<1>3. ASSUME NEW c \in Calls, Handle(c) PROVE TypeInv'
  <2>1. CASE LeaveUlid(c)
    <3>1. id' = id \/ id' = [id EXCEPT ![c] = entropy]
      BY <2>1, Zenon DEF LeaveUlid
    <3>2. /\ pc' = [pc EXCEPT ![c] = "send"]
          /\ UNCHANGED <<got, job, result, requests, gone, entropy, reachable>>
      BY <2>1, Zenon DEF LeaveUlid
    <3>3. id' \in [Calls -> Nat]
      BY <3>1
    <3>4. TypeOK'
      BY <3>2, <3>3
    <3>5. ResultBeforeResponse'
      BY <3>2
    <3> QED
      BY <3>4, <3>5
  <2>2. CASE SendRequest(c)
    BY <2>2 DEF SendRequest
  <2>3. CASE SendFails(c)
    BY <2>3 DEF SendFails
  <2>4. CASE CloseDone(c)
    BY <2>4 DEF CloseDone
  <2>5. CASE CloseFails(c)
    BY <2>5 DEF CloseFails
  <2>6. CASE Store(c)
    BY <2>6 DEF Store
  <2> QED
    BY <1>3, <2>1, <2>2, <2>3, <2>4, <2>5, <2>6 DEF Handle
<1>4. ASSUME NEW c \in Calls, Carry(c) PROVE TypeInv'
  <2>1. CASE ReadRequest(c)
    BY <2>1 DEF ReadRequest
  <2>2. CASE RequestCut(c)
    BY <2>2 DEF RequestCut
  <2>3. CASE Respond(c)
    BY <2>3 DEF Respond
  <2>4. CASE RespondFails(c)
    BY <2>4 DEF RespondFails
  <2>5. CASE ReadReply(c)
    BY <2>5 DEF ReadReply
  <2>6. CASE ReplyLost(c)
    BY <2>6 DEF ReplyLost
  <2>7. CASE Lookup(c)
    BY <2>7 DEF Lookup
  <2> QED
    BY <1>4, <2>1, <2>2, <2>3, <2>4, <2>5, <2>6, <2>7 DEF Carry
<1>5. ASSUME NEW c \in Calls, AuthFails(c) PROVE TypeInv'
  BY <1>5 DEF AuthFails
<1>6. ASSUME NEW c \in Calls, Process(c) PROVE TypeInv'
  BY <1>6 DEF Process
<1>7. ASSUME NEW h \in Calls, NEW c \in Calls, Receive(h, c) PROVE TypeInv'
  BY <1>7 DEF Receive
<1>8. CASE ServerCrash
  BY <1>8 DEF ServerCrash
<1>9. CASE ProxyCrash
  BY <1>9 DEF ProxyCrash
<1>10. CASE UNCHANGED vars
  BY <1>10 DEF vars
<1> QED
  BY <1>1, <1>2, <1>3, <1>4, <1>5, <1>6, <1>7, <1>8, <1>9, <1>10 DEF Next

(* Every variable of the relay keeps its type.                             *)
THEOREM TypeCorrect == Spec => []TypeOK
<1>1. TypeInv => TypeOK
  BY DEF TypeInv
<1> QED
  BY <1>1, TypeInit, TypeNext, PTL DEF Spec
-----------------------------------------------------------------------------
(* What holds however the ids are drawn.                                   *)

(* The message leaves with its id.                                         *)
SentWithId == \A c \in Calls : pc[c] \in {"idle", "ulid", "send"} => job[c] = "none"

(* A client is answered with the server's result for a call of its own     *)
(* protocol that has its id (httpproxy.go:87-89, 141-144, 183-185).        *)
AnswerHasId ==
    \A c \in Calls : got[c] # NoCall =>
        /\ Protocol(got[c]) = Protocol(c) /\ id[got[c]] = id[c]
        /\ pc[c] = result[got[c]] /\ job[got[c]] = "done"

(* No response answers two clients (upload.go:206-219).                    *)
AnswersOnce == \A c, d \in Calls : c # d /\ got[c] # NoCall => got[c] # got[d]

AnswersInv == TypeInv /\ SentWithId /\ AnswerHasId /\ AnswersOnce

(* A step that takes no response disturbs no answer.                       *)
LEMMA AnswersKept ==
  ASSUME AnswersInv, TypeInv', got' = got,
         \A c \in Calls : pc[c] \in Results => pc'[c] = pc[c],
         \A c \in Calls : pc[c] \notin {"idle", "ulid"} => id'[c] = id[c],
         \A c \in Calls : job[c] = "done" => job'[c] = "done" /\ result'[c] = result[c],
         SentWithId'
  PROVE  AnswersInv'
<1> USE DEF AnswersInv
<1>1. AnswersOnce'
  BY DEF AnswersOnce
<1>2. ASSUME NEW c \in Calls, got[c] # NoCall
      PROVE  /\ Protocol(got[c]) = Protocol(c) /\ id'[got[c]] = id'[c]
             /\ pc'[c] = result'[got[c]] /\ job'[got[c]] = "done"
  <2>1. got[c] \in Calls /\ got[c] # NoCall
    BY <1>2 DEF TypeInv, TypeOK
  <2>2. /\ Protocol(got[c]) = Protocol(c) /\ id[got[c]] = id[c]
        /\ pc[c] = result[got[c]] /\ job[got[c]] = "done"
    BY <1>2 DEF AnswerHasId
  <2>3. pc[c] \in Results
    BY <2>1, <2>2 DEF TypeInv, TypeOK, ResultBeforeResponse
  <2>4. pc[c] \notin {"idle", "ulid"} /\ pc[got[c]] \notin {"idle", "ulid"}
    BY <2>1, <2>2, <2>3 DEF SentWithId, Results
  <2> QED
    BY <2>1, <2>2, <2>3, <2>4
<1>3. AnswerHasId'
  BY <1>2 DEF AnswerHasId, Protocol
<1> QED
  BY <1>1, <1>3

LEMMA AnswersNext == AnswersInv /\ [Next]_vars => AnswersInv'
<1> SUFFICES ASSUME AnswersInv, [Next]_vars PROVE AnswersInv'
  OBVIOUS
<1>t. TypeInv'
  BY TypeNext DEF AnswersInv
<1> USE <1>t DEF AnswersInv, TypeInv, TypeOK
<1>1. ASSUME NEW d \in Calls, Reject(d) \/ EnterUlid(d) PROVE AnswersInv'
  <2>1. /\ got' = got /\ job' = job /\ result' = result
        /\ \A c \in Calls : pc[c] \in Results => pc'[c] = pc[c]
        /\ \A c \in Calls : pc[c] \notin {"idle", "ulid"} => id'[c] = id[c]
    BY <1>1 DEF Reject, EnterUlid, Results
  <2>2. SentWithId'
    BY <1>1, <2>1 DEF Reject, EnterUlid, SentWithId
  <2> QED
    BY <2>1, <2>2, AnswersKept
<1>2. ASSUME NEW d \in Calls, Handle(d) PROVE AnswersInv'
  <2>1. CASE LeaveUlid(d)
    <3>1. id' = id \/ id' = [id EXCEPT ![d] = entropy]
      BY <2>1, Zenon DEF LeaveUlid
    <3>2. /\ pc[d] = "ulid" /\ pc' = [pc EXCEPT ![d] = "send"]
          /\ UNCHANGED <<got, job, result>>
      BY <2>1, Zenon DEF LeaveUlid
    <3>3. /\ \A c \in Calls : pc[c] \in Results => pc'[c] = pc[c]
          /\ \A c \in Calls : pc[c] \notin {"idle", "ulid"} => id'[c] = id[c]
      BY <3>1, <3>2 DEF Results
    <3>4. SentWithId'
      BY <3>2 DEF SentWithId
    <3> QED
      BY <3>2, <3>3, <3>4, AnswersKept
  <2>2. CASE ~LeaveUlid(d)
    <3>1. /\ got' = got /\ id' = id /\ result' = result
          /\ \A c \in Calls : pc[c] \in Results => pc'[c] = pc[c]
          /\ \A c \in Calls : job[c] = "done" => job'[c] = "done"
      BY <1>2, <2>2 DEF Handle, SendRequest, SendFails, CloseDone, CloseFails, Store,
                        SentWithId, Results
    <3>2. SentWithId'
      BY <1>2, <2>2 DEF Handle, SendRequest, SendFails, CloseDone, CloseFails, Store, SentWithId
    <3> QED
      BY <3>1, <3>2, AnswersKept
  <2> QED
    BY <2>1, <2>2
<1>3. ASSUME NEW d \in Calls, Carry(d) \/ AuthFails(d) PROVE AnswersInv'
  <2>1. /\ got' = got /\ id' = id /\ pc' = pc /\ result' = result
        /\ job[d] \notin {"none", "done"}
        /\ \A c \in Calls : c # d => job'[c] = job[c]
    BY <1>3 DEF Carry, AuthFails, ReadRequest, RequestCut, Respond, RespondFails, ReadReply,
                ReplyLost, Lookup
  <2>2. SentWithId'
    BY <2>1 DEF SentWithId
  <2> QED
    BY <2>1, <2>2, AnswersKept
<1>4. ASSUME NEW d \in Calls, Process(d) PROVE AnswersInv'
  <2>1. /\ got' = got /\ id' = id /\ pc' = pc /\ job[d] = "process"
        /\ \A c \in Calls : c # d => job'[c] = job[c] /\ result'[c] = result[c]
    BY <1>4 DEF Process
  <2>2. SentWithId'
    BY <2>1 DEF SentWithId
  <2> QED
    BY <2>1, <2>2, AnswersKept
<1>5. ASSUME NEW h \in Calls, NEW d \in Calls, Receive(h, d) PROVE AnswersInv'
  <2>1. /\ pc[h] = "recv" /\ job[d] = "deliver" /\ Protocol(h) = Protocol(d)
        /\ job' = [job EXCEPT ![d] = "done"] /\ id' = id /\ result' = result
    BY <1>5 DEF Receive
  <2>2. \A c \in Calls : job[c] = "done" => job'[c] = "done"
    BY <2>1
  <2>3. SentWithId'
    BY <1>5, <2>1 DEF Receive, SentWithId, Results, ResultBeforeResponse, OnProxy
  <2>4. CASE id[h] # id[d]
    BY <1>5, <2>1, <2>2, <2>3, <2>4, AnswersKept DEF Receive
  <2>5. CASE id[h] = id[d]
    <3>1. pc' = [pc EXCEPT ![h] = result[d]] /\ got' = [got EXCEPT ![h] = d]
      BY <1>5, <2>5 DEF Receive
    <3>2. \A c \in Calls : got[c] # d
      BY <2>1, NoCallAssumption DEF AnswerHasId
    <3>3. AnswersOnce'
      BY <3>1, <3>2 DEF AnswersOnce
    <3>4. AnswerHasId'
      <4> SUFFICES ASSUME NEW c \in Calls, got'[c] # NoCall
                   PROVE  /\ Protocol(got'[c]) = Protocol(c) /\ id[got'[c]] = id[c]
                          /\ pc'[c] = result[got'[c]] /\ job'[got'[c]] = "done"
        BY <2>1 DEF AnswerHasId, Protocol
      <4>1. CASE c = h
        BY <2>1, <2>5, <3>1, <4>1
      <4>2. CASE c # h
        <5>1. got'[c] = got[c] /\ pc'[c] = pc[c] /\ got[c] \in Calls
          BY <3>1, <4>2
        <5> QED
          BY <2>2, <5>1 DEF AnswerHasId
      <4> QED
        BY <4>1, <4>2
    <3> QED
      BY <2>3, <3>3, <3>4
  <2> QED
    BY <2>4, <2>5
<1>6. CASE ServerCrash
  <2>1. /\ got' = got /\ id' = id /\ pc' = pc /\ result' = result
        /\ \A c \in Calls : job[c] \in {"none", "done"} => job'[c] = job[c]
    BY <1>6 DEF ServerCrash
  <2>2. SentWithId'
    BY <2>1 DEF SentWithId
  <2> QED
    BY <2>1, <2>2, AnswersKept
<1>7. CASE ProxyCrash
  <2>1. /\ got' = got /\ id' = id /\ result' = result
        /\ \A c \in Calls : job[c] \in {"none", "done"} => job'[c] = job[c]
    BY <1>7 DEF ProxyCrash, OnProxy
  <2>2. \A c \in Calls : pc'[c] = IF pc[c] \in InFlight THEN "broken" ELSE pc[c]
    BY <1>7 DEF ProxyCrash
  <2>3. SentWithId'
    BY <2>1, <2>2 DEF SentWithId
  <2>4. \A c \in Calls : pc[c] \in Results => pc'[c] = pc[c]
    BY <2>2 DEF InFlight, Results
  <2> QED
    BY <2>1, <2>3, <2>4, AnswersKept
<1>8. CASE UNCHANGED vars
  BY <1>8, AnswersKept DEF vars, SentWithId
<1> QED
  BY <1>1, <1>2, <1>3, <1>4, <1>5, <1>6, <1>7, <1>8 DEF Next

LEMMA AnswersInit == Init => AnswersInv
  BY TypeInit DEF Init, AnswersInv, SentWithId, AnswerHasId, AnswersOnce

(* Whatever ids calls draw, also the same: a client gets the server's      *)
(* result for a call of its protocol with its id, and no response answers  *)
(* two clients.                                                            *)
THEOREM AnswersMatch == Spec => [](AnswerHasId /\ AnswersOnce)
<1>1. AnswersInv => AnswerHasId /\ AnswersOnce
  BY DEF AnswersInv
<1> QED
  BY <1>1, AnswersInit, AnswersNext, PTL DEF Spec

-----------------------------------------------------------------------------
(* The condition of the theorems below on the ids.                         *)

(* Two requests that agree on their id have agreed on it since both left:  *)
(* if the ids are unique now they have been so all along.                  *)
LEMMA UniqueBefore == AnswersInv /\ [Next]_vars /\ IdsUnique' => IdsUnique
<1> SUFFICES ASSUME AnswersInv, [Next]_vars PROVE IdsUnique' => IdsUnique
  OBVIOUS
<1> USE DEF AnswersInv, TypeInv, TypeOK
<1>1. ASSUME NEW c \in Calls, job[c] # "none" PROVE id'[c] = id[c] /\ job'[c] # "none"
  <2> USE <1>1
  <2>0. pc[c] \notin {"idle", "ulid", "send"}
    BY DEF SentWithId
  <2>1. ASSUME NEW d \in Calls, Reject(d) \/ EnterUlid(d) \/ LeaveUlid(d)
        PROVE  id'[c] = id[c] /\ job'[c] = job[c]
    <3>1. pc[d] \in {"idle", "ulid"} /\ job' = job
      BY <2>1 DEF Reject, EnterUlid, LeaveUlid
    <3>2. c # d
      BY <2>0, <3>1
    <3>3. \/ id' = id \/ id' = [id EXCEPT ![d] = entropy + 1] \/ id' = [id EXCEPT ![d] = entropy]
      BY <2>1, Zenon DEF Reject, EnterUlid, LeaveUlid
    <3> QED
      BY <3>1, <3>2, <3>3
  <2>2. ASSUME NEW d \in Calls, Handle(d), ~LeaveUlid(d) PROVE id'[c] = id[c] /\ job'[c] # "none"
    BY <2>2 DEF Handle, SendRequest, SendFails, CloseDone, CloseFails, Store
  <2>3. ASSUME NEW d \in Calls, Carry(d) \/ AuthFails(d) \/ Process(d)
        PROVE  id'[c] = id[c] /\ job'[c] # "none"
    BY <2>3 DEF Carry, AuthFails, Process, ReadRequest, RequestCut, Respond, RespondFails,
                ReadReply, ReplyLost, Lookup
  <2>4. ASSUME NEW h \in Calls, NEW d \in Calls, Receive(h, d) PROVE id'[c] = id[c] /\ job'[c] # "none"
    BY <2>4 DEF Receive
  <2>5. CASE ServerCrash
    BY <2>5 DEF ServerCrash
  <2>6. CASE ProxyCrash
    BY <2>6 DEF ProxyCrash
  <2>7. CASE UNCHANGED vars
    BY <2>7 DEF vars
  <2> QED
    BY <2>1, <2>2, <2>3, <2>4, <2>5, <2>6, <2>7 DEF Next
<1> QED
  BY <1>1 DEF IdsUnique

(* With a lock in GetUlid every call would draw an id of its own.          *)
IdsDistinct ==
    /\ \A c \in Calls : id[c] <= entropy
    /\ \A c \in Calls : pc[c] \in InFlight \/ job[c] # "none" => id[c] # 0
    /\ \A c, d \in Calls : c # d /\ id[c] # 0 => id[c] # id[d]

LEMMA DistinctNext ==
  ASSUME RacyUlid = FALSE, TypeOK, IdsDistinct, [Next]_vars
  PROVE  IdsDistinct'
<1> USE DEF TypeOK, IdsDistinct, InFlight
<1>1. ASSUME NEW d \in Calls, Reject(d) \/ EnterUlid(d) \/ Handle(d) PROVE IdsDistinct'
  BY <1>1 DEF Reject, EnterUlid, Handle, LeaveUlid, SendRequest, SendFails, CloseDone, CloseFails,
              Store
<1>2. ASSUME NEW d \in Calls, Carry(d) \/ AuthFails(d) \/ Process(d) PROVE IdsDistinct'
  BY <1>2 DEF Carry, AuthFails, Process, ReadRequest, RequestCut, Respond, RespondFails,
              ReadReply, ReplyLost, Lookup
<1>3. ASSUME NEW h \in Calls, NEW d \in Calls, Receive(h, d) PROVE IdsDistinct'
  <2>1. result[d] \in Results \cup {"no"}
    BY <1>3
  <2> QED
    BY <1>3, <2>1 DEF Receive, Results
<1>4. CASE ServerCrash
  BY <1>4 DEF ServerCrash
<1>5. CASE ProxyCrash
  <2>1. /\ id' = id /\ entropy' = entropy
        /\ \A c \in Calls : pc'[c] \in InFlight => pc[c] \in InFlight
        /\ \A c \in Calls : job'[c] # "none" => job[c] # "none"
    BY <1>5 DEF ProxyCrash, OnProxy
  <2> QED
    BY <2>1
<1>6. CASE UNCHANGED vars
  BY <1>6 DEF vars
<1> QED
  BY <1>1, <1>2, <1>3, <1>4, <1>5, <1>6 DEF Next

(* The ids of requests are unique but for the race of GetUlid: the         *)
(* condition holds of the relay in which ids are drawn one at a time       *)
(* (ulid.go:9-13).                                                         *)
THEOREM UniqueUnlessRacy == RacyUlid = FALSE /\ Spec => []IdsUnique
<1> SUFFICES ASSUME RacyUlid = FALSE PROVE Spec => []IdsUnique
  OBVIOUS
<1>1. Init => TypeInv /\ IdsDistinct
  BY TypeInit DEF Init, IdsDistinct, InFlight
<1>2. TypeInv /\ IdsDistinct /\ [Next]_vars => TypeInv' /\ IdsDistinct'
  BY TypeNext, DistinctNext DEF TypeInv
<1>3. IdsDistinct => IdsUnique
  BY DEF IdsDistinct, IdsUnique
<1> QED
  BY <1>1, <1>2, <1>3, PTL DEF Spec

-----------------------------------------------------------------------------
LEMMA InvInit == Init => IInv
  BY TypeInit DEF Init, IInv, JobMatchesHandler, EntryHasWaiter,
     DeliverHasReceiver, DeliverUsedEntry, AnswerIsOwn

(* The entries of the maps stay accounted for when none is added and the   *)
(* handlers of those that remain are not disturbed.                        *)
LEMMA EntriesKept ==
  ASSUME TypeOK, EntryHasWaiter,
         \A p \in Protocols : requests'[p] \subseteq requests[p],
         \A c \in Calls :
             /\ id[c] \in requests'[Protocol(c)]
             /\ pc[c] = "recv"
             /\ job[c] \notin {"none", "request", "cut", "deliver", "done"}
             => /\ id'[c] = id[c]
                /\ pc'[c] = "recv"
                /\ job'[c] \notin {"none", "request", "cut", "deliver", "done"}
  PROVE  EntryHasWaiter'
  BY DEF EntryHasWaiter

(* An id on the map or on the channel names one call.                      *)
LEMMA SameIdSameCall ==
  ASSUME IdsUnique, JobMatchesHandler, NEW c \in Calls, NEW d \in Calls,
         pc[c] = "recv", job[d] # "none", id[c] = id[d]
  PROVE  c = d
  BY DEF IdsUnique, JobMatchesHandler

LEMMA InvNext == IdsUnique /\ IInv /\ [Next]_vars => IInv'
<1> SUFFICES ASSUME IdsUnique, IInv, [Next]_vars PROVE IInv'
  OBVIOUS
<1>0. TypeInv'
  BY TypeNext DEF IInv
<1> USE <1>0, ProtocolType DEF IInv
<1>1. ASSUME NEW c \in Calls, Reject(c) PROVE IInv'
  <2> USE <1>1 DEF Reject, TypeInv, TypeOK
  <2>1. AnswerIsOwn'
    BY DEF AnswerIsOwn
  <2>2. JobMatchesHandler'
    BY DEF JobMatchesHandler
  <2>3. EntryHasWaiter'
    BY EntriesKept
  <2>4. DeliverHasReceiver' /\ DeliverUsedEntry'
    BY DEF DeliverHasReceiver, DeliverUsedEntry
  <2> QED
    BY <2>1, <2>2, <2>3, <2>4
<1>2. ASSUME NEW c \in Calls, EnterUlid(c) PROVE IInv'
  <2> USE <1>2 DEF EnterUlid, TypeInv, TypeOK
  <2>1. AnswerIsOwn'
    BY DEF AnswerIsOwn
  <2>2. JobMatchesHandler'
    BY DEF JobMatchesHandler
  <2>3. EntryHasWaiter'
    BY EntriesKept
  <2>4. DeliverHasReceiver' /\ DeliverUsedEntry'
    BY DEF DeliverHasReceiver, DeliverUsedEntry
  <2> QED
    BY <2>1, <2>2, <2>3, <2>4
<1>3. ASSUME NEW c \in Calls, LeaveUlid(c) PROVE IInv'
  <2> USE <1>3 DEF LeaveUlid, TypeInv, TypeOK
  <2>1. AnswerIsOwn'
    BY DEF AnswerIsOwn
  <2>2. JobMatchesHandler'
    BY DEF JobMatchesHandler
  <2>3. EntryHasWaiter'
    BY EntriesKept
  <2>4. DeliverHasReceiver' /\ DeliverUsedEntry'
    BY DEF DeliverHasReceiver, DeliverUsedEntry
  <2> QED
    BY <2>1, <2>2, <2>3, <2>4
<1>4. ASSUME NEW c \in Calls, SendRequest(c) PROVE IInv'
  <2> USE <1>4 DEF SendRequest, TypeInv, TypeOK
  <2>1. AnswerIsOwn'
    BY DEF AnswerIsOwn
  <2>2. JobMatchesHandler'
    BY DEF JobMatchesHandler
  <2>3. EntryHasWaiter'
    BY EntriesKept
  <2>4. DeliverHasReceiver' /\ DeliverUsedEntry'
    BY DEF DeliverHasReceiver, DeliverUsedEntry
  <2> QED
    BY <2>1, <2>2, <2>3, <2>4
<1>5. ASSUME NEW c \in Calls, SendFails(c) PROVE IInv'
  <2> USE <1>5 DEF SendFails, TypeInv, TypeOK
  <2>1. AnswerIsOwn'
    BY DEF AnswerIsOwn
  <2>2. JobMatchesHandler'
    BY DEF JobMatchesHandler
  <2>3. EntryHasWaiter'
    BY EntriesKept
  <2>4. DeliverHasReceiver' /\ DeliverUsedEntry'
    BY DEF DeliverHasReceiver, DeliverUsedEntry
  <2> QED
    BY <2>1, <2>2, <2>3, <2>4
<1>6. ASSUME NEW c \in Calls, CloseDone(c) PROVE IInv'
  <2> USE <1>6 DEF CloseDone, TypeInv, TypeOK
  <2>1. AnswerIsOwn'
    BY DEF AnswerIsOwn
  <2>2. JobMatchesHandler'
    BY DEF JobMatchesHandler
  <2>3. EntryHasWaiter'
    BY EntriesKept
  <2>4. DeliverHasReceiver' /\ DeliverUsedEntry'
    BY DEF DeliverHasReceiver, DeliverUsedEntry
  <2> QED
    BY <2>1, <2>2, <2>3, <2>4
<1>7. ASSUME NEW c \in Calls, CloseFails(c) PROVE IInv'
  <2> USE <1>7 DEF CloseFails, TypeInv, TypeOK
  <2>1. AnswerIsOwn'
    BY DEF AnswerIsOwn
  <2>2. JobMatchesHandler'
    BY DEF JobMatchesHandler
  <2>3. EntryHasWaiter'
    BY EntriesKept
  <2>4. DeliverHasReceiver' /\ DeliverUsedEntry'
    BY DEF DeliverHasReceiver, DeliverUsedEntry
  <2> QED
    BY <2>1, <2>2, <2>3, <2>4
<1>8. ASSUME NEW c \in Calls, Store(c) PROVE IInv'
  <2> USE <1>8 DEF Store, TypeInv, TypeOK
  <2>1. AnswerIsOwn'
    BY DEF AnswerIsOwn
  <2>2. JobMatchesHandler'
    BY DEF JobMatchesHandler
  <2>3. EntryHasWaiter'
    <3> SUFFICES ASSUME NEW p \in Protocols, NEW x \in requests'[p]
                 PROVE  \E d \in Calls :
                            /\ Protocol(d) = p /\ id'[d] = x /\ pc'[d] = "recv"
                            /\ job'[d] \notin {"none", "request", "cut", "deliver", "done"}
      BY DEF EntryHasWaiter
    <3>1. CASE x \in requests[p]
      BY <3>1 DEF EntryHasWaiter
    <3>2. CASE x \notin requests[p]
      <4>1. p = Protocol(c) /\ x = id[c]
        BY <3>2
      <4>2. job[c] \notin {"none", "request", "cut", "deliver", "done"}
        BY DEF JobMatchesHandler, DeliverHasReceiver
      <4> QED
        BY <4>1, <4>2
    <3> QED
      BY <3>1, <3>2
  <2>4. DeliverHasReceiver' /\ DeliverUsedEntry'
    <3>1. \A d \in Calls : job[d] = "deliver" => id[d] # id[c]
      BY DEF DeliverHasReceiver, JobMatchesHandler, IdsUnique
    <3> QED
      BY <3>1 DEF DeliverHasReceiver, DeliverUsedEntry
  <2> QED
    BY <2>1, <2>2, <2>3, <2>4
<1>9. ASSUME NEW c \in Calls, ReadRequest(c) PROVE IInv'
  <2> USE <1>9 DEF ReadRequest, TypeInv, TypeOK
  <2>1. AnswerIsOwn'
    BY DEF AnswerIsOwn
  <2>2. JobMatchesHandler'
    BY DEF JobMatchesHandler
  <2>3. EntryHasWaiter'
    BY EntriesKept
  <2>4. DeliverHasReceiver' /\ DeliverUsedEntry'
    BY DEF DeliverHasReceiver, DeliverUsedEntry
  <2> QED
    BY <2>1, <2>2, <2>3, <2>4
<1>10. ASSUME NEW c \in Calls, RequestCut(c) PROVE IInv'
  <2> USE <1>10 DEF RequestCut, TypeInv, TypeOK
  <2>1. AnswerIsOwn'
    BY DEF AnswerIsOwn
  <2>2. JobMatchesHandler'
    BY DEF JobMatchesHandler
  <2>3. EntryHasWaiter'
    BY EntriesKept
  <2>4. DeliverHasReceiver' /\ DeliverUsedEntry'
    BY DEF DeliverHasReceiver, DeliverUsedEntry
  <2> QED
    BY <2>1, <2>2, <2>3, <2>4
<1>11. ASSUME NEW c \in Calls, Respond(c) PROVE IInv'
  <2> USE <1>11 DEF Respond, TypeInv, TypeOK
  <2>1. AnswerIsOwn'
    BY DEF AnswerIsOwn
  <2>2. JobMatchesHandler'
    BY DEF JobMatchesHandler
  <2>3. EntryHasWaiter'
    BY EntriesKept
  <2>4. DeliverHasReceiver' /\ DeliverUsedEntry'
    BY DEF DeliverHasReceiver, DeliverUsedEntry
  <2> QED
    BY <2>1, <2>2, <2>3, <2>4
<1>12. ASSUME NEW c \in Calls, RespondFails(c) PROVE IInv'
  <2> USE <1>12 DEF RespondFails, TypeInv, TypeOK
  <2>1. AnswerIsOwn'
    BY DEF AnswerIsOwn
  <2>2. JobMatchesHandler'
    BY DEF JobMatchesHandler
  <2>3. EntryHasWaiter'
    BY EntriesKept
  <2>4. DeliverHasReceiver' /\ DeliverUsedEntry'
    BY DEF DeliverHasReceiver, DeliverUsedEntry
  <2> QED
    BY <2>1, <2>2, <2>3, <2>4
<1>13. ASSUME NEW c \in Calls, ReadReply(c) PROVE IInv'
  <2> USE <1>13 DEF ReadReply, TypeInv, TypeOK
  <2>1. AnswerIsOwn'
    BY DEF AnswerIsOwn
  <2>2. JobMatchesHandler'
    BY DEF JobMatchesHandler
  <2>3. EntryHasWaiter'
    BY EntriesKept
  <2>4. DeliverHasReceiver' /\ DeliverUsedEntry'
    BY DEF DeliverHasReceiver, DeliverUsedEntry
  <2> QED
    BY <2>1, <2>2, <2>3, <2>4
<1>14. ASSUME NEW c \in Calls, ReplyLost(c) PROVE IInv'
  <2> USE <1>14 DEF ReplyLost, TypeInv, TypeOK
  <2>1. AnswerIsOwn'
    BY DEF AnswerIsOwn
  <2>2. JobMatchesHandler'
    BY DEF JobMatchesHandler
  <2>3. EntryHasWaiter'
    BY EntriesKept
  <2>4. DeliverHasReceiver' /\ DeliverUsedEntry'
    BY DEF DeliverHasReceiver, DeliverUsedEntry
  <2> QED
    BY <2>1, <2>2, <2>3, <2>4
<1>15. ASSUME NEW c \in Calls, Lookup(c) PROVE IInv'
  <2> USE <1>15 DEF Lookup, TypeInv, TypeOK
  <2>1. AnswerIsOwn'
    BY DEF AnswerIsOwn
  <2>2. JobMatchesHandler'
    BY DEF JobMatchesHandler
  <2>3. EntryHasWaiter'
    BY EntriesKept
  <2>4. DeliverHasReceiver' /\ DeliverUsedEntry'
    <3>1. id[c] \in requests[Protocol(c)] => pc[c] = "recv"
      BY SameIdSameCall DEF EntryHasWaiter
    <3> QED
      BY <3>1 DEF DeliverHasReceiver, DeliverUsedEntry
  <2> QED
    BY <2>1, <2>2, <2>3, <2>4
<1>16. ASSUME NEW c \in Calls, AuthFails(c) PROVE IInv'
  <2> USE <1>16 DEF AuthFails, TypeInv, TypeOK
  <2>1. AnswerIsOwn'
    BY DEF AnswerIsOwn
  <2>2. JobMatchesHandler'
    BY DEF JobMatchesHandler
  <2>3. EntryHasWaiter'
    BY EntriesKept
  <2>4. DeliverHasReceiver' /\ DeliverUsedEntry'
    BY DEF DeliverHasReceiver, DeliverUsedEntry
  <2> QED
    BY <2>1, <2>2, <2>3, <2>4
<1>17. ASSUME NEW c \in Calls, Process(c) PROVE IInv'
  <2> USE <1>17 DEF Process, TypeInv, TypeOK
  <2>1. AnswerIsOwn'
    BY DEF AnswerIsOwn
  <2>2. JobMatchesHandler'
    BY DEF JobMatchesHandler
  <2>3. EntryHasWaiter'
    BY EntriesKept
  <2>4. DeliverHasReceiver' /\ DeliverUsedEntry'
    BY DEF DeliverHasReceiver, DeliverUsedEntry
  <2> QED
    BY <2>1, <2>2, <2>3, <2>4
<1>18. ASSUME NEW h \in Calls, NEW c \in Calls, Receive(h, c) PROVE IInv'
  <2> USE <1>18 DEF Receive, TypeInv, TypeOK
  <2>1. id[h] = id[c] => h = c
    BY SameIdSameCall
  <2>2. pc[c] = "recv" /\ id[c] \notin requests[Protocol(c)]
    BY DEF DeliverHasReceiver, DeliverUsedEntry
  <2>3. AnswerIsOwn'
    BY <2>1 DEF AnswerIsOwn, Results
  <2>4. JobMatchesHandler'
    BY <2>1, <2>2 DEF JobMatchesHandler, ResultBeforeResponse, OnProxy, Results
  <2>5. EntryHasWaiter'
    BY <2>1, EntriesKept
  <2>6. DeliverHasReceiver' /\ DeliverUsedEntry'
    BY <2>1 DEF DeliverHasReceiver, DeliverUsedEntry
  <2> QED
    BY <2>3, <2>4, <2>5, <2>6
<1>19. CASE ServerCrash
  <2> USE <1>19 DEF ServerCrash, TypeInv, TypeOK
  <2>1. AnswerIsOwn'
    BY DEF AnswerIsOwn
  <2>2. JobMatchesHandler'
    BY DEF JobMatchesHandler
  <2>3. EntryHasWaiter'
    BY EntriesKept
  <2>4. DeliverHasReceiver' /\ DeliverUsedEntry'
    BY DEF DeliverHasReceiver, DeliverUsedEntry
  <2> QED
    BY <2>1, <2>2, <2>3, <2>4
<1>20. CASE ProxyCrash
  <2> USE <1>20 DEF ProxyCrash, TypeInv, TypeOK
  <2>1. AnswerIsOwn'
    BY DEF AnswerIsOwn
  <2>2. JobMatchesHandler'
    BY DEF JobMatchesHandler, InFlight, OnProxy
  <2>3. EntryHasWaiter'
    BY DEF EntryHasWaiter
  <2>4. DeliverHasReceiver' /\ DeliverUsedEntry'
    BY DEF DeliverHasReceiver, DeliverUsedEntry, OnProxy
  <2> QED
    BY <2>1, <2>2, <2>3, <2>4
<1>21. CASE UNCHANGED vars
  BY <1>21 DEF vars, JobMatchesHandler, EntryHasWaiter,
     DeliverHasReceiver, DeliverUsedEntry, AnswerIsOwn, TypeInv, TypeOK,
     ResultBeforeResponse, InFlight
<1> QED
  BY <1>1, <1>2, <1>3, <1>4, <1>5, <1>6, <1>7, <1>8, <1>9, <1>10, <1>11, <1>12,
     <1>13, <1>14, <1>15, <1>16, <1>17, <1>18, <1>19, <1>20, <1>21
  DEF Next, Handle, Carry

(* The inductive invariant holds as long as the requests' ids are unique.  *)
THEOREM Invariant == Spec => [](IdsUnique => IInv)
<1>1. AnswersInv /\ (IdsUnique => IInv) /\ [Next]_vars => (IdsUnique => IInv)'
  BY InvNext, UniqueBefore
<1>2. Init => (IdsUnique => IInv)
  BY InvInit
<1> QED
  BY <1>1, <1>2, AnswersInit, AnswersNext, PTL DEF Spec

(* As long as the ids of requests are unique, no client is answered with   *)
(* the response to another client's call (httpproxy.go:87-89, 141-144).    *)
THEOREM AnswersAreOwn == Spec => [](IdsUnique => AnswerIsOwn)
<1>1. IInv => AnswerIsOwn
  BY DEF IInv
<1> QED
  BY <1>1, Invariant, PTL

(* As long as the ids of requests are unique, a response goroutine blocked *)
(* on the channel (upload.go:219) has its handler on the other end.        *)
THEOREM DeliveriesHaveReceiver == Spec => [](IdsUnique => DeliverHasReceiver)
<1>1. IInv => DeliverHasReceiver
  BY DEF IInv
<1> QED
  BY <1>1, Invariant, PTL

(* As long as the ids of requests are unique, every entry of a requests    *)
(* map (upload.go:211-218) belongs to a handler that still waits.          *)
THEOREM EntriesHaveWaiter == Spec => [](IdsUnique => EntryHasWaiter)
<1>1. IInv => EntryHasWaiter
  BY DEF IInv
<1> QED
  BY <1>1, Invariant, PTL

-----------------------------------------------------------------------------
(* A handler whose response is gone waits until its process dies.          *)
LEMMA StrandedStep ==
  ASSUME IdsUnique, IInv, Next, NEW c \in Calls, Stranded(c)
  PROVE  Stranded(c)' \/ pc'[c] = "broken"
<1> USE DEF Stranded, IInv, TypeInv, TypeOK
<1>1. ASSUME NEW d \in Calls, Reject(d) \/ EnterUlid(d) \/ Handle(d)
      PROVE  Stranded(c)'
  BY <1>1 DEF Reject, EnterUlid, Handle, LeaveUlid, SendRequest, SendFails,
     CloseDone, CloseFails, Store
<1>2. ASSUME NEW d \in Calls, Carry(d) \/ AuthFails(d) \/ Process(d)
      PROVE  Stranded(c)'
  BY <1>2 DEF Carry, AuthFails, Process, ReadRequest, RequestCut, Respond,
     RespondFails, ReadReply, ReplyLost, Lookup
<1>3. ASSUME NEW h \in Calls, NEW d \in Calls, Receive(h, d)
      PROVE  Stranded(c)'
  <2>1. id[h] = id[d] => h = d
    BY <1>3, SameIdSameCall DEF Receive
  <2> QED
    BY <1>3, <2>1 DEF Receive
<1>4. CASE ServerCrash
  BY <1>4 DEF ServerCrash
<1>5. CASE ProxyCrash
  BY <1>5 DEF ProxyCrash, InFlight
<1> QED
  BY <1>1, <1>2, <1>3, <1>4, <1>5 DEF Next

(* Where the ids of requests are unique, a handler whose response is gone  *)
(* waits until its process dies (httpproxy.go:141-150: no timeout).        *)
THEOREM StrandedIsForGood == Spec /\ []IdsUnique => StrandedForGood
<1>1. IdsUnique /\ IInv /\ [Next]_vars =>
        [\A c \in Calls : Stranded(c) => Stranded(c)' \/ pc'[c] = "broken"]_vars
  BY StrandedStep DEF Stranded
<1> QED
  BY <1>1, Invariant, PTL DEF Spec, StrandedForGood

-----------------------------------------------------------------------------
(* What clients see starts as the promise says it does.                    *)
LEMMA PromiseInit == Init => RR!Init
  BY DEF Init, RR!Init, Outcome, InFlight

(* Every step of the relay is, to the clients, a step of the promise or    *)
(* none.                                                                   *)
LEMMA PromiseNext == IdsUnique /\ IInv /\ [Next]_vars => [RR!Next]_(RR!vars)
<1> SUFFICES ASSUME IdsUnique, IInv, [Next]_vars PROVE [RR!Next]_(RR!vars)
  OBVIOUS
<1> USE DEF IInv, TypeInv, TypeOK
<1>1. ASSUME NEW c \in Calls, Reject(c) PROVE RR!Refuse(c)
  BY <1>1 DEF Reject, RR!Refuse, Outcome, InFlight
<1>2. ASSUME NEW c \in Calls, EnterUlid(c) PROVE RR!Submit(c)
  BY <1>2 DEF EnterUlid, RR!Submit, Outcome, InFlight
<1>3. ASSUME NEW c \in Calls, Handle(c) PROVE RR!Refuse(c) \/ UNCHANGED RR!vars
  <2>1. CASE LeaveUlid(c) \/ SendRequest(c) \/ CloseDone(c) \/ Store(c)
    BY <2>1 DEF LeaveUlid, SendRequest, CloseDone, Store, RR!vars, Outcome, InFlight
  <2>2. CASE SendFails(c) \/ CloseFails(c)
    BY <2>2 DEF SendFails, CloseFails, RR!Refuse, Outcome, InFlight
  <2> QED
    BY <1>3, <2>1, <2>2 DEF Handle
<1>4. ASSUME NEW c \in Calls, Carry(c) \/ AuthFails(c) PROVE UNCHANGED RR!vars
  BY <1>4 DEF Carry, AuthFails, ReadRequest, RequestCut, Respond, RespondFails,
     ReadReply, ReplyLost, Lookup, RR!vars, Outcome
<1>5. ASSUME NEW c \in Calls, Process(c) PROVE RR!Execute(c)
  <2>1. Outcome(c) \in {"pending", "error", "broken"}
    BY <1>5 DEF Process, JobMatchesHandler, Outcome, InFlight, Results
  <2>2. result[c] = "no"
    BY <1>5 DEF Process, JobMatchesHandler
  <2>3. [d \in Calls |-> Outcome(d)]' = [d \in Calls |-> Outcome(d)]
    BY <1>5 DEF Process, Outcome
  <2>4. \E r \in RR!Results : result' = [result EXCEPT ![c] = r]
    BY <1>5 DEF Process, Results, RR!Results
  <2> QED
    BY <2>1, <2>2, <2>3, <2>4 DEF RR!Execute
<1>6. ASSUME NEW h \in Calls, NEW c \in Calls, Receive(h, c)
      PROVE  RR!Answer(c) \/ UNCHANGED RR!vars
  <2>1. CASE id[h] = id[c]
    <3>1. h = c
      BY <1>6, <2>1, SameIdSameCall DEF Receive
    <3>2. result[c] \in Results
      BY <1>6 DEF Receive, ResultBeforeResponse, OnProxy
    <3>3. RR!Answer(c)
      BY <1>6, <2>1, <3>1, <3>2
      DEF Receive, RR!Answer, Outcome, InFlight, Results, RR!Results
    <3> QED
      BY <3>3
  <2>2. CASE id[h] # id[c]
    BY <1>6, <2>2 DEF Receive, RR!vars, Outcome
  <2> QED
    BY <2>1, <2>2
<1>7. CASE ServerCrash
  BY <1>7 DEF ServerCrash, RR!vars, Outcome
<1>8. CASE ProxyCrash
  <2>1. RR!Break
    BY <1>8 DEF ProxyCrash, RR!Break, Outcome, InFlight, Results
  <2> QED
    BY <2>1 DEF RR!Next
<1>9. CASE UNCHANGED vars
  BY <1>9 DEF vars, RR!vars, Outcome
<1> QED
  BY <1>1, <1>2, <1>3, <1>4, <1>5, <1>6, <1>7, <1>8, <1>9 DEF Next, RR!Next

(* Where the ids of requests are unique, the relay implements the promise  *)
(* to its clients.                                                         *)
THEOREM Implements == Spec /\ []IdsUnique => KeepsPromise
<1>1. Spec /\ []IdsUnique => []IInv
  BY Invariant, PTL
<1> QED
  BY <1>1, PromiseInit, PromiseNext, PTL DEF Spec, KeepsPromise, RR!Spec

-----------------------------------------------------------------------------
(* Why a call settles: the part of Settles and DeliveryEnds that needs no  *)
(* fairness.                                                               *)

(* How far the handler of a call is, and how far its message.              *)
HandlerAt(c) ==
    CASE pc[c] = "idle" -> 0 [] pc[c] = "ulid" -> 1 [] pc[c] = "send" -> 2
      [] pc[c] = "close" -> 3 [] pc[c] = "store" -> 4 [] pc[c] = "recv" -> 5
      [] OTHER -> 6

MessageAt(c) ==
    CASE job[c] = "none" -> 0 [] job[c] = "request" -> 1 [] job[c] = "process" -> 2
      [] job[c] = "respond" -> 3 [] job[c] = "reply" -> 4 [] job[c] = "lookup" -> 5
      [] job[c] = "deliver" -> 6
      [] OTHER -> 7

(* Nothing is tried again: a handler and its message never go back, and    *)
(* every step but a crash takes one of them further.  A call is therefore  *)
(* the matter of at most 6 + 7 steps.                                      *)
Ahead ==
    /\ \A c \in Calls : HandlerAt(c)' >= HandlerAt(c) /\ MessageAt(c)' >= MessageAt(c)
    /\ \/ ServerCrash \/ ProxyCrash
       \/ \E c \in Calls : HandlerAt(c)' > HandlerAt(c) \/ MessageAt(c)' > MessageAt(c)

OnlyForward == [][Ahead]_vars

(* One handler moves, or one message, or both.                             *)
LEMMA HandlerAhead ==
  ASSUME TypeOK, NEW d \in Calls, job' = job,
         \A c \in Calls : c # d => pc'[c] = pc[c], HandlerAt(d)' > HandlerAt(d)
  PROVE  Ahead
<1>1. \A c \in Calls : HandlerAt(c) \in 0..6 /\ MessageAt(c) \in 0..7
  BY DEF HandlerAt, MessageAt
<1>2. \A c \in Calls : MessageAt(c)' = MessageAt(c)
  BY DEF MessageAt
<1>3. \A c \in Calls : c # d => HandlerAt(c)' = HandlerAt(c)
  BY DEF HandlerAt
<1>4. HandlerAt(d)' >= HandlerAt(d)
  <2>1. HandlerAt(d)' \in 0..6
    BY DEF HandlerAt
  <2> QED
    BY <1>1, <2>1
<1> QED
  BY <1>1, <1>2, <1>3, <1>4 DEF Ahead

LEMMA MessageAhead ==
  ASSUME TypeOK, NEW d \in Calls,
         \A c \in Calls : c # d => job'[c] = job[c], MessageAt(d)' > MessageAt(d),
         \A c \in Calls : HandlerAt(c)' >= HandlerAt(c)
  PROVE  Ahead
<1>1. \A c \in Calls : MessageAt(c) \in 0..7
  BY DEF MessageAt
<1>2. MessageAt(d)' \in 0..7
  BY DEF MessageAt
<1>3. \A c \in Calls : c # d => MessageAt(c)' = MessageAt(c)
  BY DEF MessageAt
<1> QED
  BY <1>1, <1>2, <1>3 DEF Ahead

LEMMA HandlerStays ==
  ASSUME pc' = pc
  PROVE  \A c \in Calls : HandlerAt(c)' >= HandlerAt(c)
<1>1. \A c \in Calls : HandlerAt(c) \in 0..6 /\ HandlerAt(c)' = HandlerAt(c)
  BY DEF HandlerAt
<1> QED
  BY <1>1

LEMMA EveryStepAhead == AnswersInv /\ Next => Ahead
<1> SUFFICES ASSUME AnswersInv, Next PROVE Ahead
  OBVIOUS
<1> USE DEF AnswersInv, TypeInv
<1>1. ASSUME NEW d \in Calls, NEW s, pc' = [pc EXCEPT ![d] = s], job' = job,
             \/ pc[d] = "idle" /\ s \in {"ulid", "error"}
             \/ pc[d] = "ulid" /\ s = "send"
             \/ pc[d] = "send" /\ s = "error"
             \/ pc[d] = "close" /\ s \in {"store", "error"}
             \/ pc[d] = "store" /\ s = "recv"
      PROVE  Ahead
  <2>1. pc'[d] = s /\ \A c \in Calls : c # d => pc'[c] = pc[c]
    BY <1>1 DEF TypeOK
  <2>2. HandlerAt(d)' > HandlerAt(d)
    BY <1>1, <2>1 DEF HandlerAt
  <2> QED
    BY <1>1, <2>1, <2>2, HandlerAhead
<1>2. ASSUME NEW d \in Calls, NEW t, job' = [job EXCEPT ![d] = t],
             \A c \in Calls : HandlerAt(c)' >= HandlerAt(c),
             \/ job[d] = "none" /\ t = "request"
             \/ job[d] = "request" /\ t \in {"process", "cut"}
             \/ job[d] = "process" /\ t \in {"respond", "lost"}
             \/ job[d] = "respond" /\ t \in {"reply", "lost"}
             \/ job[d] = "reply" /\ t \in {"lookup", "lost"}
             \/ job[d] = "lookup" /\ t \in {"deliver", "dropped"}
             \/ job[d] = "deliver" /\ t = "done"
      PROVE  Ahead
  <2>1. job'[d] = t /\ \A c \in Calls : c # d => job'[c] = job[c]
    BY <1>2 DEF TypeOK
  <2>2. MessageAt(d)' > MessageAt(d)
    BY <1>2, <2>1 DEF MessageAt
  <2> QED
    BY <1>2, <2>1, <2>2, MessageAhead
<1>3. ASSUME NEW d \in Calls, Reject(d) \/ EnterUlid(d) PROVE Ahead
  BY <1>1, <1>3 DEF Reject, EnterUlid
<1>4. ASSUME NEW d \in Calls, SendRequest(d) PROVE Ahead
  <2>1. pc[d] = "send" /\ pc' = [pc EXCEPT ![d] = "close"] /\ job' = [job EXCEPT ![d] = "request"]
    BY <1>4 DEF SendRequest
  <2>2. pc'[d] = "close" /\ \A c \in Calls : c # d => pc'[c] = pc[c]
    BY <2>1 DEF TypeOK
  <2>3. \A c \in Calls : HandlerAt(c)' >= HandlerAt(c)
    BY <2>1, <2>2 DEF HandlerAt
  <2>4. HandlerAt(d)' > HandlerAt(d)
    BY <2>1, <2>2 DEF HandlerAt
  <2>5. job[d] = "none" /\ \A c \in Calls : c # d => job'[c] = job[c]
    BY <2>1 DEF TypeOK, SentWithId
  <2>6. \A c \in Calls : MessageAt(c)' >= MessageAt(c)
    <3> TAKE c \in Calls
    <3>1. MessageAt(c) \in 0..7 /\ MessageAt(c)' \in 0..7 /\ MessageAt(d) = 0
      BY <2>5 DEF MessageAt
    <3>2. c # d => MessageAt(c)' = MessageAt(c)
      BY <2>5 DEF MessageAt
    <3> QED
      BY <3>1, <3>2
  <2> QED
    BY <2>3, <2>4, <2>6 DEF Ahead
<1>5. ASSUME NEW d \in Calls, Handle(d), ~SendRequest(d) PROVE Ahead
  <2>1. job' = job /\ \E s : /\ pc' = [pc EXCEPT ![d] = s]
                             /\ \/ pc[d] = "ulid" /\ s = "send"
                                \/ pc[d] = "send" /\ s = "error"
                                \/ pc[d] = "close" /\ s \in {"store", "error"}
                                \/ pc[d] = "store" /\ s = "recv"
    BY <1>5 DEF Handle, LeaveUlid, SendFails, CloseDone, CloseFails, Store
  <2> QED
    BY <1>1, <2>1
<1>6. ASSUME NEW d \in Calls, Carry(d) \/ AuthFails(d) \/ Process(d) PROVE Ahead
  <2>1. \E t : /\ job' = [job EXCEPT ![d] = t]
               /\ \/ job[d] = "request" /\ t \in {"process", "cut"}
                  \/ job[d] = "process" /\ t \in {"respond", "lost"}
                  \/ job[d] = "respond" /\ t \in {"reply", "lost"}
                  \/ job[d] = "reply" /\ t \in {"lookup", "lost"}
                  \/ job[d] = "lookup" /\ t \in {"deliver", "dropped"}
    BY <1>6 DEF Carry, AuthFails, Process, ReadRequest, RequestCut, Respond, RespondFails,
                ReadReply, ReplyLost, Lookup
  <2>2. pc' = pc
    BY <1>6 DEF Carry, AuthFails, Process, ReadRequest, RequestCut, Respond, RespondFails,
                ReadReply, ReplyLost, Lookup
  <2> QED
    BY <1>2, <2>1, <2>2, HandlerStays
<1>7. ASSUME NEW h \in Calls, NEW d \in Calls, Receive(h, d) PROVE Ahead
  <2>1. job[d] = "deliver" /\ job' = [job EXCEPT ![d] = "done"]
    BY <1>7 DEF Receive
  <2>2. \A c \in Calls : HandlerAt(c)' >= HandlerAt(c)
    <3>1. CASE pc' = pc
      BY <3>1, HandlerStays
    <3>2. CASE pc[h] = "recv" /\ pc' = [pc EXCEPT ![h] = result[d]]
      <4>1. result[d] \in Results
        BY <2>1 DEF TypeOK, ResultBeforeResponse, OnProxy
      <4>2. pc'[h] \in Results /\ \A c \in Calls : c # h => pc'[c] = pc[c]
        BY <3>2, <4>1 DEF TypeOK
      <4> QED
        BY <3>2, <4>2 DEF HandlerAt, Results
    <3> QED
      BY <1>7, <3>1, <3>2 DEF Receive
  <2> QED
    BY <1>2, <2>1, <2>2
<1>8. CASE ServerCrash
  <2>1. /\ pc' = pc
        /\ \A c \in Calls : job'[c] = job[c] \/ (job[c] \in {"request", "process", "respond"}
                                                  /\ job'[c] \in {"cut", "lost"})
    BY <1>8 DEF ServerCrash
  <2>2. \A c \in Calls : MessageAt(c)' >= MessageAt(c)
    BY <2>1 DEF MessageAt
  <2> QED
    BY <1>8, <2>1, <2>2, HandlerStays DEF Ahead
<1>9. CASE ProxyCrash
  <2>1. /\ \A c \in Calls : job'[c] = IF job[c] \in OnProxy THEN "lost" ELSE job[c]
        /\ \A c \in Calls : pc'[c] = IF pc[c] \in InFlight THEN "broken" ELSE pc[c]
    BY <1>9 DEF ProxyCrash
  <2>2. \A c \in Calls : MessageAt(c)' >= MessageAt(c)
    BY <2>1 DEF MessageAt, OnProxy
  <2>3. \A c \in Calls : HandlerAt(c)' >= HandlerAt(c)
    BY <2>1 DEF HandlerAt, InFlight
  <2> QED
    BY <1>9, <2>2, <2>3 DEF Ahead
<1> QED
  BY <1>3, <1>4, <1>5, <1>6, <1>7, <1>8, <1>9 DEF Next

(* Nothing is tried again: handlers and messages only move forward, and    *)
(* every step but a crash moves one (httpproxy.go:65-89,                   *)
(* libp2pnode/upload.go:129-219, 222-250).                                 *)
THEOREM CallsMoveForward == Spec => OnlyForward
<1>1. AnswersInv /\ [Next]_vars => [Ahead]_vars
  BY EveryStepAhead
<1> QED
  BY <1>1, AnswersInit, AnswersNext, PTL DEF Spec, OnlyForward
=============================================================================
