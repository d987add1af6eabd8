------------------------------- MODULE Relay -------------------------------
(***************************************************************************)
(* The request/response relay between the HTTP proxy and the server        *)
(* (backend/pkg/httpproxy, backend/pkg/libp2pnode).                        *)
(*                                                                         *)
(* Every HTTP call is served by a goroutine of its own (pc).  It sends its *)
(* request over one libp2p stream, waits for the server to close its side, *)
(* only then registers the message id in the protocol's requests map, and  *)
(* blocks on the protocol's unbuffered response channel until a response   *)
(* with its id comes out, throwing away the others it takes on the way.    *)
(* The server answers over a second stream, which a second goroutine of    *)
(* the proxy reads, matches with the map and puts on the channel (job).    *)
(*                                                                         *)
(* The upload, download and json protocols are three copies of one code,   *)
(* and each definition is mapped to one of the copies it stands for.       *)
(***************************************************************************)
EXTENDS Naturals

CONSTANTS
    Calls,      \* the HTTP calls clients make
    Endpoint,   \* the route each call goes to
    NoCall,     \* "no response yet"
    RacyUlid    \* can overlapping calls of GetUlid read each other's entropy?

Endpoints == {"ipfs", "upload", "download", "json"}

ASSUME EndpointAssumption == Endpoint \in [Calls -> Endpoints]
ASSUME NoCallAssumption == NoCall \notin Calls
ASSUME RacyUlidAssumption == RacyUlid \in BOOLEAN

Protocols == {"upload", "download", "json"}

(* POST /api/ipfs and POST /api/upload share the upload protocol.          *)
Protocol(c) == IF Endpoint[c] \in {"ipfs", "upload"} THEN "upload" ELSE Endpoint[c]

VARIABLES
    pc,         \* where the handler of each call stands
    id,         \* message id of each call, 0 before it has one
    got,        \* the response each handler answered with
    job,        \* how far the request, then the response, of each call is
    result,     \* what the server made of each call, "no" before it ran it
    requests,   \* per protocol, the ids registered for the response handler
    gone,       \* calls of a proxy process that has died
    entropy,    \* the shared state of the ulid generator
    reachable   \* does the server this proxy found at its start still run?

vars == <<pc, id, got, job, result, requests, gone, entropy, reachable>>

Results == {"ok", "error"}
InFlight == {"ulid", "send", "close", "store", "recv"}

OnServer == {"request", "process", "respond"}
OnProxy == {"reply", "lookup", "deliver"}
JobEnd == {"cut", "lost", "dropped", "done"}

Init ==
    /\ pc = [c \in Calls |-> "idle"]
    /\ id = [c \in Calls |-> 0]
    /\ got = [c \in Calls |-> NoCall]
    /\ job = [c \in Calls |-> "none"]
    /\ result = [c \in Calls |-> "no"]
    /\ requests = [p \in Protocols |-> {}]
    /\ gone = {}
    /\ entropy = 0
    /\ reachable = TRUE

-----------------------------------------------------------------------------
(* Faulty variants of the actions below, each a slip the code could have:  *)
(* the runs' properties must tell them from the real ones.                 *)

(* The handler answers with the first response it takes.                   *)
FaultyReceiveAny(h, c) ==
    /\ pc[h] = "recv"
    /\ job[c] = "deliver"
    /\ Protocol(h) = Protocol(c)
    /\ job' = [job EXCEPT ![c] = "done"]
    /\ pc' = [pc EXCEPT ![h] = result[c]]
    /\ got' = [got EXCEPT ![h] = c]
    /\ UNCHANGED <<id, result, requests, gone, entropy, reachable>>

(* The response goes to the channel whether or not it was asked for.       *)
FaultyLookupTrusts(c) ==
    /\ job[c] = "lookup"
    /\ requests' = [requests EXCEPT ![Protocol(c)] = @ \ {id[c]}]
    /\ job' = [job EXCEPT ![c] = "deliver"]
    /\ UNCHANGED <<pc, id, got, result, gone, entropy, reachable>>

(* The entry is found and not deleted.                                     *)
FaultyLookupKeeps(c) ==
    /\ job[c] = "lookup"
    /\ job' = [job EXCEPT ![c] =
                 IF id[c] \in requests[Protocol(c)] THEN "deliver" ELSE "dropped"]
    /\ UNCHANGED <<pc, id, got, result, requests, gone, entropy, reachable>>

(* A copy of the code that stores in another protocol's map.               *)
FaultyStoreElsewhere(c) ==
    /\ pc[c] = "store"
    /\ pc' = [pc EXCEPT ![c] = "recv"]
    /\ requests' = [requests EXCEPT !["download"] = @ \cup {id[c]}]
    /\ UNCHANGED <<id, got, job, result, gone, entropy, reachable>>

(* FullClose waits for an end of file that a reset stream never gives.     *)
FaultyCloseWaits(c) ==
    /\ pc[c] = "close"
    /\ job[c] # "cut"
    /\ pc' = [pc EXCEPT ![c] = "error"]
    /\ UNCHANGED <<id, got, job, result, requests, gone, entropy, reachable>>

(* The response leaves with its code unset.                                *)
FaultyProcessNoCode(c) ==
    /\ job[c] = "process"
    /\ job' = [job EXCEPT ![c] = "respond"]
    /\ UNCHANGED <<pc, id, got, result, requests, gone, entropy, reachable>>

-----------------------------------------------------------------------------
(* The handler of an HTTP call.                                            *)

(* A form without a file, a body that does not bind, an empty path         *)
(* parameter, the unfinished "upload2" type: answered at once.             *)
Reject(c) ==
    /\ pc[c] = "idle"
    /\ pc' = [pc EXCEPT ![c] = "error"]
    /\ UNCHANGED <<id, got, job, result, requests, gone, entropy, reachable>>

(* The handler enters GetUlid and increments the shared entropy...         *)
EnterUlid(c) ==
    /\ pc[c] = "idle"
    /\ pc' = [pc EXCEPT ![c] = "ulid"]
    /\ entropy' = entropy + 1
    /\ id' = [id EXCEPT ![c] = entropy + 1]
    /\ UNCHANGED <<got, job, result, requests, gone, reachable>>

(* ...and copies it into its id.  Nothing locks the two steps together: in *)
(* the same millisecond it may copy what a later call has made of it.      *)
LeaveUlid(c) ==
    /\ pc[c] = "ulid"
    /\ pc' = [pc EXCEPT ![c] = "send"]
    /\ \/ UNCHANGED id
       \/ RacyUlid /\ id' = [id EXCEPT ![c] = entropy]
    /\ UNCHANGED <<got, job, result, requests, gone, entropy, reachable>>

(* The stream opens and takes the message.                                 *)
SendRequest(c) ==
    /\ pc[c] = "send"
    /\ reachable
    /\ pc' = [pc EXCEPT ![c] = "close"]
    /\ job' = [job EXCEPT ![c] = "request"]
    /\ UNCHANGED <<id, got, result, requests, gone, entropy, reachable>>

(* Signing, opening the stream or writing fails: nothing reaches the server. *)
SendFails(c) ==
    /\ pc[c] = "send"
    /\ pc' = [pc EXCEPT ![c] = "error"]
    /\ UNCHANGED <<id, got, job, result, requests, gone, entropy, reachable>>

(* FullClose has seen the server close its side of the stream.             *)
CloseDone(c) ==
    /\ pc[c] = "close"
    /\ job[c] \notin {"request", "cut"}
    /\ pc' = [pc EXCEPT ![c] = "store"]
    /\ UNCHANGED <<id, got, job, result, requests, gone, entropy, reachable>>

(* FullClose gives up after its timeout, or the stream was reset.  The     *)
(* client is told 500 whether or not the server has the request.           *)
CloseFails(c) ==
    /\ pc[c] = "close"
    /\ pc' = [pc EXCEPT ![c] = "error"]
    /\ UNCHANGED <<id, got, job, result, requests, gone, entropy, reachable>>

Store(c) ==
    /\ pc[c] = "store"
    /\ pc' = [pc EXCEPT ![c] = "recv"]
    /\ requests' = [requests EXCEPT ![Protocol(c)] = @ \cup {id[c]}]
    /\ UNCHANGED <<id, got, job, result, gone, entropy, reachable>>

(* Handler h takes the response of call c out of the unbuffered channel:   *)
(* its own ends the wait, any other is thrown away and h waits again.      *)
Receive(h, c) ==
    /\ pc[h] = "recv"
    /\ job[c] = "deliver"
    /\ Protocol(h) = Protocol(c)
    /\ job' = [job EXCEPT ![c] = "done"]
    /\ \/ /\ id[h] = id[c]
          /\ pc' = [pc EXCEPT ![h] = result[c]]
          /\ got' = [got EXCEPT ![h] = c]
       \/ /\ id[h] # id[c]
          /\ UNCHANGED <<pc, got>>
    /\ UNCHANGED <<id, result, requests, gone, entropy, reachable>>

-----------------------------------------------------------------------------
(* The server.                                                             *)

(* The server reads the request to its end and closes the stream, before   *)
(* it does anything about it.                                              *)
ReadRequest(c) ==
    /\ job[c] = "request"
    /\ job' = [job EXCEPT ![c] = "process"]
    /\ UNCHANGED <<pc, id, got, result, requests, gone, entropy, reachable>>

(* The stream is reset before the server has read the request.             *)
RequestCut(c) ==
    /\ job[c] = "request"
    /\ job' = [job EXCEPT ![c] = "cut"]
    /\ UNCHANGED <<pc, id, got, result, requests, gone, entropy, reachable>>

(* A request the server cannot authenticate gets no response at all.       *)
AuthFails(c) ==
    /\ job[c] = "process"
    /\ job' = [job EXCEPT ![c] = "lost"]
    /\ UNCHANGED <<pc, id, got, result, requests, gone, entropy, reachable>>

Process(c) ==
    /\ job[c] = "process"
    /\ job' = [job EXCEPT ![c] = "respond"]
    /\ \E r \in Results : result' = [result EXCEPT ![c] = r]
    /\ UNCHANGED <<pc, id, got, requests, gone, entropy, reachable>>

(* The response goes to the peer that asked; a proxy that has died since   *)
(* then took that peer's identity with it.                                 *)
Respond(c) ==
    /\ job[c] = "respond"
    /\ c \notin gone
    /\ job' = [job EXCEPT ![c] = "reply"]
    /\ UNCHANGED <<pc, id, got, result, requests, gone, entropy, reachable>>

(* Signing or sending the response fails; nobody tries again.              *)
RespondFails(c) ==
    /\ job[c] = "respond"
    /\ job' = [job EXCEPT ![c] = "lost"]
    /\ UNCHANGED <<pc, id, got, result, requests, gone, entropy, reachable>>

-----------------------------------------------------------------------------
(* The response handler of the proxy.                                      *)

ReadReply(c) ==
    /\ job[c] = "reply"
    /\ job' = [job EXCEPT ![c] = "lookup"]
    /\ UNCHANGED <<pc, id, got, result, requests, gone, entropy, reachable>>

(* The stream breaks, or the response does not authenticate.               *)
ReplyLost(c) ==
    /\ job[c] = "reply"
    /\ job' = [job EXCEPT ![c] = "lost"]
    /\ UNCHANGED <<pc, id, got, result, requests, gone, entropy, reachable>>

(* The response is matched with the map: found, its entry goes and it      *)
(* blocks on the channel; not found, it is dropped.                        *)
Lookup(c) ==
    /\ job[c] = "lookup"
    /\ \/ /\ id[c] \in requests[Protocol(c)]
          /\ requests' = [requests EXCEPT ![Protocol(c)] = @ \ {id[c]}]
          /\ job' = [job EXCEPT ![c] = "deliver"]
       \/ /\ id[c] \notin requests[Protocol(c)]
          /\ job' = [job EXCEPT ![c] = "dropped"]
          /\ UNCHANGED requests
    /\ UNCHANGED <<pc, id, got, result, gone, entropy, reachable>>

-----------------------------------------------------------------------------
(* Crashes.  Neither process keeps anything on disk, and both draw a new   *)
(* libp2p identity when they start.                                        *)

(* The server's address is fixed for the life of the proxy, so a server    *)
(* that comes back is not found again.                                     *)
ServerCrash ==
    /\ reachable' = FALSE
    /\ job' = [c \in Calls |->
                 CASE job[c] = "request" -> "cut"
                   [] job[c] \in {"process", "respond"} -> "lost"
                   [] OTHER -> job[c]]
    /\ UNCHANGED <<pc, id, got, result, requests, gone, entropy>>

(* The proxy is killed - by an operator, or by the Go runtime when it sees *)
(* two goroutines in one requests map - and started again.  It takes the   *)
(* first peer the rendezvous names, alive or not.                          *)
ProxyCrash ==
    /\ pc' = [c \in Calls |-> IF pc[c] \in InFlight THEN "broken" ELSE pc[c]]
    /\ job' = [c \in Calls |-> IF job[c] \in OnProxy THEN "lost" ELSE job[c]]
    /\ requests' = [p \in Protocols |-> {}]
    /\ gone' = {c \in Calls : pc[c] # "idle"}
    /\ reachable' \in BOOLEAN
    /\ UNCHANGED <<id, got, result, entropy>>

-----------------------------------------------------------------------------
Handle(c) ==
    \/ LeaveUlid(c) \/ SendRequest(c) \/ SendFails(c)
    \/ CloseDone(c) \/ CloseFails(c) \/ Store(c)

Carry(c) ==
    \/ ReadRequest(c) \/ RequestCut(c)
    \/ Respond(c) \/ RespondFails(c)
    \/ ReadReply(c) \/ ReplyLost(c) \/ Lookup(c)

Next ==
    \/ \E c \in Calls : Reject(c) \/ EnterUlid(c) \/ Handle(c)
    \/ \E c \in Calls : Carry(c) \/ AuthFails(c) \/ Process(c)
    \/ \E h, c \in Calls : Receive(h, c)
    \/ ServerCrash
    \/ ProxyCrash

Spec == Init /\ [][Next]_vars

(* The Go scheduler runs every runnable goroutine, and a libp2p stream     *)
(* either carries its message or fails.  Nothing is assumed of clients, of *)
(* crashes, or of the Textile calls a request makes (Process): they run    *)
(* under a context without a deadline.                                     *)
Fairness ==
    \A c \in Calls :
        /\ WF_vars(Handle(c))
        /\ WF_vars(Carry(c))
        /\ WF_vars(\E h \in Calls : Receive(h, c))

FairSpec == Spec /\ Fairness

-----------------------------------------------------------------------------
TypeOK ==
    /\ pc \in [Calls -> {"idle", "broken"} \cup InFlight \cup Results]
    /\ id \in [Calls -> Nat]
    /\ got \in [Calls -> Calls \cup {NoCall}]
    /\ job \in [Calls -> {"none"} \cup OnServer \cup OnProxy \cup JobEnd]
    /\ result \in [Calls -> {"no"} \cup Results]
    /\ requests \in [Protocols -> SUBSET Nat]
    /\ gone \subseteq Calls
    /\ entropy \in Nat
    /\ reachable \in BOOLEAN

(* Whatever the handlers throw away on the shared channel, none of them    *)
(* answers its client with the response to another client's call           *)
(* (httpproxy.go:87-89, 141-144, 183-185, 242-244).                        *)
AnswerIsOwn == \A c \in Calls : got[c] # NoCall => got[c] = c

(* A response goroutine that blocks on the unbuffered channel              *)
(* (upload.go:219) blocks while the handler it is for still waits there:   *)
(* it always has somebody to take the response, and does not leak.         *)
DeliverHasReceiver == \A c \in Calls : job[c] = "deliver" => pc[c] = "recv"

(* An entry of a requests map belongs to a handler that still waits and    *)
(* whose response has neither been matched nor taken: a call that failed   *)
(* or was answered leaves nothing behind in the map.                       *)
EntryHasWaiter ==
    \A p \in Protocols : \A x \in requests[p] :
        \E c \in Calls :
            /\ Protocol(c) = p
            /\ id[c] = x
            /\ pc[c] = "recv"
            /\ job[c] \notin {"none", "request", "cut", "deliver", "done"}

(* A handler is stranded when it waits for a response that is gone.        *)
Stranded(c) == pc[c] = "recv" /\ job[c] \in {"dropped", "lost", "done"}

(* There is no timeout on a handler's wait: once its response is gone, no  *)
(* step but the death of the proxy ends it.                                *)
StrandedForGood ==
    [][\A c \in Calls : Stranded(c) => Stranded(c)' \/ pc'[c] = "broken"]_vars

(* What a client sees of a call.                                           *)
Outcome(c) ==
    CASE pc[c] = "idle" -> "none"
      [] pc[c] \in InFlight -> "pending"
      [] OTHER -> pc[c]

RR == INSTANCE RequestReply
        WITH outcome <- [c \in Calls |-> Outcome(c)], executed <- result

(* The relay keeps the proxy's promise to its clients: at most one answer, *)
(* the server's own, and only after the server ran the call.               *)
KeepsPromise == RR!Spec

(* Every call the proxy accepts settles: it is answered, or broken, or     *)
(* blocked for good on a response that is gone or on a Textile call that   *)
(* does not return.  No handler is stuck in the sending half.              *)
Settles ==
    \A c \in Calls :
        pc[c] \in InFlight ~>
            \/ pc[c] \in Results \cup {"broken"}
            \/ pc[c] = "recv" /\ job[c] \in {"process", "dropped", "lost", "done"}

(* A response matched with its request always leaves the channel: the      *)
(* response goroutine ends.                                                *)
DeliveryEnds == \A c \in Calls : job[c] = "deliver" ~> job[c] # "deliver"

(* Unless a stream or a process fails, the response of a call that has     *)
(* registered in time reaches its client, or another handler of the same   *)
(* protocol waits beside it: only a second waiter can rob a call.          *)
LoneCallAnswered ==
    \A c \in Calls :
        pc[c] = "recv" /\ job[c] \in {"respond"} \cup OnProxy ~>
            \/ pc[c] \in Results \cup {"broken"}
            \/ job[c] = "lost"
            \/ \E d \in Calls \ {c} : Protocol(d) = Protocol(c) /\ pc[d] = "recv"

-----------------------------------------------------------------------------
(* What the comments of the code say, and the code does not do.            *)

(* "messageId: unique for requests, copied from request for responses"     *)
(* (node.go:126).                                                          *)
RequestIdsUnique ==
    \A c, d \in Calls :
        (c # d /\ pc[c] = "recv" /\ pc[d] = "recv") => id[c] # id[d]

(* "channel for outputting response" (upload.go:21): a response put on the *)
(* channel is output to the call that waits for it.                        *)
ResponseReachesCaller ==
    \A c \in Calls :
        job[c] = "deliver" ~> pc[c] \in Results \cup {"broken"}
=============================================================================
