---------------------------- MODULE RequestReply ----------------------------
(***************************************************************************)
(* What the proxy promises the HTTP clients of its API, whatever happens   *)
(* between it and the server: a call gets at most one answer, an answer    *)
(* "ok" or "error" of the server only after the server has run the call,   *)
(* and the server runs a call at most once.                                *)
(*                                                                         *)
(* Two things the promise leaves open, because the code does: an error may *)
(* be answered although the server runs the call (before or after), and a  *)
(* call may stay pending for ever.                                         *)
(***************************************************************************)
CONSTANT Calls

VARIABLES
    outcome,   \* what the client of each call has seen
    executed   \* how the server has run the call, "no" before it has

vars == <<outcome, executed>>

Results == {"ok", "error"}

TypeOK ==
    /\ outcome \in [Calls -> {"none", "pending", "broken"} \cup Results]
    /\ executed \in [Calls -> {"no"} \cup Results]

Init ==
    /\ outcome = [c \in Calls |-> "none"]
    /\ executed = [c \in Calls |-> "no"]

Submit(c) ==
    /\ outcome[c] = "none"
    /\ outcome' = [outcome EXCEPT ![c] = "pending"]
    /\ UNCHANGED executed

(* The server runs a call that was submitted, even one whose client has    *)
(* meanwhile been told "error" or has lost its connection.                 *)
Execute(c) ==
    /\ outcome[c] \in {"pending", "error", "broken"}
    /\ executed[c] = "no"
    /\ \E r \in Results : executed' = [executed EXCEPT ![c] = r]
    /\ UNCHANGED outcome

(* The client gets what the server made of its own call.                   *)
Answer(c) ==
    /\ outcome[c] = "pending"
    /\ executed[c] \in Results
    /\ outcome' = [outcome EXCEPT ![c] = executed[c]]
    /\ UNCHANGED executed

(* The proxy answers an error of its own.                                  *)
Refuse(c) ==
    /\ outcome[c] \in {"none", "pending"}
    /\ outcome' = [outcome EXCEPT ![c] = "error"]
    /\ UNCHANGED executed

(* The proxy dies: every connection it holds breaks.                       *)
Break ==
    /\ outcome' = [c \in Calls |->
                     IF outcome[c] = "pending" THEN "broken" ELSE outcome[c]]
    /\ UNCHANGED executed

Next ==
    \/ Break
    \/ \E c \in Calls : Submit(c) \/ Execute(c) \/ Answer(c) \/ Refuse(c)

Spec == Init /\ [][Next]_vars
=============================================================================
