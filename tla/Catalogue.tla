----------------------------- MODULE Catalogue -----------------------------
(***************************************************************************)
(* What the content store promises, whatever remote calls it takes: an     *)
(* upload enters the catalogue whole and at once and never leaves it, an   *)
(* accepted upload is in the catalogue, a download is given an upload that *)
(* is in it, and a query is told of such uploads only.                     *)
(***************************************************************************)
CONSTANTS
    Uploads,    \* requests that bring a file
    Downloads,  \* requests that ask for one
    Queries,    \* requests that ask what there is
    NoUpload    \* "nothing served"

VARIABLES
    listed,   \* the uploads in the catalogue
    answer,   \* what each request was answered
    served,   \* the upload each download was given
    told      \* the uploads each query was told of

vars == <<listed, answer, served, told>>

Requests == Uploads \cup Downloads \cup Queries

Init ==
    /\ listed = {}
    /\ answer = [r \in Requests |-> "none"]
    /\ served = [d \in Downloads |-> NoUpload]
    /\ told = [q \in Queries |-> {}]

(* Refusing an upload does not promise that it is not listed.              *)
List(u) ==
    /\ answer[u] = "none"
    /\ listed' = listed \cup {u}
    /\ \E a \in {"ok", "error"} : answer' = [answer EXCEPT ![u] = a]
    /\ UNCHANGED <<served, told>>

Serve(d, u) ==
    /\ answer[d] = "none"
    /\ u \in listed
    /\ answer' = [answer EXCEPT ![d] = "ok"]
    /\ served' = [served EXCEPT ![d] = u]
    /\ UNCHANGED <<listed, told>>

Tell(q, S) ==
    /\ answer[q] = "none"
    /\ S \subseteq listed
    /\ answer' = [answer EXCEPT ![q] = "ok"]
    /\ told' = [told EXCEPT ![q] = S]
    /\ UNCHANGED <<listed, served>>

Refuse(r) ==
    /\ answer[r] = "none"
    /\ answer' = [answer EXCEPT ![r] = "error"]
    /\ UNCHANGED <<listed, served, told>>

Next ==
    \/ \E u \in Uploads : List(u)
    \/ \E d \in Downloads, u \in Uploads : Serve(d, u)
    \/ \E q \in Queries, S \in SUBSET Uploads : Tell(q, S)
    \/ \E r \in Requests : Refuse(r)

Spec == Init /\ [][Next]_vars
=============================================================================
