------------------------------- MODULE Access -------------------------------
(***************************************************************************)
(* What the paywall promises of access, whatever contracts, ether and      *)
(* profiles it takes: a content is offered once, by one seller; what was   *)
(* bought is never taken back; a subscription gives access to everything   *)
(* of one publisher for a period from when it was made, renewed or not,    *)
(* unless it is cancelled.  A transaction touches one account's access.    *)
(***************************************************************************)
EXTENDS Naturals

CONSTANTS
    Accounts,    \* who may see contents
    Publishers,  \* who offers contents
    Contents,    \* what there is to see
    Nobody,      \* the seller of what is not offered
    Period,      \* how long a subscription lasts
    EndOfTime    \* bound on the clock

VARIABLES
    now,      \* the time
    seller,   \* the publisher that offers each content
    free,     \* contents that cost nothing
    bought,   \* contents each account has bought, or made
    until     \* per publisher, when each account's subscription ends

vars == <<now, seller, free, bought, until>>

Init ==
    /\ now = 0
    /\ seller = [k \in Contents |-> Nobody]
    /\ free = {}
    /\ bought = [a \in Accounts |-> {}]
    /\ until = [p \in Publishers |-> [a \in Accounts |-> 0]]

Gets(a, k) == bought' = [bought EXCEPT ![a] = @ \cup {k}]

Offer(a, k, p) ==
    /\ seller[k] = Nobody
    /\ seller' = [seller EXCEPT ![k] = p]
    /\ free' \in {free, free \cup {k}}
    /\ Gets(a, k)
    /\ UNCHANGED <<now, until>>

Buy(a, k) ==
    /\ seller[k] # Nobody
    /\ Gets(a, k)
    /\ UNCHANGED <<now, seller, free, until>>

Subscribe(a, p) ==
    /\ until' = [until EXCEPT ![p][a] = now + Period]
    /\ UNCHANGED <<now, seller, free, bought>>

Cancel(a, p) ==
    /\ until' = [until EXCEPT ![p][a] = now]
    /\ UNCHANGED <<now, seller, free, bought>>

Tick ==
    /\ now < EndOfTime
    /\ now' = now + 1
    /\ UNCHANGED <<seller, free, bought, until>>

Next ==
    \/ \E a \in Accounts, k \in Contents : Buy(a, k)
    \/ \E a \in Accounts, k \in Contents, p \in Publishers : Offer(a, k, p)
    \/ \E a \in Accounts, p \in Publishers : Subscribe(a, p) \/ Cancel(a, p)
    \/ Tick

Spec == Init /\ [][Next]_vars

MayView(a, k) == k \in free \/ k \in bought[a] \/ until[seller[k]][a] > now
=============================================================================
