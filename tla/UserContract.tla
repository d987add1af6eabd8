---------------------------- MODULE UserContract ----------------------------
(***************************************************************************)
(* The storage of one User contract (contracts/User.sol) and what its      *)
(* functions make of it.  Its arrays are kept as sets: no property depends *)
(* on the order of the pushes or on their repetitions.  subscribedTo and   *)
(* numberOfSubscribed, which no function reads, are left out, and with     *)
(* them unsubscribe, which clears a flag of the former.                    *)
(***************************************************************************)
CONSTANTS
    Publishers,  \* addresses Publisher contracts are deployed at
    Contents     \* addresses Content contracts are deployed at

UserStorage == [purchased : SUBSET Contents, subscribed : SUBSET Publishers]

NewUser == [purchased |-> {}, subscribed |-> {}]

Purchase(s, k) == [s EXCEPT !.purchased = @ \cup {k}]

Subscribe(s, p) == [s EXCEPT !.subscribed = @ \cup {p}]
=============================================================================
