------------------------- MODULE PublisherContract -------------------------
(***************************************************************************)
(* The storage of one Publisher contract (contracts/Publisher.sol) and     *)
(* what its functions make of it.  "balance", which no function reads, is  *)
(* left out with the names and the logo.                                   *)
(***************************************************************************)
EXTENDS Naturals

CONSTANTS
    Accounts,   \* externally owned accounts
    Contents,   \* addresses Content contracts are deployed at
    Period,     \* "30 days"
    UintRange   \* number of values of a uint: arithmetic wraps at it

PublisherStorage ==
    [subscriptionCost : Nat, numberSubscribers : 0..(UintRange - 1),
     subscribers : SUBSET Accounts, expiration : [Accounts -> Nat],
     contentContracts : SUBSET Contents]

NewPublisher(cost) ==
    [subscriptionCost |-> cost, numberSubscribers |-> 0, subscribers |-> {},
     expiration |-> [a \in Accounts |-> 0], contentContracts |-> {}]

UpdateProfile(s, cost) == [s EXCEPT !.subscriptionCost = cost]

(* First and second result of isSubscribed: the flag counts only while the *)
(* expiration lies ahead.                                                  *)
IsSubscribed(s, consumer, now) ==
    s.expiration[consumer] > now /\ consumer \in s.subscribers

(* Faulty variant: the period is added to what the account had.            *)
FaultyAddSubscriberStacks(s, subscriber, now) ==
    [s EXCEPT !.subscribers = @ \cup {subscriber},
              !.numberSubscribers = (@ + 1) % UintRange,
              !.expiration[subscriber] = @ + Period]

(* Renewing counts again.  The amount is not looked at: the require on it  *)
(* is commented out.                                                       *)
AddSubscriber(s, subscriber, now) ==
    [s EXCEPT !.subscribers = @ \cup {subscriber},
              !.numberSubscribers = (@ + 1) % UintRange,
              !.expiration[subscriber] = now + Period]

(* Faulty variant: the expiration is left as it was.                       *)
FaultyRemoveKeepsExpiration(s, subscriber, now) ==
    [s EXCEPT !.subscribers = @ \ {subscriber},
              !.numberSubscribers = (@ + UintRange - 1) % UintRange]

(* Faulty variant: the count is a signed number.                           *)
FaultyRemoveSigned(s, subscriber, now) ==
    [s EXCEPT !.subscribers = @ \ {subscriber},
              !.numberSubscribers = @ - 1,
              !.expiration[subscriber] = now]

(* Whether the account had subscribed is not looked at: the count wraps.   *)
RemoveSubscriber(s, subscriber, now) ==
    [s EXCEPT !.subscribers = @ \ {subscriber},
              !.numberSubscribers = (@ + UintRange - 1) % UintRange,
              !.expiration[subscriber] = now]

(* Faulty variant: the content is not put on the publisher's list.         *)
FaultyCreateContentForgets(s, k) == s

CreateContent(s, k) == [s EXCEPT !.contentContracts = @ \cup {k}]
=============================================================================
