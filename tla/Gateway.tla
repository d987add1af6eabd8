------------------------------ MODULE Gateway ------------------------------
(***************************************************************************)
(* The paywall: the Gateway contract (contracts/Gateway.sol) over the      *)
(* Publisher, Content and User contracts it deploys and calls, and the     *)
(* ether they hold.                                                        *)
(*                                                                         *)
(* A transaction is one action.  A transaction that reverts changes        *)
(* nothing, so the conditions it would revert on are guards: a failed      *)
(* require, a call to a contract that does not exist, a payment beyond the *)
(* sender's balance.  Gas is free.                                         *)
(***************************************************************************)
EXTENDS Naturals, FiniteSets

CONSTANTS
    Accounts,     \* externally owned accounts
    Publishers,   \* addresses Publisher contracts are deployed at
    Contents,     \* addresses Content contracts are deployed at
    Users,        \* addresses User contracts are deployed at
    GatewayAddr,  \* the Gateway's own address
    Null,         \* the zero address, and the storage of no contract
    Period,       \* "30 days"
    UintRange,    \* number of values of a uint: arithmetic wraps at it
    Endowment,    \* wei of every account at the start
    Prices,       \* prices of contents, and what is sent
    Costs,        \* subscription costs
    EndOfTime     \* bound on the clock

VARIABLES
    wei,                \* ether held at each address
    now,                \* block time
    publisherContract,  \* the account's publisher contract
    userContract,       \* the account's user contract
    contentContracts,   \* every content contract the Gateway has deployed
    publisher,          \* storage at each publisher address
    content,            \* storage at each content address
    user                \* storage at each user address

vars == <<wei, now, publisherContract, userContract, contentContracts,
          publisher, content, user>>

P == INSTANCE PublisherContract
C == INSTANCE ContentContract
U == INSTANCE UserContract

Addresses == Accounts \cup Publishers \cup Contents \cup {GatewayAddr}

ASSUME AddressAssumption ==
    /\ Publishers \cap Contents = {}
    /\ Accounts \cap (Publishers \cup Contents) = {}
    /\ GatewayAddr \notin Accounts \cup Publishers \cup Contents
    /\ Null \notin Publishers \cup Users
    /\ Null \notin P!PublisherStorage \cup C!ContentStorage \cup U!UserStorage
ASSUME NumberAssumption ==
    /\ Period \in Nat \ {0}
    /\ UintRange \in Nat \ {0, 1}
    /\ Endowment \in Nat
    /\ EndOfTime \in Nat
    /\ Prices \cup Costs \subseteq Nat

NoStorage == Null
HasCode(storage) == storage # NoStorage

Init ==
    /\ wei = [x \in Addresses |-> IF x \in Accounts THEN Endowment ELSE 0]
    /\ now = 0
    /\ publisherContract = [a \in Accounts |-> Null]
    /\ userContract = [a \in Accounts |-> Null]
    /\ contentContracts = {}
    /\ publisher = [p \in Publishers |-> NoStorage]
    /\ content = [k \in Contents |-> NoStorage]
    /\ user = [u \in Users |-> NoStorage]

(* Who takes ether: an account, a publisher, a content.  The Gateway and   *)
(* the users have no receive function and are paid with a call only.       *)
Payees == Accounts \cup {p \in Publishers : HasCode(publisher[p])}
                   \cup {k \in Contents : HasCode(content[k])}

Transfer(balances, from, to, value) ==
    LET rest == [balances EXCEPT ![from] = @ - value]
    IN  [rest EXCEPT ![to] = @ + value]

(* The payment a transaction carries.                                      *)
Pay(from, to, value) ==
    /\ value <= wei[from]
    /\ wei' = Transfer(wei, from, to, value)

(* Faulty variant: the payment is made out of the Gateway's own balance.   *)
FaultyPayThenEmpty(a, x, value, p, to) ==
    /\ value <= wei[a]
    /\ LET paid == Transfer(wei, a, x, value)
       IN  wei' = Transfer(paid, GatewayAddr, to, paid[GatewayAddr])

(* The same, and all that publisher p has then goes to "to".               *)
PayThenEmpty(a, x, value, p, to) ==
    /\ value <= wei[a]
    /\ LET paid == Transfer(wei, a, x, value)
       IN  wei' = Transfer(paid, p, to, paid[p])

-----------------------------------------------------------------------------
(* Users.                                                                  *)

(* A new contract replaces the one the account may already have.           *)
NewUserContract(a, storage) ==
    \E u \in Users :
        /\ user[u] = NoStorage
        /\ user' = [user EXCEPT ![u] = storage]
        /\ userContract' = [userContract EXCEPT ![a] = u]

CreateNewUser(a) ==
    /\ NewUserContract(a, U!NewUser)
    /\ UNCHANGED <<wei, now, publisherContract, contentContracts, publisher, content>>

(* Who is paid, how much, and the cost that is compared with the price are *)
(* separate arguments; the purchase is recorded without the payment.       *)
CreateNewUserAndPurchase(a, k, contentCost, to, value) ==
    /\ to \in Payees
    /\ Pay(a, to, value)
    /\ NewUserContract(a, U!Purchase(U!NewUser, k))
    /\ HasCode(content[k])
    /\ C!PurchaseContentOK(content[k], contentCost)
    /\ content' = [content EXCEPT ![k] = C!PurchaseContent(@, a, 0)]
    /\ UNCHANGED <<now, publisherContract, contentContracts, publisher>>

CreateNewUserAndSubscribe(a, p, value) ==
    /\ HasCode(publisher[p])
    /\ Pay(a, p, value)
    /\ NewUserContract(a, U!Subscribe(U!NewUser, p))
    /\ publisher' = [publisher EXCEPT ![p] = P!AddSubscriber(@, a, now)]
    /\ UNCHANGED <<now, publisherContract, contentContracts, content>>

(* What is sent with the purchase stays with the Gateway.                  *)
PurchaseContent(a, k, contentCost, value) ==
    /\ HasCode(content[k])
    /\ userContract[a] # Null
    /\ C!PurchaseContentOK(content[k], contentCost)
    /\ Pay(a, GatewayAddr, value)
    /\ content' = [content EXCEPT ![k] = C!PurchaseContent(@, a, 0)]
    /\ user' = [user EXCEPT ![userContract[a]] = U!Purchase(@, k)]
    /\ UNCHANGED <<now, publisherContract, userContract, contentContracts, publisher>>

AddSubscriber(a, p) ==
    /\ HasCode(publisher[p])
    /\ userContract[a] # Null
    /\ publisher' = [publisher EXCEPT ![p] = P!AddSubscriber(@, a, now)]
    /\ user' = [user EXCEPT ![userContract[a]] = U!Subscribe(@, p)]
    /\ UNCHANGED <<wei, now, publisherContract, userContract, contentContracts, content>>

-----------------------------------------------------------------------------
(* Publishers.                                                             *)

(* What is sent stays with the Gateway.                                    *)
CreateNewPublisher(a, cost, value) ==
    \E p \in Publishers :
        /\ publisher[p] = NoStorage
        /\ Pay(a, GatewayAddr, value)
        /\ publisher' = [publisher EXCEPT ![p] = P!NewPublisher(cost)]
        /\ publisherContract' = [publisherContract EXCEPT ![a] = p]
        /\ UNCHANGED <<now, userContract, contentContracts, content, user>>

UpdatePublisherProfile(a, cost) ==
    /\ publisherContract[a] # Null
    /\ publisher' = [publisher EXCEPT ![publisherContract[a]] = P!UpdateProfile(@, cost)]
    /\ UNCHANGED <<wei, now, publisherContract, userContract, contentContracts, content, user>>

(* Anyone removes anyone; the publisher is named by its account here.  All *)
(* that is done to the subscriber's profile is to clear a flag.            *)
RemoveSubscriber(b, s) ==
    /\ publisherContract[b] # Null
    /\ userContract[s] # Null
    /\ publisher' = [publisher EXCEPT ![publisherContract[b]] =
                       P!RemoveSubscriber(@, s, now)]
    /\ UNCHANGED <<wei, now, publisherContract, userContract, contentContracts, content, user>>

(* What is sent stays with the Gateway, what the sender's publisher        *)
(* contract has goes to whom it names.                                     *)
DoTransferFunds(a, to, value) ==
    /\ publisherContract[a] # Null
    /\ to \in Payees
    /\ PayThenEmpty(a, GatewayAddr, value, publisherContract[a], to)
    /\ UNCHANGED <<now, publisherContract, userContract, contentContracts,
                   publisher, content, user>>

(* A publisher makes a content; the Gateway and the publisher itself take  *)
(* this call.                                                              *)
NewContentContract(p, k, creator, price) ==
    /\ HasCode(publisher[p])
    /\ content[k] = NoStorage
    /\ content' = [content EXCEPT ![k] = C!NewContent(p, creator, price)]
    /\ publisher' = [publisher EXCEPT ![p] = P!CreateContent(@, k)]

(* The publisher is an argument, and need not be the sender's.             *)
CreateContent(a, p, price) ==
    \E k \in Contents :
        /\ NewContentContract(p, k, a, price)
        /\ contentContracts' = contentContracts \cup {k}
        /\ UNCHANGED <<wei, now, publisherContract, userContract, user>>

-----------------------------------------------------------------------------
(* The public functions of the contracts themselves, which anyone may      *)
(* call, and plain payments.                                               *)

SendEther(a, to, value) ==
    /\ to \in Payees
    /\ Pay(a, to, value)
    /\ UNCHANGED <<now, publisherContract, userContract, contentContracts,
                   publisher, content, user>>

UpdateProfileDirectly(p, cost) ==
    /\ HasCode(publisher[p])
    /\ publisher' = [publisher EXCEPT ![p] = P!UpdateProfile(@, cost)]
    /\ UNCHANGED <<wei, now, publisherContract, userContract, contentContracts, content, user>>

AddSubscriberDirectly(a, p, subscriber, value) ==
    /\ HasCode(publisher[p])
    /\ Pay(a, p, value)
    /\ publisher' = [publisher EXCEPT ![p] = P!AddSubscriber(@, subscriber, now)]
    /\ UNCHANGED <<now, publisherContract, userContract, contentContracts, content, user>>

RemoveSubscriberDirectly(p, subscriber) ==
    /\ HasCode(publisher[p])
    /\ publisher' = [publisher EXCEPT ![p] = P!RemoveSubscriber(@, subscriber, now)]
    /\ UNCHANGED <<wei, now, publisherContract, userContract, contentContracts, content, user>>

(* Whose the publisher is is not looked at.                                *)
TransferFunds(a, p, to, value) ==
    /\ HasCode(publisher[p])
    /\ to \in Payees
    /\ PayThenEmpty(a, p, value, p, to)
    /\ UNCHANGED <<now, publisherContract, userContract, contentContracts,
                   publisher, content, user>>

(* The Gateway does not hear of it.                                        *)
CreateContentDirectly(a, p, creator, price, value) ==
    \E k \in Contents :
        /\ NewContentContract(p, k, creator, price)
        /\ Pay(a, p, value)
        /\ UNCHANGED <<now, publisherContract, userContract, contentContracts, user>>

PurchaseDirectly(a, k, consumer, amount, value) ==
    /\ HasCode(content[k])
    /\ C!PurchaseContentOK(content[k], amount)
    /\ Pay(a, k, value)
    /\ content' = [content EXCEPT ![k] = C!PurchaseContent(@, consumer, value)]
    /\ UNCHANGED <<now, publisherContract, userContract, contentContracts,
                   publisher, user>>

WithdrawEarnings(k, amount) ==
    /\ HasCode(content[k])
    /\ C!WithdrawEarningsOK(content[k], amount)
    /\ Pay(k, content[k].ownerId, amount)
    /\ content' = [content EXCEPT ![k] = C!WithdrawEarnings(@, amount)]
    /\ UNCHANGED <<now, publisherContract, userContract, contentContracts,
                   publisher, user>>

(* User.purchase and User.subscribe; unsubscribe clears the flag only.     *)
ListDirectly(u, storage) ==
    /\ HasCode(user[u])
    /\ user' = [user EXCEPT ![u] = storage]
    /\ UNCHANGED <<wei, now, publisherContract, userContract, contentContracts,
                   publisher, content>>

Tick ==
    /\ now < EndOfTime
    /\ now' = now + 1
    /\ UNCHANGED <<wei, publisherContract, userContract, contentContracts,
                   publisher, content, user>>

-----------------------------------------------------------------------------
(* The transactions by what they change first.                             *)

UserCall(a) ==
    \/ CreateNewUser(a)
    \/ \E v, w \in Prices :
          \/ \E k \in Contents :
                \/ PurchaseContent(a, k, v, w)
                \/ \E x \in Addresses : CreateNewUserAndPurchase(a, k, v, x, w)
                \/ \E b \in Accounts : PurchaseDirectly(a, k, b, v, w)
    \/ \E p \in Publishers :
          \/ AddSubscriber(a, p)
          \/ \E v \in Prices :
                \/ CreateNewUserAndSubscribe(a, p, v)
                \/ \E b \in Accounts : AddSubscriberDirectly(a, p, b, v)

PublisherCall(a) ==
    \/ \E c \in Costs :
          \/ UpdatePublisherProfile(a, c)
          \/ \E v \in Prices : CreateNewPublisher(a, c, v)
    \/ \E p \in Publishers, v \in Prices :
          \/ CreateContent(a, p, v)
          \/ \E b \in Accounts, w \in Prices : CreateContentDirectly(a, p, b, v, w)
    \/ \E x \in Addresses, v \in Prices :
          \/ SendEther(a, x, v) \/ DoTransferFunds(a, x, v)
          \/ \E p \in Publishers : TransferFunds(a, p, x, v)
    \/ \E s \in Accounts : RemoveSubscriber(a, s)

(* Calls whose sender makes no difference.                                 *)
AnyonesCall ==
    \/ \E p \in Publishers :
          \/ \E c \in Costs : UpdateProfileDirectly(p, c)
          \/ \E s \in Accounts : RemoveSubscriberDirectly(p, s)
    \/ \E k \in Contents, v \in Prices : WithdrawEarnings(k, v)
    \/ \E u \in Users :
          \/ \E k \in Contents : ListDirectly(u, U!Purchase(user[u], k))
          \/ \E p \in Publishers : ListDirectly(u, U!Subscribe(user[u], p))

Next ==
    \/ Tick
    \/ \E a \in Accounts : UserCall(a) \/ PublisherCall(a)
    \/ AnyonesCall

Spec == Init /\ [][Next]_vars

-----------------------------------------------------------------------------
TypeOK ==
    /\ wei \in [Addresses -> Nat]
    /\ now \in 0..EndOfTime
    /\ publisherContract \in [Accounts -> Publishers \cup {Null}]
    /\ userContract \in [Accounts -> Users \cup {Null}]
    /\ contentContracts \subseteq Contents
    /\ publisher \in [Publishers -> P!PublisherStorage \cup {NoStorage}]
    /\ content \in [Contents -> C!ContentStorage \cup {NoStorage}]
    /\ user \in [Users -> U!UserStorage \cup {NoStorage}]

(* May the account see the content?  The test of the content page.         *)
CanView(a, k) ==
    \/ content[k].price = 0
    \/ a \in content[k].whitelist
    \/ publisher[content[k].ownerId].expiration[a] > now

(* A content contract can always pay out what its books say it has earned  *)
(* (Content.sol:66, 70-74).                                                *)
EarningsBacked ==
    \A k \in Contents : HasCode(content[k]) => content[k].earnings <= wei[k]

(* Every publisher lists exactly the contents that are its own, and the    *)
(* Gateway lists contents that exist, whoever makes them: those a publisher *)
(* is asked for directly are missing from the Gateway's list only          *)
(* (Gateway.sol:125-126, Publisher.sol:135-136).                           *)
RegistriesAgree ==
    /\ \A k \in contentContracts : HasCode(content[k])
    /\ \A k \in Contents, p \in Publishers : HasCode(publisher[p]) =>
          (k \in publisher[p].contentContracts <=> HasCode(content[k]) /\ content[k].ownerId = p)

(* The content page looks at the expiration only, Publisher.isSubscribed   *)
(* at the flag as well: the two agree.                                     *)
PagesAgreeOnSubscription ==
    \A p \in Publishers, a \in Accounts : HasCode(publisher[p]) =>
        (publisher[p].expiration[a] > now <=> P!IsSubscribed(publisher[p], a, now))

(* A free or bought content never stops being one's to see.  Access by     *)
(* subscription ends in the second it expires, or as the account is taken  *)
(* off the content's publisher: no purchase, renewal, price change or new  *)
(* publisher ends it (Publisher.sol:93-114, Content.sol:64-68).            *)
AccessLasts ==
    [][\A a \in Accounts, k \in Contents :
          HasCode(content[k]) /\ CanView(a, k) /\ ~CanView(a, k)' =>
              LET p == content[k].ownerId
              IN  /\ content[k].price # 0 /\ a \notin content[k].whitelist
                  /\ \/ publisher[p].expiration[a] = now'
                     \/ a \in publisher[p].subscribers \ publisher'[p].subscribers]_vars

(* What a content pays, its publisher gets, and the content's books lose.  *)
ContentPays ==
    \A k \in Contents : wei'[k] < wei[k] =>
        /\ HasCode(content[k])
        /\ \E d \in 1..wei[k] :
              /\ wei'[k] = wei[k] - d
              /\ wei'[content[k].ownerId] = wei[content[k].ownerId] + d
              /\ content'[k].earnings = content[k].earnings - d

(* A publisher contract that pays is emptied, and one address gets it all  *)
(* (the caller, less what it sends to the Gateway in the same call).       *)
PublisherPays ==
    \A p \in Publishers : wei'[p] < wei[p] =>
        /\ wei'[p] = 0
        /\ \E x \in Addresses \ {GatewayAddr} :
              wei'[x] + wei'[GatewayAddr] >= wei[x] + wei[GatewayAddr] + wei[p]

(* What reaches the Gateway stays there.                                   *)
GatewayKeeps == wei'[GatewayAddr] >= wei[GatewayAddr]

(* Ether leaves a content only for its publisher and only out of what the  *)
(* books say, a publisher only whole, and the Gateway never: what is sent  *)
(* with Gateway.purchaseContent is out of everybody's reach (Gateway.sol   *)
(* 58-61, 71-75, 113-115, Publisher.sol:120-123, Content.sol:70-74).       *)
EtherLeaves == [][ContentPays /\ PublisherPays /\ GatewayKeeps]_vars

(* What of the contracts' storage decides who may see what.                *)
Seller == [k \in Contents |-> IF HasCode(content[k]) THEN content[k].ownerId ELSE Null]
Free == {k \in Contents : HasCode(content[k]) /\ content[k].price = 0}
Whitelisted == [a \in Accounts |->
                  {k \in Contents : HasCode(content[k]) /\ a \in content[k].whitelist}]
Until == [p \in Publishers |->
            IF HasCode(publisher[p]) THEN publisher[p].expiration ELSE [a \in Accounts |-> 0]]

A == INSTANCE Access
       WITH Nobody <- Null, seller <- Seller, free <- Free, bought <- Whitelisted, until <- Until

(* The contracts keep the promise of access: of all that is done with      *)
(* ether, profiles, prices of subscriptions or other contents, through the *)
(* Gateway or past it, only a purchase, a subscription and its removal     *)
(* give or take access, and of one account each (Gateway.sol:39-67,        *)
(* 107-111, Publisher.sol:93-114, Content.sol:64-68).                      *)
KeepsAccess == A!Spec
=============================================================================
