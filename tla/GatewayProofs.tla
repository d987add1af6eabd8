--------------------------- MODULE GatewayProofs ---------------------------
(***************************************************************************)
(* Proofs about the paywall, for any number of accounts and contracts, any *)
(* prices and any width of the integers.                                   *)
(***************************************************************************)
EXTENDS Gateway, TLAPS

(* A wrapped count is a uint.                                              *)
LEMMA WrapRange == \A n \in Nat : n % UintRange \in 0..(UintRange - 1)
  BY NumberAssumption

(* What one contract's functions make of storage of the right type.        *)
LEMMA NewPublisherType ==
  ASSUME NEW v \in Nat
  PROVE  P!NewPublisher(v) \in P!PublisherStorage
  BY NumberAssumption DEF P!NewPublisher, P!PublisherStorage

LEMMA UpdateProfileType ==
  ASSUME NEW s \in P!PublisherStorage, NEW v \in Nat
  PROVE  P!UpdateProfile(s, v) \in P!PublisherStorage
  BY DEF P!UpdateProfile, P!PublisherStorage

LEMMA AddSubscriberType ==
  ASSUME NEW s \in P!PublisherStorage, NEW a \in Accounts, NEW t \in Nat
  PROVE  P!AddSubscriber(s, a, t) \in P!PublisherStorage
<1>1. s.subscribers \cup {a} \in SUBSET Accounts
  BY DEF P!PublisherStorage
<1>2. (s.numberSubscribers + 1) % UintRange \in 0..(UintRange - 1)
  BY WrapRange DEF P!PublisherStorage
<1>3. [s.expiration EXCEPT ![a] = t + Period] \in [Accounts -> Nat]
  BY NumberAssumption DEF P!PublisherStorage
<1> QED
  BY <1>1, <1>2, <1>3 DEF P!AddSubscriber, P!PublisherStorage

LEMMA RemoveSubscriberType ==
  ASSUME NEW s \in P!PublisherStorage, NEW a \in Accounts, NEW t \in Nat
  PROVE  P!RemoveSubscriber(s, a, t) \in P!PublisherStorage
<1>1. s.subscribers \ {a} \in SUBSET Accounts
  BY DEF P!PublisherStorage
<1>2. (s.numberSubscribers + UintRange - 1) % UintRange \in 0..(UintRange - 1)
  <2>1. s.numberSubscribers + UintRange - 1 \in Nat
    BY NumberAssumption DEF P!PublisherStorage
  <2> QED
    BY <2>1, WrapRange
<1>3. [s.expiration EXCEPT ![a] = t] \in [Accounts -> Nat]
  BY DEF P!PublisherStorage
<1> QED
  BY <1>1, <1>2, <1>3 DEF P!RemoveSubscriber, P!PublisherStorage

LEMMA PublishType ==
  ASSUME NEW s \in P!PublisherStorage, NEW k \in Contents
  PROVE  P!CreateContent(s, k) \in P!PublisherStorage
  BY DEF P!CreateContent, P!PublisherStorage

LEMMA NewContentType ==
  ASSUME NEW p \in Publishers, NEW a \in Accounts, NEW v \in Nat
  PROVE  C!NewContent(p, a, v) \in C!ContentStorage
  BY DEF C!NewContent, C!ContentStorage

LEMMA PurchaseContentType ==
  ASSUME NEW s \in C!ContentStorage, NEW a \in Accounts, NEW v \in Nat
  PROVE  C!PurchaseContent(s, a, v) \in C!ContentStorage
<1>1. s.whitelist \cup {a} \in SUBSET Accounts
  BY DEF C!ContentStorage
<1>2. s.earnings + v \in Nat
  BY DEF C!ContentStorage
<1> QED
  BY <1>1, <1>2 DEF C!PurchaseContent, C!ContentStorage

LEMMA WithdrawEarningsType ==
  ASSUME NEW s \in C!ContentStorage, NEW v \in Nat, C!WithdrawEarningsOK(s, v)
  PROVE  C!WithdrawEarnings(s, v) \in C!ContentStorage
  BY DEF C!WithdrawEarnings, C!WithdrawEarningsOK, C!ContentStorage

LEMMA UserType ==
  /\ U!NewUser \in U!UserStorage
  /\ \A s \in U!UserStorage, k \in Contents : U!Purchase(s, k) \in U!UserStorage
  /\ \A s \in U!UserStorage, p \in Publishers : U!Subscribe(s, p) \in U!UserStorage
  BY DEF U!NewUser, U!Purchase, U!Subscribe, U!UserStorage

-----------------------------------------------------------------------------
(* Accounts and contents point at contracts that exist.                    *)
Linked ==
    /\ \A a \in Accounts : publisherContract[a] # Null => HasCode(publisher[publisherContract[a]])
    /\ \A a \in Accounts : userContract[a] # Null => HasCode(user[userContract[a]])
    /\ \A k \in Contents : HasCode(content[k]) => HasCode(publisher[content[k].ownerId])

TypeInv == TypeOK /\ Linked

LEMMA NoStorageTypes ==
  /\ \A s \in P!PublisherStorage \cup C!ContentStorage \cup U!UserStorage : s # NoStorage
  /\ \A s \in P!PublisherStorage \cup C!ContentStorage \cup U!UserStorage : HasCode(s)
  /\ ~HasCode(NoStorage)
  BY AddressAssumption DEF NoStorage, HasCode

(* Storage of a contract that exists.                                      *)
LEMMA StorageType ==
  ASSUME TypeOK
  PROVE  /\ \A p \in Publishers : HasCode(publisher[p]) => publisher[p] \in P!PublisherStorage
         /\ \A k \in Contents : HasCode(content[k]) =>
               content[k] \in C!ContentStorage /\ content[k].ownerId \in Publishers
         /\ \A u \in Users : HasCode(user[u]) => user[u] \in U!UserStorage
  BY DEF TypeOK, HasCode, C!ContentStorage

-----------------------------------------------------------------------------
(* What a step does to the balances.                                       *)

LEMMA TransferMoves ==
  ASSUME NEW w \in [Addresses -> Nat], NEW from \in Addresses, NEW to \in Addresses,
         NEW v \in Nat, v <= w[from]
  PROVE  /\ Transfer(w, from, to, v) \in [Addresses -> Nat]
         /\ \A x \in Addresses : Transfer(w, from, to, v)[x] =
               w[x] - (IF x = from THEN v ELSE 0) + (IF x = to THEN v ELSE 0)
<1>1. CASE from = to
  BY <1>1 DEF Transfer
<1>2. CASE from # to
  BY <1>2 DEF Transfer
<1> QED
  BY <1>1, <1>2

LEMMA PayType ==
  ASSUME TypeOK, NEW from \in Addresses, NEW to \in Addresses, NEW v \in Nat,
         Pay(from, to, v)
  PROVE  /\ wei' \in [Addresses -> Nat]
         /\ \A x \in Addresses : wei'[x] =
               wei[x] - (IF x = from THEN v ELSE 0) + (IF x = to THEN v ELSE 0)
  BY TransferMoves DEF Pay, TypeOK

(* Of what is paid and then taken out of p nothing is lost.                *)
LEMMA PayThenEmptyType ==
  ASSUME TypeOK, NEW a \in Addresses, NEW x \in Addresses, NEW v \in Nat,
         NEW p \in Addresses, NEW to \in Addresses, PayThenEmpty(a, x, v, p, to)
  PROVE  LET paid == Transfer(wei, a, x, v)
         IN  /\ paid \in [Addresses -> Nat]
             /\ \A y \in Addresses : paid[y] =
                   wei[y] - (IF y = a THEN v ELSE 0) + (IF y = x THEN v ELSE 0)
             /\ wei' \in [Addresses -> Nat]
             /\ \A y \in Addresses : wei'[y] =
                   paid[y] - (IF y = p THEN paid[p] ELSE 0) + (IF y = to THEN paid[p] ELSE 0)
<1> DEFINE paid == Transfer(wei, a, x, v)
<1>1. wei \in [Addresses -> Nat] /\ v <= wei[a] /\ wei' = Transfer(paid, p, to, paid[p])
  BY DEF TypeOK, PayThenEmpty
<1>2. /\ paid \in [Addresses -> Nat]
      /\ \A y \in Addresses : paid[y] =
            wei[y] - (IF y = a THEN v ELSE 0) + (IF y = x THEN v ELSE 0)
  BY <1>1, TransferMoves
<1> HIDE DEF paid
<1>3. paid[p] \in Nat /\ paid[p] <= paid[p]
  BY <1>2
<1>4. /\ wei' \in [Addresses -> Nat]
      /\ \A y \in Addresses : wei'[y] =
            paid[y] - (IF y = p THEN paid[p] ELSE 0) + (IF y = to THEN paid[p] ELSE 0)
  BY <1>1, <1>2, <1>3, TransferMoves
<1> QED
  BY <1>2, <1>4 DEF paid

Sends(a, x) == \E v \in Prices : Pay(a, x, v)
Empties(p) ==
    \E a \in Accounts, x \in {p, GatewayAddr}, v \in Prices, to \in Addresses :
        PayThenEmpty(a, x, v, p, to)
Withdraws(k) == \E v \in Prices : WithdrawEarnings(k, v)

LEMMA PayeesAreAddresses == Payees \subseteq Addresses
  BY DEF Payees, Addresses

(* Ether leaves an account for whom it pays, a publisher contract whole,   *)
(* or a content by a withdrawal.                                           *)
LEMMA EtherMoves ==
  TypeInv /\ [Next]_vars =>
    \/ wei' = wei
    \/ \E a \in Accounts, x \in Addresses : Sends(a, x)
    \/ \E p \in Publishers : Empties(p)
    \/ \E k \in Contents : Withdraws(k)
<1> DEFINE Paid == \E a \in Accounts, x \in Addresses : Sends(a, x)
           Emptied == \E p \in Publishers : Empties(p)
<1> SUFFICES ASSUME TypeInv, [Next]_vars
             PROVE  wei' = wei \/ Paid \/ Emptied \/ \E k \in Contents : Withdraws(k)
  OBVIOUS
<1> USE PayeesAreAddresses DEF TypeInv
<1>1. /\ GatewayAddr \in Addresses /\ Publishers \subseteq Addresses
      /\ Contents \subseteq Addresses
  BY DEF Addresses
<1>2. ASSUME NEW a \in Accounts, UserCall(a) PROVE wei' = wei \/ Paid
  <2>1. CASE CreateNewUser(a) \/ \E p \in Publishers : AddSubscriber(a, p)
    BY <2>1 DEF CreateNewUser, AddSubscriber
  <2>2. ASSUME NEW k \in Contents, NEW v \in Prices, NEW w \in Prices,
               \/ PurchaseContent(a, k, v, w)
               \/ \E x \in Addresses : CreateNewUserAndPurchase(a, k, v, x, w)
               \/ \E b \in Accounts : PurchaseDirectly(a, k, b, v, w)
        PROVE  Paid
    BY <1>1, <2>2 DEF Sends, PurchaseContent, CreateNewUserAndPurchase, PurchaseDirectly
  <2>3. ASSUME NEW p \in Publishers, NEW v \in Prices,
               \/ CreateNewUserAndSubscribe(a, p, v)
               \/ \E b \in Accounts : AddSubscriberDirectly(a, p, b, v)
        PROVE  Paid
    BY <1>1, <2>3 DEF Sends, CreateNewUserAndSubscribe, AddSubscriberDirectly
  <2> QED
    BY <1>2, <2>1, <2>2, <2>3 DEF UserCall
<1>3. ASSUME NEW a \in Accounts, PublisherCall(a) PROVE wei' = wei \/ Paid \/ Emptied
  <2>1. ASSUME NEW c \in Costs, UpdatePublisherProfile(a, c)
               \/ \E v \in Prices : CreateNewPublisher(a, c, v)
        PROVE  wei' = wei \/ Paid
    BY <1>1, <2>1 DEF Sends, UpdatePublisherProfile, CreateNewPublisher
  <2>2. ASSUME NEW p \in Publishers, NEW v \in Prices,
               \/ CreateContent(a, p, v)
               \/ \E b \in Accounts, w \in Prices : CreateContentDirectly(a, p, b, v, w)
        PROVE  wei' = wei \/ Paid
    BY <1>1, <2>2 DEF Sends, CreateContent, CreateContentDirectly
  <2>3. ASSUME NEW x \in Addresses, NEW v \in Prices, SendEther(a, x, v) PROVE Paid
    BY <2>3 DEF Sends, SendEther
  <2>4. ASSUME NEW x \in Addresses, NEW v \in Prices, DoTransferFunds(a, x, v) PROVE Emptied
    <3>1. publisherContract[a] \in Publishers
      BY <2>4 DEF DoTransferFunds, TypeOK
    <3> QED
      BY <2>4, <3>1 DEF DoTransferFunds, Empties
  <2>5. ASSUME NEW x \in Addresses, NEW v \in Prices, NEW p \in Publishers,
               TransferFunds(a, p, x, v)
        PROVE  Emptied
    BY <2>5 DEF TransferFunds, Empties
  <2>6. ASSUME NEW s \in Accounts, RemoveSubscriber(a, s) PROVE wei' = wei
    BY <2>6 DEF RemoveSubscriber
  <2> QED
    BY <1>3, <2>1, <2>2, <2>3, <2>4, <2>5, <2>6 DEF PublisherCall
<1>4. CASE AnyonesCall
  BY <1>4 DEF AnyonesCall, UpdateProfileDirectly, RemoveSubscriberDirectly, ListDirectly,
     Withdraws
<1> QED
  BY <1>2, <1>3, <1>4 DEF Next, Tick, vars

LEMMA BalancesNext == TypeInv /\ [Next]_vars => wei' \in [Addresses -> Nat]
<1> SUFFICES ASSUME TypeInv, [Next]_vars PROVE wei' \in [Addresses -> Nat]
  OBVIOUS
<1> USE NumberAssumption DEF TypeInv
<1>1. /\ GatewayAddr \in Addresses /\ Publishers \subseteq Addresses
      /\ Contents \subseteq Addresses /\ Accounts \subseteq Addresses
  BY DEF Addresses
<1>2. ASSUME NEW a \in Accounts, NEW x \in Addresses, Sends(a, x)
      PROVE  wei' \in [Addresses -> Nat]
  BY <1>1, <1>2, PayType DEF Sends
<1>3. ASSUME NEW p \in Publishers, Empties(p) PROVE wei' \in [Addresses -> Nat]
  BY <1>1, <1>3, PayThenEmptyType DEF Empties
<1>4. ASSUME NEW k \in Contents, Withdraws(k) PROVE wei' \in [Addresses -> Nat]
  BY <1>1, <1>4, PayType, StorageType DEF Withdraws, WithdrawEarnings
<1> QED
  BY <1>2, <1>3, <1>4, EtherMoves DEF TypeOK

-----------------------------------------------------------------------------
(* What a step does to the contracts: it concerns one publisher, or one    *)
(* content, or neither.                                                    *)

OnlyProfiles == UNCHANGED <<now, publisherContract, contentContracts, publisher, content>>

SignsUp(a, p) ==
    /\ publisher[p] = NoStorage
    /\ \E c \in Costs : publisher' = [publisher EXCEPT ![p] = P!NewPublisher(c)]
    /\ publisherContract' = [publisherContract EXCEPT ![a] = p]
    /\ UNCHANGED <<now, contentContracts, content>>

(* A publisher that exists changes its storage only.                       *)
Turns(p, storage) ==
    /\ HasCode(publisher[p])
    /\ publisher' = [publisher EXCEPT ![p] = storage]
    /\ UNCHANGED <<now, publisherContract, contentContracts, content>>

Reprices(p) == \E c \in Costs : Turns(p, P!UpdateProfile(publisher[p], c))
Joins(s, p) == Turns(p, P!AddSubscriber(publisher[p], s, now))
Leaves(s, p) == Turns(p, P!RemoveSubscriber(publisher[p], s, now))

Makes(p, k) ==
    /\ \E b \in Accounts, v \in Prices : NewContentContract(p, k, b, v)
    /\ contentContracts' \in {contentContracts, contentContracts \cup {k}}
    /\ UNCHANGED <<now, publisherContract>>

(* What a purchase adds to the books has been paid.                        *)
Buys(b, k) ==
    /\ HasCode(content[k])
    /\ \E w \in Nat :
          /\ w = 0 \/ \E a \in Accounts : Pay(a, k, w)
          /\ content' = [content EXCEPT ![k] = C!PurchaseContent(@, b, w)]
    /\ UNCHANGED <<now, publisherContract, contentContracts, publisher>>

ContractStep ==
    \/ OnlyProfiles \/ Tick
    \/ \E p \in Publishers :
          \/ Reprices(p)
          \/ \E a \in Accounts : SignsUp(a, p) \/ Joins(a, p) \/ Leaves(a, p)
          \/ \E k \in Contents : Makes(p, k)
    \/ \E k \in Contents : Withdraws(k) \/ \E b \in Accounts : Buys(b, k)

LEMMA UserCalls ==
  ASSUME TypeInv, NEW a \in Accounts, UserCall(a)
  PROVE  ContractStep
<1> USE NumberAssumption DEF TypeInv
<1>1. CASE CreateNewUser(a)
  BY <1>1 DEF CreateNewUser, OnlyProfiles, ContractStep
<1>2. ASSUME NEW k \in Contents, NEW v \in Prices, NEW w \in Prices,
             PurchaseContent(a, k, v, w)
      PROVE  Buys(a, k)
  BY <1>2 DEF PurchaseContent, Buys
<1>3. ASSUME NEW k \in Contents, NEW v \in Prices, NEW w \in Prices, NEW x \in Addresses,
             CreateNewUserAndPurchase(a, k, v, x, w)
      PROVE  Buys(a, k)
  BY <1>3 DEF CreateNewUserAndPurchase, Buys
<1>4. ASSUME NEW k \in Contents, NEW v \in Prices, NEW w \in Prices, NEW b \in Accounts,
             PurchaseDirectly(a, k, b, v, w)
      PROVE  Buys(b, k)
  BY <1>4 DEF PurchaseDirectly, Buys
<1>5. ASSUME NEW p \in Publishers, AddSubscriber(a, p) PROVE Joins(a, p)
  BY <1>5 DEF AddSubscriber, Joins, Turns
<1>6. ASSUME NEW p \in Publishers, NEW v \in Prices, CreateNewUserAndSubscribe(a, p, v)
      PROVE  Joins(a, p)
  BY <1>6 DEF CreateNewUserAndSubscribe, Joins, Turns
<1>7. ASSUME NEW p \in Publishers, NEW v \in Prices, NEW b \in Accounts,
             AddSubscriberDirectly(a, p, b, v)
      PROVE  Joins(b, p)
  BY <1>7 DEF AddSubscriberDirectly, Joins, Turns
<1> QED
  BY <1>1, <1>2, <1>3, <1>4, <1>5, <1>6, <1>7 DEF UserCall, ContractStep

LEMMA PublisherCalls ==
  ASSUME TypeInv, NEW a \in Accounts, PublisherCall(a)
  PROVE  ContractStep
<1>1. publisherContract[a] # Null =>
        publisherContract[a] \in Publishers /\ HasCode(publisher[publisherContract[a]])
  BY DEF TypeInv, TypeOK, Linked
<1>2. ASSUME NEW c \in Costs, UpdatePublisherProfile(a, c)
      PROVE  \E p \in Publishers : Reprices(p)
  BY <1>1, <1>2 DEF UpdatePublisherProfile, Reprices, Turns
<1>3. ASSUME NEW c \in Costs, NEW v \in Prices, CreateNewPublisher(a, c, v)
      PROVE  \E p \in Publishers : SignsUp(a, p)
  BY <1>3 DEF CreateNewPublisher, SignsUp
<1>4. ASSUME NEW p \in Publishers, NEW v \in Prices, CreateContent(a, p, v)
      PROVE  \E k \in Contents : Makes(p, k)
  BY <1>4 DEF CreateContent, Makes
<1>5. ASSUME NEW p \in Publishers, NEW v \in Prices, NEW b \in Accounts, NEW w \in Prices,
             CreateContentDirectly(a, p, b, v, w)
      PROVE  \E k \in Contents : Makes(p, k)
  BY <1>5 DEF CreateContentDirectly, Makes
<1>6. ASSUME NEW x \in Addresses, NEW v \in Prices,
             \/ SendEther(a, x, v) \/ DoTransferFunds(a, x, v)
             \/ \E p \in Publishers : TransferFunds(a, p, x, v)
      PROVE  OnlyProfiles
  BY <1>6 DEF SendEther, DoTransferFunds, TransferFunds, OnlyProfiles
<1>7. ASSUME NEW s \in Accounts, RemoveSubscriber(a, s)
      PROVE  \E p \in Publishers : Leaves(s, p)
  BY <1>1, <1>7 DEF RemoveSubscriber, Leaves, Turns
<1> QED
  BY <1>2, <1>3, <1>4, <1>5, <1>6, <1>7 DEF PublisherCall, ContractStep

LEMMA ContractSteps == TypeInv /\ [Next]_vars => ContractStep
<1> SUFFICES ASSUME TypeInv, [Next]_vars PROVE ContractStep
  OBVIOUS
<1>1. CASE AnyonesCall
  <2>1. ASSUME NEW p \in Publishers, NEW c \in Costs, UpdateProfileDirectly(p, c)
        PROVE  Reprices(p)
    BY <2>1 DEF UpdateProfileDirectly, Reprices, Turns
  <2>2. ASSUME NEW p \in Publishers, NEW s \in Accounts, RemoveSubscriberDirectly(p, s)
        PROVE  Leaves(s, p)
    BY <2>2 DEF RemoveSubscriberDirectly, Leaves, Turns
  <2>3. ASSUME NEW u \in Users, NEW s, ListDirectly(u, s) PROVE OnlyProfiles
    BY <2>3 DEF ListDirectly, OnlyProfiles
  <2> QED
    BY <1>1, <2>1, <2>2, <2>3 DEF AnyonesCall, ContractStep, Withdraws
<1>2. CASE UNCHANGED vars
  BY <1>2 DEF vars, OnlyProfiles, ContractStep
<1> QED
  BY <1>1, <1>2, UserCalls, PublisherCalls DEF Next, ContractStep

-----------------------------------------------------------------------------
(* What a step does to the profiles: one is made for an account, or one    *)
(* that exists has another item on a list.                                 *)
NewProfile(a) == \E s \in U!UserStorage : NewUserContract(a, s)
OldProfile(u) ==
    /\ HasCode(user[u]) /\ userContract' = userContract
    /\ \E s \in U!UserStorage : user' = [user EXCEPT ![u] = s]

LEMMA ProfileSteps ==
  TypeInv /\ [Next]_vars =>
    \/ UNCHANGED <<user, userContract>>
    \/ \E a \in Accounts : NewProfile(a)
    \/ \E u \in Users : OldProfile(u)
<1> DEFINE Changed == (\E a \in Accounts : NewProfile(a)) \/ \E u \in Users : OldProfile(u)
<1> SUFFICES ASSUME TypeInv, [Next]_vars PROVE UNCHANGED <<user, userContract>> \/ Changed
  OBVIOUS
<1> USE UserType DEF TypeInv
<1>1. ASSUME NEW a \in Accounts, UserCall(a) PROVE UNCHANGED <<user, userContract>> \/ Changed
  <2>1. userContract[a] # Null =>
          /\ userContract[a] \in Users /\ HasCode(user[userContract[a]])
          /\ user[userContract[a]] \in U!UserStorage
    BY StorageType DEF TypeOK, Linked
  <2>2. CASE CreateNewUser(a)
    BY <2>2 DEF CreateNewUser, NewProfile
  <2>3. ASSUME NEW k \in Contents, NEW v \in Prices, NEW w \in Prices,
               PurchaseContent(a, k, v, w)
        PROVE  Changed
    BY <2>1, <2>3 DEF PurchaseContent, OldProfile
  <2>4. ASSUME NEW k \in Contents, NEW v \in Prices, NEW w \in Prices, NEW x \in Addresses,
               CreateNewUserAndPurchase(a, k, v, x, w)
        PROVE  Changed
    BY <2>4 DEF CreateNewUserAndPurchase, NewProfile
  <2>5. ASSUME NEW p \in Publishers, AddSubscriber(a, p) PROVE Changed
    BY <2>1, <2>5 DEF AddSubscriber, OldProfile
  <2>6. ASSUME NEW p \in Publishers, NEW v \in Prices, CreateNewUserAndSubscribe(a, p, v)
        PROVE  Changed
    BY <2>6 DEF CreateNewUserAndSubscribe, NewProfile
  <2> QED
    BY <1>1, <2>2, <2>3, <2>4, <2>5, <2>6
    DEF UserCall, PurchaseDirectly, AddSubscriberDirectly
<1>2. ASSUME NEW a \in Accounts, PublisherCall(a) PROVE UNCHANGED <<user, userContract>>
  BY <1>2 DEF PublisherCall, UpdatePublisherProfile, CreateNewPublisher, CreateContent,
     CreateContentDirectly, SendEther, DoTransferFunds, TransferFunds, RemoveSubscriber
<1>3. CASE AnyonesCall
  <2>1. ASSUME NEW u \in Users, NEW k \in Contents, ListDirectly(u, U!Purchase(user[u], k))
        PROVE  OldProfile(u)
    BY <2>1, StorageType DEF ListDirectly, OldProfile
  <2>2. ASSUME NEW u \in Users, NEW p \in Publishers, ListDirectly(u, U!Subscribe(user[u], p))
        PROVE  OldProfile(u)
    BY <2>2, StorageType DEF ListDirectly, OldProfile
  <2> QED
    BY <1>3, <2>1, <2>2 DEF AnyonesCall, UpdateProfileDirectly, RemoveSubscriberDirectly,
       WithdrawEarnings
<1> QED
  BY <1>1, <1>2, <1>3 DEF Next, Tick, vars

LEMMA ProfilesNext ==
  ASSUME TypeInv, [Next]_vars
  PROVE  /\ userContract' \in [Accounts -> Users \cup {Null}]
         /\ user' \in [Users -> U!UserStorage \cup {NoStorage}]
         /\ \A a \in Accounts : userContract'[a] # Null => HasCode(user'[userContract'[a]])
<1> USE NoStorageTypes DEF TypeInv, TypeOK, Linked
<1>1. CASE UNCHANGED <<user, userContract>>
  BY <1>1
<1>2. ASSUME NEW a \in Accounts, NewProfile(a)
      PROVE  /\ userContract' \in [Accounts -> Users \cup {Null}]
             /\ user' \in [Users -> U!UserStorage \cup {NoStorage}]
             /\ \A b \in Accounts : userContract'[b] # Null => HasCode(user'[userContract'[b]])
  <2>1. PICK u \in Users, s \in U!UserStorage :
           /\ user' = [user EXCEPT ![u] = s]
           /\ userContract' = [userContract EXCEPT ![a] = u]
    BY <1>2 DEF NewProfile, NewUserContract
  <2> HIDE DEF HasCode
  <2> QED
    BY <2>1
<1>3. ASSUME NEW u \in Users, OldProfile(u)
      PROVE  /\ userContract' \in [Accounts -> Users \cup {Null}]
             /\ user' \in [Users -> U!UserStorage \cup {NoStorage}]
             /\ \A b \in Accounts : userContract'[b] # Null => HasCode(user'[userContract'[b]])
  BY <1>3 DEF OldProfile
<1> QED
  BY <1>1, <1>2, <1>3, ProfileSteps

-----------------------------------------------------------------------------
LEMMA TypeInit == Init => TypeInv
  BY AddressAssumption, NumberAssumption
  DEF Init, TypeInv, TypeOK, Linked, HasCode, NoStorage, Addresses

(* The contracts keep their types, and stay where they are.                *)
ContractsOK ==
    /\ now' \in 0..EndOfTime
    /\ publisherContract' \in [Accounts -> Publishers \cup {Null}]
    /\ contentContracts' \subseteq Contents
    /\ publisher' \in [Publishers -> P!PublisherStorage \cup {NoStorage}]
    /\ content' \in [Contents -> C!ContentStorage \cup {NoStorage}]
    /\ \A a \in Accounts : publisherContract'[a] # Null =>
                              HasCode(publisher'[publisherContract'[a]])
    /\ \A k \in Contents : HasCode(content'[k]) => HasCode(publisher'[content'[k].ownerId])

LEMMA TurnType ==
  ASSUME TypeInv, NEW p \in Publishers, NEW s \in P!PublisherStorage, Turns(p, s)
  PROVE  ContractsOK
<1>1. HasCode(s)
  BY NoStorageTypes
<1>2. \A q \in Publishers : HasCode(publisher[q]) => HasCode(publisher'[q])
  BY <1>1 DEF Turns, TypeInv, TypeOK
<1>3. \A k \in Contents : HasCode(content[k]) => content[k].ownerId \in Publishers
  BY StorageType DEF TypeInv
<1> HIDE DEF HasCode
<1> QED
  BY <1>2, <1>3 DEF ContractsOK, Turns, TypeInv, TypeOK, Linked

LEMMA ContentChangeType ==
  ASSUME TypeInv, NEW k \in Contents, HasCode(content[k]), NEW s \in C!ContentStorage,
         s.ownerId = content[k].ownerId, content' = [content EXCEPT ![k] = s],
         UNCHANGED <<now, publisherContract, contentContracts, publisher>>
  PROVE  ContractsOK
<1> HIDE DEF HasCode
<1> QED
  BY DEF ContractsOK, TypeInv, TypeOK, Linked

LEMMA MakesType ==
  ASSUME TypeInv, NEW p \in Publishers, NEW k \in Contents, Makes(p, k)
  PROVE  ContractsOK
<1>1. PICK b \in Accounts, v \in Prices :
         /\ HasCode(publisher[p])
         /\ content' = [content EXCEPT ![k] = C!NewContent(p, b, v)]
         /\ publisher' = [publisher EXCEPT ![p] = P!CreateContent(@, k)]
  BY DEF Makes, NewContentContract
<1>2. publisher[p] \in P!PublisherStorage
  BY <1>1, StorageType DEF TypeInv
<1>3. /\ C!NewContent(p, b, v) \in C!ContentStorage
      /\ C!NewContent(p, b, v).ownerId = p
  BY NewContentType, NumberAssumption DEF C!NewContent
<1>4. /\ P!CreateContent(publisher[p], k) \in P!PublisherStorage
      /\ HasCode(P!CreateContent(publisher[p], k))
  BY <1>2, PublishType, NoStorageTypes
<1>5. \A q \in Publishers : HasCode(publisher[q]) => HasCode(publisher'[q])
  BY <1>1, <1>4 DEF TypeInv, TypeOK
<1>6. \A l \in Contents : HasCode(content[l]) => content[l].ownerId \in Publishers
  BY StorageType DEF TypeInv
<1>7. \A l \in Contents : content'[l] = IF l = k THEN C!NewContent(p, b, v) ELSE content[l]
  BY <1>1 DEF TypeInv, TypeOK
<1>8. \A l \in Contents : HasCode(content'[l]) => HasCode(publisher'[content'[l].ownerId])
  BY <1>1, <1>3, <1>5, <1>6, <1>7 DEF TypeInv, Linked
<1> HIDE DEF HasCode
<1> QED
  BY <1>1, <1>3, <1>4, <1>5, <1>8 DEF ContractsOK, Makes, TypeInv, TypeOK, Linked

LEMMA ContractsNext == TypeInv /\ [Next]_vars => ContractsOK
<1> SUFFICES ASSUME TypeInv, [Next]_vars PROVE ContractsOK
  OBVIOUS
<1> USE NumberAssumption
<1>1. now \in Nat
  BY DEF TypeInv, TypeOK
<1>2. CASE OnlyProfiles \/ Tick
  BY <1>2 DEF OnlyProfiles, Tick, TypeInv, TypeOK, Linked, ContractsOK
<1>3. ASSUME NEW p \in Publishers, NEW a \in Accounts, SignsUp(a, p) PROVE ContractsOK
  <2>1. PICK c \in Costs : publisher' = [publisher EXCEPT ![p] = P!NewPublisher(c)]
    BY <1>3 DEF SignsUp
  <2>2. P!NewPublisher(c) \in P!PublisherStorage /\ HasCode(P!NewPublisher(c))
    BY NewPublisherType, NoStorageTypes
  <2>3. \A q \in Publishers : HasCode(publisher[q]) => HasCode(publisher'[q])
    BY <2>1, <2>2 DEF TypeInv, TypeOK
  <2>4. HasCode(publisher'[p])
    BY <2>1, <2>2 DEF TypeInv, TypeOK
  <2>5. \A k \in Contents : HasCode(content[k]) => content[k].ownerId \in Publishers
    BY StorageType DEF TypeInv
  <2> HIDE DEF HasCode
  <2> QED
    BY <1>3, <2>1, <2>2, <2>3, <2>4, <2>5 DEF SignsUp, ContractsOK, TypeInv, TypeOK, Linked
<1>4. ASSUME NEW p \in Publishers,
             Reprices(p) \/ \E a \in Accounts : Joins(a, p) \/ Leaves(a, p)
      PROVE  ContractsOK
  <2>1. publisher[p] \in P!PublisherStorage
    BY <1>4, StorageType DEF Reprices, Joins, Leaves, Turns, TypeInv
  <2>2. CASE Reprices(p)
    BY <2>1, <2>2, UpdateProfileType, TurnType DEF Reprices
  <2>3. ASSUME NEW a \in Accounts, Joins(a, p) PROVE ContractsOK
    BY <1>1, <2>1, <2>3, AddSubscriberType, TurnType DEF Joins
  <2>4. ASSUME NEW a \in Accounts, Leaves(a, p) PROVE ContractsOK
    BY <1>1, <2>1, <2>4, RemoveSubscriberType, TurnType DEF Leaves
  <2> QED
    BY <1>4, <2>2, <2>3, <2>4
<1>5. ASSUME NEW k \in Contents, NEW b \in Accounts, Buys(b, k) PROVE ContractsOK
  <2>1. PICK w \in Nat : content' = [content EXCEPT ![k] = C!PurchaseContent(@, b, w)]
    BY <1>5 DEF Buys
  <2>2. HasCode(content[k]) /\ content[k] \in C!ContentStorage
    BY <1>5, StorageType DEF Buys, TypeInv
  <2>3. C!PurchaseContent(content[k], b, w).ownerId = content[k].ownerId
    BY <2>2 DEF C!PurchaseContent, C!ContentStorage
  <2> QED
    BY <1>5, <2>1, <2>2, <2>3, PurchaseContentType, ContentChangeType DEF Buys
<1>6. ASSUME NEW k \in Contents, Withdraws(k) PROVE ContractsOK
  <2>1. PICK v \in Prices : WithdrawEarnings(k, v)
    BY <1>6 DEF Withdraws
  <2>2. HasCode(content[k]) /\ content[k] \in C!ContentStorage
    BY <2>1, StorageType DEF WithdrawEarnings, TypeInv
  <2>3. C!WithdrawEarnings(content[k], v).ownerId = content[k].ownerId
    BY <2>2 DEF C!WithdrawEarnings, C!ContentStorage
  <2> QED
    BY <2>1, <2>2, <2>3, WithdrawEarningsType, ContentChangeType DEF WithdrawEarnings
<1> QED
  BY <1>2, <1>3, <1>4, <1>5, <1>6, MakesType, ContractSteps DEF ContractStep

LEMMA TypeNext == TypeInv /\ [Next]_vars => TypeInv'
<1> SUFFICES ASSUME TypeInv, [Next]_vars PROVE TypeInv'
  OBVIOUS
<1> HIDE DEF HasCode
<1> QED
  BY BalancesNext, ContractsNext, ProfilesNext DEF ContractsOK, TypeInv, TypeOK, Linked

(* Every variable of the paywall keeps its type.                           *)
THEOREM TypeCorrect == Spec => []TypeOK
<1>1. TypeInv => TypeOK
  BY DEF TypeInv
<1> QED
  BY <1>1, TypeInit, TypeNext, PTL DEF Spec

-----------------------------------------------------------------------------
(* A content contract stays deployed; its owner and price are fixed, and   *)
(* its whitelist only grows.                                               *)
ContentKept ==
    \A k \in Contents : HasCode(content[k]) =>
        /\ HasCode(content'[k])
        /\ content'[k].ownerId = content[k].ownerId
        /\ content'[k].price = content[k].price
        /\ content[k].whitelist \subseteq content'[k].whitelist

LEMMA ContentEvolves == TypeInv /\ [Next]_vars => ContentKept
<1> SUFFICES ASSUME TypeInv, [Next]_vars PROVE ContentKept
  OBVIOUS
<1> USE NoStorageTypes, StorageType, NumberAssumption DEF TypeInv, TypeOK
<1>1. CASE content' = content
  BY <1>1 DEF ContentKept
<1>2. ASSUME NEW p \in Publishers, NEW k \in Contents, Makes(p, k) PROVE ContentKept
  BY <1>2 DEF Makes, NewContentContract, ContentKept, HasCode
<1>3. ASSUME NEW k \in Contents, NEW s, content' = [content EXCEPT ![k] = s],
             HasCode(s), s.ownerId = content[k].ownerId, s.price = content[k].price,
             content[k].whitelist \subseteq s.whitelist
      PROVE  ContentKept
  <2>1. \A l \in Contents : content'[l] = IF l = k THEN s ELSE content[l]
    BY <1>3
  <2> QED
    BY <1>3, <2>1, Zenon DEF ContentKept
<1>4. ASSUME NEW k \in Contents, NEW b \in Accounts, Buys(b, k) PROVE ContentKept
  <2>1. PICK w \in Nat : content' = [content EXCEPT ![k] = C!PurchaseContent(@, b, w)]
    BY <1>4 DEF Buys
  <2>2. content[k] \in C!ContentStorage
    BY <1>4 DEF Buys
  <2> DEFINE t == C!PurchaseContent(content[k], b, w)
  <2>3. /\ HasCode(t) /\ t.ownerId = content[k].ownerId /\ t.price = content[k].price
        /\ content[k].whitelist \subseteq t.whitelist
    BY <2>2, PurchaseContentType DEF C!PurchaseContent, C!ContentStorage
  <2>4. content' = [content EXCEPT ![k] = t]
    BY <2>1
  <2> HIDE DEF t
  <2> QED
    BY <1>3, <2>3, <2>4
<1>5. ASSUME NEW k \in Contents, Withdraws(k) PROVE ContentKept
  <2>1. PICK v \in Prices : WithdrawEarnings(k, v)
    BY <1>5 DEF Withdraws
  <2> DEFINE t == C!WithdrawEarnings(content[k], v)
  <2>2. /\ HasCode(t) /\ t.ownerId = content[k].ownerId /\ t.price = content[k].price
        /\ content[k].whitelist \subseteq t.whitelist
    BY <2>1, WithdrawEarningsType
    DEF WithdrawEarnings, C!WithdrawEarnings, C!ContentStorage
  <2>3. content' = [content EXCEPT ![k] = t]
    BY <2>1 DEF WithdrawEarnings
  <2> HIDE DEF t
  <2> QED
    BY <1>3, <2>2, <2>3
<1> QED
  BY <1>1, <1>2, <1>4, <1>5, ContractSteps
  DEF ContractStep, OnlyProfiles, Tick, SignsUp, Reprices, Joins, Leaves, Turns

(* One publisher's storage stays, is made, or is what a function of the    *)
(* contract makes of it.                                                   *)
Updated(p) == \E c \in Costs : publisher'[p] = P!UpdateProfile(publisher[p], c)
Added(p) == \E s \in Accounts : publisher'[p] = P!AddSubscriber(publisher[p], s, now)
Removed(p) == \E s \in Accounts : publisher'[p] = P!RemoveSubscriber(publisher[p], s, now)
Publishing == \E q \in Publishers, k \in Contents : Makes(q, k)
Published(p) == Publishing /\ \E k \in Contents : publisher'[p] = P!CreateContent(publisher[p], k)

LEMMA PublisherStep ==
  ASSUME TypeInv, [Next]_vars, NEW p \in Publishers
  PROVE  \/ publisher'[p] = publisher[p]
         \/ ~HasCode(publisher[p]) /\ \E c \in Costs : publisher'[p] = P!NewPublisher(c)
         \/ HasCode(publisher[p]) /\ (Updated(p) \/ Added(p) \/ Removed(p) \/ Published(p))
<1> USE DEF TypeInv, TypeOK
<1>1. CASE publisher' = publisher
  BY <1>1
<1>2. ASSUME NEW q \in Publishers, NEW a \in Accounts, SignsUp(a, q)
      PROVE  \/ publisher'[p] = publisher[p]
             \/ ~HasCode(publisher[p]) /\ \E c \in Costs : publisher'[p] = P!NewPublisher(c)
  BY <1>2 DEF SignsUp, HasCode
<1>3. ASSUME NEW q \in Publishers, Reprices(q)
      PROVE  publisher'[p] = publisher[p] \/ (HasCode(publisher[p]) /\ Updated(p))
  BY <1>3 DEF Reprices, Turns, Updated
<1>4. ASSUME NEW q \in Publishers, NEW a \in Accounts, Joins(a, q)
      PROVE  publisher'[p] = publisher[p] \/ (HasCode(publisher[p]) /\ Added(p))
  BY <1>4 DEF Joins, Turns, Added
<1>5. ASSUME NEW q \in Publishers, NEW a \in Accounts, Leaves(a, q)
      PROVE  publisher'[p] = publisher[p] \/ (HasCode(publisher[p]) /\ Removed(p))
  BY <1>5 DEF Leaves, Turns, Removed
<1>6. ASSUME NEW q \in Publishers, NEW k \in Contents, Makes(q, k)
      PROVE  publisher'[p] = publisher[p] \/ (HasCode(publisher[p]) /\ Published(p))
  <2>1. HasCode(publisher[q]) /\ publisher' = [publisher EXCEPT ![q] = P!CreateContent(@, k)]
    BY <1>6 DEF Makes, NewContentContract
  <2>2. Publishing
    BY <1>6 DEF Publishing
  <2> QED
    BY <2>1, <2>2 DEF Published
<1> QED
  BY <1>1, <1>2, <1>3, <1>4, <1>5, <1>6, ContractSteps
  DEF ContractStep, OnlyProfiles, Tick, Withdraws, WithdrawEarnings, Buys

(* A publisher contract stays deployed.  An account's expiration stands,   *)
(* is set a period ahead, or is cut together with the account's flag.      *)
PublisherKept ==
    \A p \in Publishers : HasCode(publisher[p]) =>
        /\ HasCode(publisher'[p])
        /\ \A a \in Accounts :
              \/ publisher'[p].expiration[a] = publisher[p].expiration[a]
              \/ publisher'[p].expiration[a] = now + Period
              \/ a \notin publisher'[p].subscribers

LEMMA PublisherEvolves == TypeInv /\ [Next]_vars => PublisherKept
<1> SUFFICES ASSUME TypeInv, [Next]_vars, NEW p \in Publishers, HasCode(publisher[p])
             PROVE  /\ HasCode(publisher'[p])
                    /\ \A a \in Accounts :
                          \/ publisher'[p].expiration[a] = publisher[p].expiration[a]
                          \/ publisher'[p].expiration[a] = now + Period
                          \/ a \notin publisher'[p].subscribers
  BY DEF PublisherKept
<1>1. publisher[p] \in P!PublisherStorage /\ now \in Nat
  BY StorageType, NumberAssumption DEF TypeInv, TypeOK
<1>2. ASSUME NEW c \in Costs
      PROVE  P!UpdateProfile(publisher[p], c).expiration = publisher[p].expiration
  BY <1>1 DEF P!UpdateProfile, P!PublisherStorage
<1>3. ASSUME NEW k \in Contents
      PROVE  P!CreateContent(publisher[p], k).expiration = publisher[p].expiration
  BY <1>1 DEF P!CreateContent, P!PublisherStorage
<1>4. ASSUME NEW s \in Accounts, NEW a \in Accounts
      PROVE  P!AddSubscriber(publisher[p], s, now).expiration[a]
               \in {publisher[p].expiration[a], now + Period}
  BY <1>1 DEF P!AddSubscriber, P!PublisherStorage
<1>5. ASSUME NEW s \in Accounts, NEW a \in Accounts
      PROVE  LET t == P!RemoveSubscriber(publisher[p], s, now)
             IN  t.expiration[a] = publisher[p].expiration[a] \/ a \notin t.subscribers
  BY <1>1 DEF P!RemoveSubscriber, P!PublisherStorage
<1>6. HasCode(publisher'[p])
  <2>1. /\ \A c \in Costs : HasCode(P!UpdateProfile(publisher[p], c))
        /\ \A s \in Accounts : HasCode(P!AddSubscriber(publisher[p], s, now))
        /\ \A s \in Accounts : HasCode(P!RemoveSubscriber(publisher[p], s, now))
        /\ \A k \in Contents : HasCode(P!CreateContent(publisher[p], k))
    BY <1>1, UpdateProfileType, AddSubscriberType, RemoveSubscriberType, PublishType,
       NoStorageTypes, NumberAssumption
  <2> HIDE DEF HasCode
  <2> QED
    BY <2>1, PublisherStep DEF Updated, Added, Removed, Published
<1> QED
  BY <1>2, <1>3, <1>4, <1>5, <1>6, PublisherStep DEF Updated, Added, Removed, Published

LEMMA TimePasses == TypeInv /\ [Next]_vars => now' = now \/ now' = now + 1
  BY ContractSteps DEF ContractStep, OnlyProfiles, Tick, SignsUp, Reprices, Joins, Leaves,
     Turns, Makes, Withdraws, WithdrawEarnings, Buys

(* Who loses access had it by a subscription that ends here.               *)
LEMMA AccessStep ==
  ASSUME TypeInv, PagesAgreeOnSubscription, [Next]_vars, NEW a \in Accounts, NEW k \in Contents,
         HasCode(content[k]), CanView(a, k), ~CanView(a, k)'
  PROVE  LET p == content[k].ownerId
         IN  /\ content[k].price # 0 /\ a \notin content[k].whitelist
             /\ \/ publisher[p].expiration[a] = now'
                \/ a \in publisher[p].subscribers \ publisher'[p].subscribers
<1> DEFINE p == content[k].ownerId
<1>1. /\ content'[k].ownerId = p
      /\ content'[k].price = content[k].price
      /\ content[k].whitelist \subseteq content'[k].whitelist
  BY ContentEvolves DEF ContentKept
<1>2. content[k].price # 0 /\ a \notin content[k].whitelist
  BY <1>1 DEF CanView
<1>3. publisher[p].expiration[a] > now /\ ~(publisher'[p].expiration[a] > now')
  BY <1>1, <1>2 DEF CanView
<1>4. p \in Publishers /\ HasCode(publisher[p]) /\ publisher[p] \in P!PublisherStorage
  BY StorageType DEF TypeInv, Linked
<1>5. a \in publisher[p].subscribers
  BY <1>3, <1>4 DEF PagesAgreeOnSubscription, P!IsSubscribed
<1>6. CASE a \notin publisher'[p].subscribers
  BY <1>2, <1>5, <1>6
<1>7. CASE a \in publisher'[p].subscribers
  <2>1. now \in Nat /\ publisher[p].expiration[a] \in Nat
    BY <1>4, NumberAssumption DEF TypeInv, TypeOK, P!PublisherStorage
  <2>2. publisher'[p].expiration[a] \in {publisher[p].expiration[a], now + Period}
    BY <1>4, <1>7, PublisherEvolves DEF PublisherKept
  <2>3. now' = now \/ now' = now + 1
    BY TimePasses
  <2>4. now + Period > now
    BY <2>1, NumberAssumption
  <2>5. CASE now' = now
    BY <1>3, <2>1, <2>2, <2>4, <2>5
  <2>6. CASE now' = now + 1
    <3>1. publisher'[p] = publisher[p]
      BY <2>1, <2>6, ContractSteps
      DEF ContractStep, OnlyProfiles, Tick, SignsUp, Reprices, Joins, Leaves, Turns, Makes,
          Withdraws, WithdrawEarnings, Buys
    <3> QED
      BY <1>2, <1>3, <2>1, <2>6, <3>1
  <2> QED
    BY <2>3, <2>5, <2>6
<1> QED
  BY <1>6, <1>7

-----------------------------------------------------------------------------
(* An expiration ahead goes with the flag.                                 *)
FlagOK(s, t) == \A a \in Accounts : s.expiration[a] > t => a \in s.subscribers

LEMMA FlagsOK ==
  ASSUME NEW s \in P!PublisherStorage, NEW t \in Nat, FlagOK(s, t)
  PROVE  /\ \A v \in Nat : FlagOK(P!UpdateProfile(s, v), t)
         /\ \A k \in Contents : FlagOK(P!CreateContent(s, k), t)
         /\ \A a \in Accounts : FlagOK(P!AddSubscriber(s, a, t), t)
         /\ \A a \in Accounts : FlagOK(P!RemoveSubscriber(s, a, t), t)
<1>1. \A v \in Nat : FlagOK(P!UpdateProfile(s, v), t)
  BY DEF FlagOK, P!UpdateProfile, P!PublisherStorage
<1>2. \A k \in Contents : FlagOK(P!CreateContent(s, k), t)
  BY DEF FlagOK, P!CreateContent, P!PublisherStorage
<1>3. \A a \in Accounts : FlagOK(P!AddSubscriber(s, a, t), t)
  BY DEF FlagOK, P!AddSubscriber, P!PublisherStorage
<1>4. \A a \in Accounts : FlagOK(P!RemoveSubscriber(s, a, t), t)
  BY DEF FlagOK, P!RemoveSubscriber, P!PublisherStorage
<1> QED
  BY <1>1, <1>2, <1>3, <1>4

LEMMA PagesAgreeStep ==
  TypeInv /\ PagesAgreeOnSubscription /\ [Next]_vars => PagesAgreeOnSubscription'
<1> SUFFICES ASSUME TypeInv, PagesAgreeOnSubscription, [Next]_vars, NEW p \in Publishers,
                    HasCode(publisher'[p])
             PROVE  FlagOK(publisher'[p], now')
  BY DEF PagesAgreeOnSubscription, P!IsSubscribed, FlagOK
<1> USE StorageType, NumberAssumption DEF TypeInv
<1>1. now \in Nat /\ now' \in Nat /\ now' >= now
  BY TypeNext, TimePasses DEF TypeOK
<1>2. publisher'[p] \in P!PublisherStorage
  BY TypeNext DEF TypeOK, HasCode
<1>3. FlagOK(publisher'[p], now)
  <2>1. ASSUME NEW c \in Costs, publisher'[p] = P!NewPublisher(c)
        PROVE  FlagOK(publisher'[p], now)
    <3>1. \A a \in Accounts : P!NewPublisher(c).expiration[a] = 0
      BY DEF P!NewPublisher
    <3> QED
      BY <1>1, <2>1, <3>1 DEF FlagOK
  <2>2. CASE HasCode(publisher[p])
    <3>1. FlagOK(publisher[p], now) /\ publisher[p] \in P!PublisherStorage
      BY <2>2 DEF PagesAgreeOnSubscription, P!IsSubscribed, FlagOK
    <3>2. \A c \in Costs : c \in Nat
      OBVIOUS
    <3> QED
      BY <1>1, <2>1, <2>2, <3>1, <3>2, PublisherStep, FlagsOK
      DEF Updated, Added, Removed, Published
  <2> QED
    BY <2>1, <2>2, PublisherStep
<1> QED
  BY <1>1, <1>2, <1>3 DEF FlagOK, P!PublisherStorage

LEMMA PagesAgreeInit == Init => PagesAgreeOnSubscription
  BY NoStorageTypes DEF Init, PagesAgreeOnSubscription

(* The content page and Publisher.isSubscribed give the same answer        *)
(* (Publisher.sol:80-86, content/[id].js:55).                              *)
THEOREM PagesAlwaysAgree == Spec => []PagesAgreeOnSubscription
<1> QED
  BY PagesAgreeInit, TypeInit, TypeNext, PagesAgreeStep, PTL DEF Spec

(* Free and bought contents stay one's to see for good, and a subscription *)
(* gives access until it expires or is removed (Publisher.sol:93-114,      *)
(* Content.sol:64-68).                                                     *)
THEOREM AccessIsLasting == Spec => AccessLasts
<1>1. TypeInv /\ PagesAgreeOnSubscription /\ [Next]_vars =>
        [\A a \in Accounts, k \in Contents :
            HasCode(content[k]) /\ CanView(a, k) /\ ~CanView(a, k)' =>
              LET p == content[k].ownerId
              IN  /\ content[k].price # 0 /\ a \notin content[k].whitelist
                  /\ \/ publisher[p].expiration[a] = now'
                     \/ a \in publisher[p].subscribers \ publisher'[p].subscribers]_vars
  BY AccessStep
<1> QED
  BY <1>1, TypeInit, TypeNext, PagesAgreeInit, PagesAgreeStep, PTL DEF Spec, AccessLasts

-----------------------------------------------------------------------------
(* Only a withdrawal lowers what a content has.                            *)
LEMMA ContentsGain ==
  ASSUME TypeInv, [Next]_vars, NEW k \in Contents, ~Withdraws(k)
  PROVE  wei'[k] >= wei[k]
<1> USE AddressAssumption, NumberAssumption DEF TypeInv
<1>1. /\ GatewayAddr \in Addresses /\ Publishers \subseteq Addresses
      /\ Contents \subseteq Addresses /\ Accounts \subseteq Addresses
  BY DEF Addresses
<1>2. \A x \in Addresses : wei[x] \in Nat
  BY DEF TypeOK
<1>3. ASSUME NEW a \in Accounts, NEW x \in Addresses, Sends(a, x) PROVE wei'[k] >= wei[k]
  BY <1>1, <1>2, <1>3, PayType DEF Sends
<1>4. ASSUME NEW p \in Publishers, Empties(p) PROVE wei'[k] >= wei[k]
  <2>1. PICK a \in Accounts, x \in {p, GatewayAddr}, v \in Prices, to \in Addresses :
           PayThenEmpty(a, x, v, p, to)
    BY <1>4 DEF Empties
  <2>0. a \in Addresses /\ x \in Addresses /\ v \in Nat /\ p \in Addresses
    BY <1>1
  <2> DEFINE paid == Transfer(wei, a, x, v)
  <2>2. /\ paid \in [Addresses -> Nat]
        /\ \A y \in Addresses : paid[y] =
              wei[y] - (IF y = a THEN v ELSE 0) + (IF y = x THEN v ELSE 0)
        /\ \A y \in Addresses : wei'[y] =
              paid[y] - (IF y = p THEN paid[p] ELSE 0) + (IF y = to THEN paid[p] ELSE 0)
    BY <2>1, <2>0, PayThenEmptyType
  <2> HIDE DEF paid
  <2>3. paid[k] = wei[k] /\ k # p /\ k \in Addresses /\ paid[p] \in Nat
    BY <1>1, <1>2, <2>2
  <2> QED
    BY <1>2, <2>2, <2>3
<1>5. ASSUME NEW l \in Contents, Withdraws(l) PROVE wei'[k] >= wei[k]
  <2>1. PICK v \in Prices : WithdrawEarnings(l, v)
    BY <1>5 DEF Withdraws
  <2>2. k # l /\ content[l].ownerId \in Publishers
    BY <1>5, <2>1, StorageType DEF WithdrawEarnings
  <2> QED
    BY <1>1, <1>2, <2>1, <2>2, PayType DEF WithdrawEarnings
<1> QED
  BY <1>1, <1>2, <1>3, <1>4, <1>5, EtherMoves

LEMMA EarningsNext == TypeInv /\ EarningsBacked /\ [Next]_vars => EarningsBacked'
<1> SUFFICES ASSUME TypeInv, EarningsBacked, [Next]_vars,
                    NEW k \in Contents, HasCode(content'[k])
             PROVE  content'[k].earnings <= wei'[k]
  BY DEF EarningsBacked, HasCode
<1> USE AddressAssumption, NumberAssumption, NoStorageTypes, StorageType DEF TypeInv
<1>1. k \in Addresses /\ wei[k] \in Nat /\ wei'[k] \in Nat
  BY BalancesNext DEF TypeOK, Addresses
<1>2. HasCode(content[k]) =>
        content[k] \in C!ContentStorage /\ content[k].earnings \in Nat
          /\ content[k].earnings <= wei[k]
  BY DEF EarningsBacked, C!ContentStorage
<1>3. CASE ~Withdraws(k) /\ content'[k] = content[k]
  BY <1>1, <1>2, <1>3, ContentsGain
<1>4. CASE Withdraws(k)
  <2>1. PICK v \in Prices : WithdrawEarnings(k, v)
    BY <1>4 DEF Withdraws
  <2>2. content[k].ownerId \in Publishers /\ HasCode(content[k]) /\ v <= content[k].earnings
    BY <2>1 DEF WithdrawEarnings, C!WithdrawEarningsOK
  <2>3. wei'[k] = wei[k] - v
    BY <1>1, <2>1, <2>2, PayType DEF WithdrawEarnings, Addresses
  <2>4. content'[k].earnings = content[k].earnings - v
    BY <1>2, <2>1, <2>2 DEF WithdrawEarnings, C!WithdrawEarnings, C!ContentStorage, TypeOK
  <2> QED
    BY <1>1, <1>2, <2>2, <2>3, <2>4
<1>5. ASSUME NEW b \in Accounts, NEW l \in Contents, Buys(b, l), ~Withdraws(k)
      PROVE  content'[k].earnings <= wei'[k]
  <2>1. PICK w \in Nat : /\ w = 0 \/ \E a \in Accounts : Pay(a, l, w)
                         /\ content' = [content EXCEPT ![l] = C!PurchaseContent(@, b, w)]
    BY <1>5 DEF Buys
  <2>2. CASE k # l
    BY <1>3, <1>5, <2>1, <2>2 DEF TypeOK
  <2>3. CASE k = l
    <3>0. HasCode(content[k]) /\ content'[k] = C!PurchaseContent(content[k], b, w)
      BY <1>5, <2>1, <2>3 DEF Buys, TypeOK
    <3>1. HasCode(content[k]) /\ content'[k].earnings = content[k].earnings + w
      BY <1>2, <3>0 DEF C!PurchaseContent, C!ContentStorage
    <3>2. CASE w = 0
      BY <1>1, <1>2, <1>5, <3>1, <3>2, ContentsGain
    <3>3. ASSUME NEW a \in Accounts, Pay(a, k, w) PROVE wei'[k] = wei[k] + w
      BY <1>1, <3>3, PayType DEF Addresses
    <3> QED
      BY <1>1, <1>2, <2>1, <2>3, <3>1, <3>2, <3>3
  <2> QED
    BY <2>2, <2>3
<1>6. ASSUME NEW p \in Publishers, NEW l \in Contents, Makes(p, l), ~Withdraws(k)
      PROVE  content'[k].earnings <= wei'[k]
  <2>1. PICK b \in Accounts, v \in Prices : content' = [content EXCEPT ![l] = C!NewContent(p, b, v)]
    BY <1>6 DEF Makes, NewContentContract
  <2>2. CASE k # l
    BY <1>3, <1>6, <2>1, <2>2 DEF TypeOK
  <2>3. CASE k = l
    BY <1>1, <2>1, <2>3 DEF C!NewContent, TypeOK
  <2> QED
    BY <2>2, <2>3
<1>7. ASSUME NEW l \in Contents, l # k, Withdraws(l), ~Withdraws(k)
      PROVE  content'[k].earnings <= wei'[k]
  BY <1>3, <1>7 DEF Withdraws, WithdrawEarnings, TypeOK
<1> QED
  BY <1>3, <1>4, <1>5, <1>6, <1>7, ContractSteps
  DEF ContractStep, OnlyProfiles, Tick, SignsUp, Reprices, Joins, Leaves, Turns

(* A content contract can pay out its earnings.                            *)
THEOREM EarningsAreBacked == Spec => []EarningsBacked
<1>1. Init => EarningsBacked
  BY NoStorageTypes DEF Init, EarningsBacked
<1> QED
  BY <1>1, TypeInit, TypeNext, EarningsNext, PTL DEF Spec

-----------------------------------------------------------------------------
(* Everything but publishing keeps the lists and what is on them.          *)
LEMMA ListsKept ==
  ASSUME TypeInv, [Next]_vars, ~Publishing
  PROVE  /\ contentContracts' = contentContracts
         /\ \A k \in Contents : HasCode(content'[k]) <=> HasCode(content[k])
         /\ \A p \in Publishers : HasCode(publisher[p]) =>
               publisher'[p].contentContracts = publisher[p].contentContracts
         /\ \A p \in Publishers : ~HasCode(publisher[p]) /\ HasCode(publisher'[p]) =>
               publisher'[p].contentContracts = {}
<1> USE DEF TypeInv, TypeOK
<1>1. contentContracts' = contentContracts
  BY ContractSteps DEF ContractStep, Publishing, OnlyProfiles, Tick, SignsUp, Reprices,
     Joins, Leaves, Turns, Withdraws, WithdrawEarnings, Buys
<1>2. \A k \in Contents : HasCode(content'[k]) <=> HasCode(content[k])
  <2>1. \A k \in Contents : HasCode(content[k]) => HasCode(content'[k])
    BY ContentEvolves DEF ContentKept
  <2>2. \A k \in Contents : content'[k] = content[k] \/ HasCode(content[k])
    BY ContractSteps DEF ContractStep, Publishing, OnlyProfiles, Tick, SignsUp, Reprices,
       Joins, Leaves, Turns, Withdraws, WithdrawEarnings, Buys
  <2> QED
    BY <2>1, <2>2
<1>3. ASSUME NEW p \in Publishers, HasCode(publisher[p])
      PROVE  publisher'[p].contentContracts = publisher[p].contentContracts
  <2>1. publisher[p] \in P!PublisherStorage
    BY <1>3, StorageType
  <2>2. publisher'[p] = publisher[p] \/ Updated(p) \/ Added(p) \/ Removed(p)
    BY <1>3, PublisherStep DEF Published
  <2> QED
    BY <2>1, <2>2 DEF Updated, Added, Removed, P!UpdateProfile, P!AddSubscriber,
       P!RemoveSubscriber, P!PublisherStorage
<1>4. ASSUME NEW p \in Publishers, ~HasCode(publisher[p]), HasCode(publisher'[p])
      PROVE  publisher'[p].contentContracts = {}
  <2>1. \E c \in Costs : publisher'[p] = P!NewPublisher(c)
    BY <1>4, PublisherStep DEF HasCode
  <2> QED
    BY <2>1 DEF P!NewPublisher
<1> QED
  BY <1>1, <1>2, <1>3, <1>4

LEMMA RegistriesStep == TypeInv /\ RegistriesAgree /\ [Next]_vars => RegistriesAgree'
<1> SUFFICES ASSUME TypeInv, RegistriesAgree, [Next]_vars PROVE RegistriesAgree'
  OBVIOUS
<1> USE NoStorageTypes, StorageType DEF TypeInv
<1>1. \A k \in contentContracts : k \in Contents
  BY DEF TypeOK
<1>2. CASE ~Publishing
  <2>1. \A k \in contentContracts' : HasCode(content'[k])
    BY <1>1, <1>2, ListsKept DEF RegistriesAgree
  <2>2. ASSUME NEW k \in Contents, NEW p \in Publishers, HasCode(publisher'[p])
        PROVE  k \in publisher'[p].contentContracts <=>
                 HasCode(content'[k]) /\ content'[k].ownerId = p
    <3>1. HasCode(content[k]) => content'[k].ownerId = content[k].ownerId
      BY ContentEvolves DEF ContentKept
    <3>2. CASE HasCode(publisher[p])
      BY <1>2, <3>1, <3>2, ListsKept DEF RegistriesAgree
    <3>3. CASE ~HasCode(publisher[p])
      <4>1. HasCode(content[k]) => content[k].ownerId # p
        BY <3>3 DEF Linked
      <4>2. publisher'[p].contentContracts = {}
        BY <1>2, <2>2, <3>3, ListsKept
      <4> QED
        BY <1>2, <3>1, <4>1, <4>2, ListsKept
    <3> QED
      BY <3>2, <3>3
  <2> QED
    BY <2>1, <2>2 DEF RegistriesAgree, HasCode
<1>3. ASSUME NEW q \in Publishers, NEW k \in Contents, Makes(q, k) PROVE RegistriesAgree'
  <2>1. PICK b \in Accounts, v \in Prices :
           /\ HasCode(publisher[q]) /\ content[k] = NoStorage
           /\ content' = [content EXCEPT ![k] = C!NewContent(q, b, v)]
           /\ publisher' = [publisher EXCEPT ![q] = P!CreateContent(@, k)]
           /\ contentContracts' \in {contentContracts, contentContracts \cup {k}}
    BY <1>3 DEF Makes, NewContentContract
  <2>2. publisher[q] \in P!PublisherStorage
    BY <2>1
  <2>3. v \in Nat
    BY NumberAssumption
  <2>4. HasCode(content'[k]) /\ content'[k].ownerId = q
    BY <2>1, <2>3, NewContentType DEF TypeOK, C!NewContent
  <2>5. P!CreateContent(publisher[q], k).contentContracts =
          publisher[q].contentContracts \cup {k}
    BY <2>2 DEF P!CreateContent, P!PublisherStorage
  <2>6. \A l \in Contents : l # k => content'[l] = content[l]
    BY <2>1 DEF TypeOK
  <2>7. \A p \in Publishers : HasCode(publisher'[p]) =>
           /\ HasCode(publisher[p])
           /\ p # q => publisher'[p].contentContracts = publisher[p].contentContracts
           /\ p = q => publisher'[p].contentContracts = publisher[p].contentContracts \cup {k}
    BY <2>1, <2>5 DEF TypeOK
  <2>8. ~HasCode(content[k])
    BY <2>1
  <2>9. ASSUME NEW l \in Contents, NEW p \in Publishers, HasCode(publisher'[p])
        PROVE  l \in publisher'[p].contentContracts <=>
                 HasCode(content'[l]) /\ content'[l].ownerId = p
    <3>1. CASE l = k
      BY <2>4, <2>7, <2>8, <2>9, <3>1 DEF RegistriesAgree
    <3>2. CASE l # k
      BY <2>6, <2>7, <2>9, <3>2 DEF RegistriesAgree
    <3> QED
      BY <3>1, <3>2
  <2>10. \A l \in contentContracts' : HasCode(content'[l])
    BY <1>1, <2>1, <2>4, <2>6 DEF RegistriesAgree
  <2> QED
    BY <2>9, <2>10 DEF RegistriesAgree, HasCode
<1> QED
  BY <1>2, <1>3 DEF Publishing

(* A publisher's list is of its own contents and of all of them, and the   *)
(* Gateway's of contents that exist, however publishers are replaced and   *)
(* contents made (Gateway.sol:125-126, Publisher.sol:135-136).             *)
THEOREM RegistriesAlwaysAgree == Spec => []RegistriesAgree
<1>1. Init => RegistriesAgree
  BY NoStorageTypes DEF Init, RegistriesAgree
<1> QED
  BY <1>1, TypeInit, TypeNext, RegistriesStep, PTL DEF Spec

-----------------------------------------------------------------------------
(* What the paywall promises of its contracts, wherever it is used.        *)
PaywallInv == EarningsBacked /\ PagesAgreeOnSubscription /\ RegistriesAgree

LEMMA PaywallNext == TypeInv /\ PaywallInv /\ [Next]_vars => PaywallInv'
  BY EarningsNext, PagesAgreeStep, RegistriesStep DEF PaywallInv

-----------------------------------------------------------------------------
LEMMA EtherStep == TypeInv /\ [Next]_vars => ContentPays /\ PublisherPays /\ GatewayKeeps
<1> SUFFICES ASSUME TypeInv, [Next]_vars PROVE ContentPays /\ PublisherPays /\ GatewayKeeps
  OBVIOUS
<1> USE AddressAssumption, NumberAssumption DEF TypeInv
<1>1. /\ GatewayAddr \in Addresses /\ Publishers \subseteq Addresses
      /\ Contents \subseteq Addresses /\ Accounts \subseteq Addresses
  BY DEF Addresses
<1>2. \A x \in Addresses : wei[x] \in Nat
  BY DEF TypeOK
<1>3. \A x \in Addresses : wei'[x] \in Nat
  BY BalancesNext
<1>4. ContentPays
  <2> SUFFICES ASSUME NEW k \in Contents, wei'[k] < wei[k]
               PROVE  /\ HasCode(content[k])
                      /\ \E d \in 1..wei[k] :
                            /\ wei'[k] = wei[k] - d
                            /\ wei'[content[k].ownerId] = wei[content[k].ownerId] + d
                            /\ content'[k].earnings = content[k].earnings - d
    BY DEF ContentPays
  <2>1. Withdraws(k)
    BY <1>1, <1>2, <1>3, ContentsGain
  <2>2. PICK v \in Prices : WithdrawEarnings(k, v)
    BY <2>1 DEF Withdraws
  <2>3. /\ HasCode(content[k]) /\ content[k] \in C!ContentStorage
        /\ content[k].ownerId \in Publishers
    BY <2>2, StorageType DEF WithdrawEarnings
  <2>4. /\ wei'[k] = wei[k] - v
        /\ wei'[content[k].ownerId] = wei[content[k].ownerId] + v
    BY <1>1, <1>2, <2>2, <2>3, PayType DEF WithdrawEarnings
  <2>5. content'[k].earnings = content[k].earnings - v
    BY <2>2, <2>3 DEF WithdrawEarnings, C!WithdrawEarnings, C!ContentStorage, TypeOK
  <2>6. v \in 1..wei[k]
    BY <1>1, <1>2, <1>3, <2>4
  <2> QED
    BY <2>3, <2>4, <2>5, <2>6
<1>5. ASSUME NEW a \in Accounts, NEW x \in Addresses, Sends(a, x)
      PROVE  \A y \in Addresses \ Accounts : wei'[y] >= wei[y]
  BY <1>1, <1>2, <1>5, PayType DEF Sends
<1>6. ASSUME NEW k \in Contents, Withdraws(k)
      PROVE  \A y \in Addresses \ Contents : wei'[y] >= wei[y]
  <2>1. PICK v \in Prices : WithdrawEarnings(k, v) /\ v \in Nat
    BY <1>6 DEF Withdraws
  <2>2. content[k].ownerId \in Publishers
    BY <2>1, StorageType DEF WithdrawEarnings
  <2> QED
    BY <1>1, <1>2, <2>1, <2>2, PayType DEF WithdrawEarnings
<1>7. ASSUME NEW p \in Publishers, Empties(p)
      PROVE  /\ wei'[GatewayAddr] >= wei[GatewayAddr]
             /\ \A q \in Publishers \ {p} : wei'[q] >= wei[q]
             /\ wei'[p] < wei[p] =>
                  /\ wei'[p] = 0
                  /\ \E y \in Addresses \ {GatewayAddr} :
                        wei'[y] + wei'[GatewayAddr] >= wei[y] + wei[GatewayAddr] + wei[p]
  <2>1. PICK a \in Accounts, x \in {p, GatewayAddr}, v \in Prices, to \in Addresses :
           PayThenEmpty(a, x, v, p, to)
    BY <1>7 DEF Empties
  <2>0. a \in Addresses /\ x \in Addresses /\ v \in Nat /\ p \in Addresses
    BY <1>1
  <2> DEFINE paid == Transfer(wei, a, x, v)
  <2>2. /\ paid \in [Addresses -> Nat]
        /\ \A y \in Addresses : paid[y] =
              wei[y] - (IF y = a THEN v ELSE 0) + (IF y = x THEN v ELSE 0)
        /\ \A y \in Addresses : wei'[y] =
              paid[y] - (IF y = p THEN paid[p] ELSE 0) + (IF y = to THEN paid[p] ELSE 0)
    BY <2>1, <2>0, PayThenEmptyType
  <2> HIDE DEF paid
  <2>3. v \in Nat /\ paid[p] \in Nat /\ a # p /\ a # GatewayAddr /\ p # GatewayAddr
    BY <1>1, <2>2
  <2>4. \A y \in Addresses \ {a} : paid[y] >= wei[y]
    BY <1>1, <1>2, <2>2, <2>3
  <2>5. \A y \in Addresses \ {a, p} : wei'[y] >= wei[y]
    BY <1>1, <1>2, <1>3, <2>2, <2>3, <2>4
  <2>6. ASSUME wei'[p] < wei[p]
        PROVE  /\ wei'[p] = 0
               /\ \E y \in Addresses \ {GatewayAddr} :
                     wei'[y] + wei'[GatewayAddr] >= wei[y] + wei[GatewayAddr] + wei[p]
    <3>1. to # p
      BY <1>1, <1>2, <2>2, <2>3, <2>4, <2>6
    <3>2. wei'[p] = 0
      BY <1>1, <2>2, <2>3, <3>1
    <3>3. CASE to # GatewayAddr
      BY <1>1, <1>2, <2>2, <2>3, <3>1, <3>3
    <3>4. CASE to = GatewayAddr
      <4>1. wei'[a] + wei'[GatewayAddr] >= wei[a] + wei[GatewayAddr] + wei[p]
        BY <1>1, <1>2, <2>2, <2>3, <3>1, <3>4
      <4> QED
        BY <1>1, <2>3, <3>2, <4>1
    <3> QED
      BY <3>2, <3>3, <3>4
  <2> QED
    BY <1>1, <2>3, <2>5, <2>6
<1>8. PublisherPays /\ GatewayKeeps
  <2>1. CASE \A y \in Publishers \cup {GatewayAddr} : wei'[y] >= wei[y]
    BY <1>1, <1>2, <1>3, <2>1 DEF PublisherPays, GatewayKeeps
  <2>2. ASSUME NEW p \in Publishers, Empties(p) PROVE PublisherPays /\ GatewayKeeps
    <3>1. \A q \in Publishers \ {p} : ~(wei'[q] < wei[q])
      BY <1>1, <1>2, <1>3, <1>7, <2>2
    <3> QED
      BY <1>7, <2>2, <3>1 DEF PublisherPays, GatewayKeeps
  <2>3. CASE wei' = wei
    BY <1>1, <1>2, <2>1, <2>3
  <2> QED
    BY <1>1, <1>5, <1>6, <2>1, <2>2, <2>3, EtherMoves
<1> QED
  BY <1>4, <1>8

(* Whoever calls what: ether leaves a content only for its publisher and   *)
(* only out of what the books say, a publisher only whole, to one address, *)
(* and the Gateway never (Gateway.sol:58-61, 71-75, 113-115,               *)
(* Publisher.sol:120-123, Content.sol:70-74).                              *)
THEOREM WhereEtherGoes == Spec => EtherLeaves
<1> QED
  BY TypeInit, TypeNext, EtherStep, PTL DEF Spec, EtherLeaves

-----------------------------------------------------------------------------
(* Whose the publisher contracts are.                                      *)

OwnPublishers ==
    \A a, b \in Accounts :
        a # b /\ publisherContract[a] # Null => publisherContract[a] # publisherContract[b]

(* Replaced by another sign-up of the account that had it.                 *)
Abandoned(p) == HasCode(publisher[p]) /\ \A a \in Accounts : publisherContract[a] # p

AbandonedStays == \A p \in Publishers : Abandoned(p) => Abandoned(p)'

AbandonedForGood == [][AbandonedStays]_vars

LEMMA PublishersStep ==
  TypeInv /\ OwnPublishers /\ [Next]_vars => OwnPublishers' /\ AbandonedStays
<1> SUFFICES ASSUME TypeInv, OwnPublishers, [Next]_vars
             PROVE  OwnPublishers' /\ AbandonedStays
  OBVIOUS
<1>1. \/ publisherContract' = publisherContract
      \/ \E a \in Accounts, p \in Publishers : SignsUp(a, p)
  BY ContractSteps DEF ContractStep, OnlyProfiles, Tick, Reprices, Joins, Leaves, Turns,
     Makes, Withdraws, WithdrawEarnings, Buys
<1>2. ASSUME NEW a \in Accounts, NEW p \in Publishers, SignsUp(a, p)
      PROVE  /\ publisherContract'[a] = p /\ ~HasCode(publisher[p])
             /\ \A b \in Accounts : b # a => publisherContract'[b] = publisherContract[b]
             /\ \A b \in Accounts : publisherContract[b] # p
  BY <1>2, AddressAssumption DEF SignsUp, TypeInv, TypeOK, Linked, HasCode
<1>3. OwnPublishers'
  BY <1>1, <1>2 DEF OwnPublishers
<1>4. ASSUME NEW p \in Publishers, Abandoned(p) PROVE Abandoned(p)'
  <2>1. HasCode(publisher'[p])
    BY <1>4, PublisherEvolves DEF Abandoned, PublisherKept
  <2>2. \A a \in Accounts : publisherContract'[a] # p
    BY <1>1, <1>2, <1>4 DEF Abandoned
  <2> QED
    BY <2>1, <2>2 DEF Abandoned
<1> QED
  BY <1>3, <1>4 DEF AbandonedStays

(* No two accounts have one publisher contract, and one that its account   *)
(* has replaced is no account's from then on: the Gateway's calls by       *)
(* account never reach it again (Gateway.sol:71-75, 87-90, 107-115).       *)
THEOREM PublishersAreOwned == Spec => []OwnPublishers /\ AbandonedForGood
<1>1. Init => OwnPublishers
  BY DEF Init, OwnPublishers
<1> QED
  BY <1>1, TypeInit, TypeNext, PublishersStep, PTL DEF Spec, AbandonedForGood

-----------------------------------------------------------------------------
(* The contracts implement the promise of access.                          *)

LEMMA AccessInit == Init => A!Init
  BY NoStorageTypes DEF Init, A!Init, Seller, Free, Whitelisted, Until

(* The reader's view in the promise is the test of the content page.       *)
LEMMA ViewsAgree ==
  ASSUME TypeInv, NEW a \in Accounts, NEW k \in Contents, HasCode(content[k])
  PROVE  CanView(a, k) <=> A!MayView(a, k)
<1>1. content[k].ownerId \in Publishers /\ HasCode(publisher[content[k].ownerId])
  BY StorageType DEF TypeInv, Linked
<1> QED
  BY <1>1 DEF CanView, A!MayView, Free, Whitelisted, Seller, Until

LEMMA SameContents == content' = content => UNCHANGED <<Seller, Free, Whitelisted>>
  BY DEF Seller, Free, Whitelisted

LEMMA SamePublishers == publisher' = publisher => Until' = Until
  BY DEF Until

(* One publisher's expirations change, or none do.                         *)
LEMMA UntilStep ==
  ASSUME TypeInv, NEW p \in Publishers, NEW s, HasCode(s),
         publisher' = [publisher EXCEPT ![p] = s]
  PROVE  Until' = [Until EXCEPT ![p] = s.expiration]
  BY DEF TypeInv, TypeOK, Until

LEMMA UntilKept ==
  ASSUME TypeInv, NEW p \in Publishers, NEW s, HasCode(s),
         publisher' = [publisher EXCEPT ![p] = s], s.expiration = Until[p]
  PROVE  Until' = Until
<1>1. Until = [Until EXCEPT ![p] = Until[p]]
  BY DEF Until
<1> QED
  BY <1>1, UntilStep

LEMMA UntilIs ==
  ASSUME NEW p \in Publishers, HasCode(publisher[p])
  PROVE  Until[p] = publisher[p].expiration
  BY DEF Until

(* An account is added to, or removed from, a publisher's subscribers.     *)
LEMMA SubscribeStep ==
  ASSUME TypeInv, NEW a \in Accounts, NEW p \in Publishers, Joins(a, p)
  PROVE  A!Subscribe(a, p)
<1>0. /\ HasCode(publisher[p])
      /\ publisher' = [publisher EXCEPT ![p] = P!AddSubscriber(@, a, now)]
      /\ content' = content /\ now' = now
  BY DEF Joins, Turns
<1>1. publisher[p] \in P!PublisherStorage /\ now \in Nat
  BY <1>0, StorageType, NumberAssumption DEF TypeInv, TypeOK
<1>2. HasCode(P!AddSubscriber(publisher[p], a, now))
  BY <1>1, AddSubscriberType, NoStorageTypes
<1>3. P!AddSubscriber(publisher[p], a, now).expiration
        = [publisher[p].expiration EXCEPT ![a] = now + Period]
  BY <1>1 DEF P!AddSubscriber, P!PublisherStorage
<1>4. Until' = [Until EXCEPT ![p] = [publisher[p].expiration EXCEPT ![a] = now + Period]]
  BY <1>0, <1>2, <1>3, UntilStep
<1>5. Until' = [Until EXCEPT ![p][a] = now + Period]
  BY <1>0, <1>4, UntilIs
<1> QED
  BY <1>0, <1>5, SameContents DEF A!Subscribe

LEMMA CancelStep ==
  ASSUME TypeInv, NEW s \in Accounts, NEW p \in Publishers, Leaves(s, p)
  PROVE  A!Cancel(s, p)
<1>1. /\ HasCode(publisher[p])
      /\ publisher' = [publisher EXCEPT ![p] = P!RemoveSubscriber(@, s, now)]
      /\ content' = content /\ now' = now
  BY DEF Leaves, Turns
<1>2. publisher[p] \in P!PublisherStorage /\ now \in Nat
  BY <1>1, StorageType, NumberAssumption DEF TypeInv, TypeOK
<1>3. HasCode(P!RemoveSubscriber(publisher[p], s, now))
  BY <1>2, RemoveSubscriberType, NoStorageTypes
<1>4. P!RemoveSubscriber(publisher[p], s, now).expiration
        = [publisher[p].expiration EXCEPT ![s] = now]
  BY <1>2 DEF P!RemoveSubscriber, P!PublisherStorage
<1>5. Until' = [Until EXCEPT ![p] = [publisher[p].expiration EXCEPT ![s] = now]]
  BY <1>1, <1>3, <1>4, UntilStep
<1>6. Until' = [Until EXCEPT ![p][s] = now]
  BY <1>1, <1>5, UntilIs
<1> QED
  BY <1>1, <1>6, SameContents DEF A!Cancel

(* A purchase puts one content on one account's list.                      *)
LEMMA BuyStep ==
  ASSUME TypeInv, NEW a \in Accounts, NEW k \in Contents, Buys(a, k)
  PROVE  A!Buy(a, k)
<1>0. PICK v \in Nat : /\ HasCode(content[k]) /\ publisher' = publisher /\ now' = now
                       /\ content' = [content EXCEPT ![k] = C!PurchaseContent(@, a, v)]
  BY DEF Buys
<1> DEFINE s == C!PurchaseContent(content[k], a, v)
<1>1. content[k] \in C!ContentStorage /\ content[k].ownerId \in Publishers
  BY <1>0, StorageType DEF TypeInv
<1>2. /\ HasCode(s) /\ s.ownerId = content[k].ownerId /\ s.price = content[k].price
      /\ s.whitelist = content[k].whitelist \cup {a}
  BY <1>1, PurchaseContentType, NoStorageTypes DEF C!PurchaseContent, C!ContentStorage
<1>3. content'[k] = s /\ \A l \in Contents \ {k} : content'[l] = content[l]
  BY <1>0 DEF TypeInv, TypeOK
<1> HIDE DEF s
<1>4. Seller' = Seller
  BY <1>0, <1>2, <1>3 DEF Seller
<1>5. Free' = Free
  BY <1>0, <1>2, <1>3 DEF Free
<1>6. A!Gets(a, k)
  <2>1. \A b \in Accounts : Whitelisted'[b] =
           IF b = a THEN Whitelisted[a] \cup {k} ELSE Whitelisted[b]
    BY <1>0, <1>2, <1>3 DEF Whitelisted
  <2>2. Whitelisted' = [Whitelisted EXCEPT ![a] = @ \cup {k}]
    BY <2>1 DEF Whitelisted
  <2> QED
    BY <2>2 DEF A!Gets
<1>7. Seller[k] # Null
  BY <1>0, <1>1, AddressAssumption DEF Seller
<1> QED
  BY <1>0, <1>4, <1>5, <1>6, <1>7, SamePublishers DEF A!Buy

LEMMA OfferStep ==
  ASSUME TypeInv, NEW p \in Publishers, NEW k \in Contents, Makes(p, k)
  PROVE  \E a \in Accounts : A!Offer(a, k, p)
<1>1. PICK a \in Accounts, v \in Prices :
         /\ HasCode(publisher[p]) /\ content[k] = NoStorage
         /\ content' = [content EXCEPT ![k] = C!NewContent(p, a, v)]
         /\ publisher' = [publisher EXCEPT ![p] = P!CreateContent(@, k)]
         /\ now' = now
  BY DEF Makes, NewContentContract
<1> DEFINE s == C!NewContent(p, a, v)
<1>2. /\ HasCode(s) /\ s.ownerId = p /\ s.price = v /\ s.whitelist = {a}
  BY NewContentType, NoStorageTypes, NumberAssumption DEF C!NewContent
<1>3. content'[k] = s /\ \A l \in Contents \ {k} : content'[l] = content[l]
  BY <1>1 DEF TypeInv, TypeOK
<1> HIDE DEF s
<1>4. ~HasCode(content[k])
  BY <1>1, NoStorageTypes
<1>5. Seller[k] = Null /\ Seller' = [Seller EXCEPT ![k] = p]
  BY <1>2, <1>3, <1>4 DEF Seller
<1>6. Free' \in {Free, Free \cup {k}}
  <2>1. CASE v = 0
    <3>1. Free' = Free \cup {k}
      BY <1>2, <1>3, <2>1 DEF Free
    <3> QED
      BY <3>1
  <2>2. CASE v # 0
    <3>1. Free' = Free
      BY <1>2, <1>3, <1>4, <2>2 DEF Free
    <3> QED
      BY <3>1
  <2> QED
    BY <2>1, <2>2
<1>7. A!Gets(a, k)
  <2>1. \A b \in Accounts : Whitelisted'[b] =
           IF b = a THEN Whitelisted[a] \cup {k} ELSE Whitelisted[b]
    BY <1>2, <1>3, <1>4 DEF Whitelisted
  <2>2. Whitelisted' = [Whitelisted EXCEPT ![a] = @ \cup {k}]
    BY <2>1 DEF Whitelisted
  <2> QED
    BY <2>2 DEF A!Gets
<1>8. Until' = Until
  <2>1. publisher[p] \in P!PublisherStorage
    BY <1>1, StorageType DEF TypeInv
  <2>2. /\ HasCode(P!CreateContent(publisher[p], k))
        /\ P!CreateContent(publisher[p], k).expiration = publisher[p].expiration
    BY <2>1, PublishType, NoStorageTypes DEF P!CreateContent, P!PublisherStorage
  <2> QED
    BY <1>1, <2>2, UntilIs, UntilKept
<1> QED
  BY <1>1, <1>5, <1>6, <1>7, <1>8 DEF A!Offer

LEMMA WithdrawStep ==
  ASSUME TypeInv, NEW k \in Contents, Withdraws(k)
  PROVE  UNCHANGED A!vars
<1>0. PICK v \in Prices : WithdrawEarnings(k, v)
  BY DEF Withdraws
<1>1. /\ content[k] \in C!ContentStorage /\ HasCode(content[k])
      /\ C!WithdrawEarningsOK(content[k], v) /\ v \in Nat
      /\ content' = [content EXCEPT ![k] = C!WithdrawEarnings(@, v)]
      /\ publisher' = publisher /\ now' = now
  BY <1>0, StorageType, NumberAssumption DEF WithdrawEarnings, TypeInv
<1> DEFINE s == C!WithdrawEarnings(content[k], v)
<1>2. /\ HasCode(s) /\ s.ownerId = content[k].ownerId /\ s.price = content[k].price
      /\ s.whitelist = content[k].whitelist
  BY <1>1, WithdrawEarningsType, NoStorageTypes DEF C!WithdrawEarnings, C!ContentStorage
<1>3. content'[k] = s /\ \A l \in Contents \ {k} : content'[l] = content[l]
  BY <1>1 DEF TypeInv, TypeOK
<1> HIDE DEF s
<1>4. Seller' = Seller /\ Free' = Free
  BY <1>1, <1>2, <1>3 DEF Seller, Free
<1>5. Whitelisted' = Whitelisted
  BY <1>1, <1>2, <1>3 DEF Whitelisted
<1> QED
  BY <1>1, <1>4, <1>5, SamePublishers DEF A!vars

(* A new publisher has no subscribers yet, and a new price none the less.  *)
LEMMA SignUpStep ==
  ASSUME TypeInv, NEW p \in Publishers, NEW a \in Accounts, SignsUp(a, p)
  PROVE  UNCHANGED A!vars
<1>1. PICK c \in Costs : publisher' = [publisher EXCEPT ![p] = P!NewPublisher(c)]
  BY DEF SignsUp
<1>2. HasCode(P!NewPublisher(c)) /\ P!NewPublisher(c).expiration = [b \in Accounts |-> 0]
  BY NewPublisherType, NoStorageTypes, NumberAssumption DEF P!NewPublisher
<1>3. Until[p] = [b \in Accounts |-> 0]
  BY NoStorageTypes DEF SignsUp, Until
<1> QED
  BY <1>1, <1>2, <1>3, UntilKept, SameContents DEF SignsUp, A!vars

LEMMA RepriceStep ==
  ASSUME TypeInv, NEW p \in Publishers, Reprices(p)
  PROVE  UNCHANGED A!vars
<1>1. PICK c \in Costs : Turns(p, P!UpdateProfile(publisher[p], c))
  BY DEF Reprices
<1>2. HasCode(publisher[p]) /\ publisher[p] \in P!PublisherStorage
  BY <1>1, StorageType DEF Turns, TypeInv
<1>3. /\ HasCode(P!UpdateProfile(publisher[p], c))
      /\ P!UpdateProfile(publisher[p], c).expiration = publisher[p].expiration
  BY <1>2, UpdateProfileType, NoStorageTypes, NumberAssumption
  DEF P!UpdateProfile, P!PublisherStorage
<1>4. Until' = Until
  BY <1>1, <1>2, <1>3, UntilIs, UntilKept DEF Turns
<1> QED
  BY <1>1, <1>4, SameContents DEF Turns, A!vars

LEMMA AccessRefines == TypeInv /\ [Next]_vars => [A!Next]_(A!vars)
<1> SUFFICES ASSUME TypeInv, [Next]_vars PROVE A!Next \/ UNCHANGED A!vars
  OBVIOUS
<1>1. CASE OnlyProfiles
  BY <1>1, SameContents, SamePublishers DEF OnlyProfiles, A!vars
<1>2. CASE Tick
  BY <1>2, SameContents, SamePublishers DEF Tick, A!Tick, A!Next
<1>3. ASSUME NEW p \in Publishers, NEW k \in Contents, Makes(p, k) PROVE A!Next
  BY <1>3, OfferStep DEF A!Next
<1>4. ASSUME NEW p \in Publishers, NEW a \in Accounts, Joins(a, p) \/ Leaves(a, p)
      PROVE  A!Next
  BY <1>4, SubscribeStep, CancelStep DEF A!Next
<1>5. ASSUME NEW k \in Contents, NEW b \in Accounts, Buys(b, k) PROVE A!Next
  BY <1>5, BuyStep DEF A!Next
<1> QED
  BY <1>1, <1>2, <1>3, <1>4, <1>5, SignUpStep, RepriceStep, WithdrawStep, ContractSteps
  DEF ContractStep

(* The paywall implements Access: every transaction is one purchase, offer *)
(* or subscription of one account, or changes nobody's access              *)
(* (Gateway.sol:39-127).                                                   *)
THEOREM PaywallImplementsAccess == Spec => KeepsAccess
<1> QED
  BY TypeInit, TypeNext, AccessInit, AccessRefines, PTL DEF Spec, KeepsAccess, A!Spec
=============================================================================
