-------------------------- MODULE StorefrontProofs --------------------------
(***************************************************************************)
(* Proofs about the pages over the paywall, for any readers, prices and    *)
(* number of clicks: the pages do nothing to the contracts that the        *)
(* paywall does not allow, and show the content to nobody it keeps out.    *)
(***************************************************************************)
EXTENDS Storefront, GatewayProofs, SequenceTheorems

StoreTypeInv == TypeInv /\ StoreTypeOK

(* The numbers the pages send are prices.                                  *)
LEMMA Numbers ==
  /\ 0 \in Prices /\ Price \in Prices /\ Fee \in Prices /\ Fee * WeiPerEther \in Prices
  /\ Prices \subseteq Nat /\ Price \in Nat /\ Fee \in Nat
  BY StorefrontAssumption, NumberAssumption

(* What the handlers' end makes of a queue.                                *)
LEMMA OrphanedType ==
  ASSUME NEW q \in Seq(Txs)
  PROVE  Orphaned(q) \in Seq(Txs)
<1>1. Len(q) \in Nat /\ DOMAIN q = 1..Len(q) /\ \A i \in 1..Len(q) : q[i] \in Txs
  OBVIOUS
<1>2. \A i \in 1..Len(q) : [q[i] EXCEPT !.on = "none"] \in Txs
  BY <1>1 DEF Txs
<1>3. Orphaned(q) \in [1..Len(q) -> Txs]
  BY <1>1, <1>2 DEF Orphaned
<1> QED
  BY <1>1, <1>3, SeqDef

LEMMA HereType ==
  ASSUME StoreTypeOK, NEW a \in Readers, NEW value \in Prices, NEW due \in {0, Price, Fee},
         NEW call \in {"pay", "purchase", "take", "newPurchase", "subscribe", "newSubscribe"}
  PROVE  Here(a, call, value, due) \in Txs
<1>1. page[a] \in PageStates
  BY DEF StoreTypeOK
<1>2. page[a].at \in {"none", "index", "content"} /\ Hasty(a) \in BOOLEAN
  BY <1>1 DEF PageStates, Hasty
<1> HIDE DEF Hasty
<1> QED
  BY <1>2 DEF Here, Tx, Txs

(* A step of the pages that leaves the contracts alone.                    *)
LEMMA QuietType ==
  ASSUME StoreTypeOK, UNCHANGED vars,
         NEW a \in Readers, NEW state \in PageStates, Becomes(a, state) \/ UNCHANGED page,
         queue' \in [Readers -> Seq(Txs)],
         acts' = acts \/ Act(a),
         held' \subseteq Readers, owed' \in [Readers -> Nat], unasked' \in [Readers -> Nat],
         forgiven' \in [Readers -> Nat]
  PROVE  StoreTypeOK'
<1>1. TypeOK'
  BY DEF StoreTypeOK, TypeOK, vars
<1>2. page' \in [Readers -> PageStates]
  BY DEF StoreTypeOK, Becomes
<1>3. acts' \in [Readers -> 0..MaxActs]
  <2>1. acts \in [Readers -> 0..MaxActs] /\ MaxActs \in Nat
    BY StorefrontAssumption DEF StoreTypeOK
  <2>2. CASE acts' = acts
    BY <2>1, <2>2
  <2>3. CASE Act(a)
    <3>1. acts[a] + 1 \in 0..MaxActs /\ acts' = [acts EXCEPT ![a] = acts[a] + 1]
      BY <2>1, <2>3 DEF Act
    <3> QED
      BY <2>1, <3>1
  <2> QED
    BY <2>2, <2>3
<1> QED
  BY <1>1, <1>2, <1>3 DEF StoreTypeOK

LEMMA SendType ==
  ASSUME StoreTypeOK, NEW a \in Readers, NEW txs \in Seq(Txs), NEW lost \in Nat,
         Send(a, txs, lost)
  PROVE  StoreTypeOK'
<1>1. [page[a] EXCEPT !.busy = TRUE] \in PageStates
  <2>1. page[a] \in PageStates
    BY DEF StoreTypeOK
  <2> QED
    BY <2>1 DEF PageStates
<1>2. queue' \in [Readers -> Seq(Txs)]
  <2>1. queue[a] \o txs \in Seq(Txs)
    BY ConcatProperties DEF StoreTypeOK
  <2> QED
    BY <2>1 DEF Send, StoreTypeOK
<1>3. held' \subseteq Readers
  BY DEF Send, Keep, StoreTypeOK
<1>4. /\ forgiven' \in [Readers -> Nat] /\ owed' \in [Readers -> Nat]
      /\ unasked' \in [Readers -> Nat]
  BY DEF Send, StoreTypeOK
<1> QED
  BY <1>1, <1>2, <1>3, <1>4, QuietType DEF Send

LEMMA SendOne ==
  ASSUME StoreTypeOK, NEW a \in Readers, NEW tx \in Txs, Send(a, <<tx>>, 0)
  PROVE  StoreTypeOK'
<1>1. <<tx>> \in Seq(Txs)
  OBVIOUS
<1> QED
  BY <1>1, SendType

LEMMA PayAndCallType ==
  ASSUME StoreTypeOK, NEW a \in Readers, NEW amount \in {Price, Fee},
         NEW call \in {"purchase", "subscribe"}, PayAndCall(a, amount, call)
  PROVE  StoreTypeOK'
<1> DEFINE pay == Here(a, "pay", amount, 0)
           get == Here(a, call, 0, amount)
<1>1. pay \in Txs /\ get \in Txs
  BY Numbers, HereType
<1>2. <<pay, get>> \in Seq(Txs) /\ <<get>> \in Seq(Txs) /\ <<pay>> \in Seq(Txs)
  BY <1>1
<1>3. Send(a, <<pay, get>>, 0) \/ Send(a, <<get>>, amount) \/ Send(a, <<pay>>, 0)
  BY Zenon DEF PayAndCall
<1> HIDE DEF pay, get
<1> QED
  BY <1>2, <1>3, Numbers, SendType

(* Every reader is an account, and Owner is none of them.                  *)
LEMMA ReadersAreAccounts == Readers \subseteq Accounts /\ Owner \in Accounts
  BY StorefrontAssumption DEF Readers

LEMMA HeldType == Keep => held' = held \cup {a \in Readers : CanView(a, Item)'}
  BY DEF Keep

(* A transaction that is mined is one of the paywall.                      *)
LEMMA MinedIsGateway ==
  ASSUME NEW a \in Readers, NEW tx \in Txs, Execute(a, tx)
  PROVE  Next
<1> USE Numbers, ReadersAreAccounts, StorefrontAssumption
<1>1. tx.value \in Prices /\ a \in Accounts /\ Shop \in Addresses
  BY DEF Txs, Addresses
<1>2. CASE SendEther(a, Shop, tx.value)
  <2>1. PublisherCall(a)
    BY <1>1, <1>2, Zenon DEF PublisherCall
  <2> QED
    BY <1>1, <2>1, Zenon DEF Next
<1>3. ASSUME UserCall(a) PROVE Next
  BY <1>1, <1>3, Zenon DEF Next
<1>4. CASE PurchaseContent(a, Item, Price, tx.value)
  <2>1. UserCall(a)
    BY <1>1, <1>4, Zenon DEF UserCall
  <2> QED
    BY <1>3, <2>1
<1>5. CASE CreateNewUserAndPurchase(a, Item, Price, Shop, tx.value)
  <2>1. UserCall(a)
    BY <1>1, <1>5, Zenon DEF UserCall
  <2> QED
    BY <1>3, <2>1
<1>6. CASE AddSubscriber(a, Shop) \/ CreateNewUserAndSubscribe(a, Shop, tx.value)
  <2>1. UserCall(a)
    BY <1>1, <1>6, Zenon DEF UserCall
  <2> QED
    BY <1>3, <2>1
<1> QED
  BY <1>2, <1>4, <1>5, <1>6, Zenon DEF Execute

LEMMA HeadType ==
  ASSUME StoreTypeOK, NEW a \in Readers, queue[a] # <<>>
  PROVE  /\ Head(queue[a]) \in Txs /\ Tail(queue[a]) \in Seq(Txs)
         /\ Head(queue[a]).due \in Nat /\ Head(queue[a]).value \in Nat
<1>1. queue[a] \in Seq(Txs)
  BY DEF StoreTypeOK
<1>2. Head(queue[a]) \in Txs /\ Tail(queue[a]) \in Seq(Txs)
  BY <1>1
<1> QED
  BY <1>2, Numbers DEF Txs

(* The steps of a page that change no contract.                            *)
PageStep(a) ==
    \/ \E where \in {"index", "content"} : Open(a, where)
    \/ GetUserProfile(a) \/ ReadSubscription(a) \/ ReadWhitelist(a) \/ AuthFails(a)
    \/ ClickPurchase(a) \/ ClickSubscribe(a) \/ Fail(a)

LEMMA StoreSteps ==
  ASSUME StoreNext
  PROVE  (\E a \in Readers : PageStep(a) \/ Mine(a)) \/ Meanwhile
  BY DEF StoreNext, PageStep

LEMMA PageStepIsQuiet ==
  ASSUME NEW a \in Readers, PageStep(a)
  PROVE  UNCHANGED vars
<1>1. CASE (\E where \in {"index", "content"} : Open(a, where)) \/ Fail(a)
  BY <1>1 DEF Open, Fail
<1>2. CASE GetUserProfile(a) \/ ReadSubscription(a) \/ ReadWhitelist(a) \/ AuthFails(a)
  BY <1>2, Zenon DEF GetUserProfile, ReadSubscription, ReadWhitelist, AuthFails
<1>3. CASE ClickPurchase(a) \/ ClickSubscribe(a)
  BY <1>3, Zenon DEF ClickPurchase, ClickSubscribe, PayAndCall, Send
<1> QED
  BY <1>1, <1>2, <1>3 DEF PageStep

LEMMA StoreStepIsGateway == StoreTypeOK /\ [StoreNext]_allVars => [Next]_vars
<1> SUFFICES ASSUME StoreTypeOK, [StoreNext]_allVars PROVE [Next]_vars
  OBVIOUS
<1>1. ASSUME NEW a \in Readers, PageStep(a) PROVE UNCHANGED vars
  BY <1>1, PageStepIsQuiet
<1>2. ASSUME NEW a \in Readers, Mine(a) PROVE Next
  BY <1>2, HeadType, MinedIsGateway DEF Mine
<1>3. CASE Meanwhile
  BY <1>3, ReadersAreAccounts, Zenon DEF Meanwhile, Next, PublisherCall
<1>4. CASE UNCHANGED allVars
  BY <1>4 DEF allVars, vars
<1> QED
  BY <1>1, <1>2, <1>3, <1>4, StoreSteps

-----------------------------------------------------------------------------
(* The types.                                                              *)
LEMMA StoreTypeInit == StoreInit => StoreTypeInv
<1> SUFFICES ASSUME StoreInit PROVE StoreTypeInv
  OBVIOUS
<1> USE Numbers, ReadersAreAccounts, StorefrontAssumption, AddressAssumption,
        NumberAssumption, NoStorageTypes
<1>1. P!CreateContent(P!NewPublisher(Fee), Item) \in P!PublisherStorage
  BY NewPublisherType, PublishType
<1>2. C!NewContent(Shop, Owner, Price) \in C!ContentStorage
  BY NewContentType
<1>3. TypeOK
  BY <1>1, <1>2 DEF StoreInit, TypeOK, Addresses
<1>4. Linked
  BY <1>1, <1>2 DEF StoreInit, Linked, HasCode, NoStorage, C!NewContent
<1>5. page \in [Readers -> PageStates]
  BY DEF StoreInit, Closed, Fresh, PageStates
<1>6. /\ acts \in [Readers -> 0..MaxActs]
      /\ queue \in [Readers -> Seq(Txs)]
      /\ held \subseteq Readers /\ owed \in [Readers -> Nat] /\ unasked \in [Readers -> Nat]
      /\ forgiven \in [Readers -> Nat]
  BY DEF StoreInit
<1> QED
  BY <1>3, <1>4, <1>5, <1>6 DEF StoreTypeInv, TypeInv, StoreTypeOK

(* A page that is loaded.                                                  *)
LEMMA LoadType ==
  ASSUME StoreTypeOK, NEW a \in Readers, NEW where \in {"index", "content"},
         NEW waiting \in Seq(Txs), Load(a, where, waiting)
  PROVE  /\ Fresh(where, waiting # <<>>) \in PageStates
         /\ page' \in [Readers -> PageStates]
         /\ queue' \in [Readers -> Seq(Txs)]
         /\ held' \subseteq Readers
<1>1. Fresh(where, waiting # <<>>) \in PageStates
  BY DEF Fresh, PageStates
<1>2. queue' \in [Readers -> Seq(Txs)]
  BY OrphanedType DEF Load, StoreTypeOK
<1> QED
  BY <1>1, <1>2 DEF Load, Becomes, StoreTypeOK

LEMMA PageStepType ==
  ASSUME StoreTypeOK, NEW a \in Readers, PageStep(a)
  PROVE  StoreTypeOK'
<1> USE PageStepIsQuiet
<1>a. /\ page[a] \in PageStates /\ queue \in [Readers -> Seq(Txs)]
      /\ page \in [Readers -> PageStates]
      /\ held \subseteq Readers /\ owed \in [Readers -> Nat] /\ unasked \in [Readers -> Nat]
      /\ forgiven \in [Readers -> Nat]
  BY DEF StoreTypeOK
<1>k. Keep => held' \subseteq Readers
  BY <1>a DEF Keep
<1>1. ASSUME NEW where \in {"index", "content"}, Open(a, where) PROVE StoreTypeOK'
  <2>1. /\ Act(a) /\ Load(a, where, queue[a]) /\ owed' = owed /\ unasked' = unasked
        /\ forgiven' = forgiven
    BY <1>1 DEF Open
  <2>2. /\ Fresh(where, queue[a] # <<>>) \in PageStates
        /\ queue' \in [Readers -> Seq(Txs)] /\ held' \subseteq Readers
    BY <2>1, <1>a, LoadType
  <2>3. Becomes(a, Fresh(where, queue[a] # <<>>))
    BY <2>1 DEF Load
  <2> QED
    BY <2>1, <2>2, <2>3, <1>a, QuietType
<1>2. CASE GetUserProfile(a)
  <2>1. \E s \in {"new", "user", "listed"} : Becomes(a, [page[a] EXCEPT !.profile = s])
    BY <1>2, Zenon DEF GetUserProfile
  <2>2. PICK s \in PageStates : Becomes(a, s)
    BY <2>1, <1>a DEF PageStates
  <2>3. UNCHANGED <<queue, acts, owed, unasked, forgiven>> /\ Keep
    BY <1>2 DEF GetUserProfile
  <2> QED
    BY <2>2, <2>3, <1>a, <1>k, QuietType
<1>3. CASE ReadSubscription(a)
  <2>1. PICK s \in PageStates : Becomes(a, s)
    <3>1. \E s \in {"current", "lapsed"} : Becomes(a, [page[a] EXCEPT !.auth = s])
      BY <1>3, Zenon DEF ReadSubscription
    <3> QED
      BY <3>1, <1>a DEF PageStates
  <2>2. UNCHANGED <<queue, acts, owed, unasked, forgiven>> /\ Keep
    BY <1>3 DEF ReadSubscription
  <2> QED
    BY <2>1, <2>2, <1>a, <1>k, QuietType
<1>4. CASE ReadWhitelist(a)
  <2> DEFINE allowed == a \in content[Item].whitelist \/ page[a].auth = "current"
             s == [page[a] EXCEPT !.auth = "done", !.modal = @ \/ ~allowed,
                                  !.access = @ \/ allowed]
  <2>1. Becomes(a, s) /\ UNCHANGED <<queue, acts, owed, unasked, forgiven>> /\ Keep
    BY <1>4, Zenon DEF ReadWhitelist
  <2>2. s \in PageStates
    <3>1. allowed \in BOOLEAN
      OBVIOUS
    <3> HIDE DEF allowed
    <3> QED
      BY <3>1, <1>a DEF PageStates
  <2> HIDE DEF s
  <2> QED
    BY <2>1, <2>2, <1>a, <1>k, QuietType
<1>5. CASE AuthFails(a)
  <2>1. [page[a] EXCEPT !.auth = "failed"] \in PageStates
    BY <1>a DEF PageStates
  <2>2. Becomes(a, [page[a] EXCEPT !.auth = "failed"]) /\ UNCHANGED <<queue, acts, owed, unasked, forgiven>> /\ Keep
    BY <1>5 DEF AuthFails
  <2> QED
    BY <2>1, <2>2, <1>a, <1>k, QuietType
<1>6. CASE ClickPurchase(a)
  <2>1. CASE Send(a, <<Here(a, "newPurchase", Price, Price)>>, 0)
    BY <2>1, Numbers, HereType, SendOne
  <2>2. CASE Send(a, <<Here(a, "take", 0, Price)>>, 0)
    BY <2>2, Numbers, HereType, SendOne
  <2>3. CASE PayAndCall(a, Price, "purchase")
    BY <2>3, PayAndCallType
  <2> QED
    BY <1>6, <2>1, <2>2, <2>3, Zenon DEF ClickPurchase
<1>7. CASE ClickSubscribe(a)
  <2>1. CASE Send(a, <<Here(a, "newSubscribe", NewFee(page[a].at), Fee)>>, 0)
    <3>1. NewFee(page[a].at) \in Prices
      BY Numbers DEF NewFee
    <3> QED
      BY <2>1, <3>1, Numbers, HereType, SendOne
  <2>2. CASE PayAndCall(a, Fee, "subscribe")
    BY <2>2, PayAndCallType
  <2> QED
    BY <1>7, <2>1, <2>2, Zenon DEF ClickSubscribe
<1>8. CASE Fail(a)
  <2>1. queue' \in [Readers -> Seq(Txs)] /\ forgiven' \in [Readers -> Nat]
    BY <1>8, <1>a, HeadType DEF Fail, Payment
  <2>2. UNCHANGED <<page, acts, owed, unasked>> /\ Keep
    BY <1>8 DEF Fail
  <2> QED
    BY <2>1, <2>2, <1>a, <1>k, QuietType
<1> QED
  BY <1>1, <1>2, <1>3, <1>4, <1>5, <1>6, <1>7, <1>8 DEF PageStep

LEMMA MineType ==
  ASSUME StoreTypeOK, TypeOK', NEW a \in Readers, Mine(a)
  PROVE  StoreTypeOK'
<1> DEFINE tx == Head(queue[a])
<1>1. /\ queue[a] # <<>> /\ Receipt(a, tx) /\ UNCHANGED <<acts, forgiven>>
      /\ owed' = [owed EXCEPT ![a] = @ + tx.due]
      /\ unasked' = [unasked EXCEPT ![a] = @ + Unasked(tx)]
  BY DEF Mine
<1>2. tx \in Txs /\ Tail(queue[a]) \in Seq(Txs) /\ tx.due \in Nat
  BY <1>1, HeadType
<1> HIDE DEF tx
<1>3. /\ page' \in [Readers -> PageStates] /\ queue' \in [Readers -> Seq(Txs)]
      /\ held' \subseteq Readers
  <2>1. CASE tx.on = "index" /\ tx.call \in {"purchase", "newPurchase"}
    <3>1. Load(a, "index", Tail(queue[a]))
      BY <1>1, <2>1, Zenon DEF Receipt
    <3> QED
      BY <3>1, <1>2, LoadType
  <2>2. CASE ~(tx.on = "index" /\ tx.call \in {"purchase", "newPurchase"})
    <3>1. /\ Becomes(a, [page[a] EXCEPT !.modal = FALSE, !.access = TRUE]) \/ UNCHANGED page
          /\ queue' = [queue EXCEPT ![a] = Tail(@)]
          /\ Keep
      BY <1>1, <2>2, Zenon DEF Receipt
    <3>2. page[a] \in PageStates
      BY DEF StoreTypeOK
    <3>3. [page[a] EXCEPT !.modal = FALSE, !.access = TRUE] \in PageStates
      BY <3>2 DEF PageStates
    <3>4. page' \in [Readers -> PageStates]
      BY <3>1, <3>3 DEF Becomes, StoreTypeOK
    <3> QED
      BY <3>1, <3>4, <1>2 DEF Keep, StoreTypeOK
  <2> QED
    BY <2>1, <2>2
<1>4. /\ owed' \in [Readers -> Nat] /\ unasked' \in [Readers -> Nat]
      /\ forgiven' \in [Readers -> Nat]
  BY <1>1, <1>2 DEF StoreTypeOK, Unasked
<1> QED
  BY <1>1, <1>3, <1>4 DEF StoreTypeOK

LEMMA StoreTypeNext == StoreTypeInv /\ [StoreNext]_allVars => StoreTypeInv'
<1> SUFFICES ASSUME StoreTypeInv, [StoreNext]_allVars PROVE StoreTypeInv'
  OBVIOUS
<1>1. TypeInv /\ StoreTypeOK
  BY DEF StoreTypeInv
<1>2. TypeInv' /\ TypeOK'
  BY <1>1, StoreStepIsGateway, TypeNext DEF TypeInv
<1>3. ASSUME NEW a \in Readers, PageStep(a) PROVE StoreTypeOK'
  BY <1>1, <1>3, PageStepType
<1>4. ASSUME NEW a \in Readers, Mine(a) PROVE StoreTypeOK'
  BY <1>1, <1>2, <1>4, MineType
<1>5. ASSUME Meanwhile PROVE StoreTypeOK'
  BY <1>1, <1>2, <1>5 DEF Meanwhile, Keep, StoreTypeOK
<1>6. ASSUME UNCHANGED allVars PROVE StoreTypeOK'
  BY <1>1, <1>2, <1>6 DEF allVars, storeVars, StoreTypeOK
<1>7. StoreTypeOK'
  BY <1>3, <1>4, <1>5, <1>6, StoreSteps
<1> QED
  BY <1>2, <1>7 DEF StoreTypeInv

(* StoreSpec: the variables always have their types.                       *)
THEOREM StoreTypeCorrect == StoreSpec => []StoreTypeOK
<1>1. StoreTypeInv => StoreTypeOK
  BY DEF StoreTypeInv
<1> QED
  BY <1>1, StoreTypeInit, StoreTypeNext, PTL DEF StoreSpec

(* What the pages do to the contracts is what the paywall allows: every    *)
(* step of the pages is a transaction of Gateway or leaves it alone.       *)
THEOREM PagesUseTheGateway == StoreSpec => [][Next]_vars
<1>1. StoreTypeInv => StoreTypeOK
  BY DEF StoreTypeInv
<1> QED
  BY <1>1, StoreTypeInit, StoreTypeNext, StoreStepIsGateway, PTL DEF StoreSpec

(* What the paywall promises of its contracts, the pages start from.       *)
LEMMA PaywallInit == StoreInit => PaywallInv
<1> SUFFICES ASSUME StoreInit PROVE PaywallInv
  OBVIOUS
<1> USE StorefrontAssumption, NoStorageTypes
<1> DEFINE shop == P!CreateContent(P!NewPublisher(Fee), Item)
           item == C!NewContent(Shop, Owner, Price)
<1>1. /\ shop \in P!PublisherStorage /\ item \in C!ContentStorage
      /\ HasCode(shop) /\ HasCode(item)
  BY Numbers, NewPublisherType, PublishType, NewContentType
<1>2. shop.expiration = [a \in Accounts |-> 0] /\ shop.contentContracts = {Item}
  BY DEF P!CreateContent, P!NewPublisher
<1>3. item.ownerId = Shop /\ item.earnings = 0
  BY DEF C!NewContent
<1>4. /\ publisher = [p \in Publishers |-> IF p = Shop THEN shop ELSE NoStorage]
      /\ content = [k \in Contents |-> IF k = Item THEN item ELSE NoStorage]
      /\ contentContracts = {Item} /\ now = 0
      /\ userContract = [a \in Accounts |-> Null]
      /\ wei = [x \in Addresses |-> IF x \in Accounts THEN Endowment ELSE 0]
  BY DEF StoreInit
<1> HIDE DEF shop, item
<1>5. \A p \in Publishers : HasCode(publisher[p]) <=> p = Shop
  BY <1>1, <1>4
<1>6. \A k \in Contents : HasCode(content[k]) <=> k = Item
  BY <1>1, <1>4
<1>7. EarningsBacked
  <2>1. wei[Item] = 0 /\ content[Item].earnings = 0
    BY <1>3, <1>4, AddressAssumption DEF Addresses
  <2> QED
    BY <1>6, <2>1 DEF EarningsBacked
<1>8. PagesAgreeOnSubscription
  BY <1>2, <1>4, <1>5 DEF PagesAgreeOnSubscription, P!IsSubscribed
<1>9. RegistriesAgree
  <2>1. publisher[Shop].contentContracts = {Item} /\ content[Item].ownerId = Shop
    BY <1>2, <1>3, <1>4
  <2> QED
    BY <1>4, <1>5, <1>6, <2>1 DEF RegistriesAgree
<1> QED
  BY <1>7, <1>8, <1>9 DEF PaywallInv

(* Whatever the pages do, every content contract can pay out what it has   *)
(* earned, both tests of a subscription agree, and every publisher lists   *)
(* the contents that are its own.                                          *)
THEOREM PagesKeepThePaywall ==
  StoreSpec => [](EarningsBacked /\ PagesAgreeOnSubscription /\ RegistriesAgree)
<1>1. StoreTypeInv /\ PaywallInv /\ [StoreNext]_allVars => PaywallInv'
  BY StoreStepIsGateway, PaywallNext DEF StoreTypeInv
<1>2. PaywallInv => EarningsBacked /\ PagesAgreeOnSubscription /\ RegistriesAgree
  BY DEF PaywallInv
<1> QED
  BY <1>1, <1>2, PaywallInit, StoreTypeInit, StoreTypeNext, PTL DEF StoreSpec

(* Access once given lasts under the pages, too: what is bought is one's   *)
(* to see for good, and no click, answer, receipt or revert ends a         *)
(* subscription before it expires or is removed.                           *)
THEOREM PagesKeepAccess == StoreSpec => AccessLasts
<1>1. StoreTypeInv /\ PaywallInv /\ [StoreNext]_allVars =>
        [\A a \in Accounts, k \in Contents :
            HasCode(content[k]) /\ CanView(a, k) /\ ~CanView(a, k)' =>
              LET p == content[k].ownerId
              IN  /\ content[k].price # 0 /\ a \notin content[k].whitelist
                  /\ \/ publisher[p].expiration[a] = now'
                     \/ a \in publisher[p].subscribers \ publisher'[p].subscribers]_vars
  BY StoreStepIsGateway, AccessStep DEF StoreTypeInv, PaywallInv
<1>2. StoreTypeInv /\ PaywallInv /\ [StoreNext]_allVars => PaywallInv'
  BY StoreStepIsGateway, PaywallNext DEF StoreTypeInv
<1> QED
  BY <1>1, <1>2, PaywallInit, StoreTypeInit, StoreTypeNext, PTL DEF StoreSpec, AccessLasts

(* The pages start with a content on sale; from there they, too, take      *)
(* only the steps that the abstract promise of access allows.              *)
THEOREM PagesMoveAccess == StoreSpec => [][A!Next]_(A!vars)
<1>1. StoreTypeInv /\ [StoreNext]_allVars => [A!Next]_(A!vars)
  BY StoreStepIsGateway, AccessRefines DEF StoreTypeInv
<1> QED
  BY <1>1, StoreTypeInit, StoreTypeNext, PTL DEF StoreSpec

-----------------------------------------------------------------------------
(* Who is let in.                                                          *)

(* The item stays on sale by its shop.                                     *)
ItemInv == HasCode(content[Item]) /\ content[Item].ownerId = Shop /\ HasCode(publisher[Shop])

(* An answer that is kept for the decision was a right to view, too.       *)
HeldInv == \A a \in Readers : page[a].access \/ page[a].auth = "current" => a \in held

LEMMA ItemInit == StoreInit => ItemInv
<1> SUFFICES ASSUME StoreInit PROVE ItemInv
  OBVIOUS
<1>1. P!CreateContent(P!NewPublisher(Fee), Item) \in P!PublisherStorage
  BY Numbers, StorefrontAssumption, NewPublisherType, PublishType
<1>2. C!NewContent(Shop, Owner, Price) \in C!ContentStorage
  BY Numbers, StorefrontAssumption, NewContentType
<1> QED
  BY <1>1, <1>2, StorefrontAssumption, NoStorageTypes DEF StoreInit, ItemInv, C!NewContent

LEMMA ItemNext == StoreTypeInv /\ ItemInv /\ [StoreNext]_allVars => ItemInv'
<1> SUFFICES ASSUME StoreTypeInv, ItemInv, [StoreNext]_allVars PROVE ItemInv'
  OBVIOUS
<1>1. ContentKept /\ PublisherKept
  BY StoreStepIsGateway, ContentEvolves, PublisherEvolves DEF StoreTypeInv
<1> QED
  BY <1>1, StorefrontAssumption DEF ItemInv, ContentKept, PublisherKept, HasCode

(* What is mined and is not a payment lets the reader in.                  *)
LEMMA MinedLetsIn ==
  ASSUME StoreTypeInv, ItemInv, NEW a \in Readers, NEW tx \in Txs, tx.call # "pay",
         Execute(a, tx)
  PROVE  CanView(a, Item)'
<1> USE StorefrontAssumption, ReadersAreAccounts, NumberAssumption
<1>1. /\ content \in [Contents -> C!ContentStorage \cup {NoStorage}]
      /\ publisher \in [Publishers -> P!PublisherStorage \cup {NoStorage}]
      /\ content[Item] \in C!ContentStorage
      /\ publisher[Shop] \in P!PublisherStorage
      /\ now \in Nat
  BY StorageType DEF StoreTypeInv, TypeInv, TypeOK, ItemInv
<1>2. ASSUME content' = [content EXCEPT ![Item] = C!PurchaseContent(@, a, 0)]
      PROVE  CanView(a, Item)'
  <2>1. content'[Item] = C!PurchaseContent(content[Item], a, 0)
    BY <1>1, <1>2
  <2>2. a \in content'[Item].whitelist
    BY <1>1, <2>1 DEF C!PurchaseContent, C!ContentStorage
  <2> QED
    BY <2>2 DEF CanView
<1>3. ASSUME publisher' = [publisher EXCEPT ![Shop] = P!AddSubscriber(@, a, now)],
             content' = content, now' = now
      PROVE  CanView(a, Item)'
  <2>1. publisher'[Shop] = P!AddSubscriber(publisher[Shop], a, now)
    BY <1>1, <1>3
  <2>2. publisher'[Shop].expiration[a] = now + Period
    BY <1>1, <2>1 DEF P!AddSubscriber, P!PublisherStorage
  <2>3. publisher'[content'[Item].ownerId].expiration[a] > now'
    BY <1>1, <1>3, <2>2 DEF ItemInv
  <2> QED
    BY <2>3 DEF CanView
<1>4. CASE PurchaseContent(a, Item, Price, tx.value)
  BY <1>4, <1>2 DEF PurchaseContent
<1>5. CASE CreateNewUserAndPurchase(a, Item, Price, Shop, tx.value)
  BY <1>5, <1>2 DEF CreateNewUserAndPurchase
<1>6. CASE AddSubscriber(a, Shop)
  BY <1>6, <1>3 DEF AddSubscriber
<1>7. CASE CreateNewUserAndSubscribe(a, Shop, tx.value)
  BY <1>7, <1>3 DEF CreateNewUserAndSubscribe
<1> QED
  BY <1>4, <1>5, <1>6, <1>7 DEF Execute

(* One page moves on, and what its reader may now be shown is accounted    *)
(* for.                                                                    *)
LEMMA HeldStep ==
  ASSUME StoreTypeOK, HeldInv, Keep, NEW a \in Readers, NEW state \in PageStates,
         Becomes(a, state),
         state.access \/ state.auth = "current" =>
            page[a].access \/ page[a].auth = "current" \/ CanView(a, Item)'
  PROVE  HeldInv'
<1> SUFFICES ASSUME NEW b \in Readers, (page[b].access \/ page[b].auth = "current")'
             PROVE  b \in held'
  BY DEF HeldInv
<1>1. held \subseteq held' /\ (CanView(b, Item)' => b \in held')
  BY DEF Keep
<1>2. page' = [page EXCEPT ![a] = state] /\ page \in [Readers -> PageStates]
  BY DEF Becomes, StoreTypeOK
<1>3. CASE b = a
  BY <1>1, <1>2, <1>3 DEF HeldInv
<1>4. CASE b # a
  BY <1>1, <1>2, <1>4 DEF HeldInv
<1> QED
  BY <1>3, <1>4

LEMMA HeldKeep == HeldInv /\ Keep /\ UNCHANGED page => HeldInv'
  BY DEF HeldInv, Keep

LEMMA HeldLoad ==
  ASSUME StoreTypeOK, HeldInv, NEW a \in Readers, NEW where, NEW waiting, Load(a, where, waiting)
  PROVE  HeldInv'
<1> SUFFICES ASSUME NEW b \in Readers, (page[b].access \/ page[b].auth = "current")'
             PROVE  b \in held'
  BY DEF HeldInv
<1>1. page' = [page EXCEPT ![a] = Fresh(where, waiting # <<>>)] /\ page \in [Readers -> PageStates]
  BY DEF Load, Becomes, StoreTypeOK
<1>2. b # a
  BY <1>1 DEF Fresh
<1>3. b \in held
  BY <1>1, <1>2 DEF HeldInv
<1> QED
  BY <1>2, <1>3 DEF Load

LEMMA HeldNext == StoreTypeInv /\ ItemInv /\ HeldInv /\ [StoreNext]_allVars => HeldInv'
<1> SUFFICES ASSUME StoreTypeInv, ItemInv, HeldInv, [StoreNext]_allVars PROVE HeldInv'
  OBVIOUS
<1> USE DEF StoreTypeInv
<1>1. ASSUME NEW a \in Readers, PageStep(a) PROVE HeldInv'
  <2>a. page[a] \in PageStates
    BY DEF StoreTypeOK
  <2>u. UNCHANGED vars
    BY <1>1, PageStepIsQuiet
  <2>1. ASSUME NEW where \in {"index", "content"}, Open(a, where) PROVE HeldInv'
    BY <2>1, HeldLoad DEF Open
  <2>2. ASSUME NEW state \in PageStates, Becomes(a, state), Keep,
               state.access = page[a].access, state.auth \in {page[a].auth, "failed"}
        PROVE  HeldInv'
    BY <2>2, HeldStep
  <2>3. CASE GetUserProfile(a)
    <3>1. PICK s \in {"new", "user", "listed"} : Becomes(a, [page[a] EXCEPT !.profile = s])
      BY <2>3, Zenon DEF GetUserProfile
    <3>2. Keep
      BY <2>3 DEF GetUserProfile
    <3> DEFINE state == [page[a] EXCEPT !.profile = s]
    <3>3. state \in PageStates /\ state.access = page[a].access /\ state.auth = page[a].auth
      BY <2>a DEF PageStates
    <3> QED
      BY <2>2, <3>1, <3>2, <3>3
  <2>4. CASE ReadSubscription(a)
    <3>1. CASE Subscribed(a)
      <4>1. Becomes(a, [page[a] EXCEPT !.auth = "current"]) /\ Keep
        BY <2>4, <3>1, Zenon DEF ReadSubscription
      <4>2. CanView(a, Item)'
        BY <2>u, <3>1 DEF vars, CanView, Subscribed, ItemInv
      <4>3. [page[a] EXCEPT !.auth = "current"] \in PageStates
        BY <2>a DEF PageStates
      <4> QED
        BY <4>1, <4>2, <4>3, HeldStep
    <3>2. CASE ~Subscribed(a)
      <4>1. Becomes(a, [page[a] EXCEPT !.auth = "lapsed"]) /\ Keep
        BY <2>4, <3>2, Zenon DEF ReadSubscription
      <4> DEFINE state == [page[a] EXCEPT !.auth = "lapsed"]
      <4>2. state \in PageStates /\ state.access = page[a].access /\ state.auth = "lapsed"
        BY <2>a DEF PageStates
      <4> QED
        BY <4>1, <4>2, HeldStep
    <3> QED
      BY <3>1, <3>2
  <2>5. CASE ReadWhitelist(a)
    <3> DEFINE allowed == a \in content[Item].whitelist \/ page[a].auth = "current"
               state == [page[a] EXCEPT !.auth = "done", !.modal = @ \/ ~allowed,
                                        !.access = @ \/ allowed]
    <3>1. Becomes(a, state) /\ Keep
      BY <2>5, Zenon DEF ReadWhitelist
    <3>2. a \in content[Item].whitelist => CanView(a, Item)'
      BY <2>u DEF vars, CanView
    <3>3. allowed \in BOOLEAN
      OBVIOUS
    <3>4. allowed => page[a].auth = "current" \/ CanView(a, Item)'
      BY <3>2
    <3> HIDE DEF allowed
    <3>5. /\ state \in PageStates
          /\ state.access = (page[a].access \/ allowed) /\ state.auth = "done"
      BY <2>a, <3>3 DEF PageStates
    <3> HIDE DEF state
    <3> QED
      BY <3>1, <3>4, <3>5, HeldStep
  <2>6. CASE AuthFails(a)
    <3> DEFINE state == [page[a] EXCEPT !.auth = "failed"]
    <3>1. Becomes(a, state) /\ Keep
      BY <2>6 DEF AuthFails
    <3>2. state \in PageStates /\ state.access = page[a].access /\ state.auth = "failed"
      BY <2>a DEF PageStates
    <3> HIDE DEF state
    <3> QED
      BY <2>2, <3>1, <3>2
  <2>7. CASE ClickPurchase(a) \/ ClickSubscribe(a)
    <3> DEFINE state == [page[a] EXCEPT !.busy = TRUE]
    <3>1. Becomes(a, state) /\ Keep
      BY <2>7, Zenon DEF ClickPurchase, ClickSubscribe, PayAndCall, Send
    <3>2. state \in PageStates /\ state.access = page[a].access /\ state.auth = page[a].auth
      BY <2>a DEF PageStates
    <3> HIDE DEF state
    <3> QED
      BY <2>2, <3>1, <3>2
  <2>8. CASE Fail(a)
    BY <2>8, HeldKeep DEF Fail
  <2> QED
    BY <1>1, <2>1, <2>3, <2>4, <2>5, <2>6, <2>7, <2>8 DEF PageStep
<1>2. ASSUME NEW a \in Readers, Mine(a) PROVE HeldInv'
  <2> DEFINE tx == Head(queue[a])
  <2>1. Execute(a, tx) /\ Receipt(a, tx) /\ tx \in Txs
    BY <1>2, HeadType DEF Mine
  <2> HIDE DEF tx
  <2>2. CASE Load(a, "index", Tail(queue[a]))
    BY <2>2, HeldLoad
  <2>3. CASE Keep /\ tx.call # "pay" /\ Becomes(a, [page[a] EXCEPT !.modal = FALSE, !.access = TRUE])
    <3>1. [page[a] EXCEPT !.modal = FALSE, !.access = TRUE] \in PageStates
      <4>1. page[a] \in PageStates
        BY DEF StoreTypeOK
      <4> QED
        BY <4>1 DEF PageStates
    <3>2. CanView(a, Item)'
      BY <2>1, <2>3, MinedLetsIn
    <3> QED
      BY <2>3, <3>1, <3>2, HeldStep
  <2>4. CASE Keep /\ UNCHANGED page
    BY <2>4, HeldKeep
  <2> QED
    BY <2>1, <2>2, <2>3, <2>4, Zenon DEF Receipt
<1>3. CASE Meanwhile
  BY <1>3, HeldKeep DEF Meanwhile
<1>4. CASE UNCHANGED allVars
  BY <1>4 DEF allVars, storeVars, HeldInv
<1> QED
  BY <1>1, <1>2, <1>3, <1>4, StoreSteps

(* The content is shown only to readers that could view it since they      *)
(* opened the page (content/[id].js:44-63, 112, 191).                      *)
THEOREM ShownToHoldersOnly == StoreSpec => []ShownOnlyToHolders
<1>1. StoreInit => HeldInv
  BY DEF StoreInit, HeldInv, Closed, Fresh
<1>2. HeldInv => ShownOnlyToHolders
  BY DEF HeldInv, ShownOnlyToHolders
<1> QED
  BY <1>1, <1>2, ItemInit, StoreTypeInit, StoreTypeNext, ItemNext, HeldNext, PTL DEF StoreSpec

-----------------------------------------------------------------------------
(* Whose profile is replaced.                                              *)

(* A step of a reader touches nothing that is another's.                   *)
OthersKept(a) ==
    \A b \in Readers \ {a} :
        /\ page'[b] = page[b] /\ queue'[b] = queue[b]
        /\ owed'[b] = owed[b] /\ unasked'[b] = unasked[b] /\ forgiven'[b] = forgiven[b]
        /\ userContract'[b] = userContract[b]

LEMMA SendKeepsOthers ==
  ASSUME StoreTypeOK, NEW a \in Readers, NEW txs, NEW lost, Send(a, txs, lost)
  PROVE  OthersKept(a)
  BY DEF StoreTypeOK, Send, Becomes, OthersKept, vars

LEMMA PageStepKeepsOthers ==
  ASSUME StoreTypeOK, NEW a \in Readers, PageStep(a)
  PROVE  OthersKept(a)
<1>u. userContract' = userContract
  BY PageStepIsQuiet DEF vars
<1>1. ASSUME NEW where \in {"index", "content"}, Open(a, where) PROVE OthersKept(a)
  BY <1>1, <1>u DEF StoreTypeOK, Open, Load, Becomes, OthersKept
<1>2. CASE GetUserProfile(a)
  <2>1. \E s : Becomes(a, s)
    BY <1>2, Zenon DEF GetUserProfile
  <2>2. UNCHANGED <<queue, owed, unasked, forgiven>>
    BY <1>2 DEF GetUserProfile
  <2> QED
    BY <1>u, <2>1, <2>2 DEF StoreTypeOK, Becomes, OthersKept
<1>3. CASE ReadSubscription(a) \/ ReadWhitelist(a) \/ AuthFails(a)
  <2>1. \E s : Becomes(a, s)
    BY <1>3, Zenon DEF ReadSubscription, ReadWhitelist, AuthFails
  <2>2. UNCHANGED <<queue, owed, unasked, forgiven>>
    BY <1>3, Zenon DEF ReadSubscription, ReadWhitelist, AuthFails
  <2> QED
    BY <1>u, <2>1, <2>2 DEF StoreTypeOK, Becomes, OthersKept
<1>4. CASE ClickPurchase(a) \/ ClickSubscribe(a)
  <2>1. \E txs, lost : Send(a, txs, lost)
    BY <1>4, Zenon DEF ClickPurchase, ClickSubscribe, PayAndCall
  <2> QED
    BY <2>1, SendKeepsOthers
<1>5. CASE Fail(a)
  BY <1>5, <1>u DEF StoreTypeOK, Fail, OthersKept
<1> QED
  BY <1>1, <1>2, <1>3, <1>4, <1>5 DEF PageStep

(* A profile is created by the reader's own transaction.                   *)
Creates(tx) == tx.call \in {"newPurchase", "newSubscribe"}

LEMMA ProfileOf ==
  ASSUME NEW a \in Readers, NEW tx, Execute(a, tx)
  PROVE  UNCHANGED userContract
           \/ (Creates(tx) /\ \E u \in Users : userContract' = [userContract EXCEPT ![a] = u])
  BY DEF Execute, SendEther, PurchaseContent, CreateNewUserAndPurchase, AddSubscriber,
         CreateNewUserAndSubscribe, NewUserContract, Creates

LEMMA MineKeepsOthers ==
  ASSUME StoreTypeOK, NEW a \in Readers, Mine(a)
  PROVE  OthersKept(a)
<1>1. /\ owed' = [owed EXCEPT ![a] = @ + Head(queue[a]).due] /\ forgiven' = forgiven
      /\ unasked' = [unasked EXCEPT ![a] = @ + Unasked(Head(queue[a]))]
  BY DEF Mine
<1>2. (\E s : Becomes(a, s)) \/ UNCHANGED page
  BY Zenon DEF Mine, Receipt, Load
<1>3. \E q : queue' = [queue EXCEPT ![a] = q]
  BY Zenon DEF Mine, Receipt, Load
<1>4. UNCHANGED userContract \/ \E u \in Users : userContract' = [userContract EXCEPT ![a] = u]
  BY ProfileOf DEF Mine
<1> QED
  BY <1>1, <1>2, <1>3, <1>4, ReadersAreAccounts DEF StoreTypeOK, TypeOK, Becomes, OthersKept

LEMMA ProfileChanges ==
  ASSUME StoreTypeOK, [StoreNext]_allVars, NEW a \in Readers, userContract'[a] # userContract[a]
  PROVE  Mine(a) /\ Creates(Head(queue[a]))
<1>1. ASSUME NEW b \in Readers, PageStep(b) PROVE FALSE
  BY <1>1, PageStepIsQuiet DEF vars
<1>2. ASSUME Meanwhile \/ UNCHANGED allVars PROVE FALSE
  BY <1>2 DEF Meanwhile, Tick, RemoveSubscriber, allVars, vars
<1>3. PICK b \in Readers : Mine(b)
  BY <1>1, <1>2, StoreSteps
<1>4. b = a
  BY <1>3, MineKeepsOthers DEF OthersKept
<1> QED
  BY <1>3, <1>4, ProfileOf DEF Mine

(* While nothing of the account's has been waiting, what the page knows of *)
(* the profile is true; the purchase buttons of a listed reader are gone.  *)
PageKnows(a) ==
    /\ ~page[a].busy => queue[a] = <<>>
    /\ page[a].modal \/ page[a].auth # "asked" => page[a].at = "content"
    /\ page[a].profile = "listed" => page[a].at = "index"
    /\ page[a].profile = "new" /\ ~page[a].busy => userContract[a] = Null

(* What creates a profile, not in haste, is the first that does.           *)
FirstToCreate(a) ==
    \A i \in 1..Len(queue[a]) :
        Creates(queue[a][i]) /\ ~queue[a][i].hasty => i = 1 /\ userContract[a] = Null

HasteInv == \A a \in Readers : PageKnows(a) /\ FirstToCreate(a)

(* A reader that buys as new, not in haste, has nothing waiting and no     *)
(* profile.                                                                *)
LEMMA NewIsFirst ==
  ASSUME StoreTypeOK, NEW a \in Readers, PageKnows(a), CanBuy(a), IsNew(a), ~Hasty(a)
  PROVE  queue[a] = <<>> /\ userContract[a] = Null
<1>1. page[a].profile \in {"asked", "new", "user", "listed"}
  BY DEF StoreTypeOK, PageStates
<1> QED
  BY <1>1 DEF PageKnows, CanBuy, IsNew, Hasty

(* What a sequence of transactions looks like after a click.               *)
LEMMA Appended ==
  ASSUME NEW q \in Seq(Txs), NEW txs \in Seq(Txs)
  PROVE  /\ Len(q \o txs) = Len(q) + Len(txs)
         /\ \A i \in 1..Len(q) : (q \o txs)[i] = q[i]
         /\ \A i \in 1..Len(txs) : (q \o txs)[Len(q) + i] = txs[i]
         /\ \A i \in 1..Len(q \o txs) :
              i \in 1..Len(q) \/ (i > Len(q) /\ i - Len(q) \in 1..Len(txs)
                                    /\ (q \o txs)[i] = txs[i - Len(q)])
<1>1. Len(q) \in Nat /\ Len(txs) \in Nat
  BY LenProperties
<1>2. /\ Len(q \o txs) = Len(q) + Len(txs)
      /\ \A i \in 1..Len(q) + Len(txs) :
            (q \o txs)[i] = IF i <= Len(q) THEN q[i] ELSE txs[i - Len(q)]
  BY ConcatProperties
<1> QED
  BY <1>1, <1>2

(* The hasty and the first stay so when the queue moves on or is orphaned. *)
LEMMA OrphanedCalls ==
  ASSUME NEW q \in Seq(Txs)
  PROVE  /\ Len(Orphaned(q)) = Len(q)
         /\ \A i \in 1..Len(q) :
              /\ Orphaned(q)[i].call = q[i].call /\ Orphaned(q)[i].hasty = q[i].hasty
              /\ Orphaned(q)[i].value = q[i].value /\ Orphaned(q)[i].due = q[i].due
         /\ Orphaned(q) = <<>> <=> q = <<>>
<1>1. Len(q) \in Nat /\ DOMAIN q = 1..Len(q) /\ \A i \in 1..Len(q) : q[i] \in Txs
  BY LenProperties
<1>2. Orphaned(q) \in Seq(Txs)
  BY OrphanedType
<1>3. DOMAIN Orphaned(q) = 1..Len(q)
  BY <1>1 DEF Orphaned
<1>4. Len(Orphaned(q)) = Len(q)
  BY <1>1, <1>2, <1>3, LenProperties
<1>5. ASSUME NEW i \in 1..Len(q)
      PROVE  /\ Orphaned(q)[i].call = q[i].call /\ Orphaned(q)[i].hasty = q[i].hasty
             /\ Orphaned(q)[i].value = q[i].value /\ Orphaned(q)[i].due = q[i].due
  <2>1. Orphaned(q)[i] = [q[i] EXCEPT !.on = "none"]
    BY <1>1 DEF Orphaned
  <2> QED
    BY <1>1, <2>1 DEF Txs
<1>6. Orphaned(q) = <<>> <=> q = <<>>
  BY <1>2, <1>4, EmptySeq
<1> QED
  BY <1>4, <1>5, <1>6

LEMMA TailOfQueue ==
  ASSUME NEW q \in Seq(Txs), q # <<>>
  PROVE  /\ Tail(q) \in Seq(Txs) /\ Head(q) = q[1] /\ Len(q) \in Nat \ {0}
         /\ Len(Tail(q)) = Len(q) - 1
         /\ \A i \in 1..Len(Tail(q)) : i + 1 \in 1..Len(q) /\ Tail(q)[i] = q[i + 1]
<1>1. Len(q) \in Nat \ {0}
  BY LenProperties, EmptySeq
<1>2. /\ Tail(q) \in Seq(Txs) /\ Head(q) = q[1] /\ Len(Tail(q)) = Len(q) - 1
      /\ \A i \in 1..Len(Tail(q)) : Tail(q)[i] = q[i + 1]
  BY HeadTailProperties
<1> QED
  BY <1>1, <1>2

LEMMA SendHaste ==
  ASSUME StoreTypeOK, NEW a \in Readers, PageKnows(a), FirstToCreate(a),
         userContract' = userContract, NEW txs \in Seq(Txs), NEW lost, Send(a, txs, lost),
         \A i \in 1..Len(txs) : Creates(txs[i]) /\ ~txs[i].hasty =>
            i = 1 /\ queue[a] = <<>> /\ userContract[a] = Null
  PROVE  PageKnows(a)' /\ FirstToCreate(a)'
<1> DEFINE q == queue[a]
<1>1. /\ queue \in [Readers -> Seq(Txs)] /\ page \in [Readers -> PageStates] /\ q \in Seq(Txs)
      /\ queue' = [queue EXCEPT ![a] = q \o txs]
      /\ page' = [page EXCEPT ![a] = [page[a] EXCEPT !.busy = TRUE]]
  BY DEF StoreTypeOK, Send, Becomes
<1>2. queue'[a] = q \o txs
  BY <1>1
<1>3. /\ page'[a].busy /\ page'[a].modal = page[a].modal /\ page'[a].auth = page[a].auth
      /\ page'[a].at = page[a].at /\ page'[a].profile = page[a].profile
  BY <1>1 DEF PageStates
<1>4. PageKnows(a)'
  BY <1>3 DEF PageKnows
<1>5. ASSUME NEW i \in 1..Len(q \o txs), Creates((q \o txs)[i]), ~(q \o txs)[i].hasty
      PROVE  i = 1 /\ userContract[a] = Null
  <2>1. CASE i \in 1..Len(q)
    <3>1. (q \o txs)[i] = q[i]
      BY <1>1, <2>1, Appended
    <3> QED
      BY <1>5, <2>1, <3>1 DEF FirstToCreate
  <2>2. CASE i > Len(q) /\ i - Len(q) \in 1..Len(txs) /\ (q \o txs)[i] = txs[i - Len(q)]
    <3>1. i - Len(q) = 1 /\ q = <<>> /\ userContract[a] = Null
      BY <1>5, <2>2
    <3>2. Len(q) = 0
      BY <3>1, EmptySeq
    <3> QED
      BY <3>1, <3>2
  <2> HIDE DEF q
  <2> QED
    BY <1>1, <2>1, <2>2, Appended
<1>6. FirstToCreate(a)'
  BY <1>2, <1>5 DEF FirstToCreate
<1> QED
  BY <1>4, <1>6

LEMMA SendOneHaste ==
  ASSUME StoreTypeOK, NEW a \in Readers, PageKnows(a), FirstToCreate(a),
         userContract' = userContract, NEW tx \in Txs, Send(a, <<tx>>, 0),
         Creates(tx) /\ ~tx.hasty => queue[a] = <<>> /\ userContract[a] = Null
  PROVE  PageKnows(a)' /\ FirstToCreate(a)'
<1>1. <<tx>> \in Seq(Txs) /\ \A i \in 1..Len(<<tx>>) : i = 1 /\ <<tx>>[i] = tx
  OBVIOUS
<1> QED
  BY <1>1, SendHaste

LEMMA PayAndCallHaste ==
  ASSUME StoreTypeOK, NEW a \in Readers, PageKnows(a), FirstToCreate(a),
         userContract' = userContract, NEW amount \in {Price, Fee},
         NEW call \in {"purchase", "subscribe"}, PayAndCall(a, amount, call)
  PROVE  PageKnows(a)' /\ FirstToCreate(a)'
<1> DEFINE pay == Here(a, "pay", amount, 0)
           get == Here(a, call, 0, amount)
<1>1. pay \in Txs /\ get \in Txs
  BY Numbers, HereType
<1>2. ~Creates(pay) /\ ~Creates(get)
  BY DEF Here, Tx, Creates
<1>3. Send(a, <<pay, get>>, 0) \/ Send(a, <<get>>, amount) \/ Send(a, <<pay>>, 0)
  BY Zenon DEF PayAndCall
<1> HIDE DEF pay, get
<1>4. /\ <<pay, get>> \in Seq(Txs) /\ <<get>> \in Seq(Txs) /\ <<pay>> \in Seq(Txs)
      /\ \A i \in 1..Len(<<pay, get>>) : ~Creates(<<pay, get>>[i])
      /\ \A i \in 1..Len(<<get>>) : ~Creates(<<get>>[i])
      /\ \A i \in 1..Len(<<pay>>) : ~Creates(<<pay>>[i])
  BY <1>1, <1>2
<1>5. CASE Send(a, <<pay, get>>, 0)
  BY <1>4, <1>5, SendHaste
<1>6. CASE Send(a, <<get>>, amount)
  BY <1>4, <1>6, SendHaste
<1>7. CASE Send(a, <<pay>>, 0)
  BY <1>4, <1>7, SendHaste
<1> QED
  BY <1>3, <1>5, <1>6, <1>7

LEMMA ClickHaste ==
  ASSUME StoreTypeOK, NEW a \in Readers, PageKnows(a), FirstToCreate(a),
         userContract' = userContract, ClickPurchase(a) \/ ClickSubscribe(a)
  PROVE  PageKnows(a)' /\ FirstToCreate(a)'
<1> USE Numbers
<1>1. ASSUME NEW call \in {"newPurchase", "newSubscribe"}, NEW value \in Prices,
             NEW due \in {0, Price, Fee}, CanBuy(a), IsNew(a),
             Send(a, <<Here(a, call, value, due)>>, 0)
      PROVE  PageKnows(a)' /\ FirstToCreate(a)'
  <2>1. Here(a, call, value, due) \in Txs /\ Here(a, call, value, due).hasty = Hasty(a)
    BY HereType DEF Here, Tx
  <2>2. ~Hasty(a) => queue[a] = <<>> /\ userContract[a] = Null
    BY <1>1, NewIsFirst
  <2> QED
    BY <1>1, <2>1, <2>2, SendOneHaste
<1>2. CASE Send(a, <<Here(a, "take", 0, Price)>>, 0)
  <2>1. Here(a, "take", 0, Price) \in Txs /\ ~Creates(Here(a, "take", 0, Price))
    BY HereType DEF Here, Tx, Creates
  <2> QED
    BY <1>2, <2>1, SendOneHaste
<1>3. CASE PayAndCall(a, Price, "purchase") \/ PayAndCall(a, Fee, "subscribe")
  BY <1>3, PayAndCallHaste
<1>4. NewFee(page[a].at) \in Prices
  BY DEF NewFee
<1>5. CASE ClickPurchase(a)
  BY <1>1, <1>2, <1>3, <1>5 DEF ClickPurchase
<1>6. CASE ClickSubscribe(a)
  BY <1>1, <1>3, <1>4, <1>6 DEF ClickSubscribe
<1> QED
  BY <1>5, <1>6

(* A page that is loaded knows nothing, and what waits goes on waiting.    *)
LEMMA LoadHaste ==
  ASSUME StoreTypeOK, NEW a \in Readers, NEW where, NEW waiting \in Seq(Txs),
         Load(a, where, waiting),
         \A i \in 1..Len(waiting) : Creates(waiting[i]) /\ ~waiting[i].hasty =>
            i = 1 /\ userContract'[a] = Null
  PROVE  PageKnows(a)' /\ FirstToCreate(a)'
<1>1. page'[a] = Fresh(where, waiting # <<>>) /\ queue'[a] = Orphaned(waiting)
  BY DEF Load, Becomes, StoreTypeOK
<1>2. PageKnows(a)'
  <2>1. /\ ~page'[a].modal /\ page'[a].auth = "asked" /\ page'[a].profile = "asked"
        /\ page'[a].busy = (waiting # <<>>)
    <3>1. PICK w \in BOOLEAN : w = (waiting # <<>>)
      OBVIOUS
    <3>2. page'[a] = Fresh(where, w)
      BY <1>1, <3>1, Zenon
    <3> QED
      BY <3>1, <3>2 DEF Fresh
  <2>2. ~page'[a].busy => queue'[a] = <<>>
    <3>1. Orphaned(waiting) = <<>> <=> waiting = <<>>
      BY OrphanedCalls
    <3> QED
      BY <1>1, <2>1, <3>1, Zenon
  <2> QED
    BY <2>1, <2>2 DEF PageKnows
<1>3. FirstToCreate(a)'
  BY <1>1, OrphanedCalls DEF FirstToCreate, Creates
<1> QED
  BY <1>2, <1>3

(* The queue behind its head holds nothing that is not hasty.              *)
LEMMA TailHaste ==
  ASSUME StoreTypeOK, NEW a \in Readers, FirstToCreate(a), queue[a] # <<>>
  PROVE  \A i \in 1..Len(Tail(queue[a])) :
            Creates(Tail(queue[a])[i]) => Tail(queue[a])[i].hasty
<1>1. queue[a] \in Seq(Txs)
  BY DEF StoreTypeOK
<1> SUFFICES ASSUME NEW i \in 1..Len(Tail(queue[a])), Creates(Tail(queue[a])[i]),
                    ~Tail(queue[a])[i].hasty
             PROVE  FALSE
  OBVIOUS
<1>2. i + 1 \in 1..Len(queue[a]) /\ Tail(queue[a])[i] = queue[a][i + 1] /\ i + 1 # 1
  BY <1>1, TailOfQueue
<1> QED
  BY <1>2 DEF FirstToCreate

LEMMA AnswerHaste ==
  ASSUME StoreTypeOK, NEW a \in Readers, PageKnows(a), FirstToCreate(a),
         userContract' = userContract, queue' = queue,
         NEW state, Becomes(a, state), state.busy = page[a].busy, state.at = page[a].at,
         state.modal \/ state.auth # "asked" => page[a].at = "content",
         state.profile = "listed" => page[a].at = "index",
         state.profile = "new" => page[a].profile = "new" \/ userContract[a] = Null
  PROVE  PageKnows(a)' /\ FirstToCreate(a)'
<1>1. page'[a] = state
  BY DEF Becomes, StoreTypeOK
<1> QED
  BY <1>1 DEF PageKnows, FirstToCreate

LEMMA PageStepHaste ==
  ASSUME StoreTypeOK, NEW a \in Readers, PageKnows(a), FirstToCreate(a), PageStep(a)
  PROVE  PageKnows(a)' /\ FirstToCreate(a)'
<1>u. userContract' = userContract
  BY PageStepIsQuiet DEF vars
<1>a. page[a] \in PageStates /\ queue[a] \in Seq(Txs)
  BY DEF StoreTypeOK
<1>1. ASSUME NEW where \in {"index", "content"}, Open(a, where)
      PROVE  PageKnows(a)' /\ FirstToCreate(a)'
  <2>1. Load(a, where, queue[a])
    BY <1>1 DEF Open
  <2>2. \A i \in 1..Len(queue[a]) : Creates(queue[a][i]) /\ ~queue[a][i].hasty =>
           i = 1 /\ userContract'[a] = Null
    BY <1>u DEF FirstToCreate
  <2> QED
    BY <1>a, <2>1, <2>2, LoadHaste
<1>2. CASE GetUserProfile(a)
  <2>1. PICK s \in {"new", "user", "listed"} :
           /\ Becomes(a, [page[a] EXCEPT !.profile = s])
           /\ s = "new" => userContract[a] = Null
           /\ s = "listed" => page[a].at = "index"
    BY <1>2, Zenon DEF GetUserProfile
  <2>2. queue' = queue
    BY <1>2 DEF GetUserProfile
  <2> DEFINE state == [page[a] EXCEPT !.profile = s]
  <2>3. /\ state.busy = page[a].busy /\ state.at = page[a].at /\ state.modal = page[a].modal
        /\ state.auth = page[a].auth /\ state.profile = s /\ Becomes(a, state)
    BY <1>a, <2>1 DEF PageStates
  <2>4. page[a].modal \/ page[a].auth # "asked" => page[a].at = "content"
    BY DEF PageKnows
  <2> HIDE DEF state
  <2> QED
    BY <1>u, <2>1, <2>2, <2>3, <2>4, AnswerHaste
<1>3. ASSUME NEW state, Becomes(a, state), queue' = queue, state.at = page[a].at,
             state.busy = page[a].busy, state.profile = page[a].profile, page[a].at = "content"
      PROVE  PageKnows(a)' /\ FirstToCreate(a)'
  <2>1. state.profile # "listed"
    BY <1>3 DEF PageKnows
  <2> QED
    BY <1>3, <1>u, <2>1, AnswerHaste
<1>4. CASE ReadSubscription(a)
  <2>1. PICK s : Becomes(a, [page[a] EXCEPT !.auth = s])
    BY <1>4, Zenon DEF ReadSubscription
  <2>2. queue' = queue /\ page[a].at = "content"
    BY <1>4 DEF ReadSubscription
  <2> DEFINE state == [page[a] EXCEPT !.auth = s]
  <2>3. state.busy = page[a].busy /\ state.at = page[a].at /\ state.profile = page[a].profile
    BY <1>a DEF PageStates
  <2> QED
    BY <1>3, <2>1, <2>2, <2>3
<1>5. CASE ReadWhitelist(a)
  <2>1. PICK m, t : Becomes(a, [page[a] EXCEPT !.auth = "done", !.modal = m, !.access = t])
    BY <1>5, Zenon DEF ReadWhitelist
  <2>2. queue' = queue /\ page[a].at = "content"
    BY <1>5 DEF ReadWhitelist, PageKnows
  <2> DEFINE state == [page[a] EXCEPT !.auth = "done", !.modal = m, !.access = t]
  <2>3. state.busy = page[a].busy /\ state.at = page[a].at /\ state.profile = page[a].profile
    BY <1>a DEF PageStates
  <2> QED
    BY <1>3, <2>1, <2>2, <2>3
<1>6. CASE AuthFails(a)
  <2> DEFINE state == [page[a] EXCEPT !.auth = "failed"]
  <2>1. Becomes(a, state) /\ queue' = queue /\ page[a].at = "content"
    BY <1>6 DEF AuthFails
  <2>2. state.busy = page[a].busy /\ state.at = page[a].at /\ state.profile = page[a].profile
    BY <1>a DEF PageStates
  <2> HIDE DEF state
  <2> QED
    BY <1>3, <2>1, <2>2
<1>7. CASE ClickPurchase(a) \/ ClickSubscribe(a)
  BY <1>7, <1>u, ClickHaste
<1>8. CASE Fail(a)
  <2>1. queue[a] # <<>> /\ queue'[a] = Tail(queue[a]) /\ page' = page
    BY <1>8 DEF Fail, StoreTypeOK
  <2>2. PageKnows(a)'
    BY <1>u, <2>1 DEF PageKnows
  <2>3. FirstToCreate(a)'
    BY <2>1, TailHaste DEF FirstToCreate
  <2> QED
    BY <2>2, <2>3
<1> QED
  BY <1>1, <1>2, <1>4, <1>5, <1>6, <1>7, <1>8 DEF PageStep

LEMMA MineHaste ==
  ASSUME StoreTypeOK, NEW a \in Readers, PageKnows(a), FirstToCreate(a), Mine(a)
  PROVE  PageKnows(a)' /\ FirstToCreate(a)'
<1> DEFINE tx == Head(queue[a])
<1>1. queue[a] # <<>> /\ Receipt(a, tx)
  BY DEF Mine
<1>2. queue[a] \in Seq(Txs) /\ page[a] \in PageStates /\ Tail(queue[a]) \in Seq(Txs)
  BY <1>1, TailOfQueue DEF StoreTypeOK
<1>3. page[a].busy
  BY <1>1 DEF PageKnows
<1> HIDE DEF tx
<1>4. CASE Load(a, "index", Tail(queue[a]))
  BY <1>1, <1>2, <1>4, TailHaste, LoadHaste
<1>5. ASSUME Becomes(a, [page[a] EXCEPT !.modal = FALSE, !.access = TRUE]) \/ UNCHANGED page,
             queue' = [queue EXCEPT ![a] = Tail(@)]
      PROVE  PageKnows(a)' /\ FirstToCreate(a)'
  <2>1. /\ page'[a].busy /\ page'[a].at = page[a].at /\ page'[a].profile = page[a].profile
        /\ page'[a].auth = page[a].auth /\ (page'[a].modal => page[a].modal)
    <3>1. CASE UNCHANGED page
      BY <1>3, <3>1
    <3>2. CASE Becomes(a, [page[a] EXCEPT !.modal = FALSE, !.access = TRUE])
      <4>1. page'[a] = [page[a] EXCEPT !.modal = FALSE, !.access = TRUE]
        BY <3>2 DEF Becomes, StoreTypeOK
      <4> QED
        BY <1>2, <1>3, <4>1 DEF PageStates
    <3> QED
      BY <1>5, <3>1, <3>2
  <2>2. queue'[a] = Tail(queue[a])
    BY <1>5 DEF StoreTypeOK
  <2>3. PageKnows(a)'
    BY <2>1 DEF PageKnows
  <2>4. FirstToCreate(a)'
    BY <1>1, <2>2, TailHaste DEF FirstToCreate
  <2> QED
    BY <2>3, <2>4
<1> QED
  BY <1>1, <1>4, <1>5, Zenon DEF Receipt

LEMMA HasteNext == StoreTypeOK /\ HasteInv /\ [StoreNext]_allVars => HasteInv'
<1> SUFFICES ASSUME StoreTypeOK, HasteInv, [StoreNext]_allVars, NEW b \in Readers
             PROVE  PageKnows(b)' /\ FirstToCreate(b)'
  BY DEF HasteInv
<1>1. PageKnows(b) /\ FirstToCreate(b)
  BY DEF HasteInv
<1>2. ASSUME page'[b] = page[b], queue'[b] = queue[b], userContract'[b] = userContract[b]
      PROVE  PageKnows(b)' /\ FirstToCreate(b)'
  BY <1>1, <1>2 DEF PageKnows, FirstToCreate
<1>3. ASSUME NEW a \in Readers, PageStep(a) \/ Mine(a), a # b
      PROVE  PageKnows(b)' /\ FirstToCreate(b)'
  BY <1>2, <1>3, PageStepKeepsOthers, MineKeepsOthers DEF OthersKept
<1>4. ASSUME Meanwhile \/ UNCHANGED allVars PROVE PageKnows(b)' /\ FirstToCreate(b)'
  <2>1. page' = page /\ queue' = queue /\ userContract' = userContract
    BY <1>4 DEF Meanwhile, Tick, RemoveSubscriber, allVars, storeVars, vars
  <2> QED
    BY <1>2, <2>1
<1> QED
  BY <1>1, <1>3, <1>4, StoreSteps, PageStepHaste, MineHaste

(* A profile contract is replaced only by what was sent before the page    *)
(* knew of it or while another transaction of the account was waiting      *)
(* (content/[id].js:69-85, 94).                                            *)
THEOREM ReplacesOnlyInHaste == StoreSpec => ReplacedOnlyInHaste
<1>1. StoreInit => HasteInv
  <2> SUFFICES ASSUME StoreInit, NEW a \in Readers PROVE PageKnows(a) /\ FirstToCreate(a)
    BY DEF HasteInv
  <2>1. page[a] = Closed /\ queue[a] = <<>> /\ userContract[a] = Null
    BY ReadersAreAccounts DEF StoreInit
  <2> QED
    BY <2>1 DEF PageKnows, FirstToCreate, Closed, Fresh
<1>2. ASSUME StoreTypeInv, HasteInv, [StoreNext]_allVars,
             NEW a \in Readers, userContract[a] # Null, userContract'[a] # userContract[a]
      PROVE  Head(queue[a]).hasty
  <2>1. Mine(a) /\ Creates(Head(queue[a])) /\ queue[a] # <<>> /\ queue[a] \in Seq(Txs)
    BY <1>2, ProfileChanges DEF Mine, StoreTypeInv, StoreTypeOK
  <2>2. 1 \in 1..Len(queue[a]) /\ Head(queue[a]) = queue[a][1]
    BY <2>1, TailOfQueue
  <2> QED
    BY <1>2, <2>1, <2>2 DEF HasteInv, FirstToCreate
<1>3. StoreTypeInv /\ HasteInv /\ [StoreNext]_allVars =>
        [\A a \in Readers :
            userContract[a] # Null /\ userContract'[a] # userContract[a] =>
                Head(queue[a]).hasty]_allVars
  BY <1>2
<1>4. StoreTypeInv => StoreTypeOK
  BY DEF StoreTypeInv
<1> QED
  BY <1>1, <1>3, <1>4, StoreTypeInit, StoreTypeNext, HasteNext, PTL DEF StoreSpec, ReplacedOnlyInHaste

-----------------------------------------------------------------------------
(* Who has paid.                                                           *)

(* What is given on the strength of a payment sent earlier.                *)
Ahead(tx) == IF tx.call \in {"purchase", "subscribe"} THEN tx.due ELSE 0

(* "credit" is what a reader has spent beyond what it was given, at each   *)
(* place of its queue, if the payments before that place are made.         *)
Covers(credit, txs) ==
    \A i \in 1..Len(txs) : credit[i] + Ahead(txs[i]) <= credit[i - 1] + Payment(txs[i])

(* Nowhere in the queue is the credit negative; "left" remains at its end. *)
Backed(txs, given, spent, left) ==
    \E credit \in [0..Len(txs) -> Nat] :
        /\ given + credit[0] <= spent
        /\ Covers(credit, txs)
        /\ left <= credit[Len(txs)]

LEMMA TxNumbers ==
  ASSUME NEW tx \in Txs
  PROVE  tx.value \in Nat /\ tx.due \in Nat /\ Ahead(tx) \in Nat /\ Payment(tx) \in Nat
<1>1. tx.value \in Nat /\ tx.due \in Nat
  BY Numbers DEF Txs
<1> QED
  BY <1>1 DEF Ahead, Payment

(* More spent, or less given.                                              *)
LEMMA BackedMore ==
  ASSUME NEW txs, NEW given \in Nat, NEW spent \in Nat, Backed(txs, given, spent, 0),
         Len(txs) \in Nat, NEW given2 \in Nat, NEW spent2 \in Nat,
         given2 + spent <= given + spent2
  PROVE  Backed(txs, given2, spent2, 0)
<1>1. PICK credit \in [0..Len(txs) -> Nat] :
         given + credit[0] <= spent /\ Covers(credit, txs) /\ 0 <= credit[Len(txs)]
  BY DEF Backed
<1>2. given2 + credit[0] <= spent2
  BY <1>1
<1> QED
  BY <1>1, <1>2 DEF Backed

(* A payment that failed is credit at every place.                         *)
LEMMA BackedCredit ==
  ASSUME NEW txs \in Seq(Txs), NEW given \in Nat, NEW spent \in Nat,
         Backed(txs, given, spent, 0), NEW extra \in Nat
  PROVE  Backed(txs, given, spent + extra, extra)
<1>1. PICK credit \in [0..Len(txs) -> Nat] :
         given + credit[0] <= spent /\ Covers(credit, txs) /\ 0 <= credit[Len(txs)]
  BY DEF Backed
<1>2. Len(txs) \in Nat /\ \A i \in 1..Len(txs) : txs[i] \in Txs
  BY LenProperties
<1> DEFINE more == [i \in 0..Len(txs) |-> credit[i] + extra]
<1>3. more \in [0..Len(txs) -> Nat] /\ \A i \in 0..Len(txs) : more[i] = credit[i] + extra
  OBVIOUS
<1> HIDE DEF more
<1>4. given + more[0] <= spent + extra
  BY <1>1, <1>2, <1>3
<1>5. Covers(more, txs)
  <2> SUFFICES ASSUME NEW i \in 1..Len(txs)
               PROVE  more[i] + Ahead(txs[i]) <= more[i - 1] + Payment(txs[i])
    BY DEF Covers
  <2>1. /\ Ahead(txs[i]) \in Nat /\ Payment(txs[i]) \in Nat
        /\ i \in 0..Len(txs) /\ i - 1 \in 0..Len(txs)
    BY <1>2, TxNumbers
  <2>2. credit[i] + Ahead(txs[i]) <= credit[i - 1] + Payment(txs[i])
    BY <1>1 DEF Covers
  <2>3. /\ more[i] = credit[i] + extra /\ more[i - 1] = credit[i - 1] + extra
        /\ credit[i] \in Nat /\ credit[i - 1] \in Nat
    BY <1>3, <2>1
  <2> QED
    BY <2>1, <2>2, <2>3
<1>6. extra <= more[Len(txs)]
  BY <1>2, <1>3
<1> QED
  BY <1>3, <1>4, <1>5, <1>6 DEF Backed

(* One more transaction is sent.                                           *)
LEMMA BackedSend ==
  ASSUME NEW txs \in Seq(Txs), NEW tx \in Txs, NEW given \in Nat, NEW spent \in Nat,
         NEW left \in Nat, NEW left2 \in Nat, Backed(txs, given, spent, left),
         left2 + Ahead(tx) <= left + Payment(tx)
  PROVE  Backed(txs \o <<tx>>, given, spent, left2)
<1> DEFINE n == Len(txs)
           more == txs \o <<tx>>
<1>1. PICK credit \in [0..n -> Nat] :
         given + credit[0] <= spent /\ Covers(credit, txs) /\ left <= credit[n]
  BY DEF Backed
<1>2. n \in Nat
  BY LenProperties
<1>3. <<tx>> \in Seq(Txs) /\ Len(<<tx>>) = 1 /\ <<tx>>[1] = tx
  OBVIOUS
<1>4. Len(more) = n + 1 /\ more[n + 1] = tx /\ \A i \in 1..n : more[i] = txs[i]
  BY <1>3, Appended
<1> HIDE DEF more
<1> DEFINE next == [i \in 0..n + 1 |-> IF i = n + 1 THEN left2 ELSE credit[i]]
<1>5. /\ next \in [0..n + 1 -> Nat] /\ next[n + 1] = left2
      /\ \A i \in 0..n : next[i] = credit[i]
  BY <1>2
<1> HIDE DEF next
<1>6. Covers(next, more)
  <2> SUFFICES ASSUME NEW i \in 1..n + 1
               PROVE  next[i] + Ahead(more[i]) <= next[i - 1] + Payment(more[i])
    BY <1>4 DEF Covers
  <2>1. CASE i = n + 1
    <3>1. Ahead(tx) \in Nat /\ Payment(tx) \in Nat
      BY TxNumbers
    <3>2. next[i] = left2 /\ more[i] = tx /\ next[i - 1] = credit[n] /\ credit[n] \in Nat
      BY <1>2, <1>4, <1>5, <2>1
    <3> QED
      BY <1>1, <3>1, <3>2
  <2>2. CASE i # n + 1
    <3>1. i \in 1..n /\ i - 1 \in 0..n /\ i \in 0..n
      BY <1>2, <2>2
    <3>2. credit[i] + Ahead(txs[i]) <= credit[i - 1] + Payment(txs[i])
      BY <1>1, <3>1 DEF Covers
    <3> QED
      BY <1>4, <1>5, <3>1, <3>2
  <2> QED
    BY <2>1, <2>2
<1>7. given + next[0] <= spent
  BY <1>1, <1>2, <1>5
<1>8. left2 <= next[n + 1]
  BY <1>5
<1>9. \E f \in [0..Len(more) -> Nat] :
         given + f[0] <= spent /\ Covers(f, more) /\ left2 <= f[Len(more)]
  BY <1>4, <1>5, <1>6, <1>7, <1>8
<1> QED
  BY <1>9 DEF Backed, more

(* The first transaction is mined or fails.                                *)
LEMMA BackedTail ==
  ASSUME NEW txs \in Seq(Txs), txs # <<>>, NEW given \in Nat, NEW spent \in Nat,
         Backed(txs, given, spent, 0)
  PROVE  Backed(Tail(txs), given + Ahead(Head(txs)), spent + Payment(Head(txs)), 0)
<1> DEFINE n == Len(txs)
           rest == Tail(txs)
<1>1. PICK credit \in [0..n -> Nat] : given + credit[0] <= spent /\ Covers(credit, txs)
  BY DEF Backed
<1>2. /\ rest \in Seq(Txs) /\ Head(txs) = txs[1] /\ n \in Nat \ {0} /\ Len(rest) = n - 1
      /\ \A i \in 1..Len(rest) : i + 1 \in 1..n /\ rest[i] = txs[i + 1]
  BY TailOfQueue
<1>3. \A i \in 1..n : Ahead(txs[i]) \in Nat /\ Payment(txs[i]) \in Nat
  BY LenProperties, TxNumbers
<1> HIDE DEF n, rest
<1> DEFINE next == [i \in 0..n - 1 |-> credit[i + 1]]
<1>4. next \in [0..n - 1 -> Nat] /\ \A i \in 0..n - 1 : next[i] = credit[i + 1]
  BY <1>2
<1> HIDE DEF next
<1>5. given + Ahead(Head(txs)) + next[0] <= spent + Payment(Head(txs))
  <2>1. credit[1] + Ahead(txs[1]) <= credit[0] + Payment(txs[1])
    BY <1>1, <1>2 DEF Covers, n
  <2>2. next[0] = credit[1] /\ credit[1] \in Nat /\ credit[0] \in Nat
    BY <1>2, <1>4
  <2>3. given + credit[0] <= spent /\ Head(txs) = txs[1]
    BY <1>1, <1>2
  <2>4. Ahead(txs[1]) \in Nat /\ Payment(txs[1]) \in Nat
    BY <1>2, <1>3
  <2> QED
    BY <2>1, <2>2, <2>3, <2>4
<1>6. Covers(next, rest)
  <2> SUFFICES ASSUME NEW i \in 1..Len(rest)
               PROVE  next[i] + Ahead(rest[i]) <= next[i - 1] + Payment(rest[i])
    BY DEF Covers
  <2>1. i + 1 \in 1..n /\ rest[i] = txs[i + 1] /\ i \in 0..n - 1 /\ i - 1 \in 0..n - 1
    BY <1>2
  <2>2. credit[i + 1] + Ahead(txs[i + 1]) <= credit[(i + 1) - 1] + Payment(txs[i + 1])
    BY <1>1, <2>1 DEF Covers, n
  <2>3. next[i] = credit[i + 1] /\ next[i - 1] = credit[(i - 1) + 1]
    BY <1>4, <2>1
  <2>4. (i + 1) - 1 = (i - 1) + 1
    BY <1>2
  <2> QED
    BY <2>1, <2>2, <2>3, <2>4
<1>7. next \in [0..Len(rest) -> Nat] /\ 0 <= next[Len(rest)]
  <2>1. next[n - 1] \in Nat
    BY <1>2, <1>4
  <2> QED
    BY <1>2, <1>4, <2>1
<1>8. \E f \in [0..Len(rest) -> Nat] :
         /\ given + Ahead(Head(txs)) + f[0] <= spent + Payment(Head(txs))
         /\ Covers(f, rest) /\ 0 <= f[Len(rest)]
  BY <1>5, <1>6, <1>7, Zenon
<1> QED
  BY <1>8 DEF Backed, rest

LEMMA BackedOrphaned ==
  ASSUME NEW txs \in Seq(Txs), NEW given, NEW spent, Backed(txs, given, spent, 0)
  PROVE  Backed(Orphaned(txs), given, spent, 0)
<1>1. PICK credit \in [0..Len(txs) -> Nat] :
         given + credit[0] <= spent /\ Covers(credit, txs) /\ 0 <= credit[Len(txs)]
  BY DEF Backed
<1>2. /\ Len(Orphaned(txs)) = Len(txs)
      /\ \A i \in 1..Len(txs) : /\ Ahead(Orphaned(txs)[i]) = Ahead(txs[i])
                                /\ Payment(Orphaned(txs)[i]) = Payment(txs[i])
  BY OrphanedCalls DEF Ahead, Payment
<1>3. Covers(credit, Orphaned(txs))
  BY <1>1, <1>2 DEF Covers
<1> QED
  BY <1>1, <1>2, <1>3 DEF Backed

(* What a page sends costs what it asks: a new reader pays with the call   *)
(* itself, a payment buys nothing by itself, the purchase carries nothing. *)
Priced(tx) ==
    /\ Creates(tx) => tx.due <= tx.value
    /\ tx.call = "pay" => tx.due = 0
    /\ tx.call \in {"purchase", "take"} => tx.value = 0

AllPriced(txs) == \A i \in 1..Len(txs) : Priced(txs[i])

PaidFor(a) ==
    /\ AllPriced(queue[a])
    /\ Backed(queue[a], owed[a] + wei[a], Endowment + unasked[a] + forgiven[a], 0)

PaidInv == \A a \in Readers : PaidFor(a)

LEMMA PricedQueues ==
  ASSUME NEW q \in Seq(Txs), AllPriced(q)
  PROVE  AllPriced(Orphaned(q)) /\ (q # <<>> => Priced(Head(q)) /\ AllPriced(Tail(q)))
<1>1. AllPriced(Orphaned(q))
  BY OrphanedCalls DEF AllPriced, Priced, Creates
<1>2. ASSUME q # <<>> PROVE Priced(Head(q)) /\ AllPriced(Tail(q))
  <2>1. 1 \in 1..Len(q) /\ Head(q) = q[1]
    BY <1>2, TailOfQueue
  <2>2. \A i \in 1..Len(Tail(q)) : i + 1 \in 1..Len(q) /\ Tail(q)[i] = q[i + 1]
    BY <1>2, TailOfQueue
  <2> QED
    BY <2>1, <2>2 DEF AllPriced
<1> QED
  BY <1>1, <1>2

LEMMA PricedAppended ==
  ASSUME NEW q \in Seq(Txs), AllPriced(q), NEW tx \in Txs, Priced(tx)
  PROVE  q \o <<tx>> \in Seq(Txs) /\ AllPriced(q \o <<tx>>)
<1>1. <<tx>> \in Seq(Txs) /\ Len(<<tx>>) = 1 /\ <<tx>>[1] = tx
  OBVIOUS
<1>2. q \o <<tx>> \in Seq(Txs)
  BY <1>1, ConcatProperties
<1>3. ASSUME NEW i \in 1..Len(q \o <<tx>>) PROVE Priced((q \o <<tx>>)[i])
  <2>1. \/ i \in 1..Len(q)
        \/ i - Len(q) \in 1..Len(<<tx>>) /\ (q \o <<tx>>)[i] = <<tx>>[i - Len(q)]
    BY <1>1, Appended
  <2>2. CASE i \in 1..Len(q)
    BY <1>1, <2>2, Appended DEF AllPriced
  <2>3. CASE i - Len(q) \in 1..Len(<<tx>>) /\ (q \o <<tx>>)[i] = <<tx>>[i - Len(q)]
    BY <1>1, <2>3
  <2> QED
    BY <2>1, <2>2, <2>3
<1> QED
  BY <1>2, <1>3 DEF AllPriced

(* What is mined moves, of the readers' ether, the payer's to the Shop.    *)
Cost(tx) == IF tx.call = "pay" \/ Creates(tx) THEN tx.value ELSE 0

LEMMA PayMoves ==
  ASSUME TypeOK, NEW from \in Addresses, NEW to \in Addresses, from # to, NEW value \in Nat,
         Pay(from, to, value)
  PROVE  /\ wei'[from] \in Nat /\ wei'[from] + value = wei[from] /\ wei'[to] = wei[to] + value
         /\ \A x \in Addresses : x # from /\ x # to => wei'[x] = wei[x]
<1>1. wei[from] \in Nat /\ wei[to] \in Nat /\ value <= wei[from]
  BY DEF TypeOK, Pay
<1>2. \A x \in Addresses :
         wei'[x] = wei[x] - (IF x = from THEN value ELSE 0) + (IF x = to THEN value ELSE 0)
  BY PayType
<1>3. wei'[from] = wei[from] - value /\ wei'[to] = wei[to] + value
  BY <1>1, <1>2
<1>4. \A x \in Addresses : x # from /\ x # to => wei'[x] = wei[x]
  <2> SUFFICES ASSUME NEW x \in Addresses, x # from, x # to PROVE wei'[x] = wei[x]
    OBVIOUS
  <2>1. wei[x] \in Nat
    BY DEF TypeOK
  <2> QED
    BY <1>2, <2>1
<1> QED
  BY <1>1, <1>3, <1>4

LEMMA MinedPays ==
  ASSUME StoreTypeInv, ItemInv, NEW a \in Readers, NEW tx \in Txs, Priced(tx), Execute(a, tx)
  PROVE  /\ wei'[a] \in Nat /\ wei'[a] + Cost(tx) = wei[a] /\ wei'[Shop] = wei[Shop] + Cost(tx)
         /\ \A b \in Readers : b # a => wei'[b] = wei[b]
<1>1. /\ TypeOK /\ tx.value \in Nat /\ wei \in [Addresses -> Nat]
      /\ content[Item].ownerId = Shop
  BY TxNumbers DEF StoreTypeInv, TypeInv, TypeOK, ItemInv
<1>2. /\ a \in Addresses /\ Shop \in Addresses /\ GatewayAddr \in Addresses
      /\ a # Shop /\ a # GatewayAddr /\ Shop # GatewayAddr
      /\ \A b \in Readers : b \in Addresses /\ b # Shop /\ b # GatewayAddr
  BY ReadersAreAccounts, StorefrontAssumption, AddressAssumption DEF Addresses
<1>3. CASE Pay(a, Shop, tx.value) /\ Cost(tx) = tx.value
  BY <1>1, <1>2, <1>3, PayMoves
<1>4. CASE Pay(a, GatewayAddr, tx.value) /\ tx.value = 0 /\ Cost(tx) = 0
  BY <1>1, <1>2, <1>4, PayMoves
<1>5. CASE UNCHANGED wei /\ Cost(tx) = 0
  BY <1>1, <1>2, <1>5
<1>6. CASE tx.call = "pay" /\ SendEther(a, Shop, tx.value)
  BY <1>3, <1>6 DEF SendEther, Cost
<1>7. CASE tx.call \in {"purchase", "take"} /\ PurchaseContent(a, Item, Price, tx.value)
  <2>1. tx.value = 0 /\ Cost(tx) = 0
    BY <1>7 DEF Priced, Cost, Creates
  <2> QED
    BY <1>4, <1>7, <2>1 DEF PurchaseContent
<1>8. CASE tx.call = "newPurchase" /\ CreateNewUserAndPurchase(a, Item, Price, Shop, tx.value)
  BY <1>1, <1>3, <1>8 DEF CreateNewUserAndPurchase, Cost, Creates
<1>9. CASE tx.call = "subscribe" /\ AddSubscriber(a, Shop)
  BY <1>5, <1>9 DEF AddSubscriber, Cost, Creates
<1>10. CASE tx.call = "newSubscribe" /\ CreateNewUserAndSubscribe(a, Shop, tx.value)
  BY <1>3, <1>10 DEF CreateNewUserAndSubscribe, Cost, Creates
<1> QED
  BY <1>6, <1>7, <1>8, <1>9, <1>10 DEF Execute

LEMMA CreditTypes ==
  ASSUME StoreTypeInv, NEW a \in Readers
  PROVE  /\ queue[a] \in Seq(Txs) /\ owed[a] \in Nat /\ wei[a] \in Nat
         /\ unasked[a] \in Nat /\ forgiven[a] \in Nat
         /\ owed[a] + wei[a] \in Nat /\ Endowment + unasked[a] + forgiven[a] \in Nat
<1>1. a \in Addresses
  BY ReadersAreAccounts DEF Addresses
<1>2. /\ queue[a] \in Seq(Txs) /\ owed[a] \in Nat /\ wei[a] \in Nat
      /\ unasked[a] \in Nat /\ forgiven[a] \in Nat
  BY <1>1 DEF StoreTypeInv, StoreTypeOK, TypeOK
<1> QED
  BY <1>2, NumberAssumption

LEMMA SendPaid ==
  ASSUME StoreTypeInv, NEW a \in Readers, PaidFor(a), NEW tx \in Txs, Priced(tx),
         NEW lost \in Nat, Send(a, <<tx>>, lost), Ahead(tx) <= lost + Payment(tx)
  PROVE  PaidFor(a)'
<1>1. /\ queue'[a] = queue[a] \o <<tx>> /\ owed'[a] = owed[a] /\ wei'[a] = wei[a]
      /\ unasked'[a] = unasked[a] /\ forgiven'[a] = forgiven[a] + lost
  BY DEF Send, vars, StoreTypeInv, StoreTypeOK
<1>2. AllPriced(queue'[a])
  BY <1>1, CreditTypes, PricedAppended DEF PaidFor
<1>3. Backed(queue[a], owed[a] + wei[a], (Endowment + unasked[a] + forgiven[a]) + lost, lost)
  BY CreditTypes, BackedCredit DEF PaidFor
<1>4. (Endowment + unasked[a] + forgiven[a]) + lost \in Nat /\ 0 + Ahead(tx) <= lost + Payment(tx)
  BY CreditTypes, TxNumbers
<1>5. Backed(queue[a] \o <<tx>>, owed[a] + wei[a], (Endowment + unasked[a] + forgiven[a]) + lost, 0)
  BY <1>3, <1>4, CreditTypes, BackedSend
<1>6. (Endowment + unasked[a] + forgiven[a]) + lost = Endowment + unasked[a] + forgiven'[a]
  BY <1>1, CreditTypes, NumberAssumption
<1> QED
  BY <1>1, <1>2, <1>5, <1>6 DEF PaidFor

(* Two transactions sent are the one after the other.                      *)
LEMMA AppendedTwo ==
  ASSUME NEW S, NEW q \in Seq(S), NEW x \in S, NEW y \in S
  PROVE  q \o <<x, y>> = (q \o <<x>>) \o <<y>>
<1>1. /\ <<x>> \in Seq(S) /\ Len(<<x>>) = 1 /\ <<x>>[1] = x
      /\ <<y>> \in Seq(S) /\ Len(<<y>>) = 1 /\ <<y>>[1] = y
      /\ <<x, y>> \in Seq(S) /\ Len(<<x, y>>) = 2 /\ <<x, y>>[1] = x /\ <<x, y>>[2] = y
  OBVIOUS
<1>2. q \o <<x>> \in Seq(S) /\ (q \o <<x>>) \o <<y>> \in Seq(S) /\ q \o <<x, y>> \in Seq(S)
  BY <1>1, ConcatProperties
<1>3. Len(q) \in Nat
  BY LenProperties
<1>4. /\ Len(q \o <<x>>) = Len(q) + 1 /\ Len((q \o <<x>>) \o <<y>>) = Len(q) + 2
      /\ Len(q \o <<x, y>>) = Len(q) + 2
  BY <1>1, <1>2, <1>3, ConcatProperties
<1>5. ASSUME NEW i \in 1..Len(q) + 2
      PROVE  (q \o <<x, y>>)[i] = ((q \o <<x>>) \o <<y>>)[i]
  BY <1>1, <1>2, <1>3, <1>4, ConcatProperties
<1> QED
  BY <1>2, <1>4, <1>5, SeqEqual

LEMMA SendBothPaid ==
  ASSUME StoreTypeInv, NEW a \in Readers, PaidFor(a), NEW pay \in Txs, NEW get \in Txs,
         Priced(pay), Priced(get), Ahead(pay) = 0, Ahead(get) <= Payment(pay),
         Send(a, <<pay, get>>, 0)
  PROVE  PaidFor(a)'
<1>1. /\ queue'[a] = queue[a] \o <<pay, get>> /\ owed'[a] = owed[a] /\ wei'[a] = wei[a]
      /\ unasked'[a] = unasked[a] /\ forgiven'[a] = forgiven[a]
  BY CreditTypes DEF Send, vars, StoreTypeInv, StoreTypeOK
<1>2. queue[a] \o <<pay, get>> = (queue[a] \o <<pay>>) \o <<get>>
  BY CreditTypes, AppendedTwo
<1>3. queue[a] \o <<pay>> \in Seq(Txs) /\ AllPriced(queue[a] \o <<pay>>)
  BY CreditTypes, PricedAppended DEF PaidFor
<1>4. AllPriced(queue'[a])
  BY <1>1, <1>2, <1>3, PricedAppended
<1>5. /\ Payment(pay) \in Nat /\ Payment(pay) + Ahead(pay) <= 0 + Payment(pay)
      /\ Ahead(get) \in Nat /\ Payment(get) \in Nat
      /\ 0 + Ahead(get) <= Payment(pay) + Payment(get)
  BY TxNumbers
<1>6. Backed(queue[a] \o <<pay>>, owed[a] + wei[a], Endowment + unasked[a] + forgiven[a], Payment(pay))
  BY <1>5, CreditTypes, BackedSend DEF PaidFor
<1>7. Backed((queue[a] \o <<pay>>) \o <<get>>, owed[a] + wei[a], Endowment + unasked[a] + forgiven[a], 0)
  <2> DEFINE paid == queue[a] \o <<pay>>
             given == owed[a] + wei[a]
             spent == Endowment + unasked[a] + forgiven[a]
  <2>1. paid \in Seq(Txs) /\ given \in Nat /\ spent \in Nat /\ Backed(paid, given, spent, Payment(pay))
    BY <1>3, <1>6, CreditTypes
  <2> HIDE DEF paid, given, spent
  <2>2. Backed(paid \o <<get>>, given, spent, 0)
    BY <1>5, <2>1, BackedSend
  <2> QED
    BY <2>2 DEF paid, given, spent
<1> QED
  BY <1>1, <1>2, <1>4, <1>7 DEF PaidFor

(* A click that is answered by one transaction, or by two.                 *)
LEMMA ClickPaid ==
  ASSUME StoreTypeInv, NEW a \in Readers, PaidFor(a), ClickPurchase(a) \/ ClickSubscribe(a)
  PROVE  PaidFor(a)'
<1> USE Numbers
<1>1. ASSUME NEW call \in {"newPurchase", "newSubscribe"}, NEW value \in Prices,
             NEW due \in {0, Price, Fee}, due <= value,
             Send(a, <<Here(a, call, value, due)>>, 0)
      PROVE  PaidFor(a)'
  <2> DEFINE tx == Here(a, call, value, due)
  <2>1. tx \in Txs
    BY HereType DEF StoreTypeInv
  <2>2. tx.call = call /\ tx.value = value /\ tx.due = due
    BY DEF Here, Tx
  <2> HIDE DEF tx
  <2>3. Priced(tx) /\ Ahead(tx) = 0 /\ Payment(tx) = 0
    BY <1>1, <2>2 DEF Priced, Ahead, Payment
  <2>4. Send(a, <<tx>>, 0)
    BY <1>1 DEF tx
  <2> QED
    BY <2>1, <2>3, <2>4, SendPaid
<1>2. CASE Send(a, <<Here(a, "take", 0, Price)>>, 0)
  <2> DEFINE tx == Here(a, "take", 0, Price)
  <2>1. tx \in Txs
    BY HereType DEF StoreTypeInv
  <2>2. tx.call = "take" /\ tx.value = 0 /\ tx.due = Price
    BY DEF Here, Tx
  <2> HIDE DEF tx
  <2>3. Priced(tx) /\ Ahead(tx) = 0 /\ Payment(tx) = 0
    BY <2>2 DEF Priced, Ahead, Payment, Creates
  <2>4. Send(a, <<tx>>, 0)
    BY <1>2 DEF tx
  <2> QED
    BY <2>1, <2>3, <2>4, SendPaid
<1>3. ASSUME NEW amount \in {Price, Fee}, NEW call \in {"purchase", "subscribe"},
             PayAndCall(a, amount, call)
      PROVE  PaidFor(a)'
  <2> DEFINE pay == Here(a, "pay", amount, 0)
             get == Here(a, call, 0, amount)
  <2>1. pay \in Txs /\ get \in Txs /\ amount \in Nat
    BY HereType DEF StoreTypeInv
  <2>2. /\ pay.call = "pay" /\ pay.value = amount /\ pay.due = 0
        /\ get.call = call /\ get.value = 0 /\ get.due = amount
    BY DEF Here, Tx
  <2>3. Send(a, <<pay, get>>, 0) \/ Send(a, <<get>>, amount) \/ Send(a, <<pay>>, 0)
    BY <1>3, Zenon DEF PayAndCall
  <2> HIDE DEF pay, get
  <2>4. /\ Priced(pay) /\ Ahead(pay) = 0 /\ Payment(pay) = amount
        /\ Priced(get) /\ Ahead(get) = amount /\ Payment(get) = 0
    BY <2>2 DEF Priced, Ahead, Payment, Creates
  <2>5. CASE Send(a, <<pay, get>>, 0)
    BY <2>1, <2>4, <2>5, SendBothPaid
  <2>6. CASE Send(a, <<get>>, amount)
    BY <2>1, <2>4, <2>6, SendPaid
  <2>7. CASE Send(a, <<pay>>, 0)
    BY <2>1, <2>4, <2>7, SendPaid
  <2> QED
    BY <2>3, <2>5, <2>6, <2>7
<1>4. NewFee(page[a].at) \in Prices /\ Fee <= NewFee(page[a].at)
  <2>1. Fee <= Fee * WeiPerEther
    BY StorefrontAssumption
  <2> QED
    BY <2>1 DEF NewFee
<1>5. CASE ClickPurchase(a)
  <2>1. \/ Send(a, <<Here(a, "newPurchase", Price, Price)>>, 0)
        \/ Send(a, <<Here(a, "take", 0, Price)>>, 0)
        \/ PayAndCall(a, Price, "purchase")
    BY <1>5, Zenon DEF ClickPurchase
  <2>2. Price <= Price
    OBVIOUS
  <2> QED
    BY <1>1, <1>2, <1>3, <2>1, <2>2
<1>6. CASE ClickSubscribe(a)
  <2>1. \/ Send(a, <<Here(a, "newSubscribe", NewFee(page[a].at), Fee)>>, 0)
        \/ PayAndCall(a, Fee, "subscribe")
    BY <1>6, Zenon DEF ClickSubscribe
  <2> QED
    BY <1>1, <1>3, <1>4, <2>1
<1> QED
  BY <1>5, <1>6

LEMMA PageStepPaid ==
  ASSUME StoreTypeInv, NEW a \in Readers, PaidFor(a), PageStep(a)
  PROVE  PaidFor(a)'
<1>u. wei' = wei /\ StoreTypeOK
  BY PageStepIsQuiet DEF vars, StoreTypeInv
<1>t. queue[a] \in Seq(Txs)
  BY CreditTypes
<1>1. ASSUME NEW where \in {"index", "content"}, Open(a, where) PROVE PaidFor(a)'
  <2>1. /\ queue'[a] = Orphaned(queue[a]) /\ owed' = owed /\ unasked' = unasked
        /\ forgiven' = forgiven
    BY <1>1, <1>u DEF Open, Load, StoreTypeOK
  <2> QED
    BY <1>u, <1>t, <2>1, PricedQueues, BackedOrphaned DEF PaidFor
<1>2. CASE GetUserProfile(a) \/ ReadSubscription(a) \/ ReadWhitelist(a) \/ AuthFails(a)
  <2>1. UNCHANGED <<queue, owed, unasked, forgiven>>
    BY <1>2, Zenon DEF GetUserProfile, ReadSubscription, ReadWhitelist, AuthFails
  <2> QED
    BY <1>u, <2>1 DEF PaidFor
<1>3. CASE ClickPurchase(a) \/ ClickSubscribe(a)
  BY <1>3, ClickPaid
<1>4. CASE Fail(a)
  <2> DEFINE tx == Head(queue[a])
  <2>1. /\ queue[a] # <<>> /\ queue'[a] = Tail(queue[a]) /\ owed' = owed
        /\ unasked' = unasked /\ forgiven'[a] = forgiven[a] + Payment(tx)
    BY <1>4, <1>u DEF Fail, StoreTypeOK
  <2>2. tx \in Txs /\ Tail(queue[a]) \in Seq(Txs) /\ Len(Tail(queue[a])) \in Nat
    BY <1>u, <2>1, HeadType, LenProperties
  <2>3. AllPriced(Tail(queue[a]))
    BY <1>t, <2>1, PricedQueues DEF PaidFor
  <2> DEFINE given == owed[a] + wei[a]
             spent == Endowment + unasked[a] + forgiven[a]
  <2>4. given \in Nat /\ spent \in Nat /\ Ahead(tx) \in Nat /\ Payment(tx) \in Nat
    BY <2>2, CreditTypes, TxNumbers
  <2>5. Backed(Tail(queue[a]), given + Ahead(tx), spent + Payment(tx), 0)
    BY <1>t, <2>1, <2>4, BackedTail DEF PaidFor
  <2>6. spent + Payment(tx) = Endowment + unasked'[a] + forgiven'[a]
    BY <2>1, <2>4, CreditTypes, NumberAssumption
  <2> HIDE DEF tx, given, spent
  <2>7. Backed(Tail(queue[a]), given, spent + Payment(tx), 0)
    BY <2>2, <2>4, <2>5, BackedMore
  <2> QED
    BY <1>u, <2>1, <2>3, <2>6, <2>7 DEF PaidFor, given
<1> QED
  BY <1>1, <1>2, <1>3, <1>4 DEF PageStep

LEMMA MinePaid ==
  ASSUME StoreTypeInv, ItemInv, NEW a \in Readers, PaidFor(a), Mine(a)
  PROVE  PaidFor(a)'
<1> DEFINE tx == Head(queue[a])
           rest == Tail(queue[a])
           given == owed[a] + wei[a]
           spent == Endowment + unasked[a] + forgiven[a]
<1>1. /\ queue[a] # <<>> /\ Execute(a, tx) /\ forgiven' = forgiven
      /\ owed'[a] = owed[a] + tx.due /\ unasked'[a] = unasked[a] + Unasked(tx)
  BY DEF Mine, StoreTypeInv, StoreTypeOK
<1>2. queue'[a] = rest \/ queue'[a] = Orphaned(rest)
  BY DEF Mine, Receipt, Load, StoreTypeInv, StoreTypeOK
<1>3. /\ tx \in Txs /\ rest \in Seq(Txs) /\ Len(rest) \in Nat /\ queue[a] \in Seq(Txs)
      /\ Priced(tx) /\ AllPriced(rest)
  BY <1>1, CreditTypes, HeadType, LenProperties, PricedQueues DEF PaidFor, StoreTypeInv
<1>4. /\ given \in Nat /\ spent \in Nat /\ Ahead(tx) \in Nat /\ Payment(tx) \in Nat
      /\ tx.due \in Nat /\ tx.value \in Nat
  BY <1>3, CreditTypes, TxNumbers
<1>5. Backed(rest, given + Ahead(tx), spent + Payment(tx), 0)
  BY <1>1, <1>3, <1>4, BackedTail DEF PaidFor
<1>6. wei'[a] \in Nat /\ wei'[a] + Cost(tx) = wei[a]
  BY <1>1, <1>3, MinedPays
<1> HIDE DEF tx, rest
<1>7. /\ tx.due + Payment(tx) <= Cost(tx) + Ahead(tx) + Unasked(tx)
      /\ Cost(tx) \in Nat /\ Unasked(tx) \in Nat
  BY <1>3, <1>4 DEF Txs, Priced, Payment, Cost, Ahead, Unasked, Creates
<1> DEFINE spent2 == spent + Unasked(tx)
<1>8. owed'[a] + wei'[a] \in Nat
      /\ (owed'[a] + wei'[a]) + (spent + Payment(tx)) <= (given + Ahead(tx)) + spent2
  <2>1. /\ owed[a] \in Nat /\ owed'[a] = owed[a] + tx.due
        /\ given = owed[a] + wei'[a] + Cost(tx)
    BY <1>1, <1>6, <1>7, CreditTypes DEF tx
  <2> HIDE DEF given, spent
  <2> QED
    BY <1>4, <1>6, <1>7, <2>1
<1>9. Backed(rest, owed'[a] + wei'[a], spent2, 0)
  <2>1. given + Ahead(tx) \in Nat /\ spent + Payment(tx) \in Nat /\ spent2 \in Nat
    BY <1>4, <1>7
  <2> HIDE DEF given, spent, spent2
  <2> QED
    BY <1>3, <1>4, <1>5, <1>8, <2>1, BackedMore
<1>10. Backed(queue'[a], owed'[a] + wei'[a], Endowment + unasked'[a] + forgiven'[a], 0)
  <2>1. spent2 = Endowment + unasked'[a] + forgiven'[a]
    BY <1>1, <1>7, CreditTypes, NumberAssumption DEF tx
  <2> HIDE DEF spent2
  <2> QED
    BY <1>2, <1>3, <1>9, <2>1, BackedOrphaned
<1>11. AllPriced(queue'[a])
  BY <1>2, <1>3, PricedQueues
<1> QED
  BY <1>10, <1>11 DEF PaidFor

(* The readers' ether is spent by the readers' own transactions only.      *)
LEMMA WeiKept ==
  ASSUME StoreTypeInv, ItemInv, PaidInv, [StoreNext]_allVars,
         NEW b \in Readers, wei'[b] # wei[b]
  PROVE  Mine(b)
<1>1. ASSUME NEW a \in Readers, PageStep(a) PROVE FALSE
  BY <1>1, PageStepIsQuiet DEF vars
<1>2. ASSUME Meanwhile \/ UNCHANGED allVars PROVE FALSE
  BY <1>2 DEF Meanwhile, Tick, RemoveSubscriber, allVars, vars
<1>3. PICK a \in Readers : Mine(a)
  BY <1>1, <1>2, StoreSteps
<1>4. ASSUME a # b PROVE FALSE
  <2>1. /\ queue[a] # <<>> /\ Head(queue[a]) \in Txs /\ Priced(Head(queue[a]))
        /\ Execute(a, Head(queue[a]))
    BY <1>3, CreditTypes, HeadType, PricedQueues DEF Mine, StoreTypeInv, PaidInv, PaidFor
  <2> QED
    BY <1>4, <2>1, MinedPays
<1> QED
  BY <1>3, <1>4

LEMMA PaidNext == StoreTypeInv /\ ItemInv /\ PaidInv /\ [StoreNext]_allVars => PaidInv'
<1> SUFFICES ASSUME StoreTypeInv, ItemInv, PaidInv, [StoreNext]_allVars, NEW b \in Readers
             PROVE  PaidFor(b)'
  BY DEF PaidInv
<1>1. PaidFor(b)
  BY DEF PaidInv
<1>2. ASSUME PageStep(b) \/ Mine(b) PROVE PaidFor(b)'
  BY <1>1, <1>2, PageStepPaid, MinePaid
<1>3. ASSUME ~Mine(b), queue'[b] = queue[b], owed'[b] = owed[b],
             unasked'[b] = unasked[b], forgiven'[b] = forgiven[b]
      PROVE  PaidFor(b)'
  <2>1. wei'[b] = wei[b]
    BY <1>3, WeiKept
  <2> QED
    BY <1>1, <1>3, <2>1 DEF PaidFor
<1>4. ASSUME NEW a \in Readers, PageStep(a) \/ Mine(a), a # b PROVE PaidFor(b)'
  <2>1. /\ queue'[b] = queue[b] /\ owed'[b] = owed[b] /\ unasked'[b] = unasked[b]
        /\ forgiven'[b] = forgiven[b]
    BY <1>4, PageStepKeepsOthers, MineKeepsOthers DEF OthersKept, StoreTypeInv
  <2> QED
    BY <1>2, <1>3, <2>1
<1>5. ASSUME Meanwhile \/ UNCHANGED allVars PROVE PaidFor(b)'
  <2>1. /\ queue'[b] = queue[b] /\ owed'[b] = owed[b] /\ unasked'[b] = unasked[b]
        /\ forgiven'[b] = forgiven[b]
    BY <1>5 DEF Meanwhile, allVars, storeVars
  <2> QED
    BY <1>2, <1>3, <2>1
<1> QED
  BY <1>2, <1>4, <1>5, StoreSteps

LEMMA PaidInit == StoreInit => PaidInv
<1> SUFFICES ASSUME StoreInit, NEW a \in Readers PROVE PaidFor(a)
  BY DEF PaidInv
<1>1. /\ queue[a] = <<>> /\ owed[a] = 0 /\ unasked[a] = 0 /\ forgiven[a] = 0 /\ wei[a] = Endowment
      /\ Len(queue[a]) = 0
  BY ReadersAreAccounts DEF StoreInit, Addresses
<1> DEFINE credit == [i \in 0..0 |-> 0]
<1>2. /\ credit \in [0..Len(queue[a]) -> Nat] /\ credit[0] = 0
      /\ (owed[a] + wei[a]) + credit[0] <= Endowment + unasked[a] + forgiven[a]
      /\ Covers(credit, queue[a]) /\ 0 <= credit[Len(queue[a])]
  BY <1>1, NumberAssumption DEF Covers
<1> HIDE DEF credit
<1>3. Backed(queue[a], owed[a] + wei[a], Endowment + unasked[a] + forgiven[a], 0)
  BY <1>2 DEF Backed
<1> QED
  BY <1>1, <1>3 DEF PaidFor, AllPriced

(* A reader has paid the price of what it was given, but for what it       *)
(* bought with a profile on the content page, which sends no payment, and  *)
(* for what followed a payment that failed (content/[id].js:94-97,         *)
(* 140-194, index.js:158-210).                                             *)
THEOREM GivenIsPaid == StoreSpec => []PaidUnlessPaymentFailed
<1>1. StoreTypeInv /\ PaidInv => PaidUnlessPaymentFailed
  <2> SUFFICES ASSUME StoreTypeInv, PaidInv, NEW a \in Readers
               PROVE  owed[a] + wei[a] <= Endowment + unasked[a] + forgiven[a]
    BY DEF PaidUnlessPaymentFailed
  <2>1. PICK credit \in [0..Len(queue[a]) -> Nat] :
           owed[a] + wei[a] + credit[0] <= Endowment + unasked[a] + forgiven[a]
    BY DEF PaidInv, PaidFor, Backed
  <2>2. credit[0] \in Nat
    BY CreditTypes, LenProperties
  <2> QED
    BY <2>1, <2>2, CreditTypes
<1> QED
  BY <1>1, PaidInit, ItemInit, StoreTypeInit, StoreTypeNext, ItemNext, PaidNext, PTL DEF StoreSpec

(* What a reader spends on the pages the publisher's contract has: none of *)
(* it goes to another address, and none comes back.                        *)
PaymentsReachTheShop ==
    [][\A a \in Readers :
          wei'[a] # wei[a] =>
             wei'[a] < wei[a] /\ wei'[Shop] + wei'[a] = wei[Shop] + wei[a]]_allVars

(* The buttons of both pages pay the publisher (content/[id].js:88-194,    *)
(* index.js:158-226): what "owed" and "wei" of a reader compare is paid to *)
(* the publisher of the content.                                           *)
THEOREM SpendingReachesTheShop == StoreSpec => PaymentsReachTheShop
<1>1. ASSUME StoreTypeInv, ItemInv, PaidInv, [StoreNext]_allVars,
             NEW a \in Readers, wei'[a] # wei[a]
      PROVE  wei'[a] < wei[a] /\ wei'[Shop] + wei'[a] = wei[Shop] + wei[a]
  <2> DEFINE tx == Head(queue[a])
  <2>1. Mine(a)
    BY <1>1, WeiKept
  <2>2. queue[a] # <<>> /\ tx \in Txs /\ Priced(tx) /\ Execute(a, tx)
    BY <1>1, <2>1, CreditTypes, HeadType, PricedQueues DEF Mine, StoreTypeInv, PaidInv, PaidFor
  <2>3. Cost(tx) \in Nat
    BY <2>2, TxNumbers DEF Cost
  <2>4. wei[Shop] \in Nat
    BY <1>1, StorefrontAssumption DEF StoreTypeInv, StoreTypeOK, TypeOK, Addresses
  <2> HIDE DEF tx
  <2> QED
    BY <1>1, <2>2, <2>3, <2>4, MinedPays
<1>2. StoreTypeInv /\ ItemInv /\ PaidInv /\ [StoreNext]_allVars =>
        [\A a \in Readers :
            wei'[a] # wei[a] =>
               wei'[a] < wei[a] /\ wei'[Shop] + wei'[a] = wei[Shop] + wei[a]]_allVars
  BY <1>1
<1> QED
  BY <1>2, PaidInit, ItemInit, StoreTypeInit, StoreTypeNext, ItemNext, PaidNext, PTL
     DEF StoreSpec, PaymentsReachTheShop
=============================================================================
