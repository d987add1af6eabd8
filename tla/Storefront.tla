----------------------------- MODULE Storefront -----------------------------
(***************************************************************************)
(* The pages that sell one content (frontend/pages/index.js,               *)
(* content/[id].js) over the paywall of module Gateway, whose variables    *)
(* and transactions these are.                                             *)
(*                                                                         *)
(* Every answer a page waits for is a step of its own, and what it sends   *)
(* waits in the account's queue until it is mined, in the order of sending *)
(* (the nonces), or fails.  A page that is left or loaded again forgets    *)
(* everything; its transactions stay.                                      *)
(***************************************************************************)
EXTENDS Gateway, Sequences

CONSTANTS
    Owner,        \* the publisher's account
    Shop,         \* its publisher contract
    Item,         \* the content for sale
    Price,        \* of the content, in wei
    Fee,          \* of a month's subscription, in wei
    WeiPerEther,  \* what toWei multiplies by
    MaxActs       \* page loads and clicks of a reader, a bound

Readers == Accounts \ {Owner}

ASSUME StorefrontAssumption ==
    /\ Owner \in Accounts /\ Shop \in Publishers /\ Item \in Contents
    /\ Price \in Nat \ {0} /\ Fee \in Nat
    /\ WeiPerEther \in Nat \ {0} /\ MaxActs \in Nat
    /\ {0, Price, Fee, Fee * WeiPerEther} \subseteq Prices

VARIABLES
    page,      \* the page a reader has open, and its state
    queue,     \* transactions sent and not mined
    acts,      \* page loads and clicks so far
    held,      \* readers that could view the item since they opened the page
    owed,      \* the price of what a reader was given
    unasked,   \* the part of it that the content page sends no payment for
    forgiven   \* its payments that failed

storeVars == <<page, queue, acts, held, owed, unasked, forgiven>>
allVars == <<vars, storeVars>>

(* "profile" is dapp.userContract on the content page and myuser on the    *)
(* index; "auth" how far checkAuth is; "busy" whether a transaction of     *)
(* the account was waiting at any time since the page was opened.          *)
Fresh(where, waiting) ==
    [at |-> where, profile |-> "asked", auth |-> "asked",
     modal |-> FALSE, access |-> FALSE, busy |-> waiting]

Closed == Fresh("none", FALSE)

(* "on" is the page whose handlers wait for the receipt, "due" what the    *)
(* page asks for it, "hasty" whether the page had yet to learn something.  *)
Tx(call, value, due, where, hasty) ==
    [call |-> call, value |-> value, due |-> due, on |-> where, hasty |-> hasty]

(* The item is on sale, and the static pages are built.                    *)
StoreInit ==
    /\ wei = [x \in Addresses |-> IF x \in Accounts THEN Endowment ELSE 0]
    /\ now = 0
    /\ publisherContract = [a \in Accounts |-> IF a = Owner THEN Shop ELSE Null]
    /\ userContract = [a \in Accounts |-> Null]
    /\ contentContracts = {Item}
    /\ publisher = [p \in Publishers |-> IF p = Shop THEN P!CreateContent(P!NewPublisher(Fee), Item)
                                         ELSE NoStorage]
    /\ content = [k \in Contents |-> IF k = Item THEN C!NewContent(Shop, Owner, Price)
                                     ELSE NoStorage]
    /\ user = [u \in Users |-> NoStorage]
    /\ page = [a \in Readers |-> Closed]
    /\ queue = [a \in Readers |-> <<>>]
    /\ acts = [a \in Readers |-> 0]
    /\ held = {}
    /\ owed = [a \in Readers |-> 0]
    /\ unasked = [a \in Readers |-> 0]
    /\ forgiven = [a \in Readers |-> 0]

(* Who can view the item joins those that have held it.                    *)
Keep == held' = held \cup {a \in Readers : CanView(a, Item)}'

Becomes(a, state) == page' = [page EXCEPT ![a] = state]

(* The handlers of the page before are gone.                               *)
Orphaned(txs) == [i \in DOMAIN txs |-> [txs[i] EXCEPT !.on = "none"]]

Load(a, where, waiting) ==
    /\ Becomes(a, Fresh(where, waiting # <<>>))
    /\ queue' = [queue EXCEPT ![a] = Orphaned(waiting)]
    /\ held' = {b \in Readers : (b \in held /\ b # a) \/ CanView(b, Item)'}

Act(a) == acts[a] < MaxActs /\ acts' = [acts EXCEPT ![a] = @ + 1]

-----------------------------------------------------------------------------
(* Opening a page, and what it asks.  "View the full content" of the index *)
(* only ever opens the content page: for a lapsed subscription it compares *)
(* 0 with 0, and does not offer another one.                               *)
Open(a, where) ==
    /\ Act(a)
    /\ UNCHANGED <<vars, owed, unasked, forgiven>>
    /\ Load(a, where, queue[a])

(* Faulty variant: the answer is not kept.                                 *)
FaultyGetUserProfile(a) ==
    /\ page[a].at # "none" /\ page[a].profile = "asked"
    /\ Becomes(a, [page[a] EXCEPT !.profile = "new"])
    /\ UNCHANGED <<vars, queue, acts, owed, unasked, forgiven>> /\ Keep

(* The index also looks whether the profile lists the item or its shop.    *)
Listed(a) ==
    LET profile == user[userContract[a]]
    IN  Item \in profile.purchased \/ Shop \in profile.subscribed

GetUserProfile(a) ==
    /\ page[a].at # "none" /\ page[a].profile = "asked"
    /\ Becomes(a, [page[a] EXCEPT !.profile =
                      IF userContract[a] = Null THEN "new"
                      ELSE IF page[a].at = "index" /\ Listed(a) THEN "listed" ELSE "user"])
    /\ UNCHANGED <<vars, queue, acts, owed, unasked, forgiven>> /\ Keep

Subscribed(a) == publisher[Shop].expiration[a] > now

(* checkAuth, its first answer: [1] > [2] of isSubscribed, kept for later. *)
ReadSubscription(a) ==
    /\ page[a].at = "content" /\ page[a].auth = "asked"
    /\ Becomes(a, [page[a] EXCEPT !.auth = IF Subscribed(a) THEN "current" ELSE "lapsed"])
    /\ UNCHANGED <<vars, queue, acts, owed, unasked, forgiven>> /\ Keep

(* Faulty variant: the content is for those who are both.                  *)
FaultyReadBoth(a) ==
    /\ page[a].auth \in {"current", "lapsed"}
    /\ LET allowed == a \in content[Item].whitelist /\ page[a].auth = "current"
       IN  Becomes(a, [page[a] EXCEPT !.auth = "done", !.modal = @ \/ ~allowed,
                                      !.access = @ \/ allowed])
    /\ UNCHANGED <<vars, queue, acts, owed, unasked, forgiven>> /\ Keep

(* Its second answer, and the decision.                                    *)
ReadWhitelist(a) ==
    /\ page[a].auth \in {"current", "lapsed"}
    /\ LET allowed == a \in content[Item].whitelist \/ page[a].auth = "current"
       IN  Becomes(a, [page[a] EXCEPT !.auth = "done", !.modal = @ \/ ~allowed,
                                      !.access = @ \/ allowed])
    /\ UNCHANGED <<vars, queue, acts, owed, unasked, forgiven>> /\ Keep

(* Either answer may be an error, which is shown for a while.              *)
AuthFails(a) ==
    /\ page[a].at = "content" /\ page[a].auth # "done" /\ page[a].auth # "failed"
    /\ Becomes(a, [page[a] EXCEPT !.auth = "failed"])
    /\ UNCHANGED <<vars, queue, acts, owed, unasked, forgiven>> /\ Keep

-----------------------------------------------------------------------------
(* What the buttons send.                                                  *)

CanBuy(a) == (page[a].at = "index" /\ page[a].profile # "listed") \/ page[a].modal
IsNew(a) == page[a].profile # "user"
Hasty(a) == page[a].profile = "asked" \/ page[a].busy
Here(a, call, value, due) == Tx(call, value, due, page[a].at, Hasty(a))

Send(a, txs, lost) ==
    /\ Act(a)
    /\ queue' = [queue EXCEPT ![a] = @ \o txs]
    /\ forgiven' = [forgiven EXCEPT ![a] = @ + lost]
    /\ Becomes(a, [page[a] EXCEPT !.busy = TRUE])
    /\ UNCHANGED <<vars, owed, unasked>> /\ Keep

(* Faulty variant: the payment follows.                                    *)
FaultyPayAndCall(a, amount, call) ==
    LET pay == Here(a, "pay", amount, 0)
        get == Here(a, call, 0, amount)
    IN  Send(a, <<get, pay>>, 0)

(* A payment to the publisher, and from its callback, which looks at no    *)
(* error, the call that gives something for it.  Either may be rejected.   *)
PayAndCall(a, amount, call) ==
    LET pay == Here(a, "pay", amount, 0)
        get == Here(a, call, 0, amount)
    IN  \/ Send(a, <<pay, get>>, 0)
        \/ Send(a, <<get>>, amount)
        \/ Send(a, <<pay>>, 0)

(* On the content page a reader with a profile is asked the price as well  *)
(* ("Buy now! ... ETH"), and sends nothing with the purchase.              *)
ClickPurchase(a) ==
    /\ CanBuy(a)
    /\ \/ IsNew(a) /\ Send(a, <<Here(a, "newPurchase", Price, Price)>>, 0)
       \/ ~IsNew(a) /\ page[a].at = "content"
            /\ Send(a, <<Here(a, "take", 0, Price)>>, 0)
       \/ ~IsNew(a) /\ page[a].at = "index" /\ PayAndCall(a, Price, "purchase")

(* The fee is in wei, and only the content page converts it once more.     *)
NewFee(where) == IF where = "content" THEN Fee * WeiPerEther ELSE Fee

ClickSubscribe(a) ==
    /\ CanBuy(a)
    /\ \/ IsNew(a) /\ Send(a, <<Here(a, "newSubscribe", NewFee(page[a].at), Fee)>>, 0)
       \/ ~IsNew(a) /\ PayAndCall(a, Fee, "subscribe")

-----------------------------------------------------------------------------
(* The chain.                                                              *)

Execute(a, tx) ==
    \/ tx.call = "pay" /\ SendEther(a, Shop, tx.value)
    \/ tx.call \in {"purchase", "take"} /\ PurchaseContent(a, Item, Price, tx.value)
    \/ tx.call = "newPurchase" /\ CreateNewUserAndPurchase(a, Item, Price, Shop, tx.value)
    \/ tx.call = "subscribe" /\ AddSubscriber(a, Shop)
    \/ tx.call = "newSubscribe" /\ CreateNewUserAndSubscribe(a, Shop, tx.value)

(* The receipt: the content page opens up, the index is loaded again after *)
(* a purchase.                                                             *)
Receipt(a, tx) ==
    IF tx.on = "index" /\ tx.call \in {"purchase", "newPurchase"}
    THEN Load(a, "index", Tail(queue[a]))
    ELSE /\ IF tx.on = "content" /\ tx.call # "pay"
            THEN Becomes(a, [page[a] EXCEPT !.modal = FALSE, !.access = TRUE])
            ELSE UNCHANGED page
         /\ queue' = [queue EXCEPT ![a] = Tail(@)]
         /\ Keep

Unasked(tx) == IF tx.call = "take" THEN tx.due ELSE 0

Mine(a) ==
    /\ queue[a] # <<>>
    /\ LET tx == Head(queue[a])
       IN  /\ Execute(a, tx)
           /\ Receipt(a, tx)
           /\ owed' = [owed EXCEPT ![a] = @ + tx.due]
           /\ unasked' = [unasked EXCEPT ![a] = @ + Unasked(tx)]
    /\ UNCHANGED <<acts, forgiven>>

Payment(tx) == IF tx.call = "pay" THEN tx.value ELSE 0

(* Faulty variant: the hash is taken for the receipt.                      *)
FaultyFail(a) ==
    /\ queue[a] # <<>>
    /\ queue' = [queue EXCEPT ![a] = Tail(@)]
    /\ forgiven' = [forgiven EXCEPT ![a] = @ + Payment(Head(queue[a]))]
    /\ Becomes(a, IF Head(queue[a]).on = "content"
                  THEN [page[a] EXCEPT !.modal = FALSE, !.access = TRUE] ELSE page[a])
    /\ UNCHANGED <<vars, acts, owed, unasked>> /\ Keep

(* Reverted, out of gas or replaced.  The modal stays, the button spins.   *)
Fail(a) ==
    /\ queue[a] # <<>>
    /\ queue' = [queue EXCEPT ![a] = Tail(@)]
    /\ forgiven' = [forgiven EXCEPT ![a] = @ + Payment(Head(queue[a]))]
    /\ UNCHANGED <<vars, page, acts, owed, unasked>> /\ Keep

(* What others do meanwhile.                                               *)
Meanwhile ==
    /\ Tick \/ \E a \in Readers : RemoveSubscriber(Owner, a)
    /\ UNCHANGED <<page, queue, acts, owed, unasked, forgiven>> /\ Keep

StoreNext ==
    \/ \E a \in Readers :
          \/ \E where \in {"index", "content"} : Open(a, where)
          \/ GetUserProfile(a) \/ ReadSubscription(a) \/ ReadWhitelist(a) \/ AuthFails(a)
          \/ ClickPurchase(a) \/ ClickSubscribe(a)
          \/ Mine(a) \/ Fail(a)
    \/ Meanwhile

(* The node answers, or the page gets an error.                            *)
StoreFairness ==
    \A a \in Readers : WF_allVars(ReadSubscription(a)) /\ WF_allVars(ReadWhitelist(a))

StoreSpec == StoreInit /\ [][StoreNext]_allVars /\ StoreFairness

-----------------------------------------------------------------------------
PageStates ==
    [at : {"none", "index", "content"}, profile : {"asked", "new", "user", "listed"},
     auth : {"asked", "current", "lapsed", "done", "failed"},
     modal : BOOLEAN, access : BOOLEAN, busy : BOOLEAN]

Txs ==
    [call : {"pay", "purchase", "take", "newPurchase", "subscribe", "newSubscribe"},
     value : Prices, due : {0, Price, Fee}, on : {"none", "index", "content"}, hasty : BOOLEAN]

StoreTypeOK ==
    /\ TypeOK
    /\ page \in [Readers -> PageStates]
    /\ acts \in [Readers -> 0..MaxActs]
    /\ queue \in [Readers -> Seq(Txs)]
    /\ held \subseteq Readers
    /\ owed \in [Readers -> Nat]
    /\ unasked \in [Readers -> Nat]
    /\ forgiven \in [Readers -> Nat]

(* The content is shown only to readers that could view it at some time    *)
(* since they opened the page, however the answers, receipts, reloads and  *)
(* the publisher's removals are ordered ([id].js:44-63, 112, 191).         *)
ShownOnlyToHolders == \A a \in Readers : page[a].access => a \in held

(* A reader has paid the price of what it was given, but for two leaks:    *)
(* what it bought with a profile on the content page, which sends no       *)
(* payment, and what followed a payment that failed.  Where a page does    *)
(* send a payment, nothing is given ahead of one that was not refused      *)
(* ([id].js:94-97, 140-194, index.js:158-210).                             *)
PaidUnlessPaymentFailed ==
    \A a \in Readers : owed[a] + wei[a] <= Endowment + unasked[a] + forgiven[a]

(* A profile contract is replaced, with all it lists, only by what was     *)
(* sent before the page knew of it or while another transaction of the     *)
(* account was waiting ([id].js:69-85, 94).                                *)
ReplacedOnlyInHaste ==
    [][\A a \in Readers :
          userContract[a] # Null /\ userContract'[a] # userContract[a] =>
              Head(queue[a]).hasty]_allVars

(* Who has bought the item gets in, though the first answer is another     *)
(* one ([id].js:48-56).                                                    *)
HoldersGetIn ==
    \A a \in Readers :
        (page[a].at = "content" /\ page[a].auth = "asked" /\ a \in content[Item].whitelist)
            ~> (page[a].access \/ page[a].auth = "failed" \/ page[a].at # "content")

-----------------------------------------------------------------------------
(* "Subscribe to ... for ... ETH per month!" ([id].js:288): a new reader   *)
(* that becomes a subscriber pays that fee.                                *)
NewSubscribersPayTheFee ==
    [][\A a \in Readers :
          a \notin publisher[Shop].subscribers /\ a \in publisher'[Shop].subscribers
            /\ userContract[a] = Null
              => wei'[a] = wei[a] - Fee]_allVars
=============================================================================
