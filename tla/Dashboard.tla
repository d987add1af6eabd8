----------------------------- MODULE Dashboard ------------------------------
(***************************************************************************)
(* The publisher's page (frontend/pages/dashboard.js under                 *)
(* components/Header.js) over the paywall of module Gateway: a file is     *)
(* uploaded, described and put on sale.                                    *)
(*                                                                         *)
(* The page learns the account, its publisher's profile and the hash of an *)
(* upload from answers that come when they come, and the account may       *)
(* change under it.  A file is known by itself and by its hash alike.      *)
(***************************************************************************)
EXTENDS Gateway, Sequences

CONSTANTS
    Files,     \* what can be uploaded
    NoFile,    \* no name, or no hash, yet
    Nobody,    \* no account yet
    Unknown,   \* no profile yet
    Amounts,   \* what can be typed as a price, in wei, or as much of a dollar
    NoAmount,  \* the number 0 the price starts from
    Rate,      \* dollars for an ether
    Ether,     \* wei of an ether
    Units,     \* wei of its decimal places: an ether, a tenth, ..., 1
    Place,     \* the sixth of them, or the last that the page shows
    MaxActs    \* what the publisher does, a bound

VARIABLES
    selected,  \* MetaMask: the account in use
    approved,  \*           may the page know it?
    desk,      \* the page
    sent,      \* transactions of every account, sent and not mined
    listing,   \* what was sent for every content
    owned,     \* the publisher contracts every account has had
    deeds      \* what the publisher did so far

deskVars == <<selected, approved, desk, sent, listing, owned, deeds>>
dashVars == <<vars, deskVars>>

-----------------------------------------------------------------------------
(* A price in dollars becomes the decimal number of ethers it comes to,    *)
(* less the last two characters of that.                                   *)
Quotient(x) == x \div Rate

(* The place of the last digit behind the point.                           *)
LastPlace(n) == CHOOSE d \in Units : n % d = 0 /\ \A e \in Units : n % e = 0 => e <= d

(* A number without a point loses two digits, a number with one digit      *)
(* behind it that and the point.                                           *)
Shorten(n) ==
    LET d == LastPlace(n)
    IN  IF d = Ether THEN Ether * (n \div (100 * Ether))
        ELSE IF 10 * d = Ether THEN Ether * (n \div Ether)
        ELSE (100 * d) * (n \div (100 * d))

(* Nothing is left, and toWei throws.                                      *)
Vanishes(n) == n % Ether = 0 /\ n < 100 * Ether

ToFixed(n) == Place * ((n + Place \div 2) \div Place)

(* The ethers the page asks the publisher to confirm: those that dollars   *)
(* come to are rounded.  The dollars it shows beside them, which for a     *)
(* price in ethers are those of the subscription, are left out.            *)
Shown(x, usd) == IF x = NoAmount THEN 0 ELSE IF usd THEN ToFixed(Quotient(x)) ELSE x

(* Faulty variant: the currency is not looked at.                          *)
FaultyFinalPrice(x, usd) == IF x = NoAmount THEN 0 ELSE x

FinalPrice(x, usd) == IF x = NoAmount THEN 0 ELSE IF usd THEN Shorten(Quotient(x)) ELSE x

Convertible(x, usd) == x # NoAmount /\ usd => ~Vanishes(Quotient(x))

ASSUME DashboardAssumption ==
    /\ NoFile \notin Files /\ Nobody \notin Accounts
    /\ Null \notin Accounts /\ Unknown \notin Publishers \cup {Null}
    /\ Amounts \subseteq Nat /\ NoAmount \notin Amounts
    /\ {1, Ether} \subseteq Units /\ Units \subseteq 1..Ether
    /\ \A d \in Units \ {Ether} : 10 * d \in Units
    /\ Place \in Units /\ Rate \in Nat \ {0} /\ MaxActs \in Nat
    /\ 0 \in Prices /\ 0 \in Costs
    /\ \A x \in Amounts, usd \in BOOLEAN : FinalPrice(x, usd) \in Prices

-----------------------------------------------------------------------------
(* "due" is whether the header has yet to look at the account, "account"   *)
(* dapp.address, "listening" whether accountsChanged has its handler,      *)
(* "seen" the accounts the page has had, "asked" those whose profile is on *)
(* its way.                                                                *)
Fresh ==
    [due |-> TRUE, account |-> Nobody, listening |-> FALSE, seen |-> {},
     asked |-> {}, profile |-> Unknown,
     loading |-> FALSE, uploading |-> {}, name |-> NoFile, hash |-> NoFile,
     price |-> NoAmount, broken |-> FALSE]

(* Some accounts are publishers already.                                   *)
DashInit ==
    /\ wei = [x \in Addresses |-> IF x \in Accounts THEN Endowment ELSE 0]
    /\ now = 0
    /\ publisherContract \in [Accounts -> Publishers \cup {Null}]
    /\ \A a, b \in Accounts :
          publisherContract[a] = publisherContract[b] => a = b \/ publisherContract[a] = Null
    /\ userContract = [a \in Accounts |-> Null]
    /\ contentContracts = {}
    /\ publisher = [p \in Publishers |->
                      IF \E a \in Accounts : publisherContract[a] = p
                      THEN P!NewPublisher(0) ELSE NoStorage]
    /\ content = [k \in Contents |-> NoStorage]
    /\ user = [u \in Users |-> NoStorage]
    /\ selected \in Accounts /\ approved \in BOOLEAN
    /\ desk = Fresh
    /\ sent = [a \in Accounts |-> <<>>]
    /\ listing = [k \in Contents |-> Null]
    /\ owned = [a \in Accounts |-> {publisherContract[a]} \ {Null}]
    /\ deeds = 0

Do == deeds < MaxActs /\ deeds' = deeds + 1

(* Loaded again, the page forgets everything and hears of nothing it sent. *)
Orphaned(txs) == [i \in DOMAIN txs |-> [txs[i] EXCEPT !.heard = FALSE]]

WindowLocationReload ==
    /\ Do
    /\ desk' = Fresh
    /\ sent' = [a \in Accounts |-> Orphaned(sent[a])]
    /\ UNCHANGED <<vars, selected, approved, listing, owned>>

-----------------------------------------------------------------------------
(* The header.                                                             *)

(* SET_ADDRESS; as long as there is no profile, the page asks for it.      *)
SetAddress(state, a) ==
    [state EXCEPT !.account = a,
                  !.due = @ \/ a # state.account,
                  !.seen = @ \cup {a},
                  !.asked = IF state.profile = Unknown /\ a # state.account
                            THEN @ \cup {a} ELSE @]

(* Once the page is there, and whenever the account is another.  Where it  *)
(* may be known, an error keeps the header from listening; the node may    *)
(* not answer.                                                             *)
DispatchDapp ==
    /\ desk.due /\ ~desk.broken
    /\ LET looked == [desk EXCEPT !.due = FALSE]
       IN  \/ approved /\ desk' = SetAddress(looked, selected)
           \/ ~approved /\ desk' = [looked EXCEPT !.listening = TRUE]
           \/ desk' = looked
    /\ UNCHANGED <<vars, selected, approved, sent, listing, owned, deeds>>

HandleSignInClick ==
    /\ ~desk.broken /\ Do
    /\ approved' = TRUE
    /\ desk' = SetAddress(desk, selected)
    /\ UNCHANGED <<vars, selected, sent, listing, owned>>

(* Another account is selected in MetaMask.                                *)
AccountsChanged(a) ==
    /\ a # selected /\ Do
    /\ selected' = a
    /\ desk' = IF approved /\ desk.listening /\ ~desk.broken THEN SetAddress(desk, a) ELSE desk
    /\ UNCHANGED <<vars, approved, sent, listing, owned>>

-----------------------------------------------------------------------------
(* The profile, for the page's account when it asked.                      *)
GetPublisherProfile(a) ==
    /\ a \in desk.asked
    /\ \/ desk' = [desk EXCEPT !.asked = @ \ {a}, !.profile = publisherContract[a]]
       \/ desk' = [desk EXCEPT !.asked = @ \ {a}]
    /\ UNCHANGED <<vars, selected, approved, sent, listing, owned, deeds>>

(* Faulty variant: the field is there while an upload is under way.        *)
FaultyUploadToIPFS(f) ==
    /\ ~desk.broken /\ Do
    /\ desk.hash = NoFile
    /\ desk' = [desk EXCEPT !.loading = TRUE, !.uploading = @ \cup {f}, !.name = f]
    /\ UNCHANGED <<vars, selected, approved, sent, listing, owned>>

(* The field is there until something is chosen.                           *)
UploadToIPFS(f) ==
    /\ ~desk.broken /\ Do
    /\ desk.hash = NoFile /\ ~desk.loading
    /\ desk' = [desk EXCEPT !.loading = TRUE, !.uploading = @ \cup {f}, !.name = f]
    /\ UNCHANGED <<vars, selected, approved, sent, listing, owned>>

(* The proxy's answer; an error is json too, has no hash, and what is not  *)
(* there has no substring: the page is gone.                               *)
UploadAnswered(f) ==
    /\ f \in desk.uploading
    /\ \/ desk' = [desk EXCEPT !.uploading = @ \ {f}, !.hash = f, !.loading = FALSE]
       \/ desk' = [desk EXCEPT !.uploading = @ \ {f}, !.broken = TRUE]
    /\ UNCHANGED <<vars, selected, approved, sent, listing, owned, deeds>>

(* No answer, or none in json: the page waits for ever.                    *)
UploadFails(f) ==
    /\ f \in desk.uploading
    /\ desk' = [desk EXCEPT !.uploading = @ \ {f}]
    /\ UNCHANGED <<vars, selected, approved, sent, listing, owned, deeds>>

-----------------------------------------------------------------------------
(* What the buttons send.  "switched" is whether the page has had another  *)
(* account; "heard" whether it still waits for the receipt.                *)
Send(a, tx) == sent' = [sent EXCEPT ![a] = Append(@, tx)]

Item(form) ==
    [call |-> "createContent", publisher |-> desk.profile, price |-> FinalPrice(form.price, form.usd),
     form |-> form, name |-> desk.name, hash |-> desk.hash,
     switched |-> desk.seen # {desk.account}, heard |-> TRUE]

(* Faulty variant: it is sent from the account MetaMask has by now.        *)
FaultyAddContentToContract(form) ==
    /\ desk.hash # NoFile /\ ~desk.broken /\ Do
    /\ form.price \in {desk.price} \cup Amounts
    /\ desk' = [desk EXCEPT !.price = IF form.free THEN NoAmount ELSE form.price]
    /\ \/ /\ Convertible(form.price, form.usd)
          /\ desk.account # Nobody /\ desk.profile \in Publishers
          /\ Send(selected, Item(form))
       \/ UNCHANGED sent
    /\ UNCHANGED <<vars, selected, approved, listing, owned>>

(* "free" sets the price to 0 for the next time; this time it is what it   *)
(* was.  Nothing comes of it if the conversion throws, if the publisher    *)
(* does not confirm or MetaMask refuses, or if there is no such contract.  *)
AddContentToContract(form) ==
    /\ desk.hash # NoFile /\ ~desk.broken /\ Do
    /\ form.price \in {desk.price} \cup Amounts
    /\ desk' = [desk EXCEPT !.price = IF form.free THEN NoAmount ELSE form.price]
    /\ \/ /\ Convertible(form.price, form.usd)
          /\ desk.account # Nobody /\ desk.profile \in Publishers
          /\ Send(desk.account, Item(form))
       \/ UNCHANGED sent
    /\ UNCHANGED <<vars, selected, approved, listing, owned>>

-----------------------------------------------------------------------------
(* The chain.                                                              *)

(* Once the content is there the page is loaded again.                     *)
MineContent(a) ==
    /\ sent[a] # <<>>
    /\ LET tx == Head(sent[a])
       IN  /\ CreateContent(a, tx.publisher, tx.price)
           /\ listing' = [k \in Contents |->
                            IF content[k] = NoStorage /\ content'[k] # NoStorage
                            THEN tx ELSE listing[k]]
           /\ IF tx.heard
              THEN /\ desk' = Fresh
                   /\ sent' = [b \in Accounts |->
                                 Orphaned(IF b = a THEN Tail(sent[b]) ELSE sent[b])]
              ELSE sent' = [sent EXCEPT ![a] = Tail(@)] /\ UNCHANGED desk
    /\ UNCHANGED <<selected, approved, owned, deeds>>

(* Refused, or out of gas: logged.                                         *)
MineFails(a) ==
    /\ sent[a] # <<>>
    /\ sent' = [sent EXCEPT ![a] = Tail(@)]
    /\ UNCHANGED <<vars, selected, approved, desk, listing, owned, deeds>>

(* In another window: signing up on the index, for the first time or again. *)
SignUp(a) ==
    /\ Do
    /\ CreateNewPublisher(a, 0, 0)
    /\ owned' = [owned EXCEPT ![a] = @ \cup {publisherContract'[a]}]
    /\ UNCHANGED <<selected, approved, desk, sent, listing>>

Forms == [free : BOOLEAN, usd : BOOLEAN, price : Amounts \cup {NoAmount}]

DashNext ==
    \/ WindowLocationReload \/ DispatchDapp \/ HandleSignInClick
    \/ \E a \in Accounts :
          AccountsChanged(a) \/ GetPublisherProfile(a) \/ MineContent(a) \/ MineFails(a) \/ SignUp(a)
    \/ \E f \in Files : UploadToIPFS(f) \/ UploadAnswered(f) \/ UploadFails(f)
    \/ \E form \in Forms : AddContentToContract(form)

DashSpec == DashInit /\ [][DashNext]_dashVars

-----------------------------------------------------------------------------
DeskStates ==
    [due : BOOLEAN, account : Accounts \cup {Nobody}, listening : BOOLEAN,
     seen : SUBSET Accounts, asked : SUBSET Accounts,
     profile : Publishers \cup {Null, Unknown},
     loading : BOOLEAN, uploading : SUBSET Files,
     name : Files \cup {NoFile}, hash : Files \cup {NoFile},
     price : Amounts \cup {NoAmount}, broken : BOOLEAN]

Items ==
    [call : {"createContent"}, publisher : Publishers, price : Prices, form : Forms,
     name : Files \cup {NoFile}, hash : Files, switched : BOOLEAN, heard : BOOLEAN]

DashTypeOK ==
    /\ TypeOK
    /\ selected \in Accounts /\ approved \in BOOLEAN
    /\ desk \in DeskStates
    /\ sent \in [Accounts -> Seq(Items)]
    /\ listing \in [Contents -> Items \cup {Null}]
    /\ owned \in [Accounts -> SUBSET Publishers]
    /\ deeds \in 0..MaxActs

Listed == {k \in Contents : listing[k] # Null}

(* What is put on sale has the hash of the file it is named after, though  *)
(* the name is known at once and the hash when the upload is answered      *)
(* (dashboard.js:105-129, 253-295).                                        *)
PublishedWithOwnHash == \A k \in Listed : listing[k].name = listing[k].hash

(* A content belongs to a publisher contract of the account that put it on *)
(* sale, unless the account changed while the page was open: the profile   *)
(* is asked for once, and is whichever answer came last (dashboard.js:     *)
(* 55-60, 156; Header.js:47-52).                                           *)
OwnPublisherUnlessSwitched ==
    \A k \in Listed :
        listing[k].switched
        \/ \E a \in Accounts : a \in content[k].whitelist /\ content[k].ownerId \in owned[a]

(* The conversion never makes a content dearer than the price that was     *)
(* typed: of dollars at the rate of the page it only takes away, a price   *)
(* in ethers it leaves alone, and no price is none (dashboard.js:134-143). *)
(* What the page shows before, rounded, may be less.                       *)
NeverDearerThanTyped ==
    \A k \in Listed :
        LET form == listing[k].form
        IN  /\ form.price = NoAmount => content[k].price = 0
            /\ form.price # NoAmount /\ form.usd => content[k].price * Rate <= form.price
            /\ form.price # NoAmount /\ ~form.usd => content[k].price = form.price

-----------------------------------------------------------------------------
(* What the page's own words say, and the page does not do.                *)

(* "Publish this content for $... USD / ... ETH?" (dashboard.js:146): it   *)
(* is on sale at the price in ethers that was confirmed, to the decimals   *)
(* that were shown.                                                        *)
PricedAsConfirmed ==
    \A k \in Listed :
        LET form == listing[k].form
        IN  Shown(form.price, form.usd)
              = IF form.usd THEN ToFixed(content[k].price) ELSE content[k].price
=============================================================================
