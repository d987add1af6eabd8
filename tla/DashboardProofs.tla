-------------------------- MODULE DashboardProofs ---------------------------
(***************************************************************************)
(* Proofs about the publisher's page, for any accounts, files, prices and  *)
(* number of deeds: what is put on sale is the file it is named after, of  *)
(* the account's own publisher, at no more than was typed.                 *)
(***************************************************************************)
EXTENDS Dashboard, GatewayProofs, SequenceTheorems, WellFoundedInduction

DashTypeInv == TypeInv /\ DashTypeOK

(* A queue whose handlers are gone.                                        *)
LEMMA OrphanedType ==
  ASSUME NEW S, \A tx \in S : [tx EXCEPT !.heard = FALSE] \in S, NEW q \in Seq(S)
  PROVE  Orphaned(q) \in Seq(S)
<1>1. Len(q) \in Nat /\ DOMAIN q = 1..Len(q) /\ \A i \in 1..Len(q) : q[i] \in S
  OBVIOUS
<1>2. Orphaned(q) \in [1..Len(q) -> S]
  BY <1>1 DEF Orphaned
<1> QED
  BY <1>1, <1>2, SeqDef

LEMMA UnheardItem == \A tx \in Items : [tx EXCEPT !.heard = FALSE] \in Items
  BY DEF Items

LEMMA QueueParts ==
  ASSUME NEW S, NEW q \in Seq(S), q # <<>>
  PROVE  Head(q) \in S /\ Tail(q) \in Seq(S)
  OBVIOUS

LEMMA FinalPriceType ==
  \A x \in Amounts \cup {NoAmount}, usd \in BOOLEAN : FinalPrice(x, usd) \in Prices
<1>1. \A usd \in BOOLEAN : FinalPrice(NoAmount, usd) \in Prices
  BY DashboardAssumption DEF FinalPrice
<1> QED
  BY <1>1, DashboardAssumption

LEMMA ItemType ==
  ASSUME desk \in DeskStates, desk.hash # NoFile, desk.profile \in Publishers,
         NEW form \in Forms
  PROVE  Item(form) \in Items
<1>1. /\ desk.hash \in Files /\ desk.name \in Files \cup {NoFile}
      /\ (desk.seen # {desk.account}) \in BOOLEAN
  BY DEF DeskStates
<1>2. FinalPrice(form.price, form.usd) \in Prices
  BY FinalPriceType DEF Forms
<1> QED
  BY <1>1, <1>2 DEF Item, Items

LEMMA DeedsType ==
  ASSUME deeds \in 0..MaxActs, Do
  PROVE  deeds' \in 0..MaxActs
  BY DashboardAssumption DEF Do

-----------------------------------------------------------------------------
(* The steps of the page that change no contract.                          *)
PageStep ==
    \/ WindowLocationReload \/ DispatchDapp \/ HandleSignInClick
    \/ \E a \in Accounts : AccountsChanged(a) \/ GetPublisherProfile(a) \/ MineFails(a)
    \/ \E f \in Files : UploadToIPFS(f) \/ UploadAnswered(f) \/ UploadFails(f)
    \/ \E form \in Forms : AddContentToContract(form)

LEMMA DashSteps ==
  ASSUME DashNext
  PROVE  PageStep \/ \E a \in Accounts : MineContent(a) \/ SignUp(a)
  BY Zenon DEF DashNext, PageStep

LEMMA PageStepIsQuiet == PageStep => UNCHANGED <<vars, owned>>
  BY Zenon DEF PageStep, WindowLocationReload, DispatchDapp, HandleSignInClick, AccountsChanged,
     GetPublisherProfile, MineFails, UploadToIPFS, UploadAnswered, UploadFails,
     AddContentToContract

LEMMA DashStepIsGateway == DashTypeOK /\ [DashNext]_dashVars => [Next]_vars
<1> SUFFICES ASSUME DashTypeOK, [DashNext]_dashVars PROVE [Next]_vars
  OBVIOUS
<1>1. CASE PageStep
  BY <1>1, PageStepIsQuiet DEF vars
<1>2. ASSUME NEW a \in Accounts, MineContent(a) PROVE Next
  <2>1. sent[a] \in Seq(Items) /\ sent[a] # <<>>
    BY <1>2 DEF DashTypeOK, MineContent
  <2>2. Head(sent[a]) \in Items
    BY <2>1, QueueParts
  <2>3. Head(sent[a]).publisher \in Publishers /\ Head(sent[a]).price \in Prices
    BY <2>2 DEF Items
  <2> QED
    BY <1>2, <2>3 DEF MineContent, Next, PublisherCall
<1>3. ASSUME NEW a \in Accounts, SignUp(a) PROVE Next
  <2>1. CreateNewPublisher(a, 0, 0) /\ 0 \in Costs /\ 0 \in Prices
    BY <1>3, DashboardAssumption DEF SignUp
  <2>2. PublisherCall(a)
    BY <2>1, Zenon DEF PublisherCall
  <2> QED
    BY <2>2, Zenon DEF Next
<1>4. CASE UNCHANGED dashVars
  BY <1>4 DEF dashVars, vars
<1> QED
  BY <1>1, <1>2, <1>3, <1>4, DashSteps

-----------------------------------------------------------------------------
(* The types.                                                              *)
LEMMA FreshType == Fresh \in DeskStates
  BY DEF Fresh, DeskStates

LEMMA DashTypeInit == DashInit => DashTypeInv
<1> SUFFICES ASSUME DashInit PROVE DashTypeInv
  OBVIOUS
<1> USE DashboardAssumption, AddressAssumption, NumberAssumption, NoStorageTypes
<1>1. P!NewPublisher(0) \in P!PublisherStorage
  BY NewPublisherType
<1>2. TypeOK
  BY <1>1 DEF DashInit, TypeOK, Addresses
<1>3. Linked
  BY <1>1 DEF DashInit, Linked, HasCode, NoStorage
<1>4. /\ selected \in Accounts /\ approved \in BOOLEAN
      /\ listing \in [Contents -> Items \cup {Null}]
      /\ deeds \in 0..MaxActs
      /\ sent \in [Accounts -> Seq(Items)]
  BY DEF DashInit
<1>5. owned \in [Accounts -> SUBSET Publishers]
  BY DEF DashInit
<1> QED
  BY <1>2, <1>3, <1>4, <1>5, FreshType DEF DashTypeInv, TypeInv, DashTypeOK, DashInit

LEMMA SetAddressType ==
  ASSUME NEW state \in DeskStates, NEW a \in Accounts
  PROVE  SetAddress(state, a) \in DeskStates
  BY DEF SetAddress, DeskStates

(* A step of the page, by what becomes of the desk and of the queues.      *)
LEMMA QuietType ==
  ASSUME DashTypeOK, PageStep,
         desk' \in DeskStates, sent' \in [Accounts -> Seq(Items)], selected' \in Accounts,
         approved' \in BOOLEAN, UNCHANGED listing, Do \/ UNCHANGED deeds
  PROVE  DashTypeOK'
<1>1. TypeOK'
  BY PageStepIsQuiet DEF DashTypeOK, TypeOK, vars
<1>2. deeds' \in 0..MaxActs
  BY DeedsType DEF DashTypeOK
<1>3. owned' \in [Accounts -> SUBSET Publishers] /\ listing' \in [Contents -> Items \cup {Null}]
  BY PageStepIsQuiet DEF DashTypeOK
<1> QED
  BY <1>1, <1>2, <1>3 DEF DashTypeOK

(* What becomes of the queues.                                             *)
LEMMA QueuesType ==
  ASSUME sent \in [Accounts -> Seq(Items)], desk \in DeskStates, PageStep
  PROVE  sent' \in [Accounts -> Seq(Items)]
<1>1. CASE WindowLocationReload
  BY <1>1, OrphanedType, UnheardItem DEF WindowLocationReload
<1>2. ASSUME NEW a \in Accounts, MineFails(a) PROVE sent' \in [Accounts -> Seq(Items)]
  <2>1. Tail(sent[a]) \in Seq(Items)
    BY <1>2, QueueParts DEF MineFails
  <2> QED
    BY <1>2, <2>1 DEF MineFails
<1>3. ASSUME NEW form \in Forms, AddContentToContract(form)
      PROVE  sent' \in [Accounts -> Seq(Items)]
  <2>1. CASE desk.account # Nobody /\ desk.profile \in Publishers /\ Send(desk.account, Item(form))
    <3>1. Item(form) \in Items
      BY <1>3, <2>1, ItemType DEF AddContentToContract
    <3>2. desk.account \in Accounts
      BY <2>1 DEF DeskStates
    <3>3. Append(sent[desk.account], Item(form)) \in Seq(Items)
      BY <3>1, <3>2, AppendProperties
    <3> QED
      BY <2>1, <3>2, <3>3 DEF Send
  <2> QED
    BY <1>3, <2>1, Zenon DEF AddContentToContract
<1>4. CASE UNCHANGED sent
  BY <1>4
<1> QED
  BY <1>1, <1>2, <1>3, <1>4 DEF PageStep, DispatchDapp, HandleSignInClick, AccountsChanged,
     GetPublisherProfile, UploadToIPFS, UploadAnswered, UploadFails

(* What becomes of the desk.                                               *)
LEMMA DeskType ==
  ASSUME DashTypeOK, PageStep
  PROVE  desk' \in DeskStates
<1>1. desk \in DeskStates /\ selected \in Accounts
  BY DEF DashTypeOK
<1>2. CASE WindowLocationReload
  BY <1>2, FreshType DEF WindowLocationReload
<1>3. CASE DispatchDapp
  <2> DEFINE looked == [desk EXCEPT !.due = FALSE]
  <2>1. looked \in DeskStates
    BY <1>1 DEF DeskStates
  <2>2. [looked EXCEPT !.listening = TRUE] \in DeskStates
    BY <1>1 DEF DeskStates
  <2> QED
    BY <1>1, <1>3, <2>1, <2>2, SetAddressType DEF DispatchDapp
<1>4. CASE HandleSignInClick
  BY <1>1, <1>4, SetAddressType DEF HandleSignInClick
<1>5. ASSUME NEW a \in Accounts, AccountsChanged(a) PROVE desk' \in DeskStates
  BY <1>1, <1>5, SetAddressType DEF AccountsChanged
<1>6. ASSUME NEW a \in Accounts, GetPublisherProfile(a) PROVE desk' \in DeskStates
  <2>1. publisherContract[a] \in Publishers \cup {Null}
    BY DEF DashTypeOK, TypeOK
  <2> QED
    BY <1>1, <1>6, <2>1 DEF GetPublisherProfile, DeskStates
<1>7. ASSUME NEW f \in Files, UploadToIPFS(f) \/ UploadAnswered(f) \/ UploadFails(f)
      PROVE  desk' \in DeskStates
  <2>1. {f} \in SUBSET Files /\ desk.uploading \in SUBSET Files
    BY <1>1 DEF DeskStates
  <2>2. CASE UploadToIPFS(f)
    BY <1>1, <2>1, <2>2 DEF UploadToIPFS, DeskStates
  <2>3. CASE UploadAnswered(f)
    BY <1>1, <2>1, <2>3 DEF UploadAnswered, DeskStates
  <2>4. CASE UploadFails(f)
    BY <1>1, <2>1, <2>4 DEF UploadFails, DeskStates
  <2> QED
    BY <1>7, <2>2, <2>3, <2>4
<1>8. ASSUME NEW form \in Forms, AddContentToContract(form) PROVE desk' \in DeskStates
  BY <1>1, <1>8 DEF AddContentToContract, DeskStates, Forms
<1>9. ASSUME NEW a \in Accounts, MineFails(a) PROVE desk' \in DeskStates
  BY <1>1, <1>9 DEF MineFails
<1> QED
  BY <1>2, <1>3, <1>4, <1>5, <1>6, <1>7, <1>8, <1>9 DEF PageStep

LEMMA PageStepType ==
  ASSUME DashTypeOK, PageStep
  PROVE  DashTypeOK'
<1>1. selected' \in Accounts /\ approved' \in BOOLEAN
  BY DEF DashTypeOK, PageStep, WindowLocationReload, DispatchDapp, HandleSignInClick,
     AccountsChanged, GetPublisherProfile, MineFails, UploadToIPFS, UploadAnswered,
     UploadFails, AddContentToContract
<1>2. UNCHANGED listing /\ (Do \/ UNCHANGED deeds)
  BY Zenon DEF PageStep, WindowLocationReload, DispatchDapp, HandleSignInClick,
     AccountsChanged, GetPublisherProfile, MineFails, UploadToIPFS, UploadAnswered,
     UploadFails, AddContentToContract
<1>3. sent' \in [Accounts -> Seq(Items)]
  BY QueuesType DEF DashTypeOK
<1> QED
  BY <1>1, <1>2, <1>3, DeskType, QuietType

LEMMA MinedType ==
  ASSUME DashTypeInv, NEW a \in Accounts, MineContent(a)
  PROVE  DashTypeOK'
<1> DEFINE tx == Head(sent[a])
           rest == Tail(sent[a])
<1>1. /\ sent \in [Accounts -> Seq(Items)] /\ tx \in Items /\ rest \in Seq(Items)
  BY QueueParts DEF DashTypeInv, DashTypeOK, MineContent
<1>2. TypeOK'
  <2>1. [DashNext]_dashVars
    BY DEF DashNext
  <2> QED
    BY <2>1, DashStepIsGateway, TypeNext DEF DashTypeInv, TypeInv
<1>3. listing' \in [Contents -> Items \cup {Null}]
  <2>1. \A k \in Contents : listing[k] \in Items \cup {Null}
    BY DEF DashTypeInv, DashTypeOK
  <2>2. listing' = [k \in Contents |->
                      IF content[k] = NoStorage /\ content'[k] # NoStorage
                      THEN tx ELSE listing[k]]
    BY DEF MineContent
  <2> HIDE DEF tx
  <2> QED
    BY <1>1, <2>1, <2>2
<1>4. desk' \in DeskStates
  BY FreshType DEF MineContent, DashTypeInv, DashTypeOK
<1>5. sent' \in [Accounts -> Seq(Items)]
  <2>1. \A q \in Seq(Items) : Orphaned(q) \in Seq(Items)
    BY OrphanedType, UnheardItem
  <2>2. \/ sent' = [b \in Accounts |-> Orphaned(IF b = a THEN Tail(sent[b]) ELSE sent[b])]
        \/ sent' = [sent EXCEPT ![a] = rest]
    BY DEF MineContent
  <2>3. CASE sent' = [b \in Accounts |-> Orphaned(IF b = a THEN Tail(sent[b]) ELSE sent[b])]
    <3>1. \A b \in Accounts : (IF b = a THEN Tail(sent[b]) ELSE sent[b]) \in Seq(Items)
      BY <1>1
    <3> QED
      BY <2>1, <2>3, <3>1
  <2>4. CASE sent' = [sent EXCEPT ![a] = rest]
    BY <1>1, <2>4
  <2> QED
    BY <2>2, <2>3, <2>4
<1>6. UNCHANGED <<selected, approved, owned, deeds>>
  BY DEF MineContent
<1> QED
  BY <1>2, <1>3, <1>4, <1>5, <1>6 DEF DashTypeInv, DashTypeOK

LEMMA SignUpType ==
  ASSUME DashTypeInv, NEW a \in Accounts, SignUp(a)
  PROVE  DashTypeOK'
<1>1. TypeOK'
  <2>1. [DashNext]_dashVars
    BY DEF DashNext
  <2> QED
    BY <2>1, DashStepIsGateway, TypeNext DEF DashTypeInv, TypeInv
<1>2. publisherContract'[a] \in Publishers
  BY DEF SignUp, CreateNewPublisher, DashTypeInv, TypeInv, TypeOK
<1>3. owned' \in [Accounts -> SUBSET Publishers]
  BY <1>2 DEF SignUp, DashTypeInv, DashTypeOK
<1>4. deeds' \in 0..MaxActs
  BY DeedsType DEF SignUp, DashTypeInv, DashTypeOK
<1> QED
  BY <1>1, <1>3, <1>4 DEF SignUp, DashTypeInv, DashTypeOK

LEMMA DashTypeNext == DashTypeInv /\ [DashNext]_dashVars => DashTypeInv'
<1> SUFFICES ASSUME DashTypeInv, [DashNext]_dashVars PROVE DashTypeInv'
  OBVIOUS
<1>1. TypeInv'
  BY DashStepIsGateway, TypeNext DEF DashTypeInv
<1>2. ASSUME PageStep PROVE DashTypeOK'
  BY <1>2, PageStepType DEF DashTypeInv
<1>3. ASSUME UNCHANGED dashVars PROVE DashTypeOK'
  BY <1>1, <1>3 DEF dashVars, deskVars, DashTypeInv, TypeInv, DashTypeOK
<1>4. DashTypeOK'
  BY <1>2, <1>3, DashSteps, PageStepType, MinedType, SignUpType DEF DashTypeInv
<1> QED
  BY <1>1, <1>4 DEF DashTypeInv

(* The page, its queues and the contracts keep their types: no step sends  *)
(* a transaction without a publisher, a file or a price.                   *)
THEOREM DashTypeCorrect == DashSpec => []DashTypeOK
<1>1. DashTypeInv => DashTypeOK
  BY DEF DashTypeInv
<1> QED
  BY <1>1, DashTypeInit, DashTypeNext, PTL DEF DashSpec

(* Every step of the page is a transaction of the paywall, or leaves the   *)
(* contracts alone.                                                        *)
THEOREM DashboardUsesTheGateway == DashSpec => [][Next]_vars
<1>1. DashTypeInv => DashTypeOK
  BY DEF DashTypeInv
<1> QED
  BY <1>1, DashTypeInit, DashTypeNext, DashStepIsGateway, PTL DEF DashSpec

LEMMA PaywallInit == DashInit => PaywallInv
<1> SUFFICES ASSUME DashInit PROVE PaywallInv
  OBVIOUS
<1> USE NoStorageTypes, NewPublisherType
<1> DEFINE new == P!NewPublisher(0)
<1>1. HasCode(new) /\ new.expiration = [a \in Accounts |-> 0] /\ new.contentContracts = {}
  BY DEF P!NewPublisher
<1>2. /\ content = [k \in Contents |-> NoStorage] /\ contentContracts = {} /\ now = 0
      /\ userContract = [a \in Accounts |-> Null]
  BY DEF DashInit
<1>3. \A p \in Publishers : HasCode(publisher[p]) => publisher[p] = new
  BY DEF DashInit
<1> HIDE DEF new
<1>4. EarningsBacked
  BY <1>2 DEF EarningsBacked
<1>5. PagesAgreeOnSubscription
  BY <1>1, <1>2, <1>3 DEF PagesAgreeOnSubscription, P!IsSubscribed
<1>6. RegistriesAgree
  BY <1>1, <1>2, <1>3 DEF RegistriesAgree
<1> QED
  BY <1>4, <1>5, <1>6 DEF PaywallInv

(* Whatever is put on sale from the dashboard, whoever signs up again and  *)
(* whatever fails: every publisher lists the contents that are its own,    *)
(* every content can pay out what it has earned, and both tests of a       *)
(* subscription agree.                                                     *)
THEOREM DashboardKeepsThePaywall ==
  DashSpec => [](EarningsBacked /\ PagesAgreeOnSubscription /\ RegistriesAgree)
<1>1. DashTypeInv /\ PaywallInv /\ [DashNext]_dashVars => PaywallInv'
  BY DashStepIsGateway, PaywallNext DEF DashTypeInv
<1>2. PaywallInv => EarningsBacked /\ PagesAgreeOnSubscription /\ RegistriesAgree
  BY DEF PaywallInv
<1> QED
  BY <1>1, <1>2, PaywallInit, DashTypeInit, DashTypeNext, PTL DEF DashSpec

(* What the publisher does on the dashboard keeps the abstract promise of  *)
(* access: no deed, however late its receipt, takes access from a reader.  *)
THEOREM DashboardKeepsAccess == DashSpec => KeepsAccess
<1>1. DashInit => A!Init
  BY NoStorageTypes DEF DashInit, A!Init, Seller, Free, Whitelisted, Until, P!NewPublisher
<1>2. DashTypeInv /\ [DashNext]_dashVars => [A!Next]_(A!vars)
  BY DashStepIsGateway, AccessRefines DEF DashTypeInv
<1> QED
  BY <1>1, <1>2, DashTypeInit, DashTypeNext, PTL DEF DashSpec, KeepsAccess, A!Spec

-----------------------------------------------------------------------------
(* The inductive invariant: at most one upload is under way, of the file   *)
(* the page names, and none once there is a hash; a profile is that of an  *)
(* account the page has had; and what is sent, from the click to the       *)
(* contract, is of one piece.                                              *)
Honest(tx, own) ==
    /\ tx.name = tx.hash
    /\ tx.switched \/ tx.publisher \in own
    /\ tx.price = FinalPrice(tx.form.price, tx.form.usd)

HonestItems(own) == {tx \in Items : Honest(tx, own)}

UploadFits ==
    /\ desk.uploading \subseteq {desk.name}
    /\ desk.uploading # {} => desk.loading
    /\ desk.hash # NoFile => desk.hash = desk.name /\ desk.uploading = {}

ProfileFits ==
    /\ desk.account \in desk.seen \cup {Nobody}
    /\ desk.asked \subseteq desk.seen
    /\ desk.profile \in Publishers => \E b \in desk.seen : desk.profile \in owned[b]

OwnersFit == \A a \in Accounts : publisherContract[a] \in owned[a] \cup {Null}

QueuesFit == \A a \in Accounts : sent[a] \in Seq(HonestItems(owned[a]))

ListingsFit ==
    \A k \in Listed :
        /\ HasCode(content[k])
        /\ content[k].ownerId = listing[k].publisher
        /\ content[k].price = listing[k].price
        /\ \E a \in Accounts : a \in content[k].whitelist /\ Honest(listing[k], owned[a])

DashInv ==
    /\ DashTypeInv
    /\ UploadFits /\ ProfileFits /\ OwnersFit /\ QueuesFit /\ ListingsFit

LEMMA UnheardHonest ==
  ASSUME NEW own
  PROVE  \A tx \in HonestItems(own) : [tx EXCEPT !.heard = FALSE] \in HonestItems(own)
<1> SUFFICES ASSUME NEW tx \in HonestItems(own)
             PROVE  [tx EXCEPT !.heard = FALSE] \in HonestItems(own)
  OBVIOUS
<1> DEFINE un == [tx EXCEPT !.heard = FALSE]
<1>1. tx \in Items /\ Honest(tx, own) /\ un \in Items
  BY UnheardItem DEF HonestItems
<1>2. /\ un.name = tx.name /\ un.hash = tx.hash /\ un.switched = tx.switched
      /\ un.publisher = tx.publisher /\ un.price = tx.price /\ un.form = tx.form
  BY <1>1 DEF Items
<1> HIDE DEF un
<1>3. Honest(un, own)
  BY <1>1, <1>2, Zenon DEF Honest
<1> QED
  BY <1>1, <1>3 DEF HonestItems, un

LEMMA ItemHonest ==
  ASSUME DashInv, desk.hash # NoFile, desk.profile \in Publishers, desk.account # Nobody,
         NEW form \in Forms
  PROVE  desk.account \in Accounts /\ Item(form) \in HonestItems(owned[desk.account])
<1>1. desk \in DeskStates
  BY DEF DashInv, DashTypeInv, DashTypeOK
<1>2. Item(form) \in Items
  BY <1>1, ItemType
<1>3. desk.account \in Accounts
  BY <1>1 DEF DeskStates
<1>4. desk.name = desk.hash
  BY DEF DashInv, UploadFits
<1>5. (desk.seen # {desk.account}) \/ desk.profile \in owned[desk.account]
  BY DEF DashInv, ProfileFits
<1>6. Honest(Item(form), owned[desk.account])
  BY <1>4, <1>5 DEF Honest, Item
<1> QED
  BY <1>2, <1>3, <1>6 DEF HonestItems

LEMMA DashInvInit == DashInit => DashInv
<1> SUFFICES ASSUME DashInit PROVE DashInv
  OBVIOUS
<1>1. DashTypeInv
  BY DashTypeInit
<1>2. UploadFits /\ ProfileFits
  BY DashboardAssumption DEF DashInit, Fresh, UploadFits, ProfileFits
<1>3. OwnersFit
  BY DEF DashInit, OwnersFit
<1>4. QueuesFit
  BY DEF DashInit, QueuesFit
<1>5. ListingsFit
  BY DEF DashInit, ListingsFit, Listed
<1> QED
  BY <1>1, <1>2, <1>3, <1>4, <1>5 DEF DashInv

-----------------------------------------------------------------------------
(* The steps of the page.                                                  *)
LEMMA FreshFits ==
  ASSUME desk' = Fresh
  PROVE  UploadFits' /\ ProfileFits'
  BY DashboardAssumption DEF Fresh, UploadFits, ProfileFits

(* Another address neither touches an upload nor names a publisher.        *)
LEMMA AddressFits ==
  ASSUME UploadFits, ProfileFits, UNCHANGED owned,
         NEW state \in DeskStates, NEW a \in Accounts, desk' = SetAddress(state, a),
         desk \in DeskStates,
         \/ state = desk
         \/ state = [desk EXCEPT !.due = FALSE]
  PROVE  UploadFits' /\ ProfileFits'
<1>1. /\ state.uploading = desk.uploading /\ state.loading = desk.loading
      /\ state.name = desk.name /\ state.hash = desk.hash
      /\ state.seen = desk.seen /\ state.asked = desk.asked
      /\ state.profile = desk.profile
  BY DEF DeskStates
<1>2. /\ desk'.uploading = desk.uploading /\ desk'.loading = desk.loading
      /\ desk'.name = desk.name /\ desk'.hash = desk.hash
      /\ desk'.seen = desk.seen \cup {a} /\ desk'.profile = desk.profile
      /\ desk'.account = a
      /\ desk'.asked \subseteq desk.asked \cup {a}
  BY <1>1 DEF SetAddress, DeskStates
<1> QED
  BY <1>2 DEF UploadFits, ProfileFits

LEMMA PageFits ==
  ASSUME DashInv, PageStep
  PROVE  UploadFits' /\ ProfileFits'
<1> USE PageStepIsQuiet DEF DashInv
<1>1. desk \in DeskStates /\ selected \in Accounts /\ UNCHANGED owned
  BY DEF DashTypeInv, DashTypeOK
<1>2. CASE WindowLocationReload
  BY <1>2, FreshFits DEF WindowLocationReload
<1>3. CASE DispatchDapp
  <2> DEFINE looked == [desk EXCEPT !.due = FALSE]
  <2>1. looked \in DeskStates
    BY <1>1 DEF DeskStates
  <2>2. CASE desk' = SetAddress(looked, selected)
    BY <1>1, <2>1, <2>2, AddressFits
  <2>3. CASE desk' = looked \/ desk' = [looked EXCEPT !.listening = TRUE]
    BY <1>1, <2>3 DEF UploadFits, ProfileFits, DeskStates
  <2> QED
    BY <1>3, <2>2, <2>3 DEF DispatchDapp
<1>4. CASE HandleSignInClick
  BY <1>1, <1>4, AddressFits DEF HandleSignInClick
<1>5. ASSUME NEW a \in Accounts, AccountsChanged(a) PROVE UploadFits' /\ ProfileFits'
  <2>1. CASE desk' = SetAddress(desk, a)
    BY <1>1, <2>1, AddressFits
  <2>2. CASE desk' = desk
    BY <1>1, <2>2 DEF UploadFits, ProfileFits
  <2> QED
    BY <1>5, <2>1, <2>2 DEF AccountsChanged
<1>6. ASSUME NEW a \in Accounts, GetPublisherProfile(a) PROVE UploadFits' /\ ProfileFits'
  <2>1. publisherContract[a] \in Publishers => publisherContract[a] \in owned[a]
    BY AddressAssumption DEF OwnersFit
  <2>2. a \in desk.seen
    BY <1>6 DEF GetPublisherProfile, ProfileFits
  <2>3. UploadFits'
    BY <1>1, <1>6 DEF GetPublisherProfile, UploadFits, DeskStates
  <2>4. ProfileFits'
    BY <1>1, <1>6, <2>1, <2>2 DEF GetPublisherProfile, ProfileFits, DeskStates
  <2> QED
    BY <2>3, <2>4
<1>7. ASSUME NEW f \in Files, UploadToIPFS(f) \/ UploadAnswered(f) \/ UploadFails(f)
      PROVE  UploadFits' /\ ProfileFits'
  <2>1. CASE UploadToIPFS(f)
    BY <1>1, <2>1 DEF UploadToIPFS, UploadFits, ProfileFits, DeskStates
  <2>2. CASE UploadAnswered(f)
    BY <1>1, <2>2 DEF UploadAnswered, UploadFits, ProfileFits, DeskStates
  <2>3. CASE UploadFails(f)
    BY <1>1, <2>3 DEF UploadFails, UploadFits, ProfileFits, DeskStates
  <2> QED
    BY <1>7, <2>1, <2>2, <2>3
<1>8. ASSUME NEW form \in Forms, AddContentToContract(form) PROVE UploadFits' /\ ProfileFits'
  BY <1>1, <1>8 DEF AddContentToContract, UploadFits, ProfileFits, DeskStates
<1>9. ASSUME NEW a \in Accounts, MineFails(a) PROVE UploadFits' /\ ProfileFits'
  BY <1>1, <1>9 DEF MineFails, UploadFits, ProfileFits
<1> QED
  BY <1>2, <1>3, <1>4, <1>5, <1>6, <1>7, <1>8, <1>9 DEF PageStep

LEMMA PageQueuesFit ==
  ASSUME DashInv, PageStep
  PROVE  QueuesFit'
<1> SUFFICES ASSUME NEW b \in Accounts PROVE sent'[b] \in Seq(HonestItems(owned[b]))
  BY PageStepIsQuiet DEF QueuesFit
<1>1. sent[b] \in Seq(HonestItems(owned[b])) /\ sent \in [Accounts -> Seq(Items)]
  BY DEF DashInv, QueuesFit, DashTypeInv, DashTypeOK
<1>2. CASE WindowLocationReload
  BY <1>1, <1>2, OrphanedType, UnheardHonest DEF WindowLocationReload
<1>3. ASSUME NEW a \in Accounts, MineFails(a) PROVE sent'[b] \in Seq(HonestItems(owned[b]))
  BY <1>1, <1>3, QueueParts DEF MineFails
<1>4. ASSUME NEW form \in Forms, AddContentToContract(form)
      PROVE  sent'[b] \in Seq(HonestItems(owned[b]))
  <2>1. CASE desk.account # Nobody /\ desk.profile \in Publishers /\ Send(desk.account, Item(form))
    <3>1. Item(form) \in HonestItems(owned[desk.account])
      BY <1>4, <2>1, ItemHonest DEF AddContentToContract
    <3>2. sent'[b] = sent[b] \/ (b = desk.account /\ sent'[b] = Append(sent[b], Item(form)))
      BY <1>1, <2>1 DEF Send
    <3> DEFINE own == HonestItems(owned[b])
               new == Item(form)
    <3>3. CASE b = desk.account /\ sent'[b] = Append(sent[b], new)
      <4>1. new \in own /\ sent[b] \in Seq(own)
        BY <1>1, <3>1, <3>3
      <4> HIDE DEF own, new
      <4>2. Append(sent[b], new) \in Seq(own)
        BY <4>1, AppendProperties
      <4> QED
        BY <3>3, <4>2 DEF own
    <3> QED
      BY <1>1, <3>2, <3>3
  <2>2. CASE UNCHANGED sent
    BY <1>1, <2>2
  <2> QED
    BY <1>4, <2>1, <2>2, Zenon DEF AddContentToContract
<1>5. CASE UNCHANGED sent
  BY <1>1, <1>5
<1> QED
  BY <1>2, <1>3, <1>4, <1>5 DEF PageStep, DispatchDapp, HandleSignInClick, AccountsChanged,
     GetPublisherProfile, UploadToIPFS, UploadAnswered, UploadFails

LEMMA PageInv ==
  ASSUME DashInv, PageStep
  PROVE  UploadFits' /\ ProfileFits' /\ OwnersFit' /\ QueuesFit' /\ ListingsFit'
<1>1. UNCHANGED <<vars, owned>> /\ UNCHANGED listing
  BY PageStepIsQuiet, Zenon DEF PageStep, WindowLocationReload, DispatchDapp, HandleSignInClick,
     AccountsChanged, GetPublisherProfile, MineFails, UploadToIPFS, UploadAnswered,
     UploadFails, AddContentToContract
<1>2. OwnersFit' /\ ListingsFit'
  BY <1>1 DEF DashInv, OwnersFit, ListingsFit, Listed, vars
<1> QED
  BY <1>2, PageFits, PageQueuesFit

-----------------------------------------------------------------------------
(* The chain.                                                              *)
LEMMA MinedInv ==
  ASSUME DashInv, NEW a \in Accounts, MineContent(a)
  PROVE  UploadFits' /\ ProfileFits' /\ OwnersFit' /\ QueuesFit' /\ ListingsFit'
<1> DEFINE tx == Head(sent[a])
<1>1. UNCHANGED <<owned, publisherContract>>
  BY DEF MineContent, CreateContent, NewContentContract
<1>2. /\ \A b \in Accounts : sent[b] \in Seq(HonestItems(owned[b]))
      /\ tx \in HonestItems(owned[a]) /\ Tail(sent[a]) \in Seq(HonestItems(owned[a]))
      /\ sent \in [Accounts -> Seq(Items)]
  BY QueueParts DEF DashInv, DashTypeInv, DashTypeOK, QueuesFit, MineContent
<1>3. UploadFits' /\ ProfileFits'
  <2>1. CASE desk' = Fresh
    BY <2>1, FreshFits
  <2>2. CASE UNCHANGED desk
    BY <1>1, <2>2 DEF DashInv, UploadFits, ProfileFits
  <2> QED
    BY <2>1, <2>2, Zenon DEF MineContent
<1>4. OwnersFit'
  BY <1>1 DEF DashInv, OwnersFit
<1>5. QueuesFit'
  <2> SUFFICES ASSUME NEW b \in Accounts PROVE sent'[b] \in Seq(HonestItems(owned[b]))
    BY <1>1 DEF QueuesFit
  <2> DEFINE own == HonestItems(owned[b])
             rest == IF b = a THEN Tail(sent[b]) ELSE sent[b]
  <2>1. rest \in Seq(own)
    BY <1>2
  <2>2. sent'[b] = Orphaned(rest) \/ sent'[b] = rest
    BY <1>2 DEF MineContent
  <2>3. \A t \in own : [t EXCEPT !.heard = FALSE] \in own
    BY UnheardHonest
  <2> HIDE DEF own, rest
  <2>4. Orphaned(rest) \in Seq(own)
    BY <2>1, <2>3, OrphanedType
  <2> QED
    BY <2>1, <2>2, <2>4 DEF own
<1>6. ListingsFit'
  <2>1. PICK k0 \in Contents :
           /\ content[k0] = NoStorage
           /\ content' = [content EXCEPT ![k0] = C!NewContent(tx.publisher, a, tx.price)]
    BY DEF MineContent, CreateContent, NewContentContract
  <2> DEFINE new == C!NewContent(tx.publisher, a, tx.price)
  <2>2. /\ new.ownerId = tx.publisher /\ new.price = tx.price /\ a \in new.whitelist
    BY DEF C!NewContent
  <2>3. content \in [Contents -> C!ContentStorage \cup {NoStorage}]
    BY DEF DashInv, DashTypeInv, TypeInv, TypeOK
  <2>4. content' \in [Contents -> C!ContentStorage \cup {NoStorage}] /\ new \in C!ContentStorage
    <3>1. tx \in Items
      BY <1>2 DEF HonestItems
    <3>2. tx.publisher \in Publishers /\ tx.price \in Prices
      BY <3>1 DEF Items
    <3>3. new \in C!ContentStorage
      BY <3>2, NewContentType, NumberAssumption
    <3>4. content' = [content EXCEPT ![k0] = new]
      BY <2>1
    <3> HIDE DEF new
    <3> QED
      BY <2>3, <3>3, <3>4
  <2>5. content'[k0] = new /\ HasCode(new) /\ \A k \in Contents \ {k0} : content'[k] = content[k]
    BY <2>1, <2>3, <2>4, NoStorageTypes
  <2>6. listing' = [k \in Contents |->
                      IF content[k] = NoStorage /\ content'[k] # NoStorage
                      THEN tx ELSE listing[k]]
    BY DEF MineContent
  <2>7. Honest(tx, owned[a])
    BY <1>2 DEF HonestItems
  <2> HIDE DEF new, tx
  <2>8. listing'[k0] = tx /\ \A k \in Contents \ {k0} : listing'[k] = listing[k]
    BY <2>1, <2>5, <2>6 DEF HasCode
  <2> SUFFICES ASSUME NEW k \in Contents, listing'[k] # Null
               PROVE  /\ HasCode(content'[k])
                      /\ content'[k].ownerId = listing'[k].publisher
                      /\ content'[k].price = listing'[k].price
                      /\ \E b \in Accounts : b \in content'[k].whitelist /\ Honest(listing'[k], owned[b])
    BY <1>1 DEF ListingsFit, Listed
  <2>9. CASE k = k0
    BY <2>2, <2>5, <2>7, <2>8, <2>9
  <2>10. CASE k # k0
    BY <2>5, <2>8, <2>10 DEF DashInv, ListingsFit, Listed
  <2> QED
    BY <2>9, <2>10
<1> QED
  BY <1>3, <1>4, <1>5, <1>6

LEMMA SignUpInv ==
  ASSUME DashInv, NEW a \in Accounts, SignUp(a)
  PROVE  UploadFits' /\ ProfileFits' /\ OwnersFit' /\ QueuesFit' /\ ListingsFit'
<1>1. UNCHANGED <<desk, sent, listing, content>>
  BY DEF SignUp, CreateNewPublisher
<1>2. /\ publisherContract' = [publisherContract EXCEPT ![a] = publisherContract'[a]]
      /\ owned' = [owned EXCEPT ![a] = @ \cup {publisherContract'[a]}]
  BY DEF SignUp, CreateNewPublisher, DashInv, DashTypeInv, TypeInv, TypeOK
<1>3. owned \in [Accounts -> SUBSET Publishers] /\ publisherContract \in [Accounts -> Publishers \cup {Null}]
  BY DEF DashInv, DashTypeInv, DashTypeOK, TypeOK
<1>4. \A b \in Accounts : owned[b] \subseteq owned'[b]
  BY <1>2, <1>3
<1>5. \A b \in Accounts : \A t : Honest(t, owned[b]) => Honest(t, owned'[b])
  BY <1>4, Zenon DEF Honest
<1>6. UploadFits'
  BY <1>1 DEF DashInv, UploadFits
<1>7. ProfileFits'
  <2>1. desk.seen \subseteq Accounts
    BY DEF DashInv, DashTypeInv, DashTypeOK, DeskStates
  <2> QED
    BY <1>1, <1>4, <2>1 DEF DashInv, ProfileFits
<1>8. OwnersFit'
  BY <1>2, <1>3 DEF DashInv, OwnersFit
<1>9. QueuesFit'
  <2> SUFFICES ASSUME NEW b \in Accounts PROVE sent[b] \in Seq(HonestItems(owned'[b]))
    BY <1>1 DEF QueuesFit
  <2>1. HonestItems(owned[b]) \subseteq HonestItems(owned'[b])
    BY <1>5 DEF HonestItems
  <2> QED
    BY <2>1, SeqMonotonic DEF DashInv, QueuesFit
<1>10. ListingsFit'
  BY <1>1, <1>5 DEF DashInv, ListingsFit, Listed
<1> QED
  BY <1>6, <1>7, <1>8, <1>9, <1>10

LEMMA DashInvNext == DashInv /\ [DashNext]_dashVars => DashInv'
<1> SUFFICES ASSUME DashInv, [DashNext]_dashVars PROVE DashInv'
  OBVIOUS
<1> DEFINE Rest == UploadFits /\ ProfileFits /\ OwnersFit /\ QueuesFit /\ ListingsFit
<1>1. DashTypeInv'
  BY DashTypeNext DEF DashInv
<1>2. ASSUME UNCHANGED dashVars PROVE Rest'
  BY <1>2 DEF dashVars, deskVars, vars, DashInv, UploadFits, ProfileFits, OwnersFit, QueuesFit,
     ListingsFit, Listed
<1>3. Rest'
  BY <1>2, DashSteps, PageInv, MinedInv, SignUpInv
<1> QED
  BY <1>1, <1>3 DEF DashInv

-----------------------------------------------------------------------------
(* What is put on sale has the hash of the file it is named after.         *)
THEOREM HashesAreOwn == DashSpec => []PublishedWithOwnHash
<1>1. DashInv => PublishedWithOwnHash
  BY DEF DashInv, ListingsFit, PublishedWithOwnHash, Honest
<1> QED
  BY <1>1, DashInvInit, DashInvNext, PTL DEF DashSpec

(* A content belongs to a publisher of the account that put it on sale,    *)
(* unless the account changed while the page was open.                     *)
THEOREM PublishersAreOwn == DashSpec => []OwnPublisherUnlessSwitched
<1>1. DashInv => OwnPublisherUnlessSwitched
  BY DEF DashInv, ListingsFit, OwnPublisherUnlessSwitched, Honest
<1> QED
  BY <1>1, DashInvInit, DashInvNext, PTL DEF DashSpec

-----------------------------------------------------------------------------
(* The arithmetic of the price.                                            *)
LEMMA DivisionBound ==
  \A n \in Nat, m \in Nat \ {0} : n \div m \in Nat /\ m * (n \div m) <= n
  OBVIOUS

LEMMA Least ==
  ASSUME NEW T \in SUBSET Nat, T # {}
  PROVE  \E x \in T : \A y \in T : x <= y
<1>1. \E x \in T : \A y \in T : ~(<<y, x>> \in OpToRel(<, Nat))
  BY NatLessThanWellFounded, WFMin
<1>2. \E x \in T : \A y \in T : ~(y < x)
  BY <1>1 DEF OpToRel
<1> QED
  BY <1>2

LEMMA UnitsType ==
  /\ Ether \in Nat \ {0} /\ 1 \in Units
  /\ \A e \in Units : e \in Nat \ {0} /\ e <= Ether
<1>1. {1, Ether} \subseteq Units /\ Units \subseteq 1..Ether
  BY DashboardAssumption, Zenon
<1>2. 1 \in Units /\ Ether \in Units /\ Units \subseteq 1..Ether
  BY <1>1, Zenon
<1>3. Ether \in 1..Ether
  BY <1>2, Zenon
<1>4. Ether \in Nat \ {0}
  BY <1>3
<1> QED
  BY <1>2, <1>4

(* Every number has a last place: the units include 1, which divides it,   *)
(* and none is above an ether.                                             *)
LEMMA LastPlaceType ==
  ASSUME NEW n \in Nat
  PROVE  LastPlace(n) \in Units
<1>1. /\ Ether \in Nat \ {0} /\ 1 \in Units
      /\ \A e \in Units : e \in Nat /\ e <= Ether
  BY UnitsType
<1> DEFINE S == {e \in Units : n % e = 0}
           T == {Ether - e : e \in S}
<1>2. 1 \in S
  BY <1>1
<1>3. T \in SUBSET Nat /\ T # {}
  BY <1>1, <1>2
<1>4. PICK x \in T : \A y \in T : x <= y
  <2> HIDE DEF T
  <2> QED
    BY <1>3, Least
<1>5. PICK d \in S : x = Ether - d
  BY <1>4
<1>6. \A e \in S : e <= d
  <2>1. \A e \in S : Ether - d <= Ether - e
    BY <1>4, <1>5
  <2> QED
    BY <1>1, <2>1
<1> QED
  BY <1>5, <1>6 DEF LastPlace

LEMMA ProductGrows ==
  ASSUME NEW i \in Nat, NEW j \in Nat, NEW m \in Nat, i <= j
  PROVE  i * m <= j * m
<1>1. j - i \in Nat
  OBVIOUS
<1>2. j * m = i * m + (j - i) * m /\ (j - i) * m \in Nat /\ i * m \in Nat /\ j * m \in Nat
  BY <1>1
<1> QED
  BY <1>2

LEMMA ShortenLowers ==
  ASSUME NEW n \in Nat
  PROVE  Shorten(n) \in Nat /\ Shorten(n) <= n
<1> DEFINE d == LastPlace(n)
<1>1. d \in Nat \ {0} /\ Ether \in Nat \ {0}
  BY UnitsType, LastPlaceType
<1> HIDE DEF d
<1>2. Ether * (n \div (100 * Ether)) <= n
  <2> DEFINE m == 100 * Ether
             q == n \div m
  <2>1. m \in Nat \ {0}
    BY <1>1
  <2>2. q \in Nat /\ m * q <= n
    <3> HIDE DEF m
    <3> QED
      BY <2>1, DivisionBound
  <2> HIDE DEF q
  <2>3. Ether * q \in Nat /\ m * q = 100 * (Ether * q)
    BY <1>1, <2>2
  <2>4. Ether * q <= n
    <3> HIDE DEF m
    <3> DEFINE e == Ether * q
               mq == m * q
    <3>1. e \in Nat /\ mq = 100 * e /\ mq <= n
      BY <2>2, <2>3
    <3> HIDE DEF e, mq
    <3>2. e <= n
      BY <3>1
    <3> QED
      BY <3>2 DEF e
  <2> QED
    BY <2>4 DEF q
<1>3. Ether * (n \div Ether) <= n
  BY <1>1, DivisionBound
<1>4. (100 * d) * (n \div (100 * d)) <= n
  <2> DEFINE m == 100 * d
  <2>1. m \in Nat \ {0}
    BY <1>1
  <2> HIDE DEF m
  <2>2. m * (n \div m) <= n
    BY <2>1, DivisionBound
  <2> QED
    BY <2>2 DEF m
<1>5. \A i, j \in Nat : i * j \in Nat
  OBVIOUS
<1>6. /\ Ether * (n \div (100 * Ether)) \in Nat /\ Ether * (n \div Ether) \in Nat
      /\ (100 * d) * (n \div (100 * d)) \in Nat
  <2>1. 100 * Ether \in Nat \ {0} /\ 100 * d \in Nat \ {0}
    BY <1>1
  <2>2. /\ n \div (100 * Ether) \in Nat /\ n \div Ether \in Nat /\ n \div (100 * d) \in Nat
    BY <1>1, <2>1, DivisionBound
  <2> QED
    BY <1>1, <1>5, <2>1, <2>2
<1> QED
  BY <1>2, <1>3, <1>4, <1>6, Zenon DEF Shorten, d

(* What was typed bounds the price.                                        *)
Bounded(form, price) ==
    /\ form.price = NoAmount => price = 0
    /\ form.price # NoAmount /\ form.usd => price * Rate <= form.price
    /\ form.price # NoAmount /\ ~form.usd => price = form.price

LEMMA PriceLowered ==
  ASSUME NEW form \in Forms
  PROVE  Bounded(form, FinalPrice(form.price, form.usd))
<1>1. form.price \in Amounts \cup {NoAmount} /\ form.usd \in BOOLEAN
  BY DEF Forms
<1>2. CASE form.price = NoAmount
  BY <1>2 DEF FinalPrice, Bounded
<1>3. CASE form.price # NoAmount /\ ~form.usd
  BY <1>3 DEF FinalPrice, Bounded
<1>4. CASE form.price # NoAmount /\ form.usd
  <2> DEFINE x == form.price
             q == Quotient(x)
             s == Shorten(q)
  <2>1. x \in Nat /\ Rate \in Nat \ {0}
    BY <1>1, <1>4, DashboardAssumption
  <2>2. q \in Nat /\ Rate * q <= x
    BY <2>1, DivisionBound DEF Quotient
  <2>3. s \in Nat /\ s <= q
    BY <2>2, ShortenLowers
  <2>4. FinalPrice(form.price, form.usd) = s
    BY <1>4 DEF FinalPrice
  <2> HIDE DEF x, q, s
  <2>5. s * Rate <= q * Rate
    BY <2>1, <2>2, <2>3, ProductGrows
  <2>6. s * Rate <= x
    <3>1. s * Rate \in Nat /\ q * Rate \in Nat /\ q * Rate = Rate * q
      BY <2>1, <2>2, <2>3
    <3> QED
      BY <2>1, <2>2, <2>5, <3>1
  <2> QED
    BY <1>4, <2>4, <2>6 DEF Bounded, x
<1> QED
  BY <1>2, <1>3, <1>4

(* A content never costs more than what was typed comes to at the page's   *)
(* rate, a price in ethers is left alone, and no price is none.            *)
THEOREM PricesAreNeverDearer == DashSpec => []NeverDearerThanTyped
<1>1. DashInv => NeverDearerThanTyped
  <2> SUFFICES ASSUME DashInv, NEW k \in Listed
               PROVE  Bounded(listing[k].form, content[k].price)
    BY Zenon DEF NeverDearerThanTyped, Bounded
  <2>1. listing[k] \in Items
    BY DEF DashInv, DashTypeInv, DashTypeOK, Listed
  <2>2. listing[k].form \in Forms
    BY <2>1 DEF Items
  <2>3. content[k].price = FinalPrice(listing[k].form.price, listing[k].form.usd)
    BY DEF DashInv, ListingsFit, Honest
  <2> QED
    BY <2>2, <2>3, PriceLowered
<1> QED
  BY <1>1, DashInvInit, DashInvNext, PTL DEF DashSpec
=============================================================================
