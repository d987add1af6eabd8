# Formal models of the decentralised content marketplace (hackfs-mdc)

The repository is a marketplace for paid media. A publisher uploads a file
through a local HTTP proxy; a server stores it in Textile buckets, makes a
preview and records it; the publisher's browser then puts the content on the
Ethereum chain with a price, and readers buy it or subscribe to the publisher.
A separate enclave project encrypts staged files.

This directory models the parts whose behaviour comes from concurrency, failure
and sequences of calls, checks the models with TLC and proves the most important
properties with TLAPS. Line numbers refer to the repository's files; every
definition that translates code is listed with its lines in `PROJECT.json`
("map").

## 1. Inventory

### Relay: HTTP proxy, libp2p node, server (Go)

Files: `backend/pkg/httpproxy`, `backend/pkg/libp2pnode`, `backend/pkg/common`,
`backend/cmd/proxyclient`, `backend/cmd/server`.

* State. Per protocol (upload, download, json) a map `requests` from message id
  to request and one unbuffered response channel; a process-wide monotonic
  entropy source for the ids; the server's address, taken once at start.
* Operations. Four HTTP routes; `/api/ipfs` and `/api/upload` share the upload
  protocol. A handler draws an id, signs and sends the request over a stream,
  waits with `FullClose` for the server to close its side (at most a minute),
  stores the request in the map, and receives from the channel until a response
  has its id. The server reads the request, closes the stream, authenticates,
  processes, signs, and sends the response over a stream of its own; the proxy's
  response goroutine authenticates, looks the id up, deletes it, and sends on
  the channel.
* Hard. Goroutines share maps, channels and entropy without locks; the answer
  races the registration; a handler can take another's response; nothing times
  out once the request is sent; either process can die and remembers nothing.
* Correct when. A client gets at most one answer, its own, made by the server;
  no response goroutine is left blocked, and no map entry outlives its handler;
  every call settles.

### Content store: buckets and records (Go)

`processUploadRequest`, `processDownloadRequest`, the json variants, `preview.go`
and `textilehelper`. State is remote: private buckets with the original, public
buckets with previews, ContentData records.

* Operations. An upload creates a private bucket, pushes the file, reads the
  bucket's link, does the same with a preview in a public bucket, and inserts a
  record that names both. A download finds a record by bucket key or preview link
  and pulls the bucket. The json protocol does the same in its own envelope, and
  answers queries over the records.
* Hard. Each step is a remote call that may fail before or after it took effect,
  nothing is undone, no step is remembered by the server, and requests run side
  by side.
* Correct when. A record names a bucket that holds the whole file and a preview
  that is its own; an accepted upload has its record; an original is not made
  public by a failure; a download returns what it named.

### Paywall (Solidity)

`contracts/Gateway.sol` deploys Publisher and User contracts and routes calls;
Publisher deploys Content. State: who owns which contract, the list of contents,
subscribers with expirations and a count, whitelists, earnings, purchases, and
the ether at each address. Hard: long sequences of transactions by several
accounts over time; contracts that are replaced; the books of several contracts
that have to agree; unsigned arithmetic. Correct when access once given lasts,
earnings can be paid out, and the contracts' lists agree.

### Preview generation (Go)

`libp2pnode/preview.go`, `tools/imagepreview`, `tools/videopreview`. An image is
scaled in memory. A video is written to a temporary directory and cut into a gif
by ffmpeg, a child process driven by the goffmpeg library: the caller drains its
standard error for progress, a goroutine of its own reads its standard output.

* State. The temporary directory, the child process, two pipes of bounded size,
  `err` and `data` shared by caller and goroutine.
* Hard. Three parties and two pipes that fill up; `err` written by both sides
  without a lock; early returns that leave the goroutine behind.
* Correct when. A finished gif is returned whole, a failed conversion is an
  error, the input is there while ffmpeg runs, and nobody hangs on a pipe.

### Web frontend (Next.js)

* Selling: `pages/index.js` and `pages/content/[id].js` read the account's
  profile, its subscription and the content's whitelist, decide whether to show
  the content or a modal, and send payments, purchases and subscriptions.
* Publishing: `pages/dashboard.js` under `components/Header.js` learns the
  account and its publisher profile, uploads a file through the proxy, takes a
  price in dollars or ethers, and sends `createContent`.
* State. Page state only: what was asked and answered, what a click has set. It
  is gone when the page is left; the transactions it sent are not.
* Hard. Answers that arrive in any order, after the click they should have
  informed; a payment and the call it pays for as two transactions; the account
  that changes in MetaMask while a page is open; a price that is a number, a
  string and wei in turn.
* Correct when. A content is shown only to those the paywall lets in, and it is
  known exactly which of them have not paid; a profile is not replaced by accident;
  a content goes on sale with its own hash, under its own publisher, at no more
  than the price that was typed.

### Enclave (C#, Azure)

`enclave/TEEConsole` stages a file as a blob and polls for its encrypted twin. A
function triggered by the staged blob signs it, puts the signature on IPFS,
encrypts it, uploads it and purges the staged one; a second function does the
same for a content staged for one viewer, whose signature it checks.

* State. Blobs, known by container and name; nothing else outlives a run.
* Hard. Blobs that share a name while one of them is processed; exceptions that
  are logged and swallowed, so the trigger does not come again; a crash and a
  second delivery; a console that waits without bound for a name.
* Correct when. No staged content is lost, nothing is encrypted without its
  signature, and a reported success is the console's own.

## 2. Modules

| module | models |
|---|---|
| `RequestReply` | what the proxy promises a client (abstract) |
| `Relay` | the relay, one action per step of a goroutine |
| `MCRelay`, `RelayProofs` | its instances for TLC, its theorems |
| `Catalogue` | what the content store promises (abstract) |
| `ContentStore` | uploads, downloads and queries on the server, one action per remote call |
| `MCContentStore`, `ContentStoreProofs` | its symmetry for TLC, its theorems |
| `Preview`, `PreviewProofs` | the making of one preview, its theorems |
| `Access` | what the paywall promises of access (abstract) |
| `ContentContract`, `PublisherContract`, `UserContract` | storage and functions of one contract |
| `Gateway` | the paywall: all contracts, ether and time |
| `MCGateway`, `GatewayProofs` | its symmetry for TLC, its theorems |
| `Storefront`, `StorefrontProofs` | the pages that sell, over `Gateway`; their theorems |
| `Dashboard` | the page that publishes, over `Gateway` |
| `MCDashboard`, `DashboardProofs` | its symmetry for TLC, its theorems |
| `Enclave` | console, trigger and both functions |
| `MCEnclave`, `EnclaveProofs` | its instance for TLC, its theorems |

`Relay` composes the proxy and the server; its step `Process` is, seen from
inside, a request of `ContentStore`, of which `GetPreviewFrom` is, seen from
inside, `Preview`. `Storefront` and `Dashboard` extend `Gateway`: a transaction a
page sends waits in a queue and is, when mined, an action of `Gateway`.

### Relay

`pc[c]` is the program counter of the goroutine that handles call `c`; `job[c]`
is how far the call's message is, first as request (`request`, `process`,
`respond` on the server), then as response (`reply`, `lookup`, `deliver` in the
proxy), or how it ended (`cut`, `lost`, `dropped`, `done`). `result[c]` is what
the server made of the call. The content of messages plays no part, so a message
is its call; the id is kept apart from the call because the code compares ids.

| action | code |
|---|---|
| `Reject` | the handlers' early returns (empty parameter, body that does not bind, missing file: gin answers 500 for the nil header; `upload2` always ends so) |
| `EnterUlid`, `LeaveUlid` | `GetUlid`, entropy incremented and copied in two steps |
| `SendRequest`, `SendFails`, `CloseDone`, `CloseFails` | `sendProtoMessage` |
| `Store` | `e.requests[id] = req` after the send |
| `Receive(h, c)` | handler `h` takes the response of `c` from the channel |
| `ReadRequest`, `RequestCut`, `AuthFails`, `Process`, `Respond`, `RespondFails` | `onUploadRequest` on the server |
| `ReadReply`, `ReplyLost`, `Lookup` | `onUploadResponse` in the proxy |
| `ServerCrash`, `ProxyCrash` | the death of a process |

The download and json protocols are copies of the upload code; each definition is
mapped to one of the copies it stands for.

Choices worth knowing:

* The requests map and the entropy are shared without a lock. Concurrent map
  accesses end, in the build's Go runtime, either as if serialised or in a fatal
  error; the second is a `ProxyCrash`. For the entropy the outcomes are that a
  caller copies its own value or the later one of an overlapping call;
  `RacyUlid` selects whether the second can happen.
* Any waiting handler may take a response: the runtime serves waiting receivers
  in order of arrival, and the model allows every order, which includes it.
* A client that disconnects does not cancel its handler, so it is no action.
* The server's address is taken once, when the proxy starts: a server that died
  and came back is another peer, and the proxy goes on calling the first.
* A request that does not decode makes `authenticateMessage` dereference nil
  (`upload.go:146` does not assign the error): the process dies, `ServerCrash`.
* A proxy that restarts has a new peer identity, so a response to the old one
  cannot arrive: `gone`. It picks the first peer the rendezvous names, which may
  be dead: `reachable' \in BOOLEAN`.

### Content store

`pc[r]` is the remote call the goroutine of request `r` makes next, `phase[u]`
whether an upload is filling the bucket of the file (`original`) or that of the
preview, `keys[u]` the keys of the buckets made for it. `buckets` and `records`
are Textile's and survive the server. This is what `Relay` calls `Process`, seen
from inside.

| action | code |
|---|---|
| `ReceiveUpload` | the size check (`upload.go:69`, `jsonapi.go:117`) |
| `CreateBucket`, `PushPath`, `Links` | the three calls of `CreateBucketAndPushData`, run once for the file and once for the preview |
| `GetPreviewFrom` | no preview, or one that was brought along, converted, or faked with the whole file |
| `InsertToContentDB` | the record and the answer |
| `GetContentDataRecord`, `PullBytesFromBucket` | the download |
| `QueryWithJsonApiQuery` | the query over the records |
| `Unsupported` | json of an unknown type |
| `CallFails` | a remote call fails without effect, or a conversion fails |
| `ServerCrash` | the process dies; a request it ran is never answered |

A call that fails after it took effect is a disjunct of the action itself
(`GoOnOrFail`): Textile did it, the goroutine hears an error. `keys` then still
has the key, which the code never learns; no later step of that upload uses it.

Abstractions. A file is known by the upload that brought it, and has a length and
an announced size. The announced size is a signed 64-bit number; a negative one
passes the check as 0 does and is left out. Textile hands out a fresh key for
every bucket, and a bucket's link stands for its key. Json that does not decode
becomes a request of nothing, because the error is overwritten, so it is one of
the inputs. What a query selects by plays no part: it is given any set of records
that are there when it is answered. Names, types, descriptions and times are left
out; a file or owner without a name is refused by the collection's schema, as a
size of zero is. Only a file shorter than announced is refused (`upload.go:69`,
`jsonapi.go:117`); a longer one is recorded with the announced size, although
`p2p.proto:42` calls the field the file's size.

`Catalogue` has no buckets: an upload enters `listed` whole or not at all, an
accepted one has entered, a download is given a listed upload. A refused upload
may have entered, since the insertion may take effect and report an error. The
refinement maps `listed` to the uploads whose bucket a record names.

### Paywall

A contract's storage is a record, a function of the contract an operator from
storage to storage, a `require` an operator ending in `OK`. `Gateway` keeps the
storage at each address and makes one action of each transaction; a revert
changes nothing, so the conditions under which it happens are guards.
Every public function that changes state is an action, whether it is reached through
the Gateway or called directly by anyone, since none of them looks at its caller:
`CreateNewUser` to `CreateContent` are the Gateway's, `UpdateProfileDirectly` to
`ListDirectly` those of Publisher, Content and User, `SendEther` a plain payment.
Arguments are free: who is paid, what is sent and the cost that is compared with a
price are chosen apart (`CreateNewUserAndPurchase`), funds go to any payee
(`DoTransferFunds`, `TransferFunds`), a publisher need not be the sender's
(`CreateContent`). `Payees` are the addresses that take ether.

Out of scope are contracts that are not the repository's: an address given as a
publisher, a content or a user is one of those the four contracts were deployed at,
and a payee runs no code of its own when it is paid.

Left out: names and texts, gas, and what no function reads: `Publisher.balance`,
`User.numberOfSubscribed`, `User.subscribedTo` (so `unsubscribe`, which clears one of
its flags, changes nothing here), and the price of a subscription, copied into a
content when it is made (`Content.sol:44`) and only displayed. `numberSubscribers` is
kept, wrap-around included: it counts renewals and removals of strangers
(`Publisher.sol:100`, `112`), although `Publisher.sol:69` calls it the number of
subscribers.

What a profile lists as bought and what the Gateway lists as contents are not
promised to anybody: `User.purchase` lists whatever it is given, and
`Publisher.createContent`, called directly, makes a content the Gateway does not hear
of. What does hold is in `RegistriesAgree`: publishers list exactly their own
contents, and the Gateway's list names contents that exist.

`Access` has no contracts, ether or profiles: it knows the seller of each content,
which are free, who has bought what, and when each subscription ends. A content is
offered once; a purchase adds one content of one account; a subscription ends a
period from now, whether it is renewed or new; a removal ends it now; nothing else
changes what anybody may see. The refinement (at the end of `Gateway`) maps `bought`
to the whitelists of deployed contents, `until` to the expirations, `free` to the
contents of price 0. `Gateway` is what `Access` says in spite of replaced user and
publisher contracts, of calls that touch three contracts at a time and of direct
calls. `Access` says what a step may do to access, not who may take it: anyone may
subscribe or remove anyone, and that is the code's.

### Preview

One request, from `GetPreviewFrom` to its return. `pc` is the caller, `reader` the
goroutine on the output pipe, `ffmpeg` the child. A gif is a number of chunks, a
line of progress before each, through pipes that hold `PipeSize`. `Prepare`, `Run`,
`Drain`, `Await`, `Check`, `Wait` are `convertVideoToGif` from its first line to its last
(`videopreview.go:22-100`); `FfmpegWrites`, `FfmpegEnds`, `ProcWait` and `ClosePipes`
are external: what goffmpeg and its child are seen to do from there. The data race
on `err` is the choice in `Check`: what it looks at is what was received or what the
reader has written since.

### Storefront

One content for sale, its owner, and readers who open the index or the content
page. Every answer the page waits for is an action (`GetUserProfile`,
`ReadSubscription`, `ReadWhitelist`, `AuthFails`), every button a `Click...` that appends
to `queue[a]`, the account's transactions in the order of their nonces; `Mine` executes
the first and lets the page's handlers see the receipt, `Fail` drops it. `Open` is a
page load: state is forgotten, handlers are orphaned (`on = "none"`), transactions
stay. `Meanwhile` is time and the publisher's removals. Four variables are for the
properties alone: `held` (readers who could view the item since they opened the
page) and, per reader, `owed` (the price of what it was given), `unasked` (the part
of it that the content page sends no payment for) and `forgiven` (what it would have
paid had the payment not failed: `Payment`). A purchase costs what the button says,
"Buy now! ... ETH" (`[id].js:267-279`), also for a reader with a profile, for whom the
page sends the call without a value (`[id].js:94-97`): the transaction `take`.
The reader stays the same while a page is open: a change of account in MetaMask is
modelled in `Dashboard` and not here.
A click happens where the page renders the button; a rejection in MetaMask is a
transaction that is not sent.

### Dashboard

One browser. `selected` and `approved` are MetaMask's, `desk` is the page and its
header, `sent[a]` the accounts' transactions, `listing[k]` what was sent for content
`k`, `owned[a]` the publishers the account has had (the last two for the properties).
`DispatchDapp`, `HandleSignInClick`, `AccountsChanged` are the header;
`GetPublisherProfile`, `UploadToIPFS`, `UploadAnswered`, `UploadFails` and
`AddContentToContract` the page; `MineContent`, `MineFails`, `SignUp` the chain and the
index in another window.

* Where the account is known at once, `setName` is not defined and throws
  (`Header.js:44`), so `accountsChanged` gets no listener: `listening`.
* A file is known by itself and so is its hash; what is compared is which of them.
* A price in dollars is an exact quotient in the decimal places of an ether
  (`Units`); the code's is a double printed by JavaScript, whose last two
  characters are cut off. An empty string, or a rate that has not come, makes
  `toWei` throw, and nothing is sent.
* What the page asks the publisher to confirm (`Shown`) is the quotient rounded to a
  number of decimal places (`ToFixed`; `Place` is the last of them), or the ethers
  that were typed. The dollars beside the latter are those of the subscription's fee
  (`dashboard.js:148`), are compared with nothing, and are left out.
* An upload that is answered with an error gives an undefined hash, on which the
  page's rendering throws: `broken`. One that is not answered in json leaves the
  loader on for good.

### Enclave

`run[j]` is where the function on job `j` stands, `console[u]` the console of upload
`u`, `blob` whose blob has a name in each container; `staged`, `signed`, `published`
remember what ever was, for the properties. Every remote call may fail before or
after it took effect, and every exception ends the run as the code's catch does.
`Crash` restarts the host: what ran is delivered again up to `MaxTries`. `Notice` is
the external trigger, one message for a blob version it sees. `Base` is the file
name of a path: the console polls for that, the function keeps the path.

## 3. Runs

| run | instance | distinct states | shows |
|---|---|---|---|
| `relay` | 3 calls: two on the upload protocol, one on json; ids drawn one at a time | 1,574,742 | `TypeOK`, `AnswerIsOwn`, `DeliverHasReceiver`, `EntryHasWaiter`, `StrandedForGood`, and that `Relay` implements `RequestReply` (`KeepsPromise`) |
| `relay_live` | 2 calls on one protocol, ids drawn one at a time, `FairSpec` | | `Settles`, `DeliveryEnds`, `LoneCallAnswered` |
| `store` | 2 uploads, 1 download, 1 query, 4 keys, lengths 0 and 1 | 1.6 million | `TypeOK`, `RecordIsWhole`, `FoundIsPullable`, `ServedAsAsked`, `AcceptedLeavesNoOrphan`, `OriginalsStayPrivate`, and that `ContentStore` implements `Catalogue` (`KeepsCatalogue`) |
| `preview` | 3 chunks, pipes of 1 | 2,236 | `FinishedGifIsWhole`, `FailureHiddenOnlyByRace`, `Returns`, `ReaderEnds` |
| `gateway` | 2 accounts, 1 publisher, 1 content, 1 user, time 0..2, period 2 | 264,138 | `TypeOK`, `EarningsBacked`, `PagesAgreeOnSubscription`, `RegistriesAgree`, `AccessLasts`, `EtherLeaves`, and that `Gateway` implements `Access` (`KeepsAccess`) |
| `storefront` | 1 reader, 6 page loads and clicks, 3 users, time 0..2, period 1 | 1.4 million | `ShownOnlyToHolders`, `PaidUnlessPaymentFailed`, `ReplacedOnlyInHaste`, `HoldersGetIn` |
| `dashboard` | 2 accounts, 3 publishers, 2 contents, 2 files, 2 prices, 4 deeds | 371,666 | `PublishedWithOwnHash`, `OwnPublisherUnlessSwitched`, `NeverDearerThanTyped` |
| `enclave` | any 2 of 2 uploads and 2 views, 2 paths of one file name, 2 deliveries | 71,343 | `TypeOK`, `LostOnlyIfOverlapped`, `PublishedIsVouchedFor`, `SuccessIsOwnUnlessShared`, `StagedIsHandled`, `WaitEnds` |
| `relay_stolen` | 2 calls, fair | | violation of `ResponseReachesCaller` |
| `relay_ulid` | 2 calls, racing ids | | violation of `RequestIdsUnique` |
| `storefront_fee` | as `storefront` | | violation of `NewSubscribersPayTheFee` |
| `dashboard_price` | as `dashboard` | | violation of `PricedAsConfirmed` |

### Bounds

* Relay. Two calls of one protocol are enough for a response to be stolen, and a
  third, on another protocol, shows that protocols do not mix; a step involves at
  most two calls. Every call is made once: a retry is another call. The two upload
  calls are symmetric. With `RacyUlid = TRUE` TLC finds `AnswerIsOwn` violated: the
  invariants about answers need ids that are unique, as `relay_ulid` shows the code
  does not ensure.
* Store. Two uploads interleave at every remote call, and four keys are enough
  for each to make both of its buckets; lengths 0 and 1 give files that are empty,
  full, shorter or longer than announced. A download may name any key or none.
* Preview. Three chunks over pipes that hold one make either pipe full and empty
  while the other side is anywhere.
* Gateway. Two accounts cover a publisher and a reader, each in either role, and
  the removal of somebody who never subscribed. The clock passes the end of a
  subscription taken at its start, and stops before that of one renewed. `UintRange`
  2 makes the count wrap at once. `Endowment` 1 and prices 0 and 1 tell paid from
  free and exhaust a balance. `Costs` has one member, as no function compares the
  cost of a subscription with anything. With one publisher and one user contract
  neither is replaced here: `storefront` replaces users, `dashboard` publishers, both
  by the same actions, and the theorems are about any number. The free arguments of
  direct calls are what makes larger instances too big: a second user contract or a
  third tick takes more than the five minutes these runs are kept to.
* Storefront. Readers share nothing but the contracts, which `gateway` runs with
  two accounts. Six acts are a load, a purchase, a reload, a subscription, a load of
  the other page and a click in haste. Three users allow two replacements.
* Dashboard. Two accounts make a switch, three publishers a second sign-up, two
  files an upload that could be overtaken. Four deeds are a sign-up, a switch, an
  upload and a sale, or two sales with a changed form. 200 and 2468, at 2 dollars
  an ether of 1000 wei, give a number of one decimal place and one of three, and
  so both branches of the cut.
* Enclave. A job is disturbed by another of its name, or of its file name under
  another path; two jobs show both. Two deliveries are one redelivery.

Symmetry is used only for safety, and only over sets whose members the properties
do not tell apart.

### Fairness

* `relay_live`, `relay_stolen`. The Go scheduler runs every runnable goroutine
  (weak fairness of `Handle(c)`, and of somebody taking a response that is on the
  channel while a handler of its protocol waits), and a libp2p stream delivers or
  fails (`Carry(c)`). Nothing is assumed of clients, crashes, failures, or of
  `Process`: the Textile calls run under a context without a deadline
  (`textilehelper.go:269`) and may never return. `Settles` names that case.
* `preview`. Caller, reader and goffmpeg's goroutines run when they can, and
  ffmpeg writes and ends; nothing makes it fail.
* `storefront`. The node answers the two reads of `checkAuth` or the page gets an
  error. Nothing is assumed of clicks, miners or time.
* `enclave`. The console polls on, the functions host scans, delivers and runs.
  Nothing makes anybody stage, and crashes are not prevented: `MaxTries` ends them.

### What the properties are about

* `EntryHasWaiter`, `DeliverHasReceiver`: no map entry and no blocked response
  goroutine outlives its handler, whatever is lost. The entry of a handler that waits
  for a lost response stays with it as long as the process lives. `StrandedForGood`: a handler
  whose response is gone is never served again, so `LoneCallAnswered` names the one
  cause, a second waiter.
* `RecordIsWhole`, `AcceptedLeavesNoOrphan`, `OriginalsStayPrivate`: the three things a
  chain of calls without undo could leave half done.
* `FinishedGifIsWhole`, `FailureHiddenOnlyByRace`, `ReaderEnds`: what the shared
  variables and the two pipes can and cannot spoil.
* `AccessLasts`: what is free or bought is never lost; what is subscribed to is lost in
  the second the subscription expires, or as the account is taken off the publisher,
  and by nothing else. `KeepsAccess` also says the opposite: nothing gives access but
  what should, nor for longer.
* `EtherLeaves`: a content pays its own publisher and out of its books, a publisher
  contract pays all it has to one address, which anyone may name, and the Gateway
  never pays.
* `ShownOnlyToHolders`, `PaidUnlessPaymentFailed`, `ReplacedOnlyInHaste`: the pages
  against the contracts. The last two name exactly when money or a profile is lost:
  a purchase with a profile on the content page, which sends no payment, or a payment
  that failed after the next call was sent; a click before the profile was known, or
  on a page during whose life another transaction of the account was waiting. That
  mark (`busy`) stays until the page is left, so a click after the transaction is
  mined is exempt as well: the page reads the profile once.
* `PublishedWithOwnHash`, `OwnPublisherUnlessSwitched`, `NeverDearerThanTyped`: the
  dashboard against the contracts. The last is about the price that was typed; the
  figure the page shows for dollars is rounded, and may be less than what is sent.
* `LostOnlyIfOverlapped`: a staged content that is gone was encrypted, or another job
  had its name; any other job of the name is exempt, at whatever time it ran.
  `SuccessIsOwnUnlessShared` says the same of a console's success, which the
  encrypted blob of an earlier upload of the name can cause. `PublishedIsVouchedFor`:
  the signature a function checks is that of the content on IPFS
  (`EncryptionService.cs:87-95`), whose validity is opaque here. `WaitEnds` speaks of the
  waits whose blob comes; a console waits for ever for one that does not.

### What disagrees with the code's own words

* `relay_stolen`: the channel is "for outputting response" (`upload.go:21`), but
  a handler that takes another's response throws it away
  (`httpproxy.go:141-144`): the robbed caller waits for ever.
* `relay_ulid`: ids are "unique for requests" (`node.go:126`), but `GetUlid`
  shares its entropy without a lock (`ulid.go:12`).
* `storefront_fee`: "Subscribe to ... for ... ETH per month!" (`[id].js:288`), but
  a reader without a profile is asked for 10^18 times the fee, which is converted
  to wei twice (`[id].js:175`).
* `dashboard_price`: the confirmed price (`:146`) is not the one sent: the last two
  characters are cut off whatever they are (`:139`), 0.02 ether becomes none. The
  rounding of what is shown to six places is allowed for.

Four more are part of the models and have no run of their own:

* "store request so response handler has access to it" (`upload.go:246`): the
  request is stored after it was sent and read, and a response that is faster
  finds nothing and is dropped (`Lookup` before `Store`; `Settles` names the end).
* "Amount sent is less ..." (`Content.sol:65`): the amount is an argument, and a
  purchase through the Gateway is made without sending it; `EarningsBacked` says
  what the books still hold.
* "Buy now! ... ETH" (`[id].js:267-279`): a reader with a profile sends the purchase
  without the price (`[id].js:94-97`) and is given the content; `PaidUnlessPaymentFailed`
  counts it as `unasked`.
* "Free?" (`dashboard.js:405`): the price becomes 0 for the next rendering, and this
  sale has the price typed before (`dashboard.js:132`).

## 4. Proofs

All theorems hold for every value of the constants that the modules' named
assumptions allow, in particular any number of calls, accounts, contracts, files,
jobs, clicks and deliveries.

`RelayProofs`:

* `TypeCorrect`: `Spec => []TypeOK`, with or without the id race. `TypeOK` alone
  is not inductive: a handler's state after `Receive` is its `result`, so the
  invariant adds that a response exists only once the server has run its call
  (`ResultBeforeResponse`).
* `AnswersMatch`, for any ids as well: what a handler answers is the server's result
  for a call of its protocol that has its id, and no response answers two handlers.
  The invariant (`AnswersInv`) adds only that a message leaves when its id is final
  (`SentWithId`).
* The other safety results have the condition `IdsUnique`: no two requests that left
  for the server have one id. The code does not ensure it (`relay_ulid`): with the race
  of `GetUlid` two handlers can share an id and a response can answer the wrong one.
  `UniqueUnlessRacy` proves that the race is all that stands against it. The condition
  is about states, not about the constant: since a request keeps its id
  (`UniqueBefore`), ids that are unique now have been so all along, and whatever the
  build does, `Spec => [](IdsUnique => ...)` says what holds until the first collision.
* Under it the inductive invariant `IInv` adds: how far a message is agrees with
  where its handler stands (`JobMatchesHandler`); a response on the channel has
  used up its map entry (`DeliverUsedEntry`), without which a later entry could
  wake a second response for a handler that has gone. From it: `AnswersAreOwn`,
  `DeliveriesHaveReceiver`, `EntriesHaveWaiter`; and for runs in which ids are always
  unique (`Spec /\ []IdsUnique`), `StrandedIsForGood` and `Implements`: each step of the
  relay is a step of `RequestReply` or leaves it unchanged.
* `CallsMoveForward` (`OnlyForward`), for any ids: no handler and no message goes
  back, and every step but a crash takes one further. That is what `Settles` and
  `DeliveryEnds` rest on besides fairness; a handler has 6 places to go, a message 7.

`ContentStoreProofs`, for any number of uploads, downloads and keys. The
inductive invariant `IInv` ties three things together: a bucket is known to the
upload that made it and to no other (`KeysAreOwn`, `BucketsAreKnown`), what an
upload has made agrees with where its goroutine stands (`Stage`: at the insertion
the file is in its bucket and so is the preview, if there is one), and a record is
what a finished upload left (`RecordsHaveUpload`, `AcceptedIsRecorded`). The lemma
`NextKeeps` says once what no step undoes: a bucket keeps owner, privacy and
content, an ended request its answer, an upload its keys and input, and records
only grow; old records stay whole by it, and only the insertion has to be
looked at. The checked invariants follow: `TypeCorrect`, `RecordsAreWhole`,
`OriginalsArePrivate`, `DownloadsAreServedAsAsked`, `FoundCanBePulled`,
`LookupsAreUnambiguous` (stated only here: no two records share a bucket or a
preview), `AcceptedUploadsLeaveNoOrphan`. `StoreImplementsCatalogue`
is the refinement: an insertion is `List`, a pull that succeeds is `Serve`, every
answered error is `Refuse`, and all other steps leave the catalogue alone.

`GatewayProofs`:

* `TypeCorrect`: type lemmas for each contract operator, then one step per
  transaction; the invariant adds that registered contracts are deployed
  (`Linked`).
* `AccessIsLasting`: contents keep owner and price and whitelists only grow
  (`ContentEvolves`); an expiration is only extended, except by a removal, which
  also clears the flag (`PublisherEvolves`). That a subscription ends in the second it
  expires needs that the clock goes one second at a time.
* `EarningsAreBacked`: every transaction that raises a content's earnings brings
  the ether, and every other payment leaves its balance alone.
* `PagesAlwaysAgree`: what a step makes of one publisher's storage (`PublisherStep`)
  keeps flag and expiration in step (`FlagsOK`), and so does time.
* `RegistriesAlwaysAgree`: a publisher's list and the contents that name it as owner
  grow together, through the Gateway or not (`ListsKept`).
* `PaywallImplementsAccess`: the refinement of `Access`. The lemma `ViewsAgree` says
  that under the type invariant the content page's test is the abstract one; then
  there is one lemma for each abstract action and the calls that make it
  (`BuyStep`, `OfferStep`, `SubscribeStep`, `CancelStep`), and the rest stutter. It
  needs that a deployed content's publisher is deployed (`Linked`) and that a new
  publisher contract takes an address at which there was none.
* `WhereEtherGoes` (`EtherLeaves`): by cases of the transactions, each of which moves
  ether in at most two transfers. So the values that readers send with
  `purchaseContent` (`Gateway.sol:59`) stay at the Gateway for good.
* `PublishersAreOwned`: no two accounts have one publisher contract, which is
  inductive with the type invariant, and one that its account has replaced by a
  second sign-up is nobody's from then on (`AbandonedForGood`): no later transaction
  makes it any account's own. Its funds can still be moved by a direct call.

`PreviewProofs`: `TypeCorrect`, `FinishedGifsAreWhole`, `FailuresHiddenOnlyByRace`,
`InputsSpanFfmpeg` (stated only here, like the type invariants of `Preview`,
`Storefront` and `Dashboard`). The inductive invariant ties the places of the three parties:
chunks read and in the pipe are the chunks written (`Flow`), where the caller stands
agrees with directory and child (`CallerStage`), what goffmpeg reports agrees with how
ffmpeg ended and that its output was copied (`ChildStage`), and who wrote `err` last
(`ErrStage`). Two results carry what `Returns` and `ReaderEnds` need besides fairness:
`PreviewsGetNearer`, a natural number (`ToGo`: what is to be written and read, and the
steps each party has left, the caller's counted four times as it starts the others)
that every step lowers, so that a preview takes at most `4 * Output + 33` steps; and
`PreviewsNeverStick` (`NeverStuck`): until the call has returned, the caller, the
reader, goffmpeg or an ffmpeg that does not fail can go on. The strengthening is
`Launched`: whoever is waited for was started.

`EnclaveProofs`: `TypeCorrect`, `LostOnlyByOverlap`, `PublishedVouchedFor`,
`SuccessIsOwn`. The invariant: a run that has a stream was vouched for (`Streams`), a
blob in a container is of a job of its name that was put there (`StagedBlobs`,
`EncryptedBlobs`), and how far a run is agrees with what was staged and published
(`Stages`). `RunsAreBounded` (`RunsEnd`) is what `StagedIsHandled` needs besides
fairness: every step of a run, its crash included, lowers `Left`, at most
`5 * MaxTries + 5`, and what is handled stays so: no content is processed again.

`StorefrontProofs`: `StoreTypeCorrect`; `ShownToHoldersOnly`, whose invariant adds that
a page in the middle of `checkAuth` with a current subscription belongs to a reader
who held the item when it was read, and that a mined transaction gives what its
receipt shows; `PagesUseTheGateway`: each step is a transaction of `Gateway` or leaves
the contracts alone. From it:

* `PagesKeepThePaywall`: the invariants `EarningsBacked`, `PagesAgreeOnSubscription` and
  `RegistriesAgree` hold of the pages. They do not follow
  from `Gateway`'s theorems alone, as the pages start with a content on sale; that
  state satisfies the inductive invariant of the paywall (`PaywallInit`), and
  `PaywallNext` does the rest. `PagesKeepAccess` and `PagesMoveAccess` are
  `AccessLasts` and the steps of `Access`.
* `ReplacesOnlyInHaste`. The inductive invariant `HasteInv`: a page that is not
  busy has nothing of its account's waiting, and if it takes its reader for new, the
  reader has no profile (`PageKnows`); and a transaction that creates a profile and was not sent in
  haste is the first in its queue, with no profile there (`FirstToCreate`).
* `GivenIsPaid`. The inductive invariant `PaidInv` is an account over each queue: what
  the reader was given and still has is at most what it started with, the payments
  that failed and what the content page sends no payment for, less a credit; the credit grows along the queue with each payment and
  shrinks with each call that is given for one, and is nowhere negative (`Backed`). The pages append a payment before what it
  pays for; a `Fail` of it moves its amount to `forgiven`.
* `SpendingReachesTheShop`: what a reader spends the publisher's contract of the
  content gets, all of it, so that `owed` and `wei` compare like with like.

`DashboardProofs`: `DashTypeCorrect`, `DashboardUsesTheGateway`, `HashesAreOwn`,
`PublishersAreOwn`, `PricesAreNeverDearer`. The inductive invariant `DashInv` follows
a sale from the page to the contract: at most one upload is under way, of the file the
page names, and none once there is a hash (`UploadFits`); a profile is that of an
account the page has had, the only one if it has had one (`ProfileFits`, `OwnersFit`);
what waits to be mined (`QueuesFit`) and what was mined (`ListingsFit`) has name, hash,
publisher and price of one piece (`Honest`). `PricesAreNeverDearer` compares with the
price that was typed, not with the rounded figure on the page. Publishers only accumulate and contents
keep owner and price. The price needs that every number has a last decimal place
(`LastPlaceType`, by the well-founded order of the naturals) and that cutting digits
lowers it (`ShortenLowers`). `DashboardKeepsThePaywall` and `DashboardKeepsAccess` carry
the paywall's invariants and the promise of `Access` over to the dashboard.

Only model-checked: the liveness properties `Settles`, `DeliveryEnds`,
`LoneCallAnswered`, `Returns`, `ReaderEnds`, `HoldersGetIn`, `StagedIsHandled` and
`WaitEnds`, since fairness and `ENABLED` are out of the prover's reach. Of the relay,
the preview and the enclave the parts that need no fairness are proved, as said
above: that steps only lead forward and are bounded, and for the preview that
somebody can always go on. `HoldersGetIn` and `WaitEnds` have no such part: a page and
a console poll as long as they like.

## 5. Not modelled

* `SafeMath`: a library whose one use, `earnings.sub`, never underflows after the
  `require`; `Owned`: inherited by no contract; `Migrations`: deployment tooling.
* `frontend/go-api.go`: a stand-alone upload service that nothing starts or calls.
* The server's client mode (`clientmode.go`): a developer's mode that sends one
  hard-wired upload. Nobody reads its response channel, so the goroutine that
  handles the response never ends (`clientmode.go:24`); a test of one send.
* The enclave's primitives: byte streams through AES and HMAC, data only. `Enclave`
  takes them as steps that succeed or throw.
* The pages' lists, layout and texts. Two transactions of theirs, the index's plain
  sign-up and the dashboard's withdrawal, are actions of `Gateway` only: no page
  state depends on them.
* Textile's set-up at start, and the life of its API signature: it is made once and
  valid for a minute (`textilehelper.go:162`). A call that fails for it is a call that
  fails.
* Message contents, signatures and encodings: a message that does not authenticate
  or decode is an error branch, its bytes play no part.
