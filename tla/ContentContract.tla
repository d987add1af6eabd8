-------------------------- MODULE ContentContract --------------------------
(***************************************************************************)
(* The storage of one Content contract (contracts/Content.sol) and what    *)
(* its functions make of it.  A require is an operator ending in OK; the   *)
(* ether that travels with a call is moved by the Gateway module.  Titles, *)
(* hashes and the copy of the subscription price are left out.             *)
(***************************************************************************)
EXTENDS Naturals

CONSTANTS
    Accounts,    \* externally owned accounts
    Publishers   \* addresses Publisher contracts are deployed at

ContentStorage ==
    [ownerId : Publishers, price : Nat, earnings : Nat, whitelist : SUBSET Accounts]

NewContent(p, creator, price) ==
    [ownerId |-> p, price |-> price, earnings |-> 0, whitelist |-> {creator}]

(* The amount compared with the price is a parameter, not the value sent.  *)
PurchaseContentOK(s, amount) == amount = s.price

(* Faulty variant: the new consumer takes the place of the others.         *)
FaultyPurchaseReplaces(s, consumer, value) ==
    [s EXCEPT !.earnings = @ + value, !.whitelist = {consumer}]

PurchaseContent(s, consumer, value) ==
    [s EXCEPT !.earnings = @ + value, !.whitelist = @ \cup {consumer}]

WithdrawEarningsOK(s, amount) == amount <= s.earnings

(* Faulty variant: the books are not updated.                              *)
FaultyWithdrawKeepsEarnings(s, amount) == s

WithdrawEarnings(s, amount) == [s EXCEPT !.earnings = @ - amount]
=============================================================================
