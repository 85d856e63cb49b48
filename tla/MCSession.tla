------------------------------ MODULE MCSession ------------------------------
(***************************************************************************)
(* Two people at the page: Bea has an account and the bots for contacts,   *)
(* Ann has neither yet.  They type each other's emails, or clear the form, *)
(* while two functions are under way at once.                              *)
(***************************************************************************)
EXTENDS Session

CONSTANTS t1, t2

TwoThreads == {t1, t2}
AnnAndBea == {"ann@x", "bea@x"}
TwoNames == {"ann", "bea"}
Bea == {"bea"}
ThreeForms == {Blank} \cup [email : AnnAndBea, name : {"ann"}]
Bob == {"bob"}
BeaAccount == [email \in {"bea@x"} |-> "bea"]
BeaContacts == {"bea@x"} \X BotEmails
=============================================================================
