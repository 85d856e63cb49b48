----------------------------- MODULE MCWebChat -----------------------------
(***************************************************************************)
(* Small instances of WebChat for TLC: two ordinary users, Ann and Bea,    *)
(* beside the two bots, and for each component the requests of its         *)
(* handlers.                                                               *)
(***************************************************************************)
EXTENDS WebChatRefinement

CONSTANTS h1, h2, h3

OneSlot == {h1}
TwoSlots == {h1, h2}
ThreeSlots == {h1, h2, h3}
SlotSymmetry == Permutations(Slots)

MCText == {"bob", "Bob Bot", "Bob-bot", "joe", "Joe Bot", "Joe-bot",
           "ann@x", "ann", "bea@x", "bea", "pw", "pw2", "robert", "g1", "g2",
           "hi", ":(", "im.", " ", "it's", "cat's"}
Apostrophes == {"it's", "cat's"}

Person(email, password, username) ==
  [email |-> email, password |-> password, username |-> username]
Bots == <<Person("bob", "Bob Bot", "Bob-bot"), Person("joe", "Joe Bot", "Joe-bot")>>
BotsAnnBea == Bots \o <<Person("ann@x", "pw", "ann"), Person("bea@x", "pw2", "bea")>>

Link(user, contact) == [userid |-> user, contactid |-> contact, favorite |-> FALSE]
AnnKnowsBea == <<Link(3, 4)>>
AllKnown == <<Link(3, 1), Link(3, 4), Link(4, 3)>>

\* No rows, and no message that stops a bot
Nothing == << >>
NoText == {}
NoTables == {}
AllTables == Modules

\* Bob raises on "im.", both raise on a blank message, and Joe has an answer
\* to ":(" and none to "hi".
StopsBob == {"im.", " "}
StopsJoe == {" "}
JoeAnswers == {":("}

\* That is what they do: module Bots says so.
Wording ==
  [m \in {"hi", ":(", "im.", " "} |->
     <<[stem |-> IF m = "im." THEN "im" ELSE IF m = " " THEN "" ELSE m,
        capital |-> FALSE, marks |-> IF m = "im." THEN <<".">> ELSE << >>]>>]
Wit == INSTANCE Bots WITH
  msg <- << >>, Words <- {}, IntOf <- << >>, Half <- 1, MaxWords <- 0
ASSUME WordingAssumption ==
  /\ StopsBob = {m \in DOMAIN Wording : Wit!bob_bot_response(Wording[m], 4) = {}}
  /\ StopsJoe = {m \in DOMAIN Wording : Wit!joe_bot_response(Wording[m]) = {}}
  /\ JoeAnswers = {m \in DOMAIN Wording :
                     \E a \in Wit!joe_bot_response(Wording[m]) : a.speaks}
-----------------------------------------------------------------------------
Register(email, password, username) ==
  [op |-> "register", email |-> email, password |-> password, username |-> username]
\* The form of Login.vue has one field for email or username.
Login(name, password) ==
  [op |-> "login", email |-> name, password |-> password, username |-> name]
Rename(email, username) ==
  [op |-> "changeUsername", email |-> email, username |-> username]
Create == [op |-> "create"]
Close == [op |-> "close"]
Pair(op, user, contact) == [op |-> op, user |-> user, contact |-> contact]
GetContacts(email) == [op |-> "getContacts", email |-> email]
MakeConversation(name, creator, contacts, parses) ==
  [op |-> "makeConversation", name |-> name, creator |-> creator,
   contacts |-> [i \in DOMAIN contacts |-> [email |-> contacts[i]]],
   parses |-> parses]
GetConversations(email) == [op |-> "getConversations", email |-> email]
Post(sender, convo, msg, bob, joe) ==
  [op |-> "postMessage", sender |-> sender, convo |-> convo, msg |-> msg,
   bob |-> bob, joe |-> joe]
GetMessages(convo) == [op |-> "getMessages", convo |-> convo]

AccountRequests ==
  {Create,
   Register("ann@x", "pw", "ann"), Register("ann@x", "pw2", "bea"),
   Register("bea@x", "pw2", "ann"), Register("bea@x", "cat's", "bea"),
   Rename("ann@x", "bea"), Login("ann@x", "pw"), Login("ann", "pw"),
   Pair("addContact", "bob", "ann@x"), GetContacts("bob")}

TeardownRequests ==
  {Close, Register("ann@x", "pw", "ann"),
   Pair("addContact", "bob", "joe"), GetContacts("bob")}

SchemaRequests ==
  {Create, Close, Register("ann@x", "pw", "ann"), Register("bea@x", "pw2", "ann")}

ContactRequests ==
  {Pair("addContact", "ann@x", "bob"), Pair("addContact", "ann@x", "joe"),
   Pair("makeFavorite", "ann@x", "bea@x"), Pair("removeFavorite", "ann@x", "bea@x"),
   Rename("bea@x", "robert"), GetContacts("ann@x")}

ConversationRequests ==
  {MakeConversation("g1", "ann@x", <<"bea@x", "bob">>, TRUE),
   MakeConversation("g2", "bea@x", <<"ann@x">>, TRUE),
   MakeConversation("g2", "bea@x", <<"ann@x">>, FALSE),
   MakeConversation("g2", "bea@x", <<"bob">>, TRUE),
   GetConversations("ann@x"), GetConversations("bea@x")}

MessageRequests ==
  {Post("ann@x", 1, ":(", TRUE, TRUE), Post("bea@x", 1, ":(", FALSE, TRUE),
   Post("bea@x", 2, "hi", FALSE, TRUE), Post("ann@x", 1, "im.", TRUE, FALSE),
   Post("bea@x", 1, " ", FALSE, TRUE), Post("ann@x", 1, "it's", FALSE, TRUE),
   Rename("bea@x", "robert"), GetMessages(1)}

\* For the disagreements between the documentation and the code
StrangerRequests == {MakeConversation("g1", "ann@x", <<"bea@x", "joe">>, TRUE)}
NamesakeRequests == {Rename("ann@x", "bea"), Login("bea", "pw2")}
RenamedBotRequests == {Rename("bob", "robert"), Create}
=============================================================================
