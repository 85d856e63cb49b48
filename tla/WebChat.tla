------------------------------ MODULE WebChat ------------------------------
(***************************************************************************)
(* The whole backend: any client may send any request at any time, and the *)
(* database answers the waiting handlers in any order.                     *)
(***************************************************************************)
EXTENDS Schema, ContactBook, ConversationBook, MessageLog

\* Where each handler's first call goes, and what it waits for
FirstCall ==
  [register         |-> <<"User", "register:email">>,
   login            |-> <<"User", "login:password">>,
   changeUsername   |-> <<"User", "changeUsername:update">>,
   addContact       |-> <<"User", "pair:user">>,
   makeFavorite     |-> <<"User", "pair:user">>,
   removeFavorite   |-> <<"User", "pair:user">>,
   getContacts      |-> <<"User", "getContacts:user">>,
   makeConversation |-> <<"User", "makeConversation:creator">>,
   getConversations |-> <<"User", "getConversations:user">>,
   postMessage      |-> <<"User", "postMessage:sender">>,
   getMessages      |-> <<"Storage", "getMessages:list">>,
   create           |-> <<"User", "create:table">>]

\* The bound: a request that inserts comes only while its table is short.
Room(op) ==
  /\ op \in {"register", "create"} => Len(usrlst) < MaxRows
  /\ op = "addContact" => Len(contactslst) < MaxRows
  /\ op = "makeConversation" => Len(convolst) < MaxRows
  /\ op = "postMessage" => Len(msglst) < MaxRows

\* A request's body has been read and its handler makes its first call.
Receive(h, req) ==
  /\ pc[h] = "idle"
  /\ Room(req.op)
  /\ \/ req.op = "close" /\ Launch(h, req)
     \/ /\ req.op # "close"
        /\ Call(h, FirstCall[req.op][1], FirstCall[req.op][2],
                [NoFrame EXCEPT !.req = req], NoWork)
  /\ UNCHANGED db

\* The database answers one of h's calls.
Step(h) ==
  \/ AccountStep(h) \/ SchemaStep(h) \/ ContactStep(h)
  \/ ConversationStep(h) \/ MessageStep(h) \/ StatementError(h)

Next ==
  \/ \E h \in Slots : (\E req \in Requests : Receive(h, req)) \/ Step(h)
  \/ Restart

\* PostgreSQL answers every statement in the end, and Lwt runs the
\* continuation; nothing obliges a client to send or the server to die.
Spec == Init /\ [][Next]_vars /\ \A h \in Slots : WF_vars(Step(h))
-----------------------------------------------------------------------------
\* What clients send, as far as the types of main.ml and lib/ tell
RequestAssumption ==
  /\ {"bob", "Bob Bot", "Bob-bot", "joe", "Joe Bot", "Joe-bot"} \subseteq Text
  /\ \A req \in Requests :
       /\ req.op \in DOMAIN FirstCall \cup {"close"}
       /\ req.op = "register" =>
            req.email \in Text /\ req.password \in Text /\ req.username \in Text
       /\ req.op = "changeUsername" => req.username \in Text
       /\ req.op = "makeConversation" =>
            /\ req.name \in Text /\ req.creator \in Text
            /\ req.parses => req.contacts \in Seq([email : Text])
       /\ req.op = "postMessage" =>
            /\ req.convo \in Nat /\ req.msg \in Text
            /\ req.bob \in BOOLEAN /\ req.joe \in BOOLEAN
ASSUME RequestsAreTyped == RequestAssumption

Labels ==
  {"idle", "ddl", "orphans",
   "create:table", "create:bob", "create:addBob", "create:joe", "create:addJoe",
   "register:email", "register:username", "register:add",
   "login:password", "login:email", "login:byEmail", "login:byUsername",
   "changeUsername:update",
   "pair:user", "pair:contact", "pair:exists", "addContact:insert",
   "favorite:update",
   "getContacts:user", "getContacts:list", "getContacts:row",
   "makeConversation:creator", "makeConversation:insert", "makeConversation:id",
   "makeConversation:join", "makeConversation:contact", "makeConversation:check",
   "makeConversation:member",
   "getConversations:user", "getConversations:list", "getConversations:users",
   "getConversations:row",
   "postMessage:sender", "postMessage:user", "postMessage:bob", "postMessage:joe",
   "getMessages:list", "getMessages:row"}

\* The rows of the five tables have the columns of lib/'s CREATE TABLEs.
RowsTypeOK ==
  /\ usrlst \in Seq(Account)
  /\ contactslst \in Seq(Contact)
  /\ convolst \in Seq(Conversation)
  /\ userconvolst \in Seq(Membership)
  /\ msglst \in Seq(StoredMessage)
  /\ tables \subseteq Modules

\* What a handler waits for, and what it has bound so far
HandlersTypeOK ==
  /\ pc \in [Slots -> Labels]
  /\ calls \in [Slots -> SUBSET Modules]
  /\ frame \in [Slots -> Frame]

\* The lists a handler works through, and what it answers
ListsTypeOK ==
  /\ failed \in [Slots -> SUBSET Modules]
  /\ \A h \in Slots : /\ work[h].todo \in Seq(Item)
                      /\ work[h].out \in Seq(Item)
                      /\ work[h].users \subseteq Text
  /\ response.status \in {0, 200, 500}
  /\ response.data \in Seq(Item)

TypeOK == RowsTypeOK /\ HandlersTypeOK /\ ListsTypeOK

\* The row of another table that a handler is about to look up exists, so
\* that no list fails with "DNE": ids found in contactslst, userconvolst and
\* msglst are ids of users, and those in userconvolst of conversations, even
\* while /makeConversation and the others are half way.  (Without /close.)
LookupsFind ==
  \A h \in Slots :
    /\ pc[h] = "getContacts:row" => Head(work[h].todo).contact_id \in DOMAIN usrlst
    /\ pc[h] = "getMessages:row" => Head(work[h].todo).senderid \in DOMAIN usrlst
    /\ pc[h] = "getConversations:row" =>
         Head(work[h].todo).conversation_id \in DOMAIN convolst

\* A request of known users about existing contacts is refused only because
\* some other handler keeps a connection busy: the server, left alone, never
\* answers 500.  (Without database faults, and in texts without apostrophes.)
RefusedOnlyWhenBusy ==
  response.status = 500 => \E h \in Slots : calls[h] # {}

\* Every request is answered and every statement it launched comes to an end:
\* a busy connection refuses a handler instead of making it wait, so that no
\* two handlers wait for each other.
Answered ==
  \A h \in Slots : pc[h] # "idle" ~> pc[h] = "idle"
=============================================================================
