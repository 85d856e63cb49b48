---------------------------- MODULE Service_proof ----------------------------
(***************************************************************************)
(* What the backend as a whole promises its clients.  Alone, a request of  *)
(* known users about existing contacts is never refused.                   *)
(***************************************************************************)
EXTENDS Schema_proof, Books_proof

\* Somebody with this email has an account when the server starts.
Knows(email) == \E i \in DOMAIN InitUsers : InitUsers[i].email = email

\* The texts of a request that lib/ pastes into its statements
Words(req) ==
  CASE req.op \in {"register", "login"} -> {req.email, req.password, req.username}
    [] req.op = "changeUsername" -> {req.email, req.username}
    [] req.op \in {"addContact", "makeFavorite", "removeFavorite"} ->
         {req.user, req.contact}
    [] req.op \in {"getContacts", "getConversations"} -> {req.email}
    [] req.op = "makeConversation" ->
         {req.name, req.creator} \cup EmailsIn(req.contacts)
    [] req.op = "postMessage" -> {req.sender, req.msg}
    [] OTHER -> {}

\* The requests and the database of the theorem below: all tables are there,
\* no statement fails for a reason of the database's own, no text has an
\* apostrophe, requests are made by and about users the server knows,
\* favorites are contacts, no message stops a bot, and where users log in,
\* usernames are unique and nobody changes one.
Acquainted ==
  /\ ~Faults /\ InitTables = Modules
  /\ \A req \in Requests : Words(req) \cap Apostrophed = {}
  /\ \A req \in Requests :
       /\ req.op \in {"addContact", "makeFavorite", "removeFavorite"} =>
            Knows(req.user) /\ Knows(req.contact)
       /\ req.op \in {"makeFavorite", "removeFavorite"} =>
            \E i \in DOMAIN InitContacts :
              /\ InitUsers[InitContacts[i].userid].email = req.user
              /\ InitUsers[InitContacts[i].contactid].email = req.contact
       /\ req.op \in {"getContacts", "getConversations"} => Knows(req.email)
       /\ req.op = "makeConversation" =>
            /\ req.parses /\ Knows(req.creator)
            /\ \A k \in DOMAIN req.contacts : Knows(req.contacts[k].email)
       /\ req.op = "postMessage" =>
            /\ Knows(req.sender)
            /\ req.bob => req.msg \notin BobRaises
            /\ req.joe => req.msg \notin JoeRaises
  /\ \A req, other \in Requests :
       req.op = "login" =>
         /\ other.op # "changeUsername"
         /\ \A i, j \in DOMAIN InitUsers :
              InitUsers[i].username = InitUsers[j].username => i = j
-----------------------------------------------------------------------------
\* The rows of the start are still there.
Heritage ==
  /\ \A i \in DOMAIN InitUsers :
       i \in DOMAIN usrlst /\ usrlst[i].email = InitUsers[i].email
  /\ \A i \in DOMAIN InitContacts :
       /\ i \in DOMAIN contactslst
       /\ contactslst[i].userid = InitContacts[i].userid
       /\ contactslst[i].contactid = InitContacts[i].contactid

Logins == \E req \in Requests : req.op = "login"

NamesUnique ==
  Logins => \A i, j \in DOMAIN usrlst : usrlst[i].username = usrlst[j].username => i = j

\* What a handler has looked up is what its request names.
Looked(label, f) ==
  /\ label = "login:email" =>
       UsersWithEmail(f.req.email) \cup UsersNamed(f.req.username) # {}
  /\ label = "login:byEmail" => UsersWithEmail(f.req.email) # {}
  /\ label = "login:byUsername" => UsersNamed(f.req.username) # {}
  /\ label \in {"pair:contact", "pair:exists"} => f.user \in UsersWithEmail(f.req.user)
  /\ label = "pair:exists" => f.contact \in UsersWithEmail(f.req.contact)

ServiceInv ==
  /\ tables = Modules /\ Heritage /\ NamesUnique
  /\ \A h \in Slots : failed[h] = {} /\ Looked(pc[h], frame[h])
-----------------------------------------------------------------------------
(***************************************************************************)
(* No step refuses a handler that is alone.                                *)
(***************************************************************************)
Calm(h) ==
  /\ response'.status = 500 => \E g \in Slots \ {h} : calls[g] # {}
  /\ failed'[h] = {}

LEMMA TextCalm ==
  ASSUME NEW h \in Slots, Typed
  PROVE  /\ \A text : RespondText(h, text) => Calm(h)
         /\ \A data : RespondJson(h, data) => Calm(h)
BY DEF RespondText, RespondJson, Answer, Calm, Typed

LEMMA CallCalm ==
  ASSUME NEW h \in Slots, Typed, failed[h] = {}, NEW m, NEW label, NEW f, NEW w,
         Call(h, m, label, f, w)
  PROVE  Calm(h)
<1>1. CASE Available(h, m)
  BY <1>1 DEF Call, Silent, Calm
<1>2. CASE ~Available(h, m)
  <2>1. \E g \in Slots \ {h} : calls[g] # {}
    BY <1>2 DEF Available
  <2>2. failed'[h] = {}
    BY <1>2 DEF Call, Fail, Answer, Typed
  <2>3. QED
    BY <2>1, <2>2 DEF Calm
<1>3. QED
  BY <1>1, <1>2

LEMMA LaunchCalm ==
  ASSUME NEW h \in Slots, failed[h] = {}, NEW req, Launch(h, req)
  PROVE  Calm(h)
<1>1. failed'[h] = {}
  BY DEF Launch
<1>2. PICK chain : chain = Chain(req.op)
  OBVIOUS
<1>3. DOMAIN chain = 1 .. Len(chain) /\ Len(chain) \in Nat
  BY <1>2, Chains
<1>4. CASE \A k \in DOMAIN chain : Available(h, chain[k])
  <2>1. Launched(h, req.op) = {chain[k] : k \in DOMAIN chain}
    BY <1>2, <1>3, <1>4 DEF Launched
  <2>2. response'.status = 0
    BY <1>2, <2>1 DEF Launch, Silent
  <2>3. QED
    BY <1>1, <2>2 DEF Calm
<1>5. CASE \E k \in DOMAIN chain : ~Available(h, chain[k])
  BY <1>1, <1>5 DEF Available, Calm
<1>6. QED
  BY <1>4, <1>5

\* Nothing fails in a chain of which nothing has failed.
LEMMA SettleCalm ==
  ASSUME NEW h \in Slots, failed[h] = {}, Typed, NEW left, Settle(h, left, failed[h])
  PROVE  Calm(h)
BY DEF Settle, Silent, Calm, Typed
-----------------------------------------------------------------------------
\* A known user is found, alone.
LEMMA KnownFound ==
  ASSUME Heritage, EmailUnique, NEW email, Knows(email)
  PROVE  Single(UsersWithEmail(email))
BY DEF Heritage, EmailUnique, Knows, Single, UsersWithEmail

LEMMA FoundAlone ==
  ASSUME EmailUnique, NEW email, UsersWithEmail(email) # {}
  PROVE  Single(UsersWithEmail(email))
BY DEF EmailUnique, Single, UsersWithEmail

LEMMA NamedAlone ==
  ASSUME NamesUnique, Logins, NEW username, UsersNamed(username) # {}
  PROVE  Single(UsersNamed(username))
BY DEF NamesUnique, Single, UsersNamed

LEMMA NotIdle ==
  ASSUME NEW h \in Slots, NEW label, NEW m, Typed, ServiceInv, Reply(h, label, m),
         label # "idle"
  PROVE  /\ pc[h] = label /\ pc[h] # "idle" /\ Req(h) \in Requests
         /\ Fits(label, Req(h)) /\ failed[h] = {}
         /\ Looked(label, frame[h])
BY Busy DEF Reply, ServiceInv

LEMMA AccountCalm ==
  ASSUME NEW h \in Slots, Acquainted, Typed, EmailUnique, ServiceInv, AccountStep(h)
  PROVE  Calm(h)
<1> USE TextCalm, CallCalm
<1>0. failed[h] = {}
  BY DEF ServiceInv
<1>1. CASE RegisterEmail(h) \/ RegisterUsername(h) \/ RegisterAdd(h)
  BY <1>0, <1>1 DEF RegisterEmail, RegisterUsername, RegisterAdd
<1>2. CASE LoginPassword(h) \/ LoginEmail(h)
  BY <1>0, <1>2 DEF LoginPassword, LoginEmail
<1>3. CASE LoginByEmail(h)
  <2>1. UsersWithEmail(Req(h).email) # {}
    BY <1>3 DEF LoginByEmail, Reply, ServiceInv, Looked, Req
  <2>2. QED
    BY <1>3, <2>1, FoundAlone DEF LoginByEmail
<1>4. CASE LoginByUsername(h)
  <2>1. pc[h] = "login:byUsername"
    BY <1>4 DEF LoginByUsername, Reply
  <2>2. UsersNamed(Req(h).username) # {} /\ Req(h) \in Requests /\ Req(h).op = "login"
    BY <2>1, Busy DEF ServiceInv, Looked, Req, Fits
  <2>3. Single(UsersNamed(Req(h).username))
    BY <2>2, NamedAlone DEF Logins, ServiceInv
  <2>4. QED
    BY <1>4, <2>3 DEF LoginByUsername
<1>5. CASE ChangeUsername(h)
  BY <1>5 DEF ChangeUsername
<1>6. QED
  BY <1>1, <1>2, <1>3, <1>4, <1>5 DEF AccountStep

LEMMA SchemaCalm ==
  ASSUME NEW h \in Slots, Standing, Acquainted, Typed, ServiceInv, SchemaStep(h)
  PROVE  Calm(h)
<1>0. failed[h] = {}
  BY DEF ServiceInv
<1>1. CASE CreateUsrlst(h) \/ CreateBob(h) \/ CreateAddBob(h)
  BY <1>0, <1>1, CallCalm DEF CreateUsrlst, CreateBob, CreateAddBob
<1>2. CASE CreateJoe(h) \/ CreateAddJoe(h)
  BY <1>0, <1>2, CallCalm, LaunchCalm DEF CreateJoe, CreateAddJoe
<1>3. ASSUME NEW m \in Modules, Migrate(h, m)  PROVE Calm(h)
  BY <1>0, <1>3, SettleCalm DEF Migrate
<1>4. ASSUME NEW m \in Modules, LaunchedError(h, m)  PROVE FALSE
  BY <1>4, Busy DEF LaunchedError, Running, Acquainted, Standing
<1>5. QED
  BY <1>1, <1>2, <1>3, <1>4, NothingDropped DEF SchemaStep

\* What the first two lookups of add_contact and of the favorites have found
\* is a contact, if the request is about a favorite.
LEMMA FavoriteKnown ==
  ASSUME NEW h \in Slots, Acquainted, Rooted, Typed, EmailUnique, ServiceInv,
         pc[h] = "pair:exists", Req(h).op # "addContact"
  PROVE  Known(h)
<1>1. PICK req, user, contact :
        req = Req(h) /\ user = frame[h].user /\ contact = frame[h].contact
  OBVIOUS
<1>2. req \in Requests /\ req.op \in {"makeFavorite", "removeFavorite"}
  BY <1>1, Busy DEF Fits
<1>3. user \in UsersWithEmail(req.user) /\ contact \in UsersWithEmail(req.contact)
  BY <1>1 DEF ServiceInv, Looked, Req
<1>4. PICK i \in DOMAIN InitContacts :
        /\ InitUsers[InitContacts[i].userid].email = req.user
        /\ InitUsers[InitContacts[i].contactid].email = req.contact
  BY <1>2 DEF Acquainted
<1>5. /\ i \in DOMAIN contactslst
      /\ contactslst[i].userid \in UsersWithEmail(req.user)
      /\ contactslst[i].contactid \in UsersWithEmail(req.contact)
  BY <1>4 DEF ServiceInv, Heritage, Rooted, UsersWithEmail
<1>6. contactslst[i].userid = user /\ contactslst[i].contactid = contact
  BY <1>3, <1>5 DEF EmailUnique, UsersWithEmail
<1>7. QED
  BY <1>1, <1>5, <1>6 DEF Known, ContactRows

LEMMA ContactCalm ==
  ASSUME NEW h \in Slots, Acquainted, Rooted, Typed, Listed, RefInv, EmailUnique,
         ServiceInv, ContactStep(h)
  PROVE  Calm(h)
<1> USE TextCalm, CallCalm
<1>0. failed[h] = {} /\ Heritage
  BY DEF ServiceInv
<1>1. pc[h] # "idle" => Fits(pc[h], Req(h)) /\ Req(h) \in Requests
  BY Busy
<1>2. CASE PairUser(h)
  <2>1. Single(UsersWithEmail(Req(h).user))
    BY <1>0, <1>1, <1>2, KnownFound DEF PairUser, Reply, Fits, Acquainted
  <2>2. QED
    BY <1>0, <1>2, <2>1 DEF PairUser
<1>3. CASE PairContact(h)
  <2>1. Single(UsersWithEmail(Req(h).contact))
    BY <1>0, <1>1, <1>3, KnownFound DEF PairContact, Reply, Fits, Acquainted
  <2>2. QED
    BY <1>0, <1>3, <2>1 DEF PairContact
<1>4. CASE PairExists(h)
  <2>1. Req(h).op # "addContact" => Known(h)
    BY <1>4, FavoriteKnown DEF PairExists, Reply
  <2>2. QED
    BY <1>0, <1>4, <2>1 DEF PairExists
<1>5. CASE AddContactInsert(h) \/ FavoriteUpdate(h)
  BY <1>5 DEF AddContactInsert, FavoriteUpdate
<1>6. CASE GetContactsUser(h)
  <2>1. Single(UsersWithEmail(Req(h).email))
    BY <1>0, <1>1, <1>6, KnownFound DEF GetContactsUser, Reply, Fits, Acquainted
  <2>2. QED
    BY <1>0, <1>6, <2>1 DEF GetContactsUser
<1>7. CASE GetContactsList(h)
  BY <1>0, <1>7 DEF GetContactsList, ContactsHelper
<1>8. CASE GetContactsRow(h)
  <2>1. /\ TodoFits(pc[h], work[h]) /\ Refers(pc[h], frame[h], work[h])
        /\ pc[h] = "getContacts:row"
    BY <1>8 DEF Listed, RefInv, Ref, GetContactsRow, Reply
  <2>2. Head(work[h].todo).contact_id \in DOMAIN usrlst
    BY <2>1, HeadTail DEF TodoFits, Refers
  <2>3. QED
    BY <1>0, <1>8, <2>2 DEF GetContactsRow, ContactsHelper
<1>9. QED
  BY <1>2, <1>3, <1>4, <1>5, <1>6, <1>7, <1>8 DEF ContactStep

\* Whoever is to be brought in next is one of those asked for.
LEMMA PartyHead ==
  ASSUME NEW h \in Slots, Listed, PartyInv, pc[h] = "makeConversation:contact"
  PROVE  Head(work[h].todo).email \in {Req(h).creator} \cup EmailsIn(Req(h).contacts)
<1>1. PICK todo, req : todo = work[h].todo /\ req = Req(h)
  OBVIOUS
<1>2. EmailsIn(todo) \subseteq {req.creator} \cup EmailsIn(req.contacts)
  BY <1>1 DEF PartyInv, PartyOf, Party, Joins, Req
<1>3. todo # << >> /\ todo \in Seq(Item)
  BY <1>1, FitsOutside DEF Listed, TodoFits, WorkSet
<1>4. Head(todo).email \in EmailsIn(todo)
  BY <1>3, HeadTail DEF EmailsIn
<1>5. Head(todo).email \in {req.creator} \cup EmailsIn(req.contacts)
  BY <1>2, <1>4, Zenon
<1>6. QED
  BY <1>1, <1>5, Zenon

LEMMA ConversationCalm ==
  ASSUME NEW h \in Slots, Acquainted, Typed, Listed, ConvoInv, RefInv, PartyInv,
         EmailUnique, ServiceInv, ConversationStep(h)
  PROVE  Calm(h)
<1> USE TextCalm, CallCalm
<1>0. failed[h] = {} /\ Heritage
  BY DEF ServiceInv
<1>1. pc[h] # "idle" => Fits(pc[h], Req(h)) /\ Req(h) \in Requests
  BY Busy
<1>2. CASE MakeConversationCreator(h)
  <2>1. Single(UsersWithEmail(Req(h).creator))
    BY <1>0, <1>1, <1>2, KnownFound DEF MakeConversationCreator, Reply, Fits, Acquainted
  <2>2. QED
    BY <1>0, <1>2, <2>1 DEF MakeConversationCreator
<1>3. CASE MakeConversationInsert(h)
  BY <1>0, <1>3 DEF MakeConversationInsert
<1>4. CASE MakeConversationId(h)
  <2>1. Len(convolst) > 0
    BY <1>4 DEF MakeConversationId, Reply, ConvoInv, IdWindow
  <2>2. convolst # << >>
    BY <2>1
  <2>3. QED
    BY <1>0, <1>4, <2>2 DEF MakeConversationId
<1>5. ASSUME NEW todo, GenUserConvos(h, todo)  PROVE Calm(h)
  BY <1>0, <1>5 DEF GenUserConvos
<1>6. CASE MakeConversationJoin(h) \/ MakeConversationMember(h)
  <2>1. MakeConversationJoin(h) => Req(h).parses
    BY <1>1 DEF MakeConversationJoin, Reply, Fits, Acquainted
  <2>2. QED
    BY <1>5, <1>6, <2>1 DEF MakeConversationJoin, MakeConversationMember
<1>7. CASE MakeConversationContact(h)
  <2>1. pc[h] = "makeConversation:contact"
    BY <1>7 DEF MakeConversationContact, Reply
  <2>2. PICK todo, req : todo = work[h].todo /\ req = Req(h)
    OBVIOUS
  <2>3. Head(todo).email \in {req.creator} \cup EmailsIn(req.contacts)
    <3>1. Head(work[h].todo).email \in {Req(h).creator} \cup EmailsIn(Req(h).contacts)
      BY <2>1, PartyHead, Zenon
    <3>2. QED
      BY <2>2, <3>1, Zenon
  <2>4. Knows(Head(todo).email)
    <3>1. req \in Requests /\ req.op = "makeConversation"
      BY <1>1, <2>1, <2>2 DEF Fits
    <3>2. Knows(req.creator) /\ \A email \in EmailsIn(req.contacts) : Knows(email)
      BY <3>1 DEF Acquainted, EmailsIn
    <3>3. QED
      BY <2>3, <3>2
  <2>5. Single(UsersWithEmail(Head(work[h].todo).email))
    BY <1>0, <2>2, <2>4, KnownFound
  <2>6. QED
    BY <1>0, <1>7, <2>5 DEF MakeConversationContact
<1>8. CASE MakeConversationCheck(h)
  BY <1>0, <1>8 DEF MakeConversationCheck
<1>9. CASE GetConversationsUser(h)
  <2>1. Single(UsersWithEmail(Req(h).email))
    BY <1>0, <1>1, <1>9, KnownFound DEF GetConversationsUser, Reply, Fits, Acquainted
  <2>2. QED
    BY <1>0, <1>9, <2>1 DEF GetConversationsUser
<1>10. CASE GetConversationsList(h) \/ GetConversationsUsers(h)
  BY <1>0, <1>10 DEF GetConversationsList, GetConversationsUsers, ConvoHelper
<1>11. CASE GetConversationsRow(h)
  <2>1. /\ TodoFits(pc[h], work[h]) /\ Refers(pc[h], frame[h], work[h])
        /\ pc[h] = "getConversations:row"
    BY <1>11 DEF Listed, RefInv, Ref, GetConversationsRow, Reply
  <2>2. Head(work[h].todo).conversation_id \in DOMAIN convolst
    BY <2>1, HeadTail DEF TodoFits, Refers
  <2>3. QED
    BY <1>0, <1>11, <2>2 DEF GetConversationsRow, ConvoHelper
<1>12. QED
  BY <1>2, <1>3, <1>4, <1>6, <1>7, <1>8, <1>9, <1>10, <1>11 DEF ConversationStep

LEMMA MessageCalm ==
  ASSUME NEW h \in Slots, Acquainted, Typed, Listed, RefInv, EmailUnique,
         ServiceInv, MessageStep(h)
  PROVE  Calm(h)
<1> USE TextCalm, CallCalm
<1>0. failed[h] = {} /\ Heritage
  BY DEF ServiceInv
<1>1. pc[h] # "idle" => Fits(pc[h], Req(h)) /\ Req(h) \in Requests
  BY Busy
<1>2. CASE PostMessageSender(h)
  <2>1. Single(UsersWithEmail(Req(h).sender))
    BY <1>0, <1>1, <1>2, KnownFound DEF PostMessageSender, Reply, Fits, Acquainted
  <2>2. QED
    BY <1>0, <1>2, <2>1 DEF PostMessageSender
<1>3. ASSUME Req(h) \in Requests, Req(h).op = "postMessage", JoeTurn(h)  PROVE Calm(h)
  BY <1>0, <1>3 DEF JoeTurn, Acquainted
<1>4. CASE PostMessageUser(h) \/ PostMessageBob(h)
  <2>1. Req(h) \in Requests /\ Req(h).op = "postMessage"
    BY <1>1, <1>4 DEF PostMessageUser, PostMessageBob, Reply, Fits
  <2>2. Req(h).bob => Req(h).msg \notin BobRaises
    BY <2>1 DEF Acquainted
  <2>3. QED
    BY <1>0, <1>3, <1>4, <2>1, <2>2 DEF PostMessageUser, PostMessageBob
<1>5. CASE PostMessageJoe(h)
  BY <1>5 DEF PostMessageJoe
<1>6. CASE GetMessagesList(h)
  BY <1>0, <1>6 DEF GetMessagesList, InterpretMsglist
<1>7. CASE GetMessagesRow(h)
  <2>1. /\ TodoFits(pc[h], work[h]) /\ Refers(pc[h], frame[h], work[h])
        /\ pc[h] = "getMessages:row"
    BY <1>7 DEF Listed, RefInv, Ref, GetMessagesRow, Reply
  <2>2. Head(work[h].todo).senderid \in DOMAIN usrlst
    BY <2>1, HeadTail DEF TodoFits, Refers
  <2>3. QED
    BY <1>0, <1>7, <2>2 DEF GetMessagesRow, InterpretMsglist
<1>8. QED
  BY <1>2, <1>4, <1>5, <1>6, <1>7 DEF MessageStep
-----------------------------------------------------------------------------
(***************************************************************************)
(* What the handlers rely on stays true.                                   *)
(***************************************************************************)
LEMMA NamesAreKept ==
  ASSUME Standing, Acquainted, Logins, Typed, [Next]_vars
  PROVE  \A i \in DOMAIN usrlst : /\ i \in DOMAIN usrlst'
                                  /\ usrlst'[i].username = usrlst[i].username
<1>0. Grow
  BY NextGrows
<1>1. usrlst \in Seq(Account)
  BY DEF Typed, RowsTypeOK
<1>2. ASSUME NEW h \in Slots, ChangeUsername(h)  PROVE FALSE
  <2>1. pc[h] = "changeUsername:update"
    BY <1>2 DEF ChangeUsername, Reply
  <2>2. Req(h) \in Requests /\ Req(h).op = "changeUsername"
    BY <2>1, Busy DEF Fits
  <2>3. QED
    BY <2>2 DEF Logins, Acquainted
<1>3. ASSUME NEW h \in Slots, RegisterAdd(h) \/ CreateAddBob(h) \/ CreateAddJoe(h),
             NEW i \in DOMAIN usrlst
      PROVE  usrlst'[i] = usrlst[i]
  BY <1>1, <1>3, AddedUsr DEF RegisterAdd, CreateAddBob, CreateAddJoe
<1>4. \A i \in DOMAIN usrlst : i \in DOMAIN usrlst'
  BY <1>0 DEF Grow
<1>5. usrlst' = << >> => DOMAIN usrlst = {}
  BY <1>4
<1>6. CASE usrlst' # usrlst /\ usrlst' # << >>
  BY <1>2, <1>3, <1>4, <1>6, UsrlstChanges
<1>7. QED
  BY <1>4, <1>5, <1>6

\* An account enters under a username of its own.
LEMMA FreshName ==
  ASSUME usrlst \in Seq(Account), NEW email, NEW password, NEW username,
         AddUsr(email, password, username), UsersNamed(username) = {}, NamesUnique
  PROVE  NamesUnique'
BY AddedUsr DEF NamesUnique, UsersNamed, Logins

LEMMA NextNames ==
  ASSUME Standing, Acquainted, Typed, Windows, NamesUnique, [Next]_vars
  PROVE  NamesUnique'
<1> SUFFICES ASSUME Logins  PROVE NamesUnique'
  BY DEF NamesUnique, Logins
<1>1. usrlst \in Seq(Account)
  BY DEF Typed, RowsTypeOK
<1>2. CASE usrlst' = usrlst
  BY <1>2 DEF NamesUnique, Logins
<1>3. ASSUME NEW h \in Slots, RegisterAdd(h) \/ CreateAddBob(h) \/ CreateAddJoe(h)
      PROVE  NamesUnique'
  <2>1. CASE RegisterAdd(h)
    <3>1. UsersNamed(Req(h).username) = {}
      BY <2>1 DEF RegisterAdd, Reply, Windows, Window
    <3>2. QED
      BY <1>1, <2>1, <3>1, FreshName DEF RegisterAdd
  <2>2. CASE CreateAddBob(h)
    <3>1. UsersNamed("Bob-bot") = {}
      BY <2>2 DEF CreateAddBob, Reply, Windows, Window
    <3>2. QED
      BY <1>1, <2>2, <3>1, FreshName DEF CreateAddBob
  <2>3. CASE CreateAddJoe(h)
    <3>1. UsersNamed("Joe-bot") = {}
      BY <2>3 DEF CreateAddJoe, Reply, Windows, Window
    <3>2. QED
      BY <1>1, <2>3, <3>1, FreshName DEF CreateAddJoe
  <2>4. QED
    BY <1>3, <2>1, <2>2, <2>3
<1>4. ASSUME NEW h \in Slots, ChangeUsername(h)  PROVE FALSE
  <2>1. pc[h] = "changeUsername:update"
    BY <1>4 DEF ChangeUsername, Reply
  <2>2. Req(h) \in Requests /\ Req(h).op = "changeUsername"
    BY <2>1, Busy DEF Fits
  <2>3. QED
    BY <2>2 DEF Logins, Acquainted
<1>5. usrlst' = << >> => NamesUnique'
  BY DEF NamesUnique
<1>6. QED
  BY <1>2, <1>3, <1>4, <1>5, UsrlstChanges

\* What was found by an email or, where users log in, by a username is found
\* again.
LEMMA LookedStays ==
  ASSUME Standing, Acquainted, Typed, [Next]_vars, NEW label, NEW f, Looked(label, f),
         label \in {"login:email", "login:byUsername"} => Logins
  PROVE  Looked(label, f)'
<1>1. \A email : UsersWithEmail(email) \subseteq UsersWithEmail(email)'
  BY NextGrows, FoundStay
<1>2. Logins => \A username : UsersNamed(username) \subseteq UsersNamed(username)'
  BY NamesAreKept DEF UsersNamed
<1>3. QED
  BY <1>1, <1>2 DEF Looked

LookLabels == {"login:email", "login:byEmail", "login:byUsername",
               "pair:contact", "pair:exists"}

LEMMA IdleLooked ==
  ASSUME NEW h \in Slots, pc'[h] \notin LookLabels
  PROVE  Looked(pc[h], frame[h])'
BY DEF Looked, LookLabels

\* A call from a handler that leaves usrlst alone
LEMMA CallLooked ==
  ASSUME NEW h \in Slots, Typed, NEW m, NEW label, NEW f, NEW w,
         Call(h, m, label, f, w), Looked(label, f), usrlst' = usrlst
  PROVE  Looked(pc[h], frame[h])'
<1>1. Looked(label, f)'
  BY DEF Looked, UsersWithEmail, UsersNamed
<1>2. CASE pc'[h] = label /\ frame'[h] = f
  BY <1>1, <1>2
<1>3. CASE pc'[h] = "idle"
  BY <1>3, IdleLooked DEF LookLabels
<1>4. QED
  BY <1>2, <1>3, CallSays

LEMMA AccountLooked ==
  ASSUME NEW h \in Slots, Typed, ServiceInv, AccountStep(h)
  PROVE  Looked(pc[h], frame[h])'
<1> USE DEF LookLabels
<1>1. PICK f : f = frame[h]
  OBVIOUS
<1>2. f.req = Req(h) /\ Looked(pc[h], f)
  BY <1>1 DEF Req, ServiceInv
<1>3. CASE RegisterEmail(h) \/ RegisterUsername(h) \/ RegisterAdd(h)
  BY <1>3, IdleLooked, AnswersPc, CallPc
     DEF RegisterEmail, RegisterUsername, RegisterAdd
<1>4. CASE LoginPassword(h)
  <2>1. CASE RespondText(h, "No User")
    BY <2>1, IdleLooked, AnswersPc
  <2>2. CASE /\ Call(h, "User", "login:email", f, work[h])
             /\ UsersWithEmail(Req(h).email) \cup UsersNamed(Req(h).username) # {}
    <3>1. Looked("login:email", f)
      BY <1>2, <2>2 DEF Looked
    <3>2. QED
      BY <1>4, <2>2, <3>1, CallLooked DEF LoginPassword, db, rows
  <2>3. QED
    BY <1>1, <1>4, <2>1, <2>2 DEF LoginPassword
<1>5. CASE LoginEmail(h)
  <2>1. PICK label : label = IF UsersWithEmail(Req(h).email) # {} THEN "login:byEmail"
                                                                  ELSE "login:byUsername"
    OBVIOUS
  <2>2. Looked(label, f)
    BY <1>2, <1>5, <2>1 DEF LoginEmail, Reply, Looked
  <2>3. QED
    BY <1>1, <1>5, <2>1, <2>2, CallLooked DEF LoginEmail, db, rows
<1>6. CASE LoginByEmail(h) \/ LoginByUsername(h) \/ ChangeUsername(h)
  BY <1>6, IdleLooked, AnswersPc DEF LoginByEmail, LoginByUsername, ChangeUsername
<1>7. QED
  BY <1>3, <1>4, <1>5, <1>6 DEF AccountStep

LEMMA ContactLooked ==
  ASSUME NEW h \in Slots, Typed, ServiceInv, ContactStep(h)
  PROVE  Looked(pc[h], frame[h])'
<1> USE DEF LookLabels
<1>1. PICK f : f = frame[h]
  OBVIOUS
<1>2. f.req = Req(h) /\ Looked(pc[h], f) /\ f \in Frame /\ usrlst' = usrlst
  BY <1>1, ContactLeads DEF Req, ServiceInv, Typed, HandlersTypeOK
<1>3. CASE PairUser(h)
  <2>1. ASSUME NEW id \in UsersWithEmail(f.req.user)
        PROVE  Looked("pair:contact", [f EXCEPT !.user = id])
    BY <1>2, <2>1 DEF Looked, Frame
  <2>2. QED
    BY <1>1, <1>2, <1>3, <2>1, CallLooked, IdleLooked, AnswersPc DEF PairUser
<1>4. CASE PairContact(h)
  <2>1. ASSUME NEW id \in UsersWithEmail(f.req.contact)
        PROVE  Looked("pair:exists", [f EXCEPT !.contact = id])
    BY <1>2, <1>4, <2>1 DEF Looked, Frame, PairContact, Reply
  <2>2. QED
    BY <1>1, <1>2, <1>4, <2>1, CallLooked, IdleLooked, AnswersPc DEF PairContact
<1>5. CASE PairExists(h) \/ AddContactInsert(h) \/ FavoriteUpdate(h)
  BY <1>5, IdleLooked, AnswersPc, CallPc
     DEF PairExists, AddContactInsert, FavoriteUpdate
<1>6. CASE GetContactsUser(h) \/ GetContactsList(h) \/ GetContactsRow(h)
  BY <1>6, IdleLooked, AnswersPc, CallPc
     DEF GetContactsUser, GetContactsList, GetContactsRow, ContactsHelper
<1>7. QED
  BY <1>3, <1>4, <1>5, <1>6 DEF ContactStep

LEMMA HeritageStays ==
  ASSUME Grow, Heritage
  PROVE  Heritage'
BY DEF Grow, Heritage

\* What is pasted into a statement is of the request's own words.
LEMMA PastedWords ==
  ASSUME NEW h \in Slots, Typed, Listed, PartyInv, pc[h] # "idle"
  PROVE  Pasted(h) \subseteq Words(Req(h))
<1>1. Fits(pc[h], Req(h))
  BY Busy
<1>2. CASE pc[h] = "makeConversation:contact"
  <2>1. PICK todo, req : todo = work[h].todo /\ req = Req(h)
    OBVIOUS
  <2>2. Head(todo).email \in {req.creator} \cup EmailsIn(req.contacts)
    <3>1. Head(work[h].todo).email \in {Req(h).creator} \cup EmailsIn(Req(h).contacts)
      BY <1>2, PartyHead, Zenon
    <3>2. QED
      BY <2>1, <3>1, Zenon
  <2>3. Pasted(h) = {Head(todo).email}
    BY <1>2, <2>1 DEF Pasted
  <2>4. req.op = "makeConversation"
    BY <1>1, <1>2, <2>1 DEF Fits
  <2>5. Words(req) = {req.name, req.creator} \cup EmailsIn(req.contacts)
    BY <2>4 DEF Words
  <2>6. QED
    BY <2>1, <2>2, <2>3, <2>5
<1>3. CASE pc[h] \in {"register:email", "register:username", "register:add",
                       "login:password", "login:email", "login:byEmail",
                       "login:byUsername", "changeUsername:update"}
  BY <1>1, <1>3 DEF Fits, Pasted, Words
<1>4. CASE pc[h] \in {"pair:user", "pair:contact", "getContacts:user",
                       "getConversations:user"}
  BY <1>1, <1>4 DEF Fits, Pasted, Words
<1>5. CASE pc[h] \in {"makeConversation:creator", "makeConversation:insert",
                       "postMessage:sender", "postMessage:user"}
  BY <1>1, <1>5 DEF Fits, Pasted, Words
<1>6. QED
  BY <1>2, <1>3, <1>4, <1>5 DEF Pasted

LEMMA ErrorNever ==
  ASSUME NEW h \in Slots, Acquainted, Typed, Listed, PartyInv, ServiceInv
  PROVE  ~StatementError(h)
<1> SUFFICES ASSUME pc[h] # "idle"  PROVE ~StatementError(h)
  BY DEF StatementError
<1>1. WellFormed(h)
  <2>1. Req(h) \in Requests
    BY Busy
  <2>2. Words(Req(h)) \cap Apostrophed = {}
    BY <2>1 DEF Acquainted
  <2>3. QED
    BY <2>2, PastedWords DEF WellFormed
<1>2. QED
  BY <1>1 DEF StatementError, Acquainted, ServiceInv, Needs, Typed, HandlersTypeOK,
              Modules

LEMMA StepCalm ==
  ASSUME NEW h \in Slots, Standing, Rooted, Acquainted, Typed, Listed, ConvoInv,
         RefInv, PartyInv, EmailUnique, ServiceInv, Step(h)
  PROVE  Calm(h) /\ Looked(pc[h], frame[h])'
<1>1. CASE AccountStep(h)
  BY <1>1, AccountCalm, AccountLooked
<1>2. CASE SchemaStep(h)
  BY <1>2, SchemaCalm, SchemaLeads, IdleLooked DEF LookLabels
<1>3. CASE ContactStep(h)
  BY <1>3, ContactCalm, ContactLooked
<1>4. CASE ConversationStep(h)
  BY <1>4, ConversationCalm, ConversationLeads, IdleLooked DEF LookLabels
<1>5. CASE MessageStep(h)
  BY <1>5, MessageCalm, MessageLeads, IdleLooked DEF LookLabels
<1>6. QED
  BY <1>1, <1>2, <1>3, <1>4, <1>5, ErrorNever DEF Step

LEMMA NextServes ==
  Standing /\ Rooted /\ Acquainted /\ Typed /\ Listed /\ Windows /\ ConvoInv /\ RefInv
    /\ PartyInv /\ EmailUnique /\ ServiceInv /\ RefusedOnlyWhenBusy /\ [Next]_vars
    => ServiceInv' /\ RefusedOnlyWhenBusy'
<1> SUFFICES ASSUME Standing, Rooted, Acquainted, Typed, Listed, Windows, ConvoInv,
                    RefInv, PartyInv, EmailUnique, ServiceInv, RefusedOnlyWhenBusy,
                    [Next]_vars
             PROVE  ServiceInv' /\ RefusedOnlyWhenBusy'
  OBVIOUS
<1>1. Grow /\ NamesUnique'
  BY NextGrows, NextNames DEF ServiceInv
<1>2. Typed'
  BY NextTyped
<1>3. tables' = Modules /\ Heritage'
  BY <1>1, <1>2, HeritageStays DEF ServiceInv, Grow, Typed, RowsTypeOK
<1>4. ASSUME NEW g \in Slots  PROVE Looked(pc[g], frame[g])' \/ frame'[g] # frame[g]
                                      \/ pc'[g] # pc[g]
  <2>1. PICK label, f : label = pc[g] /\ f = frame[g]
    OBVIOUS
  <2>2. Looked(label, f) /\ (label \in {"login:email", "login:byUsername"} => Logins)
    BY <2>1, Busy DEF ServiceInv, Fits, Logins, Req
  <2>3. Looked(label, f)'
    BY <2>2, LookedStays
  <2>4. QED
    BY <2>1, <2>3
<1>5. ASSUME NEW h \in Slots, MoveOf(h), Calm(h), Looked(pc[h], frame[h])'
      PROVE  ServiceInv' /\ RefusedOnlyWhenBusy'
  <2>1. \A g \in Slots : failed'[g] = {} /\ Looked(pc[g], frame[g])'
    BY <1>4, <1>5 DEF MoveOf, Calm, ServiceInv
  <2>2. RefusedOnlyWhenBusy'
    BY <1>5 DEF MoveOf, Calm, RefusedOnlyWhenBusy
  <2>3. QED
    BY <1>1, <1>3, <2>1, <2>2 DEF ServiceInv
<1>6. ASSUME NEW h \in Slots, NEW req \in Requests, Receive(h, req)
      PROVE  ServiceInv' /\ RefusedOnlyWhenBusy'
  <2>1. MoveOf(h) /\ Looked(pc[h], frame[h])'
    BY <1>6, ReceiveKeeps, ReceiveLeads, IdleLooked DEF Kept, LookLabels
  <2>2. failed[h] = {}
    BY DEF ServiceInv
  <2>3. Calm(h)
    BY <1>6, <2>2, CallCalm, LaunchCalm DEF Receive
  <2>4. QED
    BY <1>5, <2>1, <2>3
<1>7. ASSUME NEW h \in Slots, Step(h)  PROVE ServiceInv' /\ RefusedOnlyWhenBusy'
  BY <1>5, <1>7, StepKeeps, StepCalm DEF Kept
<1>8. CASE Restart
  <2>1. \A g \in Slots : failed'[g] = {} /\ Looked(pc[g], frame[g])'
    BY <1>8, IdleLooked DEF Restart, LookLabels
  <2>2. RefusedOnlyWhenBusy'
    BY <1>8 DEF Restart, Silent, RefusedOnlyWhenBusy
  <2>3. QED
    BY <1>1, <1>3, <2>1, <2>2 DEF ServiceInv
<1>9. CASE UNCHANGED vars
  <2>1. \A g \in Slots : failed'[g] = {} /\ Looked(pc[g], frame[g])'
    BY <1>4, <1>9 DEF vars, server, ServiceInv
  <2>2. RefusedOnlyWhenBusy'
    BY <1>9 DEF vars, server, RefusedOnlyWhenBusy
  <2>3. QED
    BY <1>1, <1>3, <2>1, <2>2 DEF ServiceInv
<1>10. QED
  BY <1>6, <1>7, <1>8, <1>9 DEF Next

\* The server, left alone, never answers 500: a request of known users about
\* existing contacts, in words without an apostrophe, is refused only while
\* some other handler waits on a connection, for any number of handlers,
\* requests and restarts.
THEOREM OnlyTheBusyAreRefused ==
  Standing /\ Rooted /\ Ordinary /\ Acquainted => (Spec => []RefusedOnlyWhenBusy)
<1> SUFFICES ASSUME Standing, Rooted, Ordinary, Acquainted
             PROVE  Spec => []RefusedOnlyWhenBusy
  OBVIOUS
<1>1. Init => ServiceInv /\ RefusedOnlyWhenBusy
  <2> SUFFICES ASSUME Init  PROVE ServiceInv /\ RefusedOnlyWhenBusy
    OBVIOUS
  <2>1. tables = Modules /\ Heritage /\ NamesUnique
    BY DEF Init, Acquainted, Heritage, NamesUnique, Logins
  <2>2. \A h \in Slots : failed[h] = {} /\ Looked(pc[h], frame[h])
    BY DEF Init, Looked
  <2>3. response.status = 0
    BY DEF Init, Silent
  <2>4. QED
    BY <2>1, <2>2, <2>3 DEF ServiceInv, RefusedOnlyWhenBusy
<1>2. Spec => /\ [](Typed /\ Windows) /\ []Listed /\ []ConvoInv /\ []RefInv
              /\ []PartyInv /\ []EmailUnique
  BY AlwaysWindows, AlwaysListed, AlwaysConvos, AlwaysRefers, AlwaysParty,
     EmailsAreUnique
<1>3. QED
  BY <1>1, <1>2, NextServes, PTL DEF Spec
=============================================================================
