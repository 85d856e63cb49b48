----------------------- MODULE WebChatRefinement_proof -----------------------
(***************************************************************************)
(* The backend implements AtomicChat: every step of WebChat is, under the  *)
(* mapping of WebChatRefinement, a step of AtomicChat or none.             *)
(***************************************************************************)
EXTENDS WebChatRefinement, Schema_proof, Books_proof,
        FiniteSetTheorems, SequenceTheorems

-----------------------------------------------------------------------------
(***************************************************************************)
(* What a handler knows that the answers it has yet to give depend on.     *)
(***************************************************************************)
\* What it has looked up is what its request names.
Aware(label, f) ==
  /\ label \in {"pair:contact", "pair:exists", "addContact:insert", "favorite:update"} =>
       f.user \in UsersWithEmail(f.req.user)
  /\ label \in {"pair:exists", "addContact:insert", "favorite:update"} =>
       f.contact \in UsersWithEmail(f.req.contact)
  /\ label = "favorite:update" => ContactRows(f.user, f.contact) # {}
  /\ label \in {"getContacts:list", "getContacts:row", "getConversations:list",
                "getConversations:users", "getConversations:row"} =>
       f.user \in UsersWithEmail(f.req.email)
  /\ label \in Joins => f.user \in MembersOf(f.convo)

\* Of the rows listed in ids the first have been told, the others are to do.
Partly(ids, told, row, w) ==
  /\ Len(ids) = Len(w.out) + Len(w.todo)
  /\ \A k \in 1 .. Len(w.out) : w.out[k] = told[ids[k]]
  /\ \A k \in 1 .. Len(w.todo) : w.todo[k] = row[ids[Len(w.out) + k]]

\* A row of contactslst or msglst as it is told, and as it is listed before
ContactTold ==
  [i \in DOMAIN contactslst |->
     [email |-> usrlst[contactslst[i].contactid].email,
      username |-> usrlst[contactslst[i].contactid].username,
      favorite |-> contactslst[i].favorite]]
ContactRow ==
  [i \in DOMAIN contactslst |->
     [contact_id |-> contactslst[i].contactid, favorite |-> contactslst[i].favorite]]
MessageTold ==
  [i \in DOMAIN msglst |-> [username |-> usrlst[msglst[i].senderid].username,
                            message |-> msglst[i].msg]]
MessageRow ==
  [i \in DOMAIN msglst |-> [senderid |-> msglst[i].senderid, msg |-> msglst[i].msg]]

\* The contacts told so far and those still to be looked up are the user's,
\* as all tables have them now; so are the messages of a conversation.
ContactsRead(user, w) ==
  Partly(ContactList(user, Len(contactslst)), ContactTold, ContactRow, w)
MessagesRead(convo, w) ==
  Partly(MessageList(convo, Len(msglst)), MessageTold, MessageRow, w)

\* A conversation as it is told to a member
Shown(item, room, email) ==
  /\ item.conversation_id = room
  /\ item.conversation_name = convolst[room].convo_name
  /\ item.creator_email = convolst[room].creator_name
  /\ item.users \subseteq EmailsOf(MembersOf(room))
  /\ {email, convolst[room].creator_name} \subseteq item.users

ConvosRead(user, email, w, n) ==
  LET ids == MembershipList(user, n) IN
  /\ Len(ids) = Len(w.out) + Len(w.todo)
  /\ \A k \in 1 .. Len(w.out) :
       Shown(w.out[k], userconvolst[ids[k]].conversation_id, email)
  /\ \A k \in 1 .. Len(w.todo) :
       w.todo[k].conversation_id = userconvolst[ids[Len(w.out) + k]].conversation_id

\* The members of the conversation to be told next
Gathered(f, w) ==
  LET room == Head(w.todo).conversation_id IN
  /\ w.users \subseteq EmailsOf(MembersOf(room))
  /\ {f.req.email, convolst[room].creator_name} \subseteq w.users

Reading(label, f, w) ==
  /\ label \in {"getConversations:users", "getConversations:row"} =>
       \E n \in 0 .. Len(userconvolst) : ConvosRead(f.user, f.req.email, w, n)
  /\ label = "getConversations:row" => Gathered(f, w)
  /\ label \in Joins => EmailsIn(w.todo) \subseteq EmailsIn(f.req.contacts)

Knows(h) == Aware(pc[h], frame[h]) /\ Reading(pc[h], frame[h], work[h])

\* Who is about to write to contactslst or msglst, or may be next, keeps the
\* table's connection.
BookLabels == {"pair:exists", "addContact:insert", "favorite:update"}
PostLabels == {"postMessage:user", "postMessage:bob", "postMessage:joe"}

\* contacts_helper and interpret_msglist keep User's connection from one name
\* to the next, and whoever writes to contactslst or msglst has to come by
\* that connection first: nothing is written while a list is put together.
Polling(h) ==
  /\ pc[h] \in BookLabels => "Contacts" \in calls[h]
  /\ pc[h] \in PostLabels => "Storage" \in calls[h]
  /\ pc[h] = "getContacts:row" =>
       /\ "User" \in calls[h] /\ ContactsRead(frame[h].user, work[h])
       /\ \A g \in Slots : pc[g] \notin BookLabels
  /\ pc[h] = "getMessages:row" =>
       /\ "User" \in calls[h] /\ MessagesRead(Req(h).convo, work[h])
       /\ \A g \in Slots : pc[g] \notin PostLabels

\* login_user keeps usrlst's connection from the password on.
Logging(h) ==
  /\ pc[h] \in {"login:email", "login:byEmail", "login:byUsername"} =>
       /\ "User" \in calls[h]
       /\ \E i \in UsersWithEmail(Req(h).email) \cup UsersNamed(Req(h).username) :
            usrlst[i].password = Req(h).password
  /\ pc[h] = "login:byUsername" => UsersWithEmail(Req(h).email) = {}

\* A conversation with members has its creator for one.
CreatorsJoined ==
  \A i \in DOMAIN userconvolst :
    LET room == userconvolst[i].conversation_id IN
    MembersOf(room) \cap UsersWithEmail(convolst[room].creator_name) # {}

BotEmails == usrlst[BobId].email = "bob" /\ usrlst[JoeId].email = "joe"

AtomicInv ==
  /\ BotEmails /\ CreatorsJoined
  /\ \A h \in Slots : Knows(h) /\ Polling(h) /\ Logging(h)
-----------------------------------------------------------------------------
(***************************************************************************)
(* Emails for ids.                                                         *)
(***************************************************************************)
LEMMA OneAccount ==
  ASSUME EmailUnique, NEW email, NEW id \in UsersWithEmail(email)
  PROVE  /\ UsersWithEmail(email) = {id} /\ id \in DOMAIN usrlst
         /\ \A i \in DOMAIN usrlst : EmailOf(i) = email <=> i = id
BY DEF EmailUnique, UsersWithEmail, EmailOf

\* A pair's entries are the rows of its ids.
LEMMA EntriesAreRows ==
  ASSUME EmailUnique, RowsRefer, NEW u, NEW c,
         NEW user \in UsersWithEmail(u), NEW contact \in UsersWithEmail(c)
  PROVE  Atomic!Entries(u, c) = ContactRows(user, contact)
<1>1. /\ \A i \in DOMAIN usrlst : EmailOf(i) = u <=> i = user
      /\ \A i \in DOMAIN usrlst : EmailOf(i) = c <=> i = contact
  BY OneAccount
<1>2. /\ DOMAIN Book = DOMAIN contactslst
      /\ \A i \in DOMAIN contactslst : /\ Book[i].user = EmailOf(contactslst[i].userid)
                                       /\ Book[i].contact = EmailOf(contactslst[i].contactid)
  BY DEF Book
<1>3. \A i \in DOMAIN contactslst : /\ contactslst[i].userid \in DOMAIN usrlst
                                    /\ contactslst[i].contactid \in DOMAIN usrlst
  BY DEF RowsRefer
<1>4. QED
  BY <1>1, <1>2, <1>3 DEF Atomic!Entries, ContactRows

\* The mapping of rows that did not change
LEMMA SameEmails ==
  ASSUME Grow
  PROVE  /\ \A id \in DOMAIN usrlst : EmailOf(id)' = EmailOf(id)
         /\ \A email, id : id \in UsersWithEmail(email) => (id \in UsersWithEmail(email))'
BY DEF Grow, EmailOf, UsersWithEmail

\* Accounts keep their emails, so that a book nobody writes to reads the same.
LEMMA SameBook ==
  ASSUME Grow, RowsRefer, contactslst' = contactslst
  PROVE  Book' = Book
<1>1. \A i \in DOMAIN contactslst :
        /\ EmailOf(contactslst[i].userid)' = EmailOf(contactslst[i].userid)
        /\ EmailOf(contactslst[i].contactid)' = EmailOf(contactslst[i].contactid)
  BY DEF Grow, EmailOf, RowsRefer
<1>2. QED
  BY <1>1 DEF Book

\* So do the conversations and their members.
LEMMA SameRooms ==
  ASSUME Grow, RowsRefer, userconvolst' = userconvolst
  PROVE  Rooms' = Rooms /\ Joined' = Joined
<1>1. \A i \in DOMAIN userconvolst :
        /\ EmailOf(userconvolst[i].users_id)' = EmailOf(userconvolst[i].users_id)
        /\ convolst'[userconvolst[i].conversation_id]
             = convolst[userconvolst[i].conversation_id]
  BY DEF Grow, EmailOf, RowsRefer
<1>2. Joined' = Joined
  BY <1>1 DEF Joined
<1>3. \A id \in {userconvolst[i].conversation_id : i \in DOMAIN userconvolst} :
        convolst'[id] = convolst[id]
  BY <1>1
<1>4. Rooms' = Rooms
  BY <1>3 DEF Rooms
<1>5. QED
  BY <1>2, <1>4

\* Neither does the log, while a handler has a reply to add.
LEMMA SameLog ==
  ASSUME Grow, RowsRefer, msglst \in Seq(StoredMessage), Unfinished \in Nat,
         Len(msglst') - Unfinished' = Len(msglst) - Unfinished
  PROVE  Log' = Log
<1>1. \A i \in 1 .. Len(msglst) - Unfinished : i \in DOMAIN msglst
  OBVIOUS
<1>2. \A i \in DOMAIN msglst : /\ msglst'[i] = msglst[i]
                              /\ EmailOf(msglst[i].senderid)' = EmailOf(msglst[i].senderid)
  BY DEF Grow, EmailOf, RowsRefer
<1>3. QED
  BY <1>1, <1>2 DEF Log

-----------------------------------------------------------------------------
(***************************************************************************)
(* The log, and the messages that are not yet in it.                       *)
(***************************************************************************)
PendingLabels == {"postMessage:bob", "postMessage:joe"}

\* How many messages a handler that has a bot's reply to add has stored
Stored(h) == IF pc[h] = "postMessage:joe" /\ Req(h).bob THEN 2 ELSE 1

\* Unfinished, of the handlers' labels and frames
Waits(p, f) ==
  Cardinality({h \in Slots : p[h] \in {"postMessage:bob", "postMessage:joe"}})
  + Cardinality({h \in Slots : p[h] = "postMessage:joe" /\ f[h].req.bob})

\* How many rows of msglst wait for replies: none, if no handler has one to add.
LEMMA NothingPending ==
  ASSUME NEW p, NEW f, \A h \in Slots : p[h] \notin PendingLabels
  PROVE  Waits(p, f) = 0
<1>1. /\ {h \in Slots : p[h] \in {"postMessage:bob", "postMessage:joe"}} = {}
      /\ {h \in Slots : p[h] = "postMessage:joe" /\ f[h].req.bob} = {}
  BY DEF PendingLabels
<1>2. Cardinality({}) = 0
  BY FS_EmptySet
<1>3. Waits(p, f) = 0 + 0
  BY <1>1, <1>2 DEF Waits
<1>4. QED
  BY <1>3

\* One handler that has a reply to add leaves one row waiting, or two after Bob's.
LEMMA OnePending ==
  ASSUME NEW p, NEW f, NEW h \in Slots, p[h] \in PendingLabels,
         \A g \in Slots \ {h} : p[g] \notin PendingLabels,
         f[h].req.bob \in BOOLEAN
  PROVE  Waits(p, f) = IF p[h] = "postMessage:joe" /\ f[h].req.bob THEN 2 ELSE 1
<1>1. {g \in Slots : p[g] \in {"postMessage:bob", "postMessage:joe"}} = {h}
  BY DEF PendingLabels
<1>2. Cardinality({h}) = 1 /\ Cardinality({}) = 0
  BY FS_Singleton, FS_EmptySet
<1>3. CASE p[h] = "postMessage:joe" /\ f[h].req.bob
  <2>1. {g \in Slots : p[g] = "postMessage:joe" /\ f[g].req.bob} = {h}
    BY <1>3 DEF PendingLabels
  <2>2. Waits(p, f) = 1 + 1
    BY <1>1, <1>2, <2>1 DEF Waits
  <2>3. QED
    BY <1>3, <2>2
<1>4. CASE ~(p[h] = "postMessage:joe" /\ f[h].req.bob)
  <2>1. {g \in Slots : p[g] = "postMessage:joe" /\ f[g].req.bob} = {}
    BY <1>4 DEF PendingLabels
  <2>2. Waits(p, f) = 1 + 0
    BY <1>1, <1>2, <2>1 DEF Waits
  <2>3. QED
    BY <1>4, <2>2
<1>5. QED
  BY <1>3, <1>4

\* Unfinished in terms of a variable's value, for the proofs about steps
LEMMA UnfinishedWaits ==
  Unfinished = Waits(pc, frame) /\ Unfinished' = Waits(pc', frame')
BY DEF Unfinished, Waits, Req

\* The concatenations an exchange is made of
LEMMA Triples ==
  ASSUME NEW a, NEW b, NEW c
  PROVE  /\ <<a>> \o << >> = <<a>> /\ <<a, b>> \o << >> = <<a, b>>
         /\ <<a>> \o <<b>> = <<a, b>> /\ <<a, b>> \o <<c>> = <<a, b, c>>
<1> DEFINE S == {a, b, c}
<1>1. /\ <<a>> \in Seq(S) /\ Len(<<a>>) = 1 /\ <<a>>[1] = a
      /\ <<b>> \in Seq(S) /\ Len(<<b>>) = 1 /\ <<b>>[1] = b
      /\ <<c>> \in Seq(S) /\ Len(<<c>>) = 1 /\ <<c>>[1] = c
  OBVIOUS
<1>2. <<a, b>> \in Seq(S) /\ Len(<<a, b>>) = 2 /\ <<a, b>>[1] = a /\ <<a, b>>[2] = b
  OBVIOUS
<1>3. /\ <<a, b, c>> \in Seq(S) /\ Len(<<a, b, c>>) = 3
      /\ <<a, b, c>>[1] = a /\ <<a, b, c>>[2] = b /\ <<a, b, c>>[3] = c
  OBVIOUS
<1> HIDE DEF S
<1>4. <<a>> \o << >> = <<a>> /\ <<a, b>> \o << >> = <<a, b>>
  BY <1>1, <1>2, ConcatEmptySeq
<1>5. <<a>> \o <<b>> = <<a, b>>
  <2>1. /\ <<a>> \o <<b>> \in Seq(S) /\ Len(<<a>> \o <<b>>) = 1 + 1
        /\ \A i \in 1 .. 1 + 1 : (<<a>> \o <<b>>)[i] =
             IF i <= 1 THEN <<a>>[i] ELSE <<b>>[i - 1]
    BY <1>1, ConcatProperties
  <2>2. /\ Len(<<a>> \o <<b>>) = Len(<<a, b>>)
        /\ \A i \in 1 .. Len(<<a>> \o <<b>>) : (<<a>> \o <<b>>)[i] = <<a, b>>[i]
    BY <1>1, <1>2, <2>1
  <2>3. QED
    BY <1>2, <2>1, <2>2, SeqEqual, Zenon
<1>6. <<a, b>> \o <<c>> = <<a, b, c>>
  <2>1. /\ <<a, b>> \o <<c>> \in Seq(S) /\ Len(<<a, b>> \o <<c>>) = 2 + 1
        /\ \A i \in 1 .. 2 + 1 : (<<a, b>> \o <<c>>)[i] =
             IF i <= 2 THEN <<a, b>>[i] ELSE <<c>>[i - 2]
    BY <1>1, <1>2, ConcatProperties
  <2>2. /\ Len(<<a, b>> \o <<c>>) = Len(<<a, b, c>>)
        /\ \A i \in 1 .. Len(<<a, b>> \o <<c>>) : (<<a, b>> \o <<c>>)[i] = <<a, b, c>>[i]
    BY <1>1, <1>2, <1>3, <2>1
  <2>3. QED
    BY <1>3, <2>1, <2>2, SeqEqual, Zenon
<1>7. QED
  BY <1>4, <1>5, <1>6

\* Storage is one handler's, so that at most one has replies to add.
LEMMA PendingOnce ==
  ASSUME Typed, PostInv
  PROVE  /\ Unfinished \in 0 .. Len(msglst)
         /\ \/ Unfinished = 0 /\ \A h \in Slots : pc[h] \notin PendingLabels
            \/ \E h \in Slots : /\ pc[h] \in PendingLabels /\ Unfinished = Stored(h)
                               /\ \A g \in Slots \ {h} : pc[g] \notin PendingLabels
<1>1. CASE \A h \in Slots : pc[h] \notin PendingLabels
  <2>1. Len(msglst) \in Nat
    BY DEF Typed, RowsTypeOK
  <2>2. QED
    BY <1>1, <2>1, NothingPending, UnfinishedWaits
<1>2. ASSUME NEW h \in Slots, pc[h] \in PendingLabels
      PROVE  /\ Unfinished = Stored(h) /\ Stored(h) \in 0 .. Len(msglst)
             /\ \A g \in Slots \ {h} : pc[g] \notin PendingLabels
  <2>1. \A g \in Slots : pc[g] \in PendingLabels => "Storage" \in calls[g]
    BY DEF PostInv, PostWindow, PendingLabels
  <2>2. \A g \in Slots \ {h} : pc[g] \notin PendingLabels
    BY <1>2, <2>1 DEF Typed, Exclusive
  <2>3. Req(h) \in Requests /\ Req(h).op = "postMessage"
    BY <1>2, Busy DEF PendingLabels, Fits
  <2>4. Req(h).bob \in BOOLEAN
    BY <2>3, RequestsAreTyped DEF RequestAssumption
  <2>5. Unfinished = Stored(h)
    BY <1>2, <2>2, <2>4, OnePending, UnfinishedWaits DEF Req, Stored
  <2>6. Len(<<"user">>) = 1 /\ Len(<<"user">> \o <<"bob">>) = 2
    BY Triples
  <2>7. Len(msglst) - Stored(h) >= 0
    <3>1. CASE pc[h] = "postMessage:bob"
      <4>1. Told(Req(h), <<"user">>) /\ Stored(h) = 1
        BY <3>1 DEF PostInv, PostWindow, Stored
      <4>2. QED
        BY <2>6, <4>1 DEF Told
    <3>2. CASE pc[h] = "postMessage:joe"
      <4>1. Told(Req(h), WithBob(Req(h)))
        BY <3>2 DEF PostInv, PostWindow
      <4>2. Len(WithBob(Req(h))) = Stored(h)
        BY <2>4, <2>6, <3>2, SpeakersTyped DEF Stored
      <4>3. QED
        BY <4>1, <4>2 DEF Told
    <3>3. QED
      BY <1>2, <3>1, <3>2 DEF PendingLabels
  <2>8. Len(msglst) \in Nat /\ Stored(h) \in {1, 2}
    BY DEF Typed, RowsTypeOK, Stored
  <2>9. QED
    BY <2>2, <2>5, <2>7, <2>8
<1>3. QED
  BY <1>1, <1>2

Line(sender, req, by) ==
  [sender |-> sender, convo |-> req.convo, by |-> by, text |-> req.msg]

\* The holder of Storage's connection is the only one with replies to add.
LEMMA HolderPending ==
  ASSUME NEW h \in Slots, Typed, PostInv, MoveOf(h), "Storage" \in calls[h],
         Req(h).bob \in BOOLEAN
  PROVE  /\ pc[h] \notin PendingLabels => Unfinished = 0
         /\ pc[h] \in PendingLabels => Unfinished = Stored(h)
         /\ pc'[h] \notin PendingLabels => Unfinished' = 0
         /\ pc'[h] \in PendingLabels /\ Req(h)' = Req(h) =>
              Unfinished' = IF pc'[h] = "postMessage:joe" /\ Req(h).bob THEN 2 ELSE 1
<1>1. \A g \in Slots : pc[g] \in PendingLabels => "Storage" \in calls[g]
  BY DEF PostInv, PostWindow, PendingLabels
<1>2. \A g \in Slots \ {h} : pc[g] \notin PendingLabels /\ pc'[g] \notin PendingLabels
  BY <1>1 DEF Typed, Exclusive, MoveOf
<1>3. pc[h] \notin PendingLabels => Unfinished = 0
  BY <1>2, NothingPending, UnfinishedWaits
<1>4. pc[h] \in PendingLabels => Unfinished = Stored(h)
  BY <1>2, OnePending, UnfinishedWaits DEF Req, Stored
<1>5. pc'[h] \notin PendingLabels => Unfinished' = 0
  BY <1>2, NothingPending, UnfinishedWaits
<1>6. ASSUME pc'[h] \in PendingLabels, Req(h)' = Req(h)
      PROVE  Unfinished' = IF pc'[h] = "postMessage:joe" /\ Req(h).bob THEN 2 ELSE 1
  <2>1. frame'[h].req = Req(h)
    BY <1>6 DEF Req
  <2>2. QED
    BY <1>2, <1>6, <2>1, OnePending, UnfinishedWaits
<1>7. QED
  BY <1>3, <1>4, <1>5, <1>6

\* Does Joe not pass over a message in silence?
Minds(req) == req.joe /\ req.msg \in JoeSpeaks \cup JoeRaises

\* A message's exchange, line by line
LEMMA ExchangeLines ==
  ASSUME NEW req, req.bob \in BOOLEAN, req.joe \in BOOLEAN
  PROVE  LET one == Line(req.sender, req, "user")
             two == Line("bob", req, "bob")
             three == Line("joe", req, "joe")
         IN  Atomic!Exchange(req) =
               IF req.bob THEN IF Minds(req) THEN <<one, two, three>> ELSE <<one, two>>
                          ELSE IF Minds(req) THEN <<one, three>> ELSE <<one>>
<1> DEFINE one == Line(req.sender, req, "user")
           two == Line("bob", req, "bob")
           three == Line("joe", req, "joe")
<1>1. Atomic!Exchange(req) = (<<one>> \o (IF req.bob THEN <<two>> ELSE << >>))
                               \o (IF Minds(req) THEN <<three>> ELSE << >>)
  BY DEF Atomic!Exchange, Line, Minds
<1> HIDE DEF one, two, three
<1>2. <<one>> \o (IF req.bob THEN <<two>> ELSE << >>)
        = IF req.bob THEN <<one, two>> ELSE <<one>>
  BY Triples
<1>3. Atomic!Exchange(req) =
        IF req.bob THEN IF Minds(req) THEN <<one, two, three>> ELSE <<one, two>>
                   ELSE IF Minds(req) THEN <<one, three>> ELSE <<one>>
  BY <1>1, <1>2, Triples
<1>4. QED
  BY <1>3 DEF one, two, three

\* A function on 1 .. n is a sequence.
LEMMA FunctionIsSeq ==
  ASSUME NEW m \in Nat, NEW f, DOMAIN f = 1 .. m, f = [i \in 1 .. m |-> f[i]],
         NEW S, \A i \in 1 .. m : f[i] \in S
  PROVE  f \in Seq(S) /\ Len(f) = m
OBVIOUS

\* Who says what in an exchange
LEMMA ExchangeSays ==
  ASSUME NEW req, req.bob \in BOOLEAN, req.joe \in BOOLEAN,
         NEW all, all = Atomic!Exchange(req)
  PROVE  /\ Len(all) \in 1 .. 3
         /\ all[1] = Line(req.sender, req, "user")
         /\ \A k \in 2 .. Len(all) :
              \/ k = 2 /\ req.bob /\ all[k] = Line("bob", req, "bob")
              \/ ~(k = 2 /\ req.bob) /\ all[k] = Line("joe", req, "joe")
<1> DEFINE one == Line(req.sender, req, "user")
           two == Line("bob", req, "bob")
           three == Line("joe", req, "joe")
<1>1. all = IF req.bob THEN IF Minds(req) THEN <<one, two, three>> ELSE <<one, two>>
                       ELSE IF Minds(req) THEN <<one, three>> ELSE <<one>>
  BY ExchangeLines
<1> HIDE DEF one, two, three
<1>2. Minds(req) \in BOOLEAN
  BY DEF Minds
<1>3. CASE req.bob /\ Minds(req)
  BY <1>1, <1>3 DEF one, two, three
<1>4. CASE req.bob /\ ~Minds(req)
  BY <1>1, <1>4 DEF one, two, three
<1>5. CASE ~req.bob /\ Minds(req)
  BY <1>1, <1>5 DEF one, two, three
<1>6. CASE ~req.bob /\ ~Minds(req)
  BY <1>1, <1>6 DEF one, two, three
<1>7. QED
  BY <1>2, <1>3, <1>4, <1>5, <1>6

\* How many speak in an exchange
LEMMA ExchangeCounts ==
  ASSUME NEW req, req.bob \in BOOLEAN, req.joe \in BOOLEAN
  PROVE  /\ Minds(req) \in BOOLEAN
         /\ req.bob /\ Minds(req) => Len(Atomic!Exchange(req)) = 3
         /\ req.bob /\ ~Minds(req) => Len(Atomic!Exchange(req)) = 2
         /\ ~req.bob /\ Minds(req) => Len(Atomic!Exchange(req)) = 2
         /\ ~req.bob /\ ~Minds(req) => Len(Atomic!Exchange(req)) = 1
<1>1. Minds(req) \in BOOLEAN
  BY DEF Minds
<1>2. QED
  BY <1>1, ExchangeLines

\* The rows a handler has stored become lines of the log when it is done.
LEMMA LogGrows ==
  ASSUME Typed, RefInv, Grow, RowsTypeOK', Signed(msglst'), BotEmails', Unfinished \in Nat,
         NEW req, req.bob \in BOOLEAN, req.joe \in BOOLEAN,
         NEW all, all = Atomic!Exchange(req),
         NEW by, Len(by) \in 1 .. Len(all), DOMAIN by = 1 .. Len(by),
         \A k \in 1 .. Len(by) : by[k] = all[k].by,
         Told(req, by)', Unfinished' = 0,
         Len(msglst') = Len(msglst) - Unfinished + Len(by),
         Len(msglst) - Unfinished >= 0
  PROVE  Log' = Log \o SubSeq(all, 1, Len(by))
<1> DEFINE m == Len(msglst) - Unfinished
           n == Len(by)
           part == SubSeq(all, 1, n)
           S == {Log[i] : i \in 1 .. m} \cup {all[k] : k \in 1 .. Len(all)}
<1>1. /\ Len(all) \in 1 .. 3
      /\ all[1] = Line(req.sender, req, "user")
      /\ \A k \in 2 .. Len(all) :
           \/ k = 2 /\ req.bob /\ all[k] = Line("bob", req, "bob")
           \/ ~(k = 2 /\ req.bob) /\ all[k] = Line("joe", req, "joe")
  BY ExchangeSays
<1>2. /\ msglst \in Seq(StoredMessage) /\ Len(msglst) \in Nat /\ m \in Nat
      /\ DOMAIN msglst = 1 .. Len(msglst)
      /\ msglst' \in Seq(StoredMessage) /\ Len(msglst') = m + n
      /\ DOMAIN msglst' = 1 .. Len(msglst') /\ n \in Nat
  BY DEF Typed, RowsTypeOK
<1>3. /\ DOMAIN Log = 1 .. m /\ Log = [i \in 1 .. m |-> Log[i]]
      /\ DOMAIN Log' = 1 .. m + n /\ Log' = [i \in 1 .. m + n |-> Log'[i]]
  BY <1>2 DEF Log
<1>4. \A i \in 1 .. m : Log'[i] = Log[i]
  <2> SUFFICES ASSUME NEW i \in 1 .. m  PROVE Log'[i] = Log[i]
    OBVIOUS
  <2>1. i \in DOMAIN msglst /\ i \in 1 .. Len(msglst') - Unfinished'
    BY <1>2
  <2>2. msglst'[i] = msglst[i]
    BY <2>1 DEF Grow
  <2>3. usrlst'[msglst[i].senderid].email = usrlst[msglst[i].senderid].email
    BY <2>1 DEF Grow, RefInv, RowsRefer
  <2>4. QED
    BY <2>1, <2>2, <2>3 DEF Log, EmailOf
<1>5. \A k \in 1 .. n : Log'[m + k] = all[k]
  <2> SUFFICES ASSUME NEW k \in 1 .. n  PROVE Log'[m + k] = all[k]
    OBVIOUS
  <2>1. /\ msglst'[m + k].msg = [by |-> by[k], text |-> req.msg]
        /\ msglst'[m + k].convoid = req.convo
        /\ msglst'[m + 1].senderid \in UsersWithEmail(req.sender)'
        /\ m + k \in DOMAIN msglst'
    <3>1. Len(msglst') - Len(by) = m /\ k \in DOMAIN by
      BY <1>2
    <3>2. /\ msglst'[m + k].msg = [by |-> by[k], text |-> req.msg]
          /\ msglst'[m + k].convoid = req.convo
          /\ msglst'[m + 1].senderid \in UsersWithEmail(req.sender)'
      BY <3>1 DEF Told
    <3>3. QED
      BY <1>2, <3>2
  <2>2. Log'[m + k] = [sender |-> usrlst'[msglst'[m + k].senderid].email,
                       convo |-> req.convo, by |-> by[k], text |-> req.msg]
    BY <1>2, <2>1 DEF Log, EmailOf
  <2>3. k \in 1 .. Len(all) /\ by[k] = all[k].by
    BY <1>1
  <2>4. CASE k = 1
    <3>1. usrlst'[msglst'[m + k].senderid].email = req.sender
      BY <2>1, <2>4 DEF UsersWithEmail
    <3>2. QED
      BY <1>1, <2>2, <2>3, <2>4, <3>1 DEF Line
  <2>5. CASE k # 1 /\ k = 2 /\ req.bob
    <3>1. all[k] = Line("bob", req, "bob")
      BY <1>1, <2>3, <2>5
    <3>2. by[k] = "bob"
      BY <2>3, <3>1 DEF Line
    <3>3. msglst'[m + k].senderid = BobId
      BY <2>1, <3>2 DEF Signed
    <3>4. QED
      BY <2>2, <3>1, <3>2, <3>3 DEF Line, BotEmails, BobId
  <2>6. CASE k # 1 /\ ~(k = 2 /\ req.bob)
    <3>1. all[k] = Line("joe", req, "joe")
      BY <1>1, <2>3, <2>6
    <3>2. by[k] = "joe"
      BY <2>3, <3>1 DEF Line
    <3>3. msglst'[m + k].senderid = JoeId
      BY <2>1, <3>2 DEF Signed
    <3>4. QED
      BY <2>2, <3>1, <3>2, <3>3 DEF Line, BotEmails, JoeId
  <2>7. QED
    BY <2>4, <2>5, <2>6
<1>6. Log \in Seq(S) /\ Len(Log) = m
  <2>1. \A i \in 1 .. m : Log[i] \in S
    OBVIOUS
  <2> HIDE DEF S, m
  <2>2. QED
    BY <1>2, <1>3, <2>1, FunctionIsSeq
<1>7. part \in Seq(S) /\ Len(part) = n /\ \A k \in 1 .. n : part[k] = all[k]
  <2>1. \A k \in 1 .. n : all[k] \in S
    BY <1>1
  <2> HIDE DEF S
  <2>2. /\ part \in Seq(S) /\ Len(part) = IF 1 <= n THEN n - 1 + 1 ELSE 0
        /\ \A i \in 1 .. n - 1 + 1 : part[i] = all[1 + i - 1]
    BY <2>1, <1>2, SubSeqProperties
  <2>3. QED
    BY <2>2, <1>1
<1>8. \A i \in 1 .. m + n : Log'[i] = IF i <= m THEN Log[i] ELSE all[i - m]
  <2> SUFFICES ASSUME NEW i \in 1 .. m + n
               PROVE  Log'[i] = IF i <= m THEN Log[i] ELSE all[i - m]
    OBVIOUS
  <2>1. CASE i <= m
    BY <1>2, <1>4, <2>1
  <2>2. CASE i > m
    <3>1. i - m \in 1 .. n /\ m + (i - m) = i
      BY <1>2, <2>2
    <3>2. QED
      BY <1>2, <1>5, <2>2, <3>1
  <2>3. QED
    BY <1>2, <2>1, <2>2
<1>9. Log' \in Seq(S) /\ Len(Log') = m + n
  <2>1. ASSUME NEW i \in 1 .. m + n  PROVE Log'[i] \in S
    <3>1. CASE i <= m
      BY <1>2, <1>8, <3>1
    <3>2. CASE i > m
      <4>1. i - m \in 1 .. Len(all)
        BY <1>1, <1>2, <3>2
      <4>2. Log'[i] = all[i - m]
        BY <1>2, <1>8, <3>2
      <4>3. QED
        BY <4>1, <4>2
    <3>3. QED
      BY <1>2, <3>1, <3>2
  <2> HIDE DEF S
  <2>2. QED
    BY <1>2, <1>3, <2>1, FunctionIsSeq
<1> HIDE DEF S
<1>10. /\ Log \o part \in Seq(S) /\ Len(Log \o part) = m + n
       /\ \A i \in 1 .. m + n : (Log \o part)[i] = IF i <= m THEN Log[i] ELSE part[i - m]
  <2> HIDE DEF part, m, n
  <2>1. /\ Log \o part \in Seq(S) /\ Len(Log \o part) = Len(Log) + Len(part)
        /\ \A i \in 1 .. Len(Log) + Len(part) : (Log \o part)[i] =
             IF i <= Len(Log) THEN Log[i] ELSE part[i - Len(Log)]
    BY <1>6, <1>7, ConcatProperties, Zenon
  <2>2. QED
    BY <1>6, <1>7, <2>1
<1>11. \A i \in 1 .. m + n : Log'[i] = (Log \o part)[i]
  BY <1>2, <1>7, <1>8, <1>10
<1>12. QED
  BY <1>9, <1>10, <1>11, SeqEqual

-----------------------------------------------------------------------------
(***************************************************************************)
(* Steps that change nothing a client can see.                             *)
(***************************************************************************)
\* The step answers nothing, or a refusal.
Unsaid == Atomic!Silence \/ \E req \in Requests : Atomic!Refuse(req)

\* A step that changes nothing a client sees, and says nothing or refuses
LEMMA QuietStep ==
  ASSUME UNCHANGED <<usrlst, Book, Rooms, Joined, Log>>, Unsaid
  PROVE  Atomic!Next
BY DEF Atomic!Next, Atomic!Nothing, Unsaid

\* A call is silent or refused; an answer says what it is given.
LEMMA CallSpeaks ==
  ASSUME NEW h \in Slots, Typed, NEW m, NEW label, NEW f, NEW w,
         Call(h, m, label, f, w)
  PROVE  \/ /\ pc'[h] = label /\ frame'[h] = f /\ work'[h] = w
            /\ Atomic!Silence
         \/ pc'[h] = "idle" /\ Atomic!Refuse(f.req)
BY DEF Call, Fail, Answer, Typed, HandlersTypeOK, Silent, Atomic!Silence, Atomic!Refuse

\* Each of the three kinds of answers, as AtomicChat names it
LEMMA AnswerSpeaks ==
  ASSUME NEW h \in Slots
  PROVE  /\ \A req : Fail(h, req) => Atomic!Refuse(req)
         /\ \A text : RespondText(h, text) => Atomic!Say(Req(h), text)
         /\ \A data : RespondJson(h, data) =>
              Atomic!Show(Req(h)) /\ response'.data = data
<1>1. ASSUME NEW req, Fail(h, req)  PROVE Atomic!Refuse(req)
  BY <1>1, AnswerSays DEF Fail, Atomic!Refuse
<1>2. ASSUME NEW text, RespondText(h, text)  PROVE Atomic!Say(Req(h), text)
  BY <1>2 DEF RespondText, Answer, Atomic!Say
<1>3. ASSUME NEW data, RespondJson(h, data)
      PROVE  Atomic!Show(Req(h)) /\ response'.data = data
  <2>1. /\ response'.req = Req(h) /\ response'.status = 200
        /\ response'.text = Empty /\ response'.data = data
    BY <1>3, AnswerSays, Zenon DEF RespondJson
  <2>2. Empty = Atomic!Empty
    BY Zenon DEF Empty, Atomic!Empty
  <2>3. QED
    BY <2>1, <2>2, Zenon DEF Atomic!Show
<1>4. QED
  BY <1>1, <1>2, <1>3

\* Tables nobody writes to have grown, too.
LEMMA UnchangedGrows ==
  ASSUME UNCHANGED db
  PROVE  Grow
BY DEF db, rows, Grow

\* The handlers other than h go on with what they have to add to the log.
LEMMA UnfinishedStays ==
  ASSUME NEW h \in Slots, MoveOf(h),
         pc[h] \notin PendingLabels, pc'[h] \notin PendingLabels
  PROVE  Unfinished' = Unfinished
<1>1. \A g \in Slots : g # h => pc'[g] = pc[g] /\ Req(g)' = Req(g)
  BY DEF MoveOf, Req
<1>2. {g \in Slots : pc'[g] \in {"postMessage:bob", "postMessage:joe"}}
        = {g \in Slots : pc[g] \in {"postMessage:bob", "postMessage:joe"}}
  BY <1>1 DEF PendingLabels
<1>3. {g \in Slots : pc'[g] = "postMessage:joe" /\ Req(g)'.bob}
        = {g \in Slots : pc[g] = "postMessage:joe" /\ Req(g).bob}
  BY <1>1 DEF PendingLabels
<1>4. QED
  BY <1>2, <1>3 DEF Unfinished

\* What clients see depends on the rows, and on who has replies to add.
LEMMA SameView ==
  ASSUME NEW h \in Slots, Typed, RefInv, PostInv, MoveOf(h), Grow,
         pc[h] \notin PendingLabels, pc'[h] \notin PendingLabels
  PROVE  /\ contactslst' = contactslst => Book' = Book
         /\ userconvolst' = userconvolst => Rooms' = Rooms /\ Joined' = Joined
         /\ msglst' = msglst => Log' = Log
<1>1. RowsRefer /\ msglst \in Seq(StoredMessage) /\ Unfinished \in Nat
  BY PendingOnce DEF RefInv, Typed, RowsTypeOK
<1>2. Unfinished' = Unfinished
  BY UnfinishedStays
<1>3. msglst' = msglst => Len(msglst') - Unfinished' = Len(msglst) - Unfinished
  BY <1>2
<1>4. QED
  BY <1>1, <1>3, SameBook, SameRooms, SameLog

\* Most steps of a handler only ask: to a client nothing happens.
LEMMA QuietHandler ==
  ASSUME NEW h \in Slots, Typed, RefInv, PostInv, MoveOf(h), Grow,
         UNCHANGED <<usrlst, contactslst, userconvolst, msglst>>,
         pc[h] \notin PendingLabels, pc'[h] \notin PendingLabels, Unsaid
  PROVE  Atomic!Next
BY SameView, QuietStep

-----------------------------------------------------------------------------
(***************************************************************************)
(* /postMessage.                                                           *)
(***************************************************************************)
\* The voices of by are the first of the exchange.
Voiced(req, by) ==
  /\ Len(by) \in 1 .. Len(Atomic!Exchange(req)) /\ DOMAIN by = 1 .. Len(by)
  /\ \A k \in 1 .. Len(by) : by[k] = Atomic!Exchange(req)[k].by

\* Who speaks in the beginnings of an exchange
LEMMA Voices ==
  ASSUME NEW req, req.bob \in BOOLEAN, req.joe \in BOOLEAN
  PROVE  /\ Voiced(req, <<"user">>) /\ Len(<<"user">>) = 1
         /\ Voiced(req, WithBob(req)) /\ Len(WithBob(req)) = IF req.bob THEN 2 ELSE 1
         /\ req.joe /\ req.msg \in JoeSpeaks =>
              /\ Voiced(req, WithJoe(req))
              /\ Len(WithJoe(req)) = Len(Atomic!Exchange(req))
              /\ Len(WithJoe(req)) = IF req.bob THEN 3 ELSE 2
<1>1. PICK all : all = Atomic!Exchange(req)
  OBVIOUS
<1>2. /\ Len(all) \in 1 .. 3 /\ all[1].by = "user"
      /\ \A k \in 2 .. Len(all) : all[k].by = IF k = 2 /\ req.bob THEN "bob" ELSE "joe"
  <2>1. /\ Len(all) \in 1 .. 3
        /\ all[1] = Line(req.sender, req, "user")
        /\ \A k \in 2 .. Len(all) :
             \/ k = 2 /\ req.bob /\ all[k] = Line("bob", req, "bob")
             \/ ~(k = 2 /\ req.bob) /\ all[k] = Line("joe", req, "joe")
    BY <1>1, ExchangeSays
  <2>2. QED
    BY <2>1 DEF Line
<1>3. /\ req.bob => Len(all) >= 2
      /\ req.joe /\ req.msg \in JoeSpeaks => Len(all) = IF req.bob THEN 3 ELSE 2
  <2>1. req.joe /\ req.msg \in JoeSpeaks => Minds(req)
    BY DEF Minds
  <2>2. QED
    BY <1>1, <2>1, ExchangeCounts
<1>4. Voiced(req, <<"user">>) /\ Len(<<"user">>) = 1
  BY <1>1, <1>2 DEF Voiced
<1>5. Voiced(req, WithBob(req)) /\ Len(WithBob(req)) = IF req.bob THEN 2 ELSE 1
  <2>1. CASE req.bob
    <3>1. WithBob(req) = <<"user", "bob">>
      BY <2>1, SpeakersTyped, Triples
    <3>2. QED
      BY <1>1, <1>2, <1>3, <2>1, <3>1 DEF Voiced
  <2>2. CASE ~req.bob
    BY <1>4, <2>2, SpeakersTyped
  <2>3. QED
    BY <2>1, <2>2
<1>6. ASSUME req.joe, req.msg \in JoeSpeaks
      PROVE  /\ Voiced(req, WithJoe(req)) /\ Len(WithJoe(req)) = Len(all)
             /\ Len(WithJoe(req)) = IF req.bob THEN 3 ELSE 2
  <2>1. CASE req.bob
    <3>1. WithJoe(req) = <<"user", "bob", "joe">>
      BY <1>6, <2>1, SpeakersTyped, Triples, ZenonT(60)
    <3>2. QED
      BY <1>1, <1>2, <1>3, <1>6, <2>1, <3>1 DEF Voiced
  <2>2. CASE ~req.bob
    <3>1. WithJoe(req) = <<"user", "joe">>
      BY <1>6, <2>2, SpeakersTyped, Triples
    <3>2. QED
      BY <1>1, <1>2, <1>3, <1>6, <2>2, <3>1 DEF Voiced
  <2>3. QED
    BY <2>1, <2>2
<1>7. QED
  BY <1>1, <1>4, <1>5, <1>6

\* The first lines of an exchange, logged together, are AtomicChat's Post.
LEMMA PostSteps ==
  ASSUME NEW req \in Requests, req.op = "postMessage",
         NEW n \in 1 .. Len(Atomic!Exchange(req)),
         Log' = Log \o SubSeq(Atomic!Exchange(req), 1, n),
         UNCHANGED <<usrlst, Book, Rooms, Joined>>,
         IF n = Len(Atomic!Exchange(req)) THEN Atomic!Say(req, Empty)
                                          ELSE Atomic!Silence \/ Atomic!Refuse(req)
  PROVE  Atomic!Next
BY DEF Atomic!Next, Atomic!Post, Empty, Atomic!Empty

\* What comes of Joe's turn
LEMMA JoeTurnSpeaks ==
  ASSUME NEW h \in Slots, Typed, NEW req, req = Req(h), JoeTurn(h)
  PROVE  \/ /\ pc'[h] = "postMessage:joe" /\ Req(h)' = req /\ Minds(req)
            /\ Atomic!Silence
         \/ pc'[h] = "idle" /\ Minds(req) /\ Atomic!Refuse(req)
         \/ pc'[h] = "idle" /\ ~Minds(req) /\ Atomic!Say(req, Empty)
<1>1. CASE req.joe /\ req.msg \in JoeRaises /\ Fail(h, req)
  BY <1>1, AnswerSpeaks, AnswersPc DEF Minds
<1>2. CASE /\ req.joe /\ req.msg \in JoeSpeaks \ JoeRaises
           /\ Call(h, "Storage", "postMessage:joe", frame[h], work[h])
  <2>1. Minds(req)
    BY <1>2 DEF Minds
  <2>2. QED
    BY <1>2, <2>1, CallSpeaks DEF Req
<1>3. CASE /\ ~req.joe \/ req.msg \notin JoeSpeaks \cup JoeRaises
           /\ RespondText(h, Empty)
  BY <1>3, AnswerSpeaks, AnswersPc DEF Minds
<1>4. QED
  BY <1>1, <1>2, <1>3 DEF JoeTurn

\* A handler is over, and by are the voices it has stored.
LEMMA PostedLog ==
  ASSUME Typed, Typed', RefInv, PostInv, BotEmails', Signed(msglst'),
         Grow, Unfinished' = 0, NEW req \in Requests, req.op = "postMessage",
         UNCHANGED <<usrlst, contactslst, userconvolst>>,
         NEW by, Voiced(req, by), Told(req, by)',
         Len(msglst') = Len(msglst) - Unfinished + Len(by),
         IF Len(by) = Len(Atomic!Exchange(req))
         THEN Atomic!Say(req, Empty) ELSE Atomic!Silence \/ Atomic!Refuse(req)
  PROVE  Atomic!Next
<1>1. req.bob \in BOOLEAN /\ req.joe \in BOOLEAN
  BY RequestsAreTyped DEF RequestAssumption
<1>2. Unfinished' = 0
  OBVIOUS
<1>3. RowsTypeOK'
  BY DEF Typed
<1>4. Unfinished \in 0 .. Len(msglst) /\ Len(msglst) \in Nat
  BY PendingOnce DEF Typed, RowsTypeOK
<1>5. PICK all : all = Atomic!Exchange(req)
  OBVIOUS
<1>6. /\ Len(by) \in 1 .. Len(all) /\ DOMAIN by = 1 .. Len(by)
      /\ \A k \in 1 .. Len(by) : by[k] = all[k].by
  BY <1>5 DEF Voiced
<1>7. Log' = Log \o SubSeq(all, 1, Len(by))
  <2>1. Unfinished \in Nat /\ Len(msglst) - Unfinished >= 0
    BY <1>4
  <2>2. Len(msglst') = Len(msglst) - Unfinished + Len(by) /\ Told(req, by)'
    OBVIOUS
  <2>3. QED
    BY <1>1, <1>2, <1>3, <1>5, <1>6, <2>1, <2>2, LogGrows
<1>8. UNCHANGED <<Book, Rooms, Joined>>
  BY SameBook, SameRooms DEF RefInv
<1>9. QED
  BY <1>5, <1>6, <1>7, <1>8, PostSteps

\* A handler goes on with the next reply.
LEMMA PostingLog ==
  ASSUME Typed, RefInv, PostInv, Grow,
         UNCHANGED <<usrlst, contactslst, userconvolst>>,
         Len(msglst') - Unfinished' = Len(msglst) - Unfinished, Unsaid
  PROVE  Atomic!Next
<1>1. RowsRefer /\ msglst \in Seq(StoredMessage) /\ Unfinished \in Nat
  BY PendingOnce DEF RefInv, Typed, RowsTypeOK
<1>2. UNCHANGED <<Book, Rooms, Joined, Log>>
  BY <1>1, SameBook, SameRooms, SameLog
<1>3. QED
  BY <1>2, QuietStep

\* An insertion of /postMessage is the whole exchange, a broken-off one, or hidden.
LEMMA PostHandler ==
  ASSUME NEW h \in Slots, Typed, Typed', RefInv, PostInv, BotEmails', Signed(msglst'),
         Grow, MoveOf(h),
         PostMessageUser(h) \/ PostMessageBob(h) \/ PostMessageJoe(h)
  PROVE  Atomic!Next
<1>1. PICK req : req = Req(h)
  OBVIOUS
<1>2. /\ req \in Requests /\ req.op = "postMessage"
      /\ pc[h] # "idle" /\ "Storage" \in calls[h]
  <2>1. /\ pc[h] \in {"postMessage:user", "postMessage:bob", "postMessage:joe"}
        /\ "Storage" \in calls[h]
    BY DEF PostMessageUser, PostMessageBob, PostMessageJoe, Reply
  <2>2. QED
    BY <1>1, <2>1, Busy DEF Fits
<1>3. /\ req.bob \in BOOLEAN /\ req.joe \in BOOLEAN
  BY <1>2, RequestsAreTyped DEF RequestAssumption
<1>4. /\ UNCHANGED <<usrlst, contactslst, userconvolst>>
      /\ msglst \in Seq(StoredMessage) /\ Len(msglst) \in Nat
      /\ Len(msglst') = Len(msglst) + 1 /\ PostWindow(h)
  BY DEF PostMessageUser, PostMessageBob, PostMessageJoe, OnlyMsglst, AddMsg, Typed,
         RowsTypeOK, PostInv
<1>5. /\ pc[h] \notin PendingLabels => Unfinished = 0
      /\ pc[h] \in PendingLabels => Unfinished = Stored(h)
      /\ pc'[h] \notin PendingLabels => Unfinished' = 0
      /\ pc'[h] \in PendingLabels /\ Req(h)' = Req(h) =>
           Unfinished' = IF pc'[h] = "postMessage:joe" /\ req.bob THEN 2 ELSE 1
  BY <1>1, <1>2, <1>3, HolderPending
<1>6. ASSUME NEW by, Voiced(req, by), Told(req, by)', Len(by) = Unfinished + 1,
             pc'[h] = "idle",
             IF Len(by) = Len(Atomic!Exchange(req))
             THEN Atomic!Say(req, Empty) ELSE Atomic!Silence \/ Atomic!Refuse(req)
      PROVE  Atomic!Next
  <2>1. Unfinished \in Nat
    BY PendingOnce
  <2>2. Len(msglst') = Len(msglst) - Unfinished + Len(by)
    BY <1>4, <1>6, <2>1
  <2>3. Unfinished' = 0
    BY <1>5, <1>6 DEF PendingLabels
  <2>4. QED
    BY <1>2, <1>4, <1>6, <2>2, <2>3, PostedLog
<1>7. ASSUME Unfinished' = Unfinished + 1, Atomic!Silence
      PROVE  Atomic!Next
  <2>1. Unfinished \in Nat
    BY PendingOnce
  <2>2. Len(msglst') - Unfinished' = Len(msglst) - Unfinished
    BY <1>4, <1>7, <2>1
  <2>3. QED
    BY <1>4, <1>7, <2>2, PostingLog DEF Unsaid
<1>8. /\ Voiced(req, <<"user">>) /\ Len(<<"user">>) = 1
      /\ Voiced(req, WithBob(req)) /\ Len(WithBob(req)) = IF req.bob THEN 2 ELSE 1
      /\ req.joe /\ req.msg \in JoeSpeaks =>
           /\ Voiced(req, WithJoe(req))
           /\ Len(WithJoe(req)) = Len(Atomic!Exchange(req))
           /\ Len(WithJoe(req)) = IF req.bob THEN 3 ELSE 2
  BY <1>3, Voices
<1>9. /\ Minds(req) \in BOOLEAN
      /\ req.bob /\ Minds(req) => Len(Atomic!Exchange(req)) = 3
      /\ req.bob /\ ~Minds(req) => Len(Atomic!Exchange(req)) = 2
      /\ ~req.bob /\ Minds(req) => Len(Atomic!Exchange(req)) = 2
      /\ ~req.bob /\ ~Minds(req) => Len(Atomic!Exchange(req)) = 1
  BY <1>3, ExchangeCounts
<1>10. CASE PostMessageUser(h)
  <2>1. Unfinished = 0
    BY <1>5, <1>10 DEF PostMessageUser, Reply, PendingLabels
  <2>2. Told(req, <<"user">>)'
    BY <1>1, <1>4, <1>10, SenderTold DEF PostMessageUser, Reply, PostWindow
  <2>3. CASE req.bob /\ Fail(h, req)
    <3>1. pc'[h] = "idle" /\ Atomic!Refuse(req)
      BY <2>3, AnswerSpeaks, AnswersPc
    <3>2. Len(Atomic!Exchange(req)) # 1
      BY <1>9, <2>3
    <3>3. QED
      BY <1>6, <1>8, <2>1, <2>2, <3>1, <3>2
  <2>4. CASE req.bob /\ Call(h, "Storage", "postMessage:bob", frame[h], work[h])
    <3>1. \/ pc'[h] = "postMessage:bob" /\ Req(h)' = Req(h) /\ Atomic!Silence
          \/ pc'[h] = "idle" /\ Atomic!Refuse(req)
      BY <1>1, <2>4, CallSpeaks DEF Req
    <3>2. CASE pc'[h] = "postMessage:bob" /\ Req(h)' = Req(h) /\ Atomic!Silence
      <4>1. Unfinished' = 1
        BY <1>5, <3>2 DEF PendingLabels
      <4>2. QED
        BY <1>7, <2>1, <3>2, <4>1
    <3>3. CASE pc'[h] = "idle" /\ Atomic!Refuse(req)
      <4>1. Len(Atomic!Exchange(req)) # 1
        BY <1>9, <2>4
      <4>2. QED
        BY <1>6, <1>8, <2>1, <2>2, <3>3, <4>1
    <3>4. QED
      BY <3>1, <3>2, <3>3
  <2>5. CASE ~req.bob /\ JoeTurn(h)
    <3>1. \/ /\ pc'[h] = "postMessage:joe" /\ Req(h)' = req /\ Minds(req)
             /\ Atomic!Silence
          \/ pc'[h] = "idle" /\ Minds(req) /\ Atomic!Refuse(req)
          \/ pc'[h] = "idle" /\ ~Minds(req) /\ Atomic!Say(req, Empty)
      BY <1>1, <2>5, JoeTurnSpeaks
    <3>2. CASE pc'[h] = "postMessage:joe" /\ Req(h)' = req /\ Atomic!Silence
      <4>1. Unfinished' = 1
        BY <1>1, <1>5, <2>5, <3>2 DEF PendingLabels
      <4>2. QED
        BY <1>7, <2>1, <3>2, <4>1
    <3>3. CASE pc'[h] = "idle" /\ Minds(req) /\ Atomic!Refuse(req)
      <4>1. Len(Atomic!Exchange(req)) # 1
        BY <1>9, <2>5, <3>3
      <4>2. QED
        BY <1>6, <1>8, <2>1, <2>2, <3>3, <4>1
    <3>4. CASE pc'[h] = "idle" /\ ~Minds(req) /\ Atomic!Say(req, Empty)
      <4>1. Len(Atomic!Exchange(req)) = 1
        BY <1>9, <2>5, <3>4
      <4>2. QED
        BY <1>6, <1>8, <2>1, <2>2, <3>4, <4>1
    <3>5. QED
      BY <3>1, <3>2, <3>3, <3>4
  <2>6. QED
    BY <1>1, <1>10, <2>3, <2>4, <2>5 DEF PostMessageUser
<1>11. CASE PostMessageBob(h)
  <2>1. req.bob /\ Told(req, <<"user">>) /\ Unfinished = 1
    BY <1>1, <1>4, <1>5, <1>11 DEF PostMessageBob, Reply, PostWindow, PendingLabels, Stored
  <2>2. Told(req, WithBob(req))'
    <3>1. <<"user">> \in Seq(Speakers) /\ Len(<<"user">>) >= 1 /\ "bob" \in Speakers
      BY DEF Speakers
    <3>2. Told(req, <<"user">> \o <<"bob">>)'
      BY <1>1, <1>4, <1>11, <2>1, <3>1, BotTold DEF PostMessageBob
    <3>3. QED
      BY <2>1, <3>2, SpeakersTyped
  <2>3. \/ /\ pc'[h] = "postMessage:joe" /\ Req(h)' = req /\ Minds(req)
           /\ Atomic!Silence
        \/ pc'[h] = "idle" /\ Minds(req) /\ Atomic!Refuse(req)
        \/ pc'[h] = "idle" /\ ~Minds(req) /\ Atomic!Say(req, Empty)
    BY <1>1, <1>11, JoeTurnSpeaks DEF PostMessageBob
  <2>4. CASE pc'[h] = "postMessage:joe" /\ Req(h)' = req /\ Atomic!Silence
    <3>1. Unfinished' = 2
      BY <1>1, <1>5, <2>1, <2>4 DEF PendingLabels
    <3>2. QED
      BY <1>7, <2>1, <2>4, <3>1
  <2>5. CASE pc'[h] = "idle" /\ Minds(req) /\ Atomic!Refuse(req)
    <3>1. Len(Atomic!Exchange(req)) # 2 /\ Len(WithBob(req)) = 2
      BY <1>8, <1>9, <2>1, <2>5
    <3>2. QED
      BY <1>6, <1>8, <2>1, <2>2, <2>5, <3>1
  <2>6. CASE pc'[h] = "idle" /\ ~Minds(req) /\ Atomic!Say(req, Empty)
    <3>1. Len(Atomic!Exchange(req)) = 2 /\ Len(WithBob(req)) = 2
      BY <1>8, <1>9, <2>1, <2>6
    <3>2. QED
      BY <1>6, <1>8, <2>1, <2>2, <2>6, <3>1
  <2>7. QED
    BY <2>3, <2>4, <2>5, <2>6
<1>12. CASE PostMessageJoe(h)
  <2>1. /\ req.joe /\ req.msg \in JoeSpeaks /\ Told(req, WithBob(req))
        /\ Unfinished = IF req.bob THEN 2 ELSE 1
    BY <1>1, <1>4, <1>5, <1>12 DEF PostMessageJoe, Reply, PostWindow, PendingLabels, Stored
  <2>2. Told(req, WithJoe(req))'
    <3>1. "joe" \in Speakers
      BY DEF Speakers
    <3>2. Told(req, WithBob(req) \o <<"joe">>)'
      BY <1>1, <1>4, <1>12, <2>1, <3>1, SpeakersTyped, BotTold DEF PostMessageJoe
    <3>3. QED
      BY <2>1, <3>2, SpeakersTyped
  <2>3. pc'[h] = "idle" /\ Atomic!Say(req, Empty)
    BY <1>1, <1>12, AnswerSpeaks, AnswersPc DEF PostMessageJoe
  <2>4. Len(WithJoe(req)) = Unfinished + 1
    BY <1>3, <1>8, <2>1
  <2>5. QED
    BY <1>6, <1>8, <2>1, <2>2, <2>3, <2>4
<1>13. QED
  BY <1>10, <1>11, <1>12

\* What the handler h, with replies to add, has stored
LEMMA StoredVoices ==
  ASSUME NEW h \in Slots, Typed, PostInv, pc[h] \in PendingLabels, Unfinished = Stored(h)
  PROVE  /\ Req(h) \in Requests /\ Req(h).op = "postMessage" /\ "Storage" \in calls[h]
         /\ \E by : /\ Voiced(Req(h), by) /\ Told(Req(h), by) /\ Len(by) = Unfinished
                    /\ Len(by) # Len(Atomic!Exchange(Req(h)))
<1>1. PICK req : req = Req(h)
  OBVIOUS
<1>2. req \in Requests /\ req.op = "postMessage" /\ PostWindow(h) /\ "Storage" \in calls[h]
  BY <1>1, Busy DEF PendingLabels, Fits, PostInv, PostWindow
<1>3. req.bob \in BOOLEAN /\ req.joe \in BOOLEAN
  BY <1>2, RequestsAreTyped DEF RequestAssumption
<1>4. /\ Voiced(req, <<"user">>) /\ Len(<<"user">>) = 1
      /\ Voiced(req, WithBob(req)) /\ Len(WithBob(req)) = IF req.bob THEN 2 ELSE 1
  BY <1>3, Voices
<1>5. /\ req.bob /\ Minds(req) => Len(Atomic!Exchange(req)) = 3
      /\ req.bob /\ ~Minds(req) => Len(Atomic!Exchange(req)) = 2
      /\ ~req.bob /\ Minds(req) => Len(Atomic!Exchange(req)) = 2
      /\ Minds(req) \in BOOLEAN
  BY <1>3, ExchangeCounts
<1>6. CASE pc[h] = "postMessage:bob"
  <2>1. Told(req, <<"user">>) /\ req.bob /\ Unfinished = 1
    BY <1>1, <1>2, <1>6 DEF PostWindow, Stored
  <2>2. Len(Atomic!Exchange(req)) # 1
    BY <1>5, <2>1
  <2>3. QED
    BY <1>1, <1>2, <1>4, <2>1, <2>2
<1>7. CASE pc[h] = "postMessage:joe"
  <2>1. Told(req, WithBob(req)) /\ Minds(req)
    BY <1>1, <1>2, <1>7 DEF PostWindow, Minds
  <2>2. Unfinished = IF req.bob THEN 2 ELSE 1
    BY <1>1, <1>7 DEF Stored
  <2>3. Len(WithBob(req)) = Unfinished /\ Len(WithBob(req)) # Len(Atomic!Exchange(req))
    BY <1>3, <1>4, <1>5, <2>1, <2>2
  <2>4. QED
    BY <1>1, <1>2, <1>4, <2>1, <2>3
<1>8. QED
  BY <1>6, <1>7 DEF PendingLabels

\* A handler breaks off, or all do with the server.
LEMMA BrokenLog ==
  ASSUME NEW h \in Slots, Typed, Typed', RefInv, PostInv, BotEmails', Signed(msglst'),
         UNCHANGED db, pc[h] \in PendingLabels, Unfinished = Stored(h), Unfinished' = 0,
         Atomic!Silence \/ Atomic!Refuse(Req(h))
  PROVE  Atomic!Next
<1>1. PICK req : req = Req(h)
  OBVIOUS
<1>2. PICK by : /\ Voiced(req, by) /\ Told(req, by) /\ Len(by) = Unfinished
                /\ Len(by) # Len(Atomic!Exchange(req))
  BY <1>1, StoredVoices
<1>3. req \in Requests /\ req.op = "postMessage"
  BY <1>1, StoredVoices
<1>4. Grow /\ UNCHANGED <<usrlst, contactslst, userconvolst, msglst>>
  BY UnchangedGrows DEF db, rows
<1>5. Told(req, by)'
  BY <1>2, <1>4, StaysTold
<1>6. Len(msglst') = Len(msglst) - Unfinished + Len(by)
  <2>1. Len(msglst) \in Nat /\ Unfinished \in Nat
    BY PendingOnce DEF Typed, RowsTypeOK
  <2>2. QED
    BY <1>2, <1>4, <2>1
<1>7. IF Len(by) = Len(Atomic!Exchange(req))
      THEN Atomic!Say(req, Empty) ELSE Atomic!Silence \/ Atomic!Refuse(req)
  BY <1>1, <1>2
<1>8. UNCHANGED <<usrlst, contactslst, userconvolst>>
  BY <1>4
<1>9. QED
  BY <1>2, <1>3, <1>4, <1>5, <1>6, <1>7, <1>8, PostedLog

\* A failing statement refuses, and ends an exchange where it stood.
LEMMA ErrorHandler ==
  ASSUME NEW h \in Slots, Typed, Typed', RefInv, PostInv, BotEmails', Signed(msglst'),
         MoveOf(h), StatementError(h)
  PROVE  Atomic!Next
<1>1. /\ UNCHANGED db /\ pc[h] # "idle" /\ pc'[h] = "idle" /\ Atomic!Refuse(Req(h))
  BY AnswersPc, AnswerSpeaks DEF StatementError
<1>2. Grow /\ UNCHANGED <<usrlst, contactslst, userconvolst, msglst>>
  BY <1>1, UnchangedGrows DEF db, rows
<1>3. Req(h) \in Requests
  BY <1>1, Busy
<1>4. CASE pc[h] \notin PendingLabels
  <2>1. Unsaid
    BY <1>1, <1>3 DEF Unsaid
  <2>2. pc'[h] \notin PendingLabels
    BY <1>1 DEF PendingLabels
  <2>3. QED
    BY <1>2, <1>4, <2>1, <2>2, QuietHandler
<1>5. CASE pc[h] \in PendingLabels
  <2>1. "Storage" \in calls[h]
    BY <1>5 DEF PostInv, PostWindow, PendingLabels
  <2>2. Req(h).bob \in BOOLEAN
    BY <1>1, <1>3, <1>5, Busy, RequestsAreTyped DEF RequestAssumption, Fits, PendingLabels
  <2>3. Unfinished = Stored(h) /\ Unfinished' = 0
    BY <1>1, <1>5, <2>1, <2>2, HolderPending DEF PendingLabels
  <2>4. QED
    BY <1>1, <1>5, <2>3, BrokenLog
<1>6. QED
  BY <1>4, <1>5

\* The server's death ends an exchange where it stood.
LEMMA RestartHandlers ==
  ASSUME Typed, Typed', RefInv, PostInv, BotEmails', Signed(msglst'), Restart
  PROVE  Atomic!Next
<1>1. UNCHANGED db /\ Atomic!Silence /\ \A h \in Slots : pc'[h] = "idle"
  BY DEF Restart, Silent, Atomic!Silence
<1>2. Unfinished' = 0
  BY <1>1, NothingPending, UnfinishedWaits DEF PendingLabels
<1>3. CASE \E h \in Slots : pc[h] \in PendingLabels /\ Unfinished = Stored(h)
  BY <1>1, <1>2, <1>3, BrokenLog
<1>4. CASE Unfinished = 0
  <2>1. Grow /\ UNCHANGED <<usrlst, contactslst, userconvolst, msglst>>
    BY <1>1, UnchangedGrows DEF db, rows
  <2>2. Unsaid /\ Len(msglst') - Unfinished' = Len(msglst) - Unfinished
    BY <1>1, <1>2, <1>4, <2>1 DEF Unsaid
  <2>3. QED
    BY <2>1, <2>2, PostingLog
<1>5. QED
  BY <1>3, <1>4, PendingOnce

\* A handler asks on, or is refused.
LEMMA Onwards ==
  ASSUME NEW h \in Slots, Typed, RefInv, PostInv, MoveOf(h), UNCHANGED db,
         pc[h] # "idle", pc[h] \notin PendingLabels, pc'[h] \notin PendingLabels,
         \/ Fail(h, Req(h))
         \/ \E m, label, f, w : Call(h, m, label, f, w) /\ f.req = Req(h)
  PROVE  Atomic!Next
<1>1. Req(h) \in Requests
  BY Busy
<1>2. Unsaid
  BY <1>1, AnswerSpeaks, CallSpeaks DEF Unsaid
<1>3. Grow /\ UNCHANGED <<usrlst, contactslst, userconvolst, msglst>>
  BY UnchangedGrows DEF db, rows
<1>4. QED
  BY <1>2, <1>3, QuietHandler

\* The ids a handler binds leave its request alone.
LEMMA SameRequest ==
  ASSUME NEW h \in Slots, Typed, NEW id
  PROVE  /\ frame[h].req = Req(h)
         /\ [frame[h] EXCEPT !.user = id].req = Req(h)
         /\ [frame[h] EXCEPT !.contact = id].req = Req(h)
         /\ [frame[h] EXCEPT !.convo = id].req = Req(h)
BY Held DEF Req
-----------------------------------------------------------------------------
(***************************************************************************)
(* Accounts.                                                               *)
(***************************************************************************)
\* AtomicChat's accounts are the rows of usrlst.
LEMMA SameUsers ==
  /\ \A email : Atomic!WithEmail(email) = UsersWithEmail(email)
  /\ \A name : Atomic!Named(name) = UsersNamed(name)
BY DEF Atomic!WithEmail, Atomic!Named, UsersWithEmail, UsersNamed

\* /register, /login and /changeUsername happen at their last statement.
LEMMA AccountHandler ==
  ASSUME NEW h \in Slots, Typed, RefInv, PostInv, Windows, Logging(h), MoveOf(h),
         AccountStep(h)
  PROVE  Atomic!Next
<1>1. PICK req : req = Req(h)
  OBVIOUS
<1>2. /\ pc[h] # "idle" /\ pc[h] \notin PendingLabels /\ pc'[h] \notin PendingLabels
      /\ req \in Requests
  <2>1. pc[h] # "idle" /\ pc[h] \notin PendingLabels
    BY StepsStart DEF PendingLabels
  <2>2. pc'[h] \notin PendingLabels
    BY AccountLeads DEF PendingLabels
  <2>3. QED
    BY <1>1, <2>1, <2>2, Busy
<1>3. UNCHANGED <<Book, Rooms, Joined, Log>>
  <2>1. UNCHANGED <<contactslst, userconvolst, msglst>> /\ Grow
    BY AccountLeads, AccountsGrow
  <2>2. QED
    BY <1>2, <2>1, SameView
<1>4. ASSUME UNCHANGED db, NEW m, NEW label, NEW w, Call(h, m, label, frame[h], w)
      PROVE  Atomic!Next
  BY <1>2, <1>4, SameRequest, Onwards
<1>5. /\ Fits(pc[h], req) /\ Window(h)
      /\ \A text : RespondText(h, text) => Atomic!Say(req, text)
      /\ \A data : RespondJson(h, data) => Atomic!Show(req) /\ response'.data = data
  BY <1>1, <1>2, Busy, AnswerSpeaks DEF Windows
<1>6. ASSUME Atomic!Register(req) \/ Atomic!Login(req) \/ Atomic!ChangeUsername(req)
      PROVE  Atomic!Next
  BY <1>2, <1>6 DEF Atomic!Next
<1>7. CASE RegisterEmail(h)
  <2>1. req.op = "register" /\ UNCHANGED db /\ UNCHANGED usrlst
    BY <1>5, <1>7 DEF Fits, RegisterEmail, Reply, db, rows
  <2>2. CASE UsersWithEmail(req.email) # {} /\ RespondText(h, "Email taken")
    <3>1. Atomic!Say(req, "Email taken")
      BY <1>5, <2>2
    <3>2. Atomic!Register(req)
      BY <1>3, <2>1, <2>2, <3>1, SameUsers DEF Atomic!Register, Atomic!OnlyUsers
    <3>3. QED
      BY <1>6, <3>2
  <2>3. QED
    BY <1>1, <1>4, <1>7, <2>1, <2>2 DEF RegisterEmail
<1>8. CASE RegisterUsername(h)
  <2>1. /\ req.op = "register" /\ UNCHANGED db /\ UNCHANGED usrlst
        /\ UsersWithEmail(req.email) = {}
    BY <1>1, <1>5, <1>8 DEF Fits, RegisterUsername, Reply, db, rows, Window
  <2>2. CASE UsersNamed(req.username) # {} /\ RespondText(h, "Username taken")
    <3>1. Atomic!Say(req, "Username taken")
      BY <1>5, <2>2
    <3>2. Atomic!Register(req)
      BY <1>3, <2>1, <2>2, <3>1, SameUsers DEF Atomic!Register, Atomic!OnlyUsers
    <3>3. QED
      BY <1>6, <3>2
  <2>3. QED
    BY <1>1, <1>4, <1>8, <2>1, <2>2 DEF RegisterUsername
<1>9. CASE RegisterAdd(h)
  <2>1. /\ req.op = "register"
        /\ UsersWithEmail(req.email) = {} /\ UsersNamed(req.username) = {}
        /\ AddUsr(req.email, req.password, req.username)
        /\ Atomic!Say(req, "Success")
    BY <1>1, <1>5, <1>9 DEF Fits, RegisterAdd, Reply, Window
  <2>2. Atomic!Register(req)
    BY <1>3, <2>1, SameUsers DEF Atomic!Register, Atomic!OnlyUsers, AddUsr
  <2>3. QED
    BY <1>6, <2>2
<1>10. CASE LoginPassword(h)
  <2>1. req.op = "login" /\ UNCHANGED db /\ UNCHANGED usrlst
    BY <1>5, <1>10 DEF Fits, LoginPassword, Reply, db, rows
  <2>2. CASE /\ {i \in UsersWithEmail(req.email) \cup UsersNamed(req.username) :
                   usrlst[i].password = req.password} = {}
             /\ RespondText(h, "No User")
    <3>1. Atomic!Say(req, "No User")
      BY <1>5, <2>2
    <3>2. ~ \E i \in Atomic!WithEmail(req.email) \cup Atomic!Named(req.username) :
              usrlst[i].password = req.password
      BY <2>2, SameUsers
    <3>3. Atomic!Login(req)
      BY <1>3, <2>1, <3>1, <3>2 DEF Atomic!Login, Atomic!OnlyUsers
    <3>4. QED
      BY <1>6, <3>3
  <2>3. QED
    BY <1>1, <1>4, <1>10, <2>1, <2>2 DEF LoginPassword
<1>11. CASE LoginEmail(h)
  <2>1. UNCHANGED db
    BY <1>11 DEF LoginEmail
  <2>2. QED
    BY <1>4, <1>11, <2>1 DEF LoginEmail
<1>12. ASSUME NEW i, req.op = "login", UNCHANGED db,
              \E j \in UsersWithEmail(req.email) \cup UsersNamed(req.username) :
                usrlst[j].password = req.password,
              IF UsersWithEmail(req.email) # {} THEN i \in UsersWithEmail(req.email)
                                                ELSE i \in UsersNamed(req.username),
              RespondJson(h, <<[email |-> usrlst[i].email,
                                username |-> usrlst[i].username]>>)
       PROVE  Atomic!Next
  <2>1. /\ Atomic!Show(req)
        /\ response'.data = <<[email |-> usrlst[i].email, username |-> usrlst[i].username]>>
    BY <1>5, <1>12
  <2>2. \E j \in Atomic!WithEmail(req.email) \cup Atomic!Named(req.username) :
          usrlst[j].password = req.password
    BY <1>12, SameUsers
  <2>3. i \in IF Atomic!WithEmail(req.email) # {} THEN Atomic!WithEmail(req.email)
              ELSE Atomic!WithEmail(req.email) \cup Atomic!Named(req.username)
    BY <1>12, SameUsers
  <2>4. UNCHANGED usrlst
    BY <1>12 DEF db, rows
  <2>5. Atomic!Login(req)
    BY <1>3, <1>12, <2>1, <2>2, <2>3, <2>4 DEF Atomic!Login, Atomic!OnlyUsers
  <2>6. QED
    BY <1>6, <2>5
<1>13. CASE LoginByEmail(h)
  <2>1. /\ req.op = "login" /\ UNCHANGED db
        /\ \E j \in UsersWithEmail(req.email) \cup UsersNamed(req.username) :
             usrlst[j].password = req.password
    BY <1>1, <1>5, <1>13 DEF Fits, LoginByEmail, Reply, Logging
  <2>2. ASSUME NEW i \in UsersWithEmail(req.email),
               RespondJson(h, <<[email |-> req.email, username |-> usrlst[i].username]>>)
        PROVE  Atomic!Next
    <3>1. usrlst[i].email = req.email
      BY <2>2 DEF UsersWithEmail
    <3>2. QED
      BY <1>12, <2>1, <2>2, <3>1
  <2>3. CASE Fail(h, req)
    BY <1>1, <1>2, <2>1, <2>3, Onwards
  <2>4. QED
    BY <1>1, <1>13, <2>2, <2>3 DEF LoginByEmail
<1>14. CASE LoginByUsername(h)
  <2>1. /\ req.op = "login" /\ UNCHANGED db
        /\ \E j \in UsersWithEmail(req.email) \cup UsersNamed(req.username) :
             usrlst[j].password = req.password
        /\ UsersWithEmail(req.email) = {}
    BY <1>1, <1>5, <1>14 DEF Fits, LoginByUsername, Reply, Logging
  <2>2. ASSUME NEW i \in UsersNamed(req.username),
               RespondJson(h, <<[email |-> usrlst[i].email, username |-> req.username]>>)
        PROVE  Atomic!Next
    <3>1. usrlst[i].username = req.username
      BY <2>2 DEF UsersNamed
    <3>2. QED
      BY <1>12, <2>1, <2>2, <3>1
  <2>3. CASE Fail(h, req)
    BY <1>1, <1>2, <2>1, <2>3, Onwards
  <2>4. QED
    BY <1>1, <1>14, <2>2, <2>3 DEF LoginByUsername
<1>15. CASE ChangeUsername(h)
  <2>1. /\ req.op = "changeUsername" /\ Atomic!Say(req, Empty)
        /\ usrlst' = [i \in DOMAIN usrlst |->
                        IF usrlst[i].email = req.email
                        THEN [usrlst[i] EXCEPT !.username = req.username]
                        ELSE usrlst[i]]
    BY <1>1, <1>5, <1>15 DEF Fits, ChangeUsername, Reply
  <2>2. ASSUME NEW i \in DOMAIN usrlst
        PROVE  usrlst'[i] = [usrlst[i] EXCEPT !.username =
                 IF usrlst[i].email = req.email THEN req.username ELSE @]
    <3>1. usrlst[i] \in Account
      BY <2>2, RowOf DEF Typed, RowsTypeOK
    <3>2. usrlst[i] = [usrlst[i] EXCEPT !.username = usrlst[i].username]
      BY <3>1 DEF Account
    <3>3. QED
      BY <2>1, <3>2
  <2>3. DOMAIN usrlst' = DOMAIN usrlst
    BY <2>1
  <2>4. Atomic!ChangeUsername(req)
    BY <1>3, <2>1, <2>2, <2>3
       DEF Atomic!ChangeUsername, Atomic!OnlyUsers, Empty, Atomic!Empty
  <2>5. QED
    BY <1>6, <2>4
<1>16. QED
  BY <1>7, <1>8, <1>9, <1>10, <1>11, <1>13, <1>14, <1>15 DEF AccountStep

-----------------------------------------------------------------------------
(***************************************************************************)
(* /create.                                                                *)
(***************************************************************************)
\* A launch answers nothing, or refuses.
LEMMA LaunchSpeaks ==
  ASSUME NEW h \in Slots, NEW req, Launch(h, req)
  PROVE  Atomic!Silence \/ Atomic!Refuse(req)
BY DEF Launch, Silent, Atomic!Silence, Atomic!Refuse

\* What is said when a launched statement is over
LEMMA SettleSpeaks ==
  ASSUME NEW h \in Slots, NEW left, NEW fail, Settle(h, left, fail)
  PROVE  \/ Atomic!Silence
         \/ Atomic!Refuse(Req(h))
         \/ pc[h] = "ddl" /\ Atomic!Show(Req(h))
<1>1. PICK answered \in BOOLEAN, rejected \in BOOLEAN :
        /\ answered => pc[h] = "ddl"
        /\ response' = IF answered
                       THEN [Silent EXCEPT !.req = Req(h),
                                           !.status = IF rejected THEN 500 ELSE 200]
                       ELSE Silent
  BY DEF Settle
<1>2. \A status : /\ [Silent EXCEPT !.req = Req(h), !.status = status].req = Req(h)
                  /\ [Silent EXCEPT !.req = Req(h), !.status = status].status = status
                  /\ [Silent EXCEPT !.req = Req(h), !.status = status].text = Empty
  BY DEF Silent
<1>3. CASE ~answered
  BY <1>1, <1>3 DEF Silent, Atomic!Silence
<1>4. CASE answered /\ rejected
  BY <1>1, <1>2, <1>4 DEF Atomic!Refuse
<1>5. CASE answered /\ ~rejected
  <2>1. pc[h] = "ddl" /\ response' = [Silent EXCEPT !.req = Req(h), !.status = 200]
    BY <1>1, <1>5
  <2>2. response'.req = Req(h) /\ response'.status = 200 /\ response'.text = Empty
    BY <1>2, <2>1, Zenon
  <2>3. Empty = Atomic!Empty
    BY Zenon DEF Empty, Atomic!Empty
  <2>4. QED
    BY <2>1, <2>2, <2>3, Zenon DEF Atomic!Show
<1>6. QED
  BY <1>3, <1>4, <1>5

\* A bot's insertion is AtomicChat's EnrollBot.
LEMMA Enrolled ==
  ASSUME NEW bot \in {<<"bob", "Bob Bot", "Bob-bot">>, <<"joe", "Joe Bot", "Joe-bot">>},
         UsersNamed(bot[3]) = {}, AddUsr(bot[1], bot[2], bot[3]),
         UNCHANGED <<Book, Rooms, Joined, Log>>,
         NEW req \in Requests, req.op = "create", Atomic!Silence \/ Atomic!Refuse(req)
  PROVE  Atomic!Next
<1>1. Atomic!Named(bot[3]) = {}
  BY SameUsers
<1>2. usrlst' = Append(usrlst, [email |-> bot[1], password |-> bot[2],
                                username |-> bot[3]])
  BY DEF AddUsr
<1>3. Atomic!EnrollBot
  BY <1>1, <1>2 DEF Atomic!EnrollBot, Atomic!OnlyUsers
<1>4. QED
  BY <1>3 DEF Atomic!Next

\* /create enrolls the bots, then makes what no client sees.
LEMMA SchemaHandler ==
  ASSUME NEW h \in Slots, Standing, Typed, RefInv, PostInv, Windows, CreateInv,
         MoveOf(h), SchemaStep(h)
  PROVE  Atomic!Next
<1>1. PICK req : req = Req(h)
  OBVIOUS
<1>2. /\ pc[h] # "idle" /\ pc[h] \notin PendingLabels /\ pc'[h] \notin PendingLabels
      /\ req \in Requests /\ Fits(pc[h], req) /\ Window(h)
  <2>1. pc[h] # "idle" /\ pc[h] \notin PendingLabels
    BY StepsStart DEF PendingLabels
  <2>2. pc'[h] \notin PendingLabels
    BY SchemaLeads DEF PendingLabels
  <2>3. QED
    BY <1>1, <2>1, <2>2, Busy DEF Windows
<1>3. UNCHANGED <<contactslst, userconvolst, msglst>> /\ Grow
  BY SchemaLeaves, SchemaGrows
<1>4. UNCHANGED <<Book, Rooms, Joined, Log>>
  BY <1>2, <1>3, SameView
<1>5. ASSUME UNCHANGED usrlst, Atomic!Silence \/ Atomic!Refuse(req)
      PROVE  Atomic!Next
  BY <1>2, <1>4, <1>5, QuietStep DEF Unsaid
<1>6. ASSUME NEW m, NEW label, NEW w, Call(h, m, label, frame[h], w)
      PROVE  Atomic!Silence \/ Atomic!Refuse(req)
  BY <1>1, <1>6, SameRequest, CallSpeaks
<1>7. CASE CreateUsrlst(h)
  <2>1. UNCHANGED usrlst
    BY <1>7 DEF CreateUsrlst, rows
  <2>2. Atomic!Silence \/ Atomic!Refuse(req)
    BY <1>6, <1>7 DEF CreateUsrlst
  <2>3. QED
    BY <1>5, <2>1, <2>2
<1>8. CASE CreateBob(h)
  <2>1. UNCHANGED usrlst
    BY <1>8 DEF CreateBob, db, rows
  <2>2. Atomic!Silence \/ Atomic!Refuse(req)
    BY <1>6, <1>8 DEF CreateBob
  <2>3. QED
    BY <1>5, <2>1, <2>2
<1>9. CASE CreateAddBob(h)
  <2>1. req.op = "create" /\ UsersNamed("Bob-bot") = {}
    BY <1>1, <1>2, <1>9 DEF CreateAddBob, Reply, Fits, Window
  <2>2. Atomic!Silence \/ Atomic!Refuse(req)
    BY <1>6, <1>9 DEF CreateAddBob
  <2>3. AddUsr("bob", "Bob Bot", "Bob-bot")
    BY <1>9 DEF CreateAddBob
  <2>4. PICK bot : bot = <<"bob", "Bob Bot", "Bob-bot">>
    OBVIOUS
  <2>5. bot[1] = "bob" /\ bot[2] = "Bob Bot" /\ bot[3] = "Bob-bot"
    BY <2>4
  <2>6. QED
    BY <1>2, <1>4, <2>1, <2>2, <2>3, <2>4, <2>5, Enrolled
<1>10. CASE CreateJoe(h)
  <2>1. UNCHANGED usrlst
    BY <1>10 DEF CreateJoe, db, rows
  <2>2. Atomic!Silence \/ Atomic!Refuse(req)
    BY <1>1, <1>6, <1>10, LaunchSpeaks DEF CreateJoe
  <2>3. QED
    BY <1>5, <2>1, <2>2
<1>11. CASE CreateAddJoe(h)
  <2>1. req.op = "create" /\ UsersNamed("Joe-bot") = {}
    BY <1>1, <1>2, <1>11 DEF CreateAddJoe, Reply, Fits, Window
  <2>2. Atomic!Silence \/ Atomic!Refuse(req)
    BY <1>1, <1>11, LaunchSpeaks DEF CreateAddJoe
  <2>3. AddUsr("joe", "Joe Bot", "Joe-bot")
    BY <1>11 DEF CreateAddJoe
  <2>4. PICK bot : bot = <<"joe", "Joe Bot", "Joe-bot">>
    OBVIOUS
  <2>5. bot[1] = "joe" /\ bot[2] = "Joe Bot" /\ bot[3] = "Joe-bot"
    BY <2>4
  <2>6. QED
    BY <1>2, <1>4, <2>1, <2>2, <2>3, <2>4, <2>5, Enrolled
<1>12. ASSUME NEW m \in Modules, Migrate(h, m) \/ LaunchedError(h, m)
       PROVE  Atomic!Next
  <2>1. UNCHANGED usrlst
    BY <1>12 DEF Migrate, LaunchedError, db, rows
  <2>2. \/ Atomic!Silence
        \/ Atomic!Refuse(req)
        \/ pc[h] = "ddl" /\ Atomic!Show(req)
    BY <1>1, <1>12, SettleSpeaks DEF Migrate, LaunchedError
  <2>3. CASE pc[h] = "ddl" /\ Atomic!Show(req)
    <3>1. req.op = "create"
      BY <1>2, <2>3 DEF Fits, Standing
    <3>2. UsersNamed("Bob-bot") # {} /\ UsersNamed("Joe-bot") # {}
      BY <1>1, <2>3, <3>1 DEF CreateInv, CreateWindow, Named
    <3>3. {"Bob-bot", "Joe-bot"} \subseteq {usrlst[i].username : i \in DOMAIN usrlst}
      BY <3>2 DEF UsersNamed
    <3>4. Atomic!Created(req)
      BY <1>4, <2>1, <2>3, <3>1, <3>3 DEF Atomic!Created, Atomic!OnlyUsers
    <3>5. QED
      BY <1>2, <3>4 DEF Atomic!Next
  <2>4. QED
    BY <1>5, <2>1, <2>2, <2>3
<1>13. QED
  BY <1>7, <1>8, <1>9, <1>10, <1>11, <1>12, NothingDropped DEF SchemaStep
-----------------------------------------------------------------------------
\* A request's first call is no event of the service.
LEMMA ReceiveHandler ==
  ASSUME NEW h \in Slots, Typed, RefInv, PostInv, MoveOf(h), NEW req \in Requests,
         Receive(h, req)
  PROVE  Atomic!Next
<1>1. /\ Grow /\ UNCHANGED <<usrlst, contactslst, userconvolst, msglst>>
      /\ pc[h] \notin PendingLabels /\ pc'[h] \notin PendingLabels
  <2>1. Grow /\ UNCHANGED <<usrlst, contactslst, userconvolst, msglst>>
    BY UnchangedGrows DEF Receive, db, rows
  <2>2. pc[h] \notin PendingLabels
    BY DEF Receive, PendingLabels
  <2>3. pc'[h] \notin PendingLabels
    BY ReceiveLeads DEF PendingLabels
  <2>4. QED
    BY <2>1, <2>2, <2>3
<1>2. [NoFrame EXCEPT !.req = req].req = req
  BY DEF NoFrame
<1>3. Atomic!Silence \/ Atomic!Refuse(req)
  <2>1. PICK f : f = [NoFrame EXCEPT !.req = req] /\ f.req = req
    BY <1>2
  <2>2. CASE Launch(h, req)
    BY <2>2, LaunchSpeaks
  <2>3. ASSUME NEW m, NEW label, Call(h, m, label, f, NoWork)
        PROVE  Atomic!Silence \/ Atomic!Refuse(req)
    BY <2>1, <2>3, CallSpeaks
  <2>4. QED
    BY <2>1, <2>2, <2>3 DEF Receive
<1>4. QED
  BY <1>1, <1>3, QuietHandler DEF Unsaid

-----------------------------------------------------------------------------
(***************************************************************************)
(* Contacts.                                                               *)
(***************************************************************************)
\* What is one row longer is what Append makes.
LEMMA OneMoreRow ==
  ASSUME NEW m \in Nat, NEW f, NEW g, NEW row,
         DOMAIN f = 1 .. m, f = [i \in 1 .. m |-> f[i]],
         DOMAIN g = 1 .. m + 1, g = [i \in 1 .. m + 1 |-> g[i]],
         \A i \in 1 .. m : g[i] = f[i], g[m + 1] = row
  PROVE  g = Append(f, row)
<1> DEFINE S == {f[i] : i \in 1 .. m} \cup {row}
<1>1. f \in Seq(S) /\ Len(f) = m
  BY FunctionIsSeq
<1>2. \A i \in 1 .. m + 1 : g[i] \in S
  <2>1. \A i \in 1 .. m + 1 : i \in 1 .. m \/ i = m + 1
    OBVIOUS
  <2>2. (\A i \in 1 .. m : g[i] \in S) /\ g[m + 1] \in S
    OBVIOUS
  <2> HIDE DEF S
  <2>3. QED
    BY <2>1, <2>2
<1>3. g \in Seq(S) /\ Len(g) = m + 1
  <2>1. m + 1 \in Nat
    OBVIOUS
  <2> HIDE DEF S
  <2>2. QED
    BY <1>2, <2>1, FunctionIsSeq
<1>4. row \in S
  OBVIOUS
<1> HIDE DEF S
<1>5. Append(f, row) \in Seq(S) /\ Len(Append(f, row)) = m + 1
  BY <1>1, <1>4
<1>6. \A i \in 1 .. m + 1 : Append(f, row)[i] = g[i]
  <2>1. \A i \in 1 .. m + 1 : i \in 1 .. m \/ i = m + 1
    OBVIOUS
  <2>2. /\ \A i \in 1 .. m : Append(f, row)[i] = f[i]
        /\ Append(f, row)[m + 1] = row
    BY <1>1, <1>4
  <2>3. QED
    BY <2>1, <2>2
<1>7. QED
  BY <1>3, <1>5, <1>6, SeqEqual

\* The book has the rows of contactslst.
LEMMA BookRows ==
  ASSUME Typed
  PROVE  /\ DOMAIN contactslst = 1 .. Len(contactslst) /\ Len(contactslst) \in Nat
         /\ DOMAIN Book = DOMAIN contactslst /\ Len(Book) = Len(contactslst)
         /\ Book = [i \in 1 .. Len(contactslst) |-> Book[i]]
         /\ \A i \in DOMAIN Book :
              Book[i] = [user |-> EmailOf(contactslst[i].userid),
                         contact |-> EmailOf(contactslst[i].contactid),
                         favorite |-> contactslst[i].favorite]
<1>1. DOMAIN contactslst = 1 .. Len(contactslst) /\ Len(contactslst) \in Nat
  BY DEF Typed, RowsTypeOK
<1>2. /\ DOMAIN Book = DOMAIN contactslst
      /\ Book = [i \in 1 .. Len(contactslst) |-> Book[i]]
      /\ \A i \in DOMAIN Book :
           Book[i] = [user |-> EmailOf(contactslst[i].userid),
                      contact |-> EmailOf(contactslst[i].contactid),
                      favorite |-> contactslst[i].favorite]
  BY <1>1 DEF Book
<1>3. Len(Book) = Len(contactslst)
  <2> DEFINE S == {Book[i] : i \in 1 .. Len(contactslst)}
  <2>1. \A i \in 1 .. Len(contactslst) : Book[i] \in S
    OBVIOUS
  <2> HIDE DEF S
  <2>2. QED
    BY <1>1, <1>2, <2>1, FunctionIsSeq
<1>4. QED
  BY <1>1, <1>2, <1>3

\* AtomicChat lists as the server does.
LEMMA SameListing ==
  \A ids, n : Atomic!LatestFirst(ids, n) = LatestFirst(ids, n)
BY DEF Atomic!LatestFirst, LatestFirst

\* What the rows to be told are made of
LEMMA ContactColumns ==
  ASSUME RowsRefer, NEW i \in DOMAIN contactslst
  PROVE  \E id \in DOMAIN usrlst :
           /\ contactslst[i].contactid = id /\ EmailOf(id) = usrlst[id].email
           /\ ContactRow[i] = [contact_id |-> id, favorite |-> contactslst[i].favorite]
           /\ ContactTold[i] = [email |-> usrlst[id].email,
                                username |-> usrlst[id].username,
                                favorite |-> contactslst[i].favorite]
BY DEF RowsRefer, ContactRow, ContactTold, EmailOf

\* A list of contacts that has been told entirely
LEMMA ContactsTold ==
  ASSUME Typed, EmailUnique, RowsRefer, NEW req \in Requests, req.op = "getContacts",
         NEW user \in UsersWithEmail(req.email),
         NEW w, ContactsRead(user, w), w.todo = << >>, w.out \in Seq(Item),
         Atomic!Show(req), response'.data = w.out,
         UNCHANGED <<usrlst, Book, Rooms, Joined, Log>>
  PROVE  Atomic!Next
<1>0. PICK n \in Nat : n = Len(contactslst)
  BY BookRows
<1> DEFINE mine == ContactList(user, n)
<1>1. \A i \in DOMAIN usrlst : EmailOf(i) = req.email <=> i = user
  BY OneAccount
<1>2. {i \in 1 .. n : Book[i].user = req.email}
        = {i \in 1 .. n : contactslst[i].userid = user}
  <2>1. \A i \in 1 .. n : i \in DOMAIN Book /\ i \in DOMAIN contactslst
    BY <1>0, BookRows
  <2>2. \A i \in 1 .. n : Book[i].user = EmailOf(contactslst[i].userid)
    BY <2>1, BookRows
  <2>3. \A i \in 1 .. n : contactslst[i].userid \in DOMAIN usrlst
    BY <2>1 DEF RowsRefer
  <2>4. QED
    BY <1>1, <2>2, <2>3
<1>3. Atomic!LatestFirst({i \in 1 .. n : Book[i].user = req.email}, n) = mine
  BY <1>2, SameListing DEF ContactList
<1>4. /\ mine \in Seq(Nat)
      /\ \A k \in DOMAIN mine : mine[k] \in 1 .. n
  <2>1. Lists(mine, {i \in 1 .. n : contactslst[i].userid = user}, n)
    BY ListingIsComplete DEF ContactList
  <2>2. QED
    BY <2>1 DEF Lists
<1>5. /\ Len(mine) = Len(w.out) + 0
      /\ \A k \in 1 .. Len(w.out) : w.out[k] = ContactTold[mine[k]]
  BY <1>0 DEF ContactsRead, Partly
<1> HIDE DEF mine
<1>6. DOMAIN w.out = DOMAIN mine /\ DOMAIN mine = 1 .. Len(w.out)
  BY <1>4, <1>5
<1>7. ASSUME NEW k \in DOMAIN mine
      PROVE  \E i \in Atomic!WithEmail(Book[mine[k]].contact) :
               response'.data[k] = [email |-> usrlst[i].email,
                                    username |-> usrlst[i].username,
                                    favorite |-> Book[mine[k]].favorite]
  <2>1. mine[k] \in DOMAIN Book /\ mine[k] \in DOMAIN contactslst
    BY <1>0, <1>4, BookRows
  <2>2. PICK id \in DOMAIN usrlst :
          /\ contactslst[mine[k]].contactid = id /\ EmailOf(id) = usrlst[id].email
          /\ ContactTold[mine[k]] = [email |-> usrlst[id].email,
                                     username |-> usrlst[id].username,
                                     favorite |-> contactslst[mine[k]].favorite]
    BY <2>1, ContactColumns
  <2>3. /\ Book[mine[k]].contact = usrlst[id].email
        /\ Book[mine[k]].favorite = contactslst[mine[k]].favorite
    BY <2>1, <2>2, BookRows
  <2>4. response'.data[k] = ContactTold[mine[k]]
    BY <1>5, <1>6
  <2>5. id \in Atomic!WithEmail(Book[mine[k]].contact)
    BY <2>3 DEF Atomic!WithEmail
  <2>6. QED
    BY <2>2, <2>3, <2>4, <2>5
<1>8. n = Len(Book)
  BY <1>0, BookRows
<1>9. Atomic!GetContacts(req)
  BY <1>3, <1>6, <1>7, <1>8, Zenon DEF Atomic!GetContacts, Atomic!OnlyBook
<1>10. QED
  BY <1>9 DEF Atomic!Next

\* From w to v one more item has been looked up: where the others are now.
Moved(w, v, item) ==
  /\ Len(v.out) + Len(v.todo) = Len(w.out) + Len(w.todo)
  /\ \A k \in 1 .. Len(v.out) :
       \/ k \in 1 .. Len(w.out) /\ v.out[k] = w.out[k]
       \/ k = Len(w.out) + 1 /\ v.out[k] = item
  /\ \A k \in 1 .. Len(v.todo) :
       /\ k + 1 \in 1 .. Len(w.todo) /\ v.todo[k] = w.todo[k + 1]
       /\ Len(v.out) + k = Len(w.out) + (k + 1)
  /\ 1 \in 1 .. Len(w.todo) /\ Head(w.todo) = w.todo[1]

\* An item moves from the list to do to the list of answers.
LEMMA ItemMoves ==
  ASSUME NEW S, NEW T, NEW w, w.todo \in Seq(S), w.todo # << >>, w.out \in Seq(T),
         NEW item \in T, NEW v, v.todo = Tail(w.todo), v.out = Append(w.out, item)
  PROVE  Moved(w, v, item)
<1>1. PICK p \in Nat, q \in Nat : p = Len(w.out) /\ q = Len(w.todo)
  OBVIOUS
<1>2. /\ Len(v.out) = p + 1 /\ Len(v.todo) = q - 1 /\ q >= 1
      /\ \A k \in 1 .. p : v.out[k] = w.out[k]
      /\ v.out[p + 1] = item
      /\ \A k \in 1 .. q - 1 : v.todo[k] = w.todo[k + 1]
      /\ Head(w.todo) = w.todo[1]
  BY <1>1
<1>3. /\ (p + 1) + (q - 1) = p + q
      /\ 1 \in 1 .. q
      /\ \A k \in 1 .. p + 1 : k \in 1 .. p \/ k = p + 1
      /\ \A k \in 1 .. q - 1 : k + 1 \in 1 .. q /\ (p + 1) + k = p + (k + 1)
  <2>1. q >= 1
    BY <1>2
  <2>2. QED
    BY <2>1
<1>4. QED
  BY <1>1, <1>2, <1>3, Zenon DEF Moved

\* One more row has been told.
LEMMA ReadOn ==
  ASSUME NEW S, NEW ids, NEW told, NEW row, NEW w, Partly(ids, told, row, w),
         w.todo \in Seq(S), w.todo # << >>, w.out \in Seq(Item), NEW item \in Item,
         item = told[ids[Len(w.out) + 1]],
         NEW v, v.todo = Tail(w.todo), v.out = Append(w.out, item)
  PROVE  Partly(ids, told, row, v)
<1>1. /\ Len(ids) = Len(w.out) + Len(w.todo)
      /\ \A k \in 1 .. Len(w.out) : w.out[k] = told[ids[k]]
      /\ \A k \in 1 .. Len(w.todo) : w.todo[k] = row[ids[Len(w.out) + k]]
  BY DEF Partly
<1>2. Moved(w, v, item)
  BY ItemMoves, Zenon
<1>3. Len(ids) = Len(v.out) + Len(v.todo)
  BY <1>1, <1>2, Zenon DEF Moved
<1>4. \A k \in 1 .. Len(v.out) : v.out[k] = told[ids[k]]
  BY <1>1, <1>2, Zenon DEF Moved
<1>5. \A k \in 1 .. Len(v.todo) : v.todo[k] = row[ids[Len(v.out) + k]]
  BY <1>1, <1>2, Zenon DEF Moved
<1>6. QED
  BY <1>3, <1>4, <1>5 DEF Partly

\* The rows as they are first listed
LEMMA ReadFirst ==
  ASSUME NEW S, NEW ids \in Seq(Nat), NEW told, NEW row, NEW w, w.out = << >>,
         w.todo \in Seq(S), w.todo = [k \in DOMAIN ids |-> row[ids[k]]]
  PROVE  Partly(ids, told, row, w)
<1>1. DOMAIN ids = 1 .. Len(ids) /\ Len(ids) \in Nat
  OBVIOUS
<1>2. DOMAIN w.todo = DOMAIN ids
  OBVIOUS
<1>3. Len(w.todo) = Len(ids)
  BY <1>1, <1>2
<1>4. \A k \in 1 .. Len(w.todo) : w.todo[k] = row[ids[0 + k]]
  <2>1. \A k \in DOMAIN ids : w.todo[k] = row[ids[k]]
    OBVIOUS
  <2>2. \A k \in 1 .. Len(w.todo) : k \in DOMAIN ids /\ 0 + k = k
    BY <1>1, <1>3
  <2>3. QED
    BY <2>1, <2>2
<1>5. /\ Len(w.out) = 0 /\ Len(ids) = Len(w.out) + Len(w.todo)
      /\ \A k \in 1 .. Len(w.out) : FALSE
  BY <1>1, <1>3
<1>6. QED
  BY <1>4, <1>5 DEF Partly

\* The first row to do, of the rows listed
HeadIs(ids, row, w) ==
  Len(w.out) + 1 \in DOMAIN ids /\ Head(w.todo) = row[ids[Len(w.out) + 1]]

LEMMA HeadRow ==
  ASSUME NEW S, NEW ids \in Seq(Nat), NEW told, NEW row, NEW w, Partly(ids, told, row, w),
         w.todo \in Seq(S), w.todo # << >>, w.out \in Seq(Item)
  PROVE  HeadIs(ids, row, w)
<1>1. PICK p \in Nat, q \in Nat : p = Len(w.out) /\ q = Len(w.todo)
  OBVIOUS
<1>2. 1 \in 1 .. q /\ Head(w.todo) = w.todo[1]
  BY <1>1
<1>3. Len(ids) = p + q /\ w.todo[1] = row[ids[p + 1]]
  BY <1>1, <1>2 DEF Partly
<1>4. p + 1 \in 1 .. p + q
  BY <1>2
<1>5. p + 1 \in DOMAIN ids
  BY <1>3, <1>4
<1>6. QED
  BY <1>1, <1>2, <1>3, <1>5 DEF HeadIs

\* The user's contacts, just listed
LEMMA ContactsReadFirst ==
  ASSUME Typed, NEW user, NEW ids, ids = ContactList(user, Len(contactslst)),
         NEW w, w.out = << >>,
         w.todo = [k \in DOMAIN ids |-> [contact_id |-> contactslst[ids[k]].contactid,
                                         favorite |-> contactslst[ids[k]].favorite]]
  PROVE  ContactsRead(user, w)
<1>1. Lists(ids, {i \in DOMAIN contactslst : contactslst[i].userid = user},
            Len(contactslst))
  BY ContactListTyped
<1>2. ids \in Seq(Nat) /\ \A k \in DOMAIN ids : ids[k] \in DOMAIN contactslst
  BY <1>1 DEF Lists
<1>3. PICK todo : todo = [k \in DOMAIN ids |->
                            [contact_id |-> contactslst[ids[k]].contactid,
                             favorite |-> contactslst[ids[k]].favorite]]
  OBVIOUS
<1>4. todo \in Seq([contact_id : Nat, favorite : BOOLEAN])
  BY <1>3, ContactListTyped
<1>5. todo = [k \in DOMAIN ids |-> ContactRow[ids[k]]]
  BY <1>2, <1>3 DEF ContactRow
<1>6. w.todo = todo
  BY <1>3, Zenon
<1>7. /\ ids \in Seq(Nat) /\ w.out = << >> /\ w.todo \in Seq([contact_id : Nat, favorite : BOOLEAN])
      /\ w.todo = [k \in DOMAIN ids |-> ContactRow[ids[k]]]
  <2>1. w.todo \in Seq([contact_id : Nat, favorite : BOOLEAN])
    BY <1>4, <1>6, Zenon
  <2>2. w.todo = [k \in DOMAIN ids |-> ContactRow[ids[k]]]
    BY <1>5, <1>6, Zenon
  <2>3. QED
    BY <1>2, <2>1, <2>2, Zenon
<1>8. Partly(ids, ContactTold, ContactRow, w)
  BY <1>7, ReadFirst, Zenon
<1>9. QED
  BY <1>8 DEF ContactsRead

\* and after a look-up
LEMMA ContactsReadNext ==
  ASSUME NEW h \in Slots, Typed, Listed, RowsRefer, pc[h] = "getContacts:row", Polling(h),
         NEW item, item = [email |-> usrlst[Head(work[h].todo).contact_id].email,
                           username |-> usrlst[Head(work[h].todo).contact_id].username,
                           favorite |-> Head(work[h].todo).favorite],
         NEW v, v.todo = Tail(work[h].todo), v.out = Append(work[h].out, item)
  PROVE  ContactsRead(frame[h].user, v) /\ v.out \in Seq(Item)
<1>1. /\ work[h].todo \in Seq([contact_id : Nat, favorite : BOOLEAN])
      /\ work[h].todo # << >>
      /\ work[h].out \in Seq(Item)
  <2>1. TodoFits(pc[h], work[h]) /\ work[h].out \in Seq(Item)
    BY DEF Listed, WorkSet
  <2>2. TodoFits("getContacts:row", work[h])
    BY <2>1, Zenon
  <2>3. QED
    BY <2>1, <2>2, Zenon DEF TodoFits
<1>2. PICK w, user : w = work[h] /\ user = frame[h].user
  OBVIOUS
<1>3. PICK ids : ids = ContactList(user, Len(contactslst))
  OBVIOUS
<1>4. ids \in Seq(Nat) /\ \A k \in DOMAIN ids : ids[k] \in DOMAIN contactslst
  <2>1. Lists(ids, {i \in DOMAIN contactslst : contactslst[i].userid = user},
              Len(contactslst))
    BY <1>3, ContactListTyped
  <2>2. QED
    BY <2>1 DEF Lists
<1>5. Partly(ids, ContactTold, ContactRow, w)
  BY <1>2, <1>3 DEF Polling, ContactsRead
<1>6. PICK p : p = Len(w.out) + 1
  OBVIOUS
<1>7. p \in DOMAIN ids /\ Head(w.todo) = ContactRow[ids[p]]
  <2>1. /\ w.todo \in Seq([contact_id : Nat, favorite : BOOLEAN])
        /\ w.todo # << >> /\ w.out \in Seq(Item)
    BY <1>1, <1>2, Zenon
  <2>2. HeadIs(ids, ContactRow, w)
    BY <1>4, <1>5, <2>1, HeadRow, Zenon
  <2>3. QED
    BY <1>6, <2>2, Zenon DEF HeadIs
<1>8. item = ContactTold[ids[p]]
  <2>1. PICK i \in DOMAIN contactslst : i = ids[p]
    BY <1>4, <1>7
  <2>2. PICK id \in DOMAIN usrlst :
          /\ ContactRow[i] = [contact_id |-> id, favorite |-> contactslst[i].favorite]
          /\ ContactTold[i] = [email |-> usrlst[id].email,
                               username |-> usrlst[id].username,
                               favorite |-> contactslst[i].favorite]
    BY ContactColumns
  <2>3. Head(work[h].todo).contact_id = id
        /\ Head(work[h].todo).favorite = contactslst[i].favorite
    BY <1>2, <1>7, <2>1, <2>2
  <2>4. QED
    BY <2>1, <2>2, <2>3
<1>9. item \in Item
  <2>1. PICK id \in DOMAIN usrlst : Head(work[h].todo).contact_id = id
    <3>1. ids[p] \in DOMAIN contactslst
      BY <1>4, <1>7
    <3>2. PICK id \in DOMAIN usrlst :
            ContactRow[ids[p]] = [contact_id |-> id,
                                  favorite |-> contactslst[ids[p]].favorite]
      BY <3>1, ContactColumns, Zenon
    <3>3. Head(work[h].todo) = ContactRow[ids[p]]
      BY <1>2, <1>7, Zenon
    <3>4. QED
      BY <3>2, <3>3
  <2>2. Head(work[h].todo) \in [contact_id : Nat, favorite : BOOLEAN]
    BY <1>1, HeadTail
  <2>3. usrlst[id] \in Account
    BY RowOf DEF Typed, RowsTypeOK
  <2>4. item \in [email : Text, username : Text, favorite : BOOLEAN]
    BY <2>1, <2>2, <2>3 DEF Account
  <2>5. QED
    BY <2>4, ItemsAreItems
<1>10. Partly(ids, ContactTold, ContactRow, v)
  BY <1>1, <1>2, <1>5, <1>6, <1>8, <1>9, ReadOn, Zenon
<1>11. v.out \in Seq(Item)
  BY <1>1, <1>9
<1>12. QED
  BY <1>2, <1>3, <1>10, <1>11 DEF ContactsRead

\* The contact book's handlers happen at their last statement.
LEMMA ContactHandler ==
  ASSUME NEW h \in Slots, Typed, Typed', Listed, Listed', RefInv, PostInv, EmailUnique,
         ContactInv, Aware(pc[h], frame[h]), Polling(h), MoveOf(h), ContactStep(h)
  PROVE  Atomic!Next
<1>1. PICK req, user, contact :
        req = Req(h) /\ user = frame[h].user /\ contact = frame[h].contact
  OBVIOUS
<1>2. /\ pc[h] # "idle" /\ pc[h] \notin PendingLabels /\ pc'[h] \notin PendingLabels
      /\ req \in Requests /\ Fits(pc[h], req) /\ frame[h].req = req
  <2>1. pc[h] # "idle" /\ pc[h] \notin PendingLabels
    BY StepsStart DEF PendingLabels
  <2>2. pc'[h] \notin PendingLabels
    BY ContactLeads DEF PendingLabels
  <2>3. QED
    BY <1>1, <2>1, <2>2, Busy DEF Req
<1>3. UNCHANGED <<usrlst, Rooms, Joined, Log>> /\ (contactslst' = contactslst => Book' = Book)
  <2>1. UNCHANGED <<usrlst, userconvolst, msglst>> /\ Grow
    BY ContactLeads, ContactsGrow
  <2>2. QED
    BY <1>2, <2>1, SameView
<1>4. ASSUME UNCHANGED db, NEW f, f.req = req, NEW m, NEW label, NEW w,
             Call(h, m, label, f, w)
      PROVE  Atomic!Next
  BY <1>1, <1>2, <1>4, Onwards
<1>5. ASSUME UNCHANGED db, Fail(h, req)
      PROVE  Atomic!Next
  BY <1>1, <1>2, <1>5, Onwards
<1>6. /\ \A text : RespondText(h, text) => Atomic!Say(req, text)
      /\ \A data : RespondJson(h, data) => Atomic!Show(req) /\ response'.data = data
      /\ \A id : /\ [frame[h] EXCEPT !.user = id].req = req
                 /\ [frame[h] EXCEPT !.contact = id].req = req
  BY <1>1, AnswerSpeaks, SameRequest
<1>7. RowsRefer /\ ContactUnique
  BY DEF RefInv, ContactInv
<1>8. CASE PairUser(h)
  BY <1>1, <1>4, <1>5, <1>6, <1>8 DEF PairUser
<1>9. CASE PairContact(h)
  BY <1>1, <1>4, <1>5, <1>6, <1>9 DEF PairContact
<1>10. ASSUME pc[h] \in {"pair:exists", "addContact:insert", "favorite:update"}
       PROVE  Atomic!Entries(req.user, req.contact) = ContactRows(user, contact)
  <2>1. user \in UsersWithEmail(req.user) /\ contact \in UsersWithEmail(req.contact)
    BY <1>1, <1>2, <1>10 DEF Aware
  <2>2. QED
    BY <1>7, <2>1, EntriesAreRows
<1>11. CASE PairExists(h)
  <2>1. pc[h] = "pair:exists" /\ UNCHANGED db
    BY <1>11, Zenon DEF PairExists, Reply
  <2>2. ASSUME req.op = "addContact", Known(h), RespondText(h, "Contact already exists")
        PROVE  Atomic!Next
    <3>1. Atomic!Say(req, "Contact already exists")
      BY <1>6, <2>2, Zenon
    <3>2. ContactRows(user, contact) # {}
      BY <1>1, <2>2, Zenon DEF Known
    <3>3. Atomic!Entries(req.user, req.contact) # {}
      BY <1>10, <2>1, <3>2
    <3>4. Book' = Book
      BY <1>3, <2>1 DEF db, rows
    <3>5. UNCHANGED <<usrlst, Rooms, Joined, Log>>
      BY <1>3
    <3>6. Atomic!AddContact(req)
      BY <2>2, <3>1, <3>3, <3>4, <3>5, Zenon DEF Atomic!AddContact, Atomic!OnlyBook
    <3>7. QED
      BY <1>2, <3>6 DEF Atomic!Next
  <2>3. \/ /\ req.op = "addContact" /\ Known(h)
           /\ RespondText(h, "Contact already exists")
        \/ Call(h, "Contacts", "addContact:insert", frame[h], work[h])
        \/ Call(h, "Contacts", "favorite:update", frame[h], work[h])
        \/ Fail(h, req)
    BY <1>1, <1>11, Zenon DEF PairExists
  <2>4. frame[h].req = req
    BY <1>2
  <2>5. QED
    BY <1>4, <1>5, <2>1, <2>2, <2>3, <2>4, Zenon
<1>12. CASE AddContactInsert(h)
  <2>1. /\ pc[h] = "addContact:insert" /\ req.op = "addContact"
        /\ contactslst' = Append(contactslst, [userid |-> user, contactid |-> contact,
                                               favorite |-> FALSE])
        /\ Atomic!Say(req, "Success")
    BY <1>1, <1>2, <1>6, <1>12 DEF AddContactInsert, Reply, Fits
  <2>2. Atomic!Entries(req.user, req.contact) = {}
    BY <1>1, <1>10, <2>1 DEF ContactInv, ContactWindow, Known
  <2>3. EmailOf(user) = req.user /\ EmailOf(contact) = req.contact
    BY <1>1, <1>2, <2>1 DEF Aware, UsersWithEmail, EmailOf
  <2>4. PICK n \in Nat : n = Len(contactslst)
    BY BookRows
  <2>5. /\ DOMAIN contactslst' = 1 .. n + 1
        /\ \A i \in 1 .. n : contactslst'[i] = contactslst[i]
        /\ contactslst'[n + 1] = [userid |-> user, contactid |-> contact, favorite |-> FALSE]
    <3>1. contactslst \in Seq(Contact)
      BY DEF Typed, RowsTypeOK
    <3>2. QED
      BY <2>1, <2>4, <3>1
  <2>6. /\ DOMAIN Book' = 1 .. n + 1 /\ Book' = [i \in 1 .. n + 1 |-> Book'[i]]
        /\ \A i \in 1 .. n + 1 :
             Book'[i] = [user |-> EmailOf(contactslst'[i].userid),
                         contact |-> EmailOf(contactslst'[i].contactid),
                         favorite |-> contactslst'[i].favorite]
    BY <1>3, <2>5 DEF Book, EmailOf
  <2>7. /\ \A i \in 1 .. n : Book'[i] = Book[i]
        /\ Book'[n + 1] = [user |-> req.user, contact |-> req.contact, favorite |-> FALSE]
    <3>1. \A i \in 1 .. n : i \in 1 .. n + 1 /\ i \in DOMAIN Book
      BY <2>4, BookRows
    <3>2. n + 1 \in 1 .. n + 1
      BY <2>4
    <3>3. \A i \in 1 .. n :
            Book[i] = [user |-> EmailOf(contactslst[i].userid),
                       contact |-> EmailOf(contactslst[i].contactid),
                       favorite |-> contactslst[i].favorite]
      BY <3>1, BookRows
    <3>4. \A i \in 1 .. n : Book'[i] = Book[i]
      BY <2>5, <2>6, <3>1, <3>3
    <3>5. Book'[n + 1] = [user |-> EmailOf(contactslst'[n + 1].userid),
                          contact |-> EmailOf(contactslst'[n + 1].contactid),
                          favorite |-> contactslst'[n + 1].favorite]
      BY <2>6, <3>2
    <3>6. /\ contactslst'[n + 1].userid = user /\ contactslst'[n + 1].contactid = contact
          /\ contactslst'[n + 1].favorite = FALSE
      BY <2>5
    <3>7. QED
      BY <2>3, <3>4, <3>5, <3>6
  <2>8. Book' = Append(Book, [user |-> req.user, contact |-> req.contact,
                              favorite |-> FALSE])
    BY <2>4, <2>6, <2>7, BookRows, OneMoreRow
  <2>9. Atomic!AddContact(req)
    <3>1. UNCHANGED <<usrlst, Rooms, Joined, Log>>
      BY <1>3
    <3>2. QED
      BY <2>1, <2>2, <2>8, <3>1, Zenon DEF Atomic!AddContact, Atomic!OnlyBook
  <2>10. QED
    BY <1>2, <2>9 DEF Atomic!Next
<1>13. CASE FavoriteUpdate(h)
  <2>1. /\ pc[h] = "favorite:update" /\ req.op \in {"makeFavorite", "removeFavorite"}
        /\ contactslst' = [i \in DOMAIN contactslst |->
             IF i \in ContactRows(user, contact)
             THEN [contactslst[i] EXCEPT !.favorite = (req.op = "makeFavorite")]
             ELSE contactslst[i]]
        /\ Atomic!Say(req, "Success")
    BY <1>1, <1>2, <1>6, <1>13 DEF FavoriteUpdate, Reply, Fits
  <2>2. PICK i : i \in ContactRows(user, contact)
    BY <1>1, <2>1 DEF Aware
  <2>3. i \in DOMAIN contactslst /\ ContactRows(user, contact) = {i}
    BY <1>7, <2>2 DEF ContactUnique, ContactRows
  <2>4. /\ DOMAIN contactslst' = DOMAIN contactslst
        /\ \A j \in DOMAIN contactslst : j # i => contactslst'[j] = contactslst[j]
        /\ contactslst'[i] = [contactslst[i] EXCEPT !.favorite = (req.op = "makeFavorite")]
    BY <2>1, <2>3
  <2>5. contactslst[i] \in Contact
    BY <2>3, RowOf DEF Typed, RowsTypeOK
  <2>6. /\ contactslst'[i].userid = contactslst[i].userid
        /\ contactslst'[i].contactid = contactslst[i].contactid
        /\ contactslst'[i].favorite = (req.op = "makeFavorite")
    BY <2>4, <2>5 DEF Contact
  <2>7. Book' = [j \in DOMAIN contactslst |->
                   [user |-> EmailOf(contactslst'[j].userid),
                    contact |-> EmailOf(contactslst'[j].contactid),
                    favorite |-> contactslst'[j].favorite]]
    BY <1>3, <2>4 DEF Book, EmailOf
  <2>8. DOMAIN Book = DOMAIN contactslst /\ Book = [j \in DOMAIN contactslst |-> Book[j]]
        /\ \A j \in DOMAIN contactslst :
             Book[j] = [user |-> EmailOf(contactslst[j].userid),
                        contact |-> EmailOf(contactslst[j].contactid),
                        favorite |-> contactslst[j].favorite]
    BY BookRows
  <2>9. Book' = [Book EXCEPT ![i].favorite = (req.op = "makeFavorite")]
    <3>1. \A j \in DOMAIN contactslst : j # i => Book'[j] = Book[j]
      BY <2>4, <2>7, <2>8
    <3>2. Book'[i] = [Book[i] EXCEPT !.favorite = (req.op = "makeFavorite")]
      <4>1. Book'[i] = [user |-> EmailOf(contactslst[i].userid),
                        contact |-> EmailOf(contactslst[i].contactid),
                        favorite |-> (req.op = "makeFavorite")]
        BY <2>3, <2>6, <2>7
      <4>2. QED
        BY <2>3, <2>8, <4>1
    <3>3. DOMAIN Book' = DOMAIN contactslst /\ Book' = [j \in DOMAIN contactslst |-> Book'[j]]
      BY <2>7
    <3>4. QED
      BY <2>3, <2>8, <3>1, <3>2, <3>3
  <2>10. i \in Atomic!Entries(req.user, req.contact)
    BY <1>10, <2>1, <2>2
  <2>11. Atomic!Favorite(req)
    BY <1>3, <2>1, <2>9, <2>10 DEF Atomic!Favorite, Atomic!OnlyBook
  <2>12. QED
    BY <1>2, <2>11 DEF Atomic!Next
<1>14. CASE GetContactsUser(h)
  BY <1>1, <1>4, <1>5, <1>6, <1>14 DEF GetContactsUser
<1>15. ASSUME UNCHANGED db, NEW w, NEW todo, NEW out, req.op = "getContacts",
              user \in UsersWithEmail(req.email),
              w.todo = todo, w.out = out, ContactsRead(user, w),
              ContactsHelper(h, todo, out), out \in Seq(Item)
       PROVE  Atomic!Next
  <2>1. CASE todo # << >>
    BY <1>1, <1>2, <1>4, <1>15, <2>1 DEF ContactsHelper
  <2>2. CASE todo = << >> /\ RespondJson(h, out)
    <3>1. Atomic!Show(req) /\ response'.data = out
      BY <1>6, <2>2
    <3>2. Book' = Book
      BY <1>3, <1>15 DEF db, rows
    <3>3. QED
      BY <1>2, <1>3, <1>7, <1>15, <2>2, <3>1, <3>2, ContactsTold
  <2>3. QED
    BY <1>15, <2>1, <2>2 DEF ContactsHelper
<1>16. CASE GetContactsList(h)
  <2> DEFINE ids == ContactList(user, Len(contactslst))
             todo == [k \in DOMAIN ids |->
                        [contact_id |-> contactslst[ids[k]].contactid,
                         favorite |-> contactslst[ids[k]].favorite]]
             w == [todo |-> todo, out |-> << >>]
  <2>1. /\ pc[h] = "getContacts:list" /\ req.op = "getContacts" /\ UNCHANGED db
        /\ user \in UsersWithEmail(req.email) /\ ContactsHelper(h, todo, << >>)
    BY <1>1, <1>2, <1>16 DEF GetContactsList, Reply, Fits, Aware
  <2>2. ContactsRead(user, w)
    BY ContactsReadFirst
  <2>3. w.todo = todo /\ w.out = << >> /\ << >> \in Seq(Item)
    BY NoWorkTyped
  <2> HIDE DEF w, todo
  <2>4. QED
    BY <1>15, <2>1, <2>2, <2>3
<1>17. CASE GetContactsRow(h)
  <2>1. PICK item : item = [email |-> usrlst[Head(work[h].todo).contact_id].email,
                            username |-> usrlst[Head(work[h].todo).contact_id].username,
                            favorite |-> Head(work[h].todo).favorite]
    OBVIOUS
  <2>2. /\ pc[h] = "getContacts:row" /\ req.op = "getContacts" /\ UNCHANGED db
        /\ user \in UsersWithEmail(req.email)
        /\ \/ /\ Head(work[h].todo).contact_id \in DOMAIN usrlst
              /\ ContactsHelper(h, Tail(work[h].todo), Append(work[h].out, item))
           \/ Fail(h, req)
    BY <1>1, <1>2, <1>17, <2>1 DEF GetContactsRow, Reply, Fits, Aware
  <2>3. CASE Fail(h, req)
    BY <1>5, <2>2, <2>3
  <2>4. CASE /\ Head(work[h].todo).contact_id \in DOMAIN usrlst
             /\ ContactsHelper(h, Tail(work[h].todo), Append(work[h].out, item))
    <3>1. PICK w : w = [todo |-> Tail(work[h].todo), out |-> Append(work[h].out, item)]
      OBVIOUS
    <3>2. w.todo = Tail(work[h].todo) /\ w.out = Append(work[h].out, item)
      BY <3>1
    <3>3. ContactsRead(user, w) /\ w.out \in Seq(Item)
      BY <1>1, <1>7, <2>1, <2>2, <3>2, ContactsReadNext
    <3>4. QED
      BY <1>15, <2>2, <2>4, <3>2, <3>3
  <2>5. QED
    BY <2>2, <2>3, <2>4
<1>18. QED
  BY <1>8, <1>9, <1>11, <1>12, <1>13, <1>14, <1>16, <1>17 DEF ContactStep
-----------------------------------------------------------------------------
(***************************************************************************)
(* Conversations.                                                          *)
(***************************************************************************)
LEMMA JoinedRows ==
  ASSUME Typed
  PROVE  /\ DOMAIN userconvolst = 1 .. Len(userconvolst) /\ Len(userconvolst) \in Nat
         /\ DOMAIN Joined = DOMAIN userconvolst /\ Len(Joined) = Len(userconvolst)
         /\ Joined = [i \in 1 .. Len(userconvolst) |-> Joined[i]]
         /\ \A i \in DOMAIN Joined :
              Joined[i] = [room |-> userconvolst[i].conversation_id,
                           email |-> EmailOf(userconvolst[i].users_id)]
<1>1. DOMAIN userconvolst = 1 .. Len(userconvolst) /\ Len(userconvolst) \in Nat
  BY DEF Typed, RowsTypeOK
<1>2. /\ DOMAIN Joined = DOMAIN userconvolst
      /\ Joined = [i \in 1 .. Len(userconvolst) |-> Joined[i]]
      /\ \A i \in DOMAIN Joined :
           Joined[i] = [room |-> userconvolst[i].conversation_id,
                        email |-> EmailOf(userconvolst[i].users_id)]
  BY <1>1 DEF Joined
<1>3. Len(Joined) = Len(userconvolst)
  <2> DEFINE S == {Joined[i] : i \in 1 .. Len(userconvolst)}
  <2>1. \A i \in 1 .. Len(userconvolst) : Joined[i] \in S
    OBVIOUS
  <2> HIDE DEF S
  <2>2. QED
    BY <1>1, <1>2, <2>1, FunctionIsSeq
<1>4. QED
  BY <1>1, <1>2, <1>3

\* A conversation is a room once it has a member.
LEMMA RoomRows ==
  /\ \A id : id \in DOMAIN Rooms <=> MembersOf(id) # {}
  /\ \A id \in DOMAIN Rooms :
       Rooms[id] = [name |-> convolst[id].convo_name, creator |-> convolst[id].creator_name]
<1>1. DOMAIN Rooms = {userconvolst[i].conversation_id : i \in DOMAIN userconvolst}
  BY DEF Rooms
<1>2. \A id : id \in DOMAIN Rooms <=>
        \E i \in DOMAIN userconvolst : userconvolst[i].conversation_id = id
  BY <1>1
<1>3. \A id : MembersOf(id) # {} <=>
        \E i \in DOMAIN userconvolst : userconvolst[i].conversation_id = id
  BY DEF MembersOf
<1>4. QED
  BY <1>2, <1>3 DEF Rooms

\* A room's members are the emails of the conversation's.
LEMMA RoomMembers ==
  ASSUME NEW room
  PROVE  /\ {Joined[i].email : i \in {j \in DOMAIN Joined : Joined[j].room = room}}
              = EmailsOf(MembersOf(room))
         /\ Atomic!Members(room) = EmailsOf(MembersOf(room))
<1>1. /\ DOMAIN Joined = DOMAIN userconvolst
      /\ \A i \in DOMAIN userconvolst :
           Joined[i].room = userconvolst[i].conversation_id
           /\ Joined[i].email = usrlst[userconvolst[i].users_id].email
  BY DEF Joined, EmailOf
<1>2. {Joined[i].email : i \in {j \in DOMAIN Joined : Joined[j].room = room}}
        = EmailsOf(MembersOf(room))
  BY <1>1 DEF EmailsOf, MembersOf
<1>3. QED
  BY <1>2 DEF Atomic!Members

\* The rooms, with the room convo
Furnished(convo, name, creator) ==
  [id \in DOMAIN Rooms \cup {convo} |->
     IF id = convo THEN [name |-> name, creator |-> creator] ELSE Rooms[id]]

\* Somebody becomes a member.
LEMMA MemberJoins ==
  ASSUME Typed, RefInv, UNCHANGED <<usrlst, convolst>>,
         NEW convo \in DOMAIN convolst, NEW user, InsertMember(convo, user),
         NEW name, NEW creator,
         convolst[convo] = [convo_name |-> name, creator_name |-> creator]
  PROVE  /\ Joined' = Append(Joined, [room |-> convo, email |-> EmailOf(user)])
         /\ Rooms' = Furnished(convo, name, creator)
         /\ {Joined'[i].email : i \in {j \in DOMAIN Joined' : Joined'[j].room = convo}}
              = EmailsOf(MembersOf(convo))'
<1>1. PICK n \in Nat : n = Len(userconvolst)
  BY JoinedRows
<1>2. /\ DOMAIN userconvolst = 1 .. n /\ DOMAIN userconvolst' = 1 .. n + 1
      /\ \A i \in 1 .. n : userconvolst'[i] = userconvolst[i]
      /\ userconvolst'[n + 1] = [conversation_id |-> convo, users_id |-> user]
  <2>1. userconvolst \in Seq(Membership)
    BY DEF Typed, RowsTypeOK
  <2>2. QED
    BY <1>1, <2>1 DEF InsertMember
<1>3. Joined' = Append(Joined, [room |-> convo, email |-> EmailOf(user)])
  <2>1. /\ DOMAIN Joined' = 1 .. n + 1 /\ Joined' = [i \in 1 .. n + 1 |-> Joined'[i]]
        /\ \A i \in 1 .. n + 1 :
             Joined'[i] = [room |-> userconvolst'[i].conversation_id,
                           email |-> EmailOf(userconvolst'[i].users_id)]
    BY <1>2 DEF Joined, EmailOf
  <2>2. \A i \in 1 .. n : i \in 1 .. n + 1 /\ i \in DOMAIN Joined
    BY <1>1, JoinedRows
  <2>3. \A i \in 1 .. n : Joined[i] = [room |-> userconvolst[i].conversation_id,
                                       email |-> EmailOf(userconvolst[i].users_id)]
    BY <2>2, JoinedRows
  <2>4. \A i \in 1 .. n : Joined'[i] = Joined[i]
    BY <1>2, <2>1, <2>2, <2>3
  <2>5. n + 1 \in 1 .. n + 1
    BY <1>1
  <2>6. Joined'[n + 1] = [room |-> convo, email |-> EmailOf(user)]
    <3>1. Joined'[n + 1] = [room |-> userconvolst'[n + 1].conversation_id,
                            email |-> EmailOf(userconvolst'[n + 1].users_id)]
      BY <2>1, <2>5
    <3>2. /\ userconvolst'[n + 1].conversation_id = convo
          /\ userconvolst'[n + 1].users_id = user
      BY <1>2
    <3>3. QED
      BY <3>1, <3>2
  <2>7. QED
    BY <1>1, <2>1, <2>4, <2>6, JoinedRows, OneMoreRow
<1>4. Rooms' = Furnished(convo, name, creator)
  <2>1. {userconvolst'[i].conversation_id : i \in DOMAIN userconvolst'}
          = DOMAIN Rooms \cup {convo}
    <3>1. DOMAIN Rooms = {userconvolst[i].conversation_id : i \in 1 .. n}
      BY <1>2 DEF Rooms
    <3>2. \A i : i \in 1 .. n + 1 <=> i \in 1 .. n \/ i = n + 1
      BY <1>1
    <3>3. userconvolst'[n + 1].conversation_id = convo
      BY <1>2
    <3>4. \A i \in 1 .. n : userconvolst'[i].conversation_id = userconvolst[i].conversation_id
      BY <1>2
    <3>5. {userconvolst'[i].conversation_id : i \in 1 .. n + 1}
            = {userconvolst'[i].conversation_id : i \in 1 .. n}
                \cup {userconvolst'[n + 1].conversation_id}
      BY <3>2
    <3>6. QED
      BY <1>2, <3>1, <3>3, <3>4, <3>5
  <2>2. \A id \in DOMAIN Rooms : Rooms[id] =
          [name |-> convolst[id].convo_name, creator |-> convolst[id].creator_name]
    BY RoomRows
  <2>3. [name |-> convolst[convo].convo_name, creator |-> convolst[convo].creator_name]
          = [name |-> name, creator |-> creator]
    OBVIOUS
  <2>4. Rooms' = [id \in DOMAIN Rooms \cup {convo} |->
                    [name |-> convolst[id].convo_name, creator |-> convolst[id].creator_name]]
    BY <2>1 DEF Rooms
  <2>5. QED
    BY <2>2, <2>3, <2>4 DEF Furnished
<1>5. /\ DOMAIN Joined' = DOMAIN userconvolst'
      /\ \A i \in DOMAIN userconvolst' :
           Joined'[i].room = userconvolst'[i].conversation_id
           /\ Joined'[i].email = usrlst'[userconvolst'[i].users_id].email
  BY DEF Joined, EmailOf
<1>6. {Joined'[i].email : i \in {j \in DOMAIN Joined' : Joined'[j].room = convo}}
        = EmailsOf(MembersOf(convo))'
  BY <1>5 DEF EmailsOf, MembersOf
<1>7. QED
  BY <1>3, <1>4, <1>6

\* A list of conversations that has been told entirely
LEMMA ConvosTold ==
  ASSUME Typed, EmailUnique, RowsRefer, NEW req \in Requests, req.op = "getConversations",
         NEW user \in UsersWithEmail(req.email), NEW n \in 0 .. Len(userconvolst),
         NEW w, ConvosRead(user, req.email, w, n), w.todo = << >>, w.out \in Seq(Item),
         Atomic!Show(req), response'.data = w.out,
         UNCHANGED <<usrlst, Book, Rooms, Joined, Log>>
  PROVE  Atomic!Next
<1> DEFINE mine == MembershipList(user, n)
<1>1. \A i \in DOMAIN usrlst : EmailOf(i) = req.email <=> i = user
  BY OneAccount
<1>2. {i \in 1 .. n : Joined[i].email = req.email}
        = {i \in 1 .. n : userconvolst[i].users_id = user}
  <2>1. \A i \in 1 .. n : i \in DOMAIN Joined /\ i \in DOMAIN userconvolst
    BY JoinedRows
  <2>2. \A i \in 1 .. n : Joined[i].email = EmailOf(userconvolst[i].users_id)
    BY <2>1, JoinedRows
  <2>3. \A i \in 1 .. n : userconvolst[i].users_id \in DOMAIN usrlst
    BY <2>1 DEF RowsRefer
  <2>4. QED
    BY <1>1, <2>2, <2>3
<1>3. Atomic!LatestFirst({i \in 1 .. n : Joined[i].email = req.email}, n) = mine
  BY <1>2, SameListing DEF MembershipList
<1>4. /\ mine \in Seq(Nat)
      /\ \A k \in DOMAIN mine : mine[k] \in 1 .. n
  <2>1. Lists(mine, {i \in 1 .. n : userconvolst[i].users_id = user}, n)
    BY ListingIsComplete DEF MembershipList
  <2>2. QED
    BY <2>1 DEF Lists
<1>5. /\ Len(mine) = Len(w.out) + 0
      /\ \A k \in 1 .. Len(w.out) :
           Shown(w.out[k], userconvolst[mine[k]].conversation_id, req.email)
  BY DEF ConvosRead
<1> HIDE DEF mine
<1>6. DOMAIN w.out = DOMAIN mine /\ DOMAIN mine = 1 .. Len(w.out)
  BY <1>4, <1>5
<1>7. ASSUME NEW k \in DOMAIN mine
      PROVE  LET shown == response'.data[k]
                 room == Joined[mine[k]].room
             IN  /\ shown.conversation_id = room
                 /\ shown.conversation_name = Rooms[room].name
                 /\ shown.creator_email = Rooms[room].creator
                 /\ shown.users \subseteq Atomic!Members(room)
                 /\ {req.email, Rooms[room].creator} \subseteq shown.users
  <2>1. PICK room : room = userconvolst[mine[k]].conversation_id
    OBVIOUS
  <2>2. mine[k] \in DOMAIN Joined /\ mine[k] \in DOMAIN userconvolst
    BY <1>4, JoinedRows
  <2>3. Joined[mine[k]].room = room
    BY <2>1, <2>2, JoinedRows
  <2>4. room \in DOMAIN Rooms
    BY <2>1, <2>2 DEF Rooms
  <2>5. Rooms[room].name = convolst[room].convo_name
        /\ Rooms[room].creator = convolst[room].creator_name
    BY <2>4, RoomRows
  <2>6. Shown(response'.data[k], room, req.email)
    BY <1>5, <1>6, <2>1
  <2>7. QED
    BY <2>3, <2>5, <2>6, RoomMembers DEF Shown
<1>8. n \in 0 .. Len(Joined)
  BY JoinedRows
<1>9. Atomic!GetConversations(req)
  BY <1>3, <1>6, <1>7, <1>8 DEF Atomic!GetConversations, Atomic!OnlyRooms
<1>10. QED
  BY <1>9 DEF Atomic!Next

\* One more conversation has been looked up.
LEMMA ConvosReadOn ==
  ASSUME NEW S, NEW user, NEW email, NEW n \in Nat, NEW w, ConvosRead(user, email, w, n),
         w.todo \in Seq(S), w.todo # << >>, w.out \in Seq(Item), NEW item \in Item,
         Shown(item, Head(w.todo).conversation_id, email),
         NEW v, v.todo = Tail(w.todo), v.out = Append(w.out, item)
  PROVE  ConvosRead(user, email, v, n)
<1> DEFINE ids == MembershipList(user, n)
<1>1. /\ Len(ids) = Len(w.out) + Len(w.todo)
      /\ \A k \in 1 .. Len(w.out) :
           Shown(w.out[k], userconvolst[ids[k]].conversation_id, email)
      /\ \A k \in 1 .. Len(w.todo) :
           w.todo[k].conversation_id = userconvolst[ids[Len(w.out) + k]].conversation_id
  BY DEF ConvosRead
<1> HIDE DEF ids
<1>2. Moved(w, v, item)
  BY ItemMoves, Zenon
<1>3. Len(ids) = Len(v.out) + Len(v.todo)
  BY <1>1, <1>2, Zenon DEF Moved
<1>4. Shown(item, userconvolst[ids[Len(w.out) + 1]].conversation_id, email)
  BY <1>1, <1>2, Zenon DEF Moved
<1>5. \A k \in 1 .. Len(v.out) :
        Shown(v.out[k], userconvolst[ids[k]].conversation_id, email)
  BY <1>1, <1>2, <1>4, Zenon DEF Moved
<1>6. \A k \in 1 .. Len(v.todo) :
        v.todo[k].conversation_id = userconvolst[ids[Len(v.out) + k]].conversation_id
  BY <1>1, <1>2, Zenon DEF Moved
<1>7. QED
  BY <1>3, <1>5, <1>6 DEF ConvosRead, ids

\* The list just read is the memberships of this moment.
LEMMA ConvosReadFirst ==
  ASSUME Typed, NEW user, NEW email, NEW ids, ids = MembershipList(user, Len(userconvolst)),
         NEW w, w.out = << >>,
         w.todo = [k \in DOMAIN ids |->
                     [conversation_id |-> userconvolst[ids[k]].conversation_id,
                      user_id |-> userconvolst[ids[k]].users_id]]
  PROVE  /\ ConvosRead(user, email, w, Len(userconvolst))
         /\ Len(userconvolst) \in 0 .. Len(userconvolst)
<1>1. Lists(ids, {i \in DOMAIN userconvolst : userconvolst[i].users_id = user},
            Len(userconvolst))
  BY MembershipListTyped
<1>2. ids \in Seq(Nat)
  BY <1>1 DEF Lists
<1>3. DOMAIN ids = 1 .. Len(ids) /\ Len(ids) \in Nat
  BY <1>2
<1>4. w.todo \in Seq([conversation_id : Nat, user_id : Nat])
  <2>1. [k \in DOMAIN ids |->
           [conversation_id |-> userconvolst[ids[k]].conversation_id,
            user_id |-> userconvolst[ids[k]].users_id]]
          \in Seq([conversation_id : Nat, user_id : Nat])
    BY MembershipListTyped
  <2>2. QED
    BY <2>1, Zenon
<1>5. DOMAIN w.todo = DOMAIN ids
  OBVIOUS
<1>6. Len(w.todo) = Len(ids)
  BY <1>3, <1>4, <1>5
<1>7. \A k \in 1 .. Len(w.todo) :
        w.todo[k].conversation_id = userconvolst[ids[0 + k]].conversation_id
  <2>1. \A k \in DOMAIN ids : w.todo[k].conversation_id = userconvolst[ids[k]].conversation_id
    OBVIOUS
  <2>2. \A k \in 1 .. Len(w.todo) : k \in DOMAIN ids /\ 0 + k = k
    BY <1>3, <1>6
  <2>3. QED
    BY <2>1, <2>2
<1>8. /\ Len(w.out) = 0 /\ Len(ids) = Len(w.out) + Len(w.todo)
      /\ \A k \in 1 .. Len(w.out) : FALSE
  BY <1>3, <1>6
<1>9. ConvosRead(user, email, w, Len(userconvolst))
  BY <1>7, <1>8 DEF ConvosRead
<1>10. QED
  BY <1>9, JoinedRows

\* Telling one more conversation keeps the list one of a moment.
LEMMA ConvosReadNext ==
  ASSUME NEW h \in Slots, Typed, Listed, pc[h] = "getConversations:row",
         Reading(pc[h], frame[h], work[h]),
         NEW room, room = Head(work[h].todo).conversation_id, room \in DOMAIN convolst,
         NEW item, item = [conversation_name |-> convolst[room].convo_name,
                           conversation_id |-> room,
                           creator_email |-> convolst[room].creator_name,
                           users |-> work[h].users],
         NEW v, v.todo = Tail(work[h].todo), v.out = Append(work[h].out, item)
  PROVE  \E n \in 0 .. Len(userconvolst) :
           ConvosRead(frame[h].user, Req(h).email, v, n) /\ v.out \in Seq(Item)
<1>1. PICK n \in 0 .. Len(userconvolst) :
        ConvosRead(frame[h].user, Req(h).email, work[h], n)
  BY DEF Reading, Req
<1>2. /\ work[h].todo \in Seq([conversation_id : Nat, user_id : Nat])
      /\ work[h].todo # << >>
      /\ work[h].out \in Seq(Item) /\ work[h].users \subseteq Text
  BY DEF Listed, TodoFits, WorkSet
<1>3. item \in Item
  <2>1. room \in Nat
    <3>1. Head(work[h].todo) \in [conversation_id : Nat, user_id : Nat]
      BY <1>2, HeadTail
    <3>2. QED
      BY <3>1
  <2>2. convolst[room] \in Conversation
    BY RowOf DEF Typed, RowsTypeOK
  <2>3. item \in [conversation_name : Text, conversation_id : Nat,
                  creator_email : Text, users : SUBSET Text]
    BY <1>2, <2>1, <2>2 DEF Conversation
  <2>4. QED
    BY <2>3, ItemsAreItems
<1>4. Shown(item, Head(work[h].todo).conversation_id, Req(h).email)
  BY DEF Reading, Gathered, Shown, Req
<1>5. ConvosRead(frame[h].user, Req(h).email, v, n)
  <2>1. n \in Nat
    OBVIOUS
  <2>2. QED
    BY <1>1, <1>2, <1>3, <1>4, <2>1, ConvosReadOn, Zenon
<1>6. v.out \in Seq(Item)
  BY <1>2, <1>3
<1>7. QED
  BY <1>5, <1>6

\* The creator and the members join one by one.
LEMMA MakeHandler ==
  ASSUME NEW h \in Slots, Typed, Listed, RefInv, PostInv, EmailUnique,
         ConvoInv, BringInv, PartyInv,
         Aware(pc[h], frame[h]), Reading(pc[h], frame[h], work[h]), MoveOf(h),
         MakeConversationJoin(h) \/ MakeConversationMember(h)
           \/ MakeConversationCheck(h),
         NEW req, req = Req(h), UNCHANGED <<Book, Log>>
  PROVE  Atomic!Next
<1>1. PICK user, contact, convo :
        user = frame[h].user /\ contact = frame[h].contact /\ convo = frame[h].convo
  OBVIOUS
<1>2. /\ pc[h] \in {"makeConversation:join", "makeConversation:member",
                    "makeConversation:check"}
      /\ MakeConversationJoin(h) => pc[h] = "makeConversation:join"
      /\ MakeConversationMember(h) => pc[h] = "makeConversation:member"
      /\ MakeConversationCheck(h) => pc[h] = "makeConversation:check"
      /\ UNCHANGED <<usrlst, convolst>>
  BY DEF MakeConversationJoin, MakeConversationMember, MakeConversationCheck, Reply,
         OnlyUserconvolst, db, rows
<1>3. req \in Requests /\ req.op = "makeConversation" /\ frame[h].req = req
  BY <1>2, Busy DEF Fits, Req
<1>4. convo \in DOMAIN convolst /\ convolst[convo] = [convo_name |-> req.name,
                                                      creator_name |-> req.creator]
  <2>1. convo \in DOMAIN convolst
    BY <1>1, <1>2 DEF RefInv, Ref, Refers, WithConvo
  <2>2. convo # 0
    BY <2>1 DEF Typed, RowsTypeOK
  <2>3. QED
    BY <1>1, <1>3, <2>1, <2>2 DEF ConvoInv, LastIdIsMine
<1>5. user \in UsersWithEmail(req.creator) /\ EmailOf(user) = req.creator
  BY <1>1, <1>2, <1>3 DEF BringInv, Brought, Brings, Makes, UsersWithEmail, EmailOf
<1>6. Atomic!Invited(req) = EmailsIn(req.contacts)
  BY DEF Atomic!Invited, EmailsIn
<1>7. ASSUME MakeConversationMember(h) \/ MakeConversationCheck(h),
             NEW who, who = Head(work[h].todo).email
      PROVE  /\ who \in Atomic!Invited(req) /\ contact \in UsersWithEmail(who)
             /\ EmailOf(contact) = who
             /\ Atomic!Entries(req.creator, who) = ContactRows(user, contact)
  <2>1. /\ work[h].todo \in Seq([email : Text]) /\ work[h].todo # << >>
        /\ EmailsIn(work[h].todo) \subseteq EmailsIn(req.contacts)
    BY <1>2, <1>3, <1>7 DEF Listed, TodoFits, Reading, Joins
  <2>2. who \in EmailsIn(work[h].todo)
    BY <1>7, <2>1, EmailsOfHeadTail
  <2>3. contact \in UsersWithEmail(who)
    BY <1>1, <1>2, <1>7 DEF PartyInv, PartyOf, Party
  <2>4. EmailOf(contact) = who
    BY <2>3 DEF UsersWithEmail, EmailOf
  <2>5. Atomic!Entries(req.creator, who) = ContactRows(user, contact)
    BY <1>5, <2>3, EntriesAreRows DEF RefInv
  <2>6. QED
    BY <1>6, <2>1, <2>2, <2>3, <2>4, <2>5
<1>8. CASE MakeConversationCheck(h)
  <2>1. UNCHANGED db
    BY <1>8 DEF MakeConversationCheck
  <2>2. CASE ContactRows(user, contact) = {} /\ RespondText(h, "Failure")
    <3>1. Atomic!Say(req, "Failure")
      BY <2>2, AnswerSpeaks
    <3>2. UNCHANGED <<Rooms, Joined>>
      <4>1. UNCHANGED <<userconvolst, contactslst, msglst>> /\ Grow
        BY <2>1, UnchangedGrows DEF db, rows
      <4>2. pc[h] \notin PendingLabels /\ pc'[h] \notin PendingLabels
        BY <1>2, <2>2, AnswersPc DEF PendingLabels
      <4>3. QED
        BY <4>1, <4>2, SameView
    <3>3. \E who \in Atomic!Invited(req) : Atomic!Entries(req.creator, who) = {}
      BY <1>7, <1>8, <2>2
    <3>4. Atomic!Stranger(req)
      BY <1>2, <1>3, <3>1, <3>2, <3>3 DEF Atomic!Stranger, Atomic!OnlyRooms
    <3>5. QED
      BY <1>3, <3>4 DEF Atomic!Next
  <2>3. CASE Call(h, "UserConversation", "makeConversation:member", frame[h], work[h])
    <3>1. pc[h] # "idle" /\ pc[h] \notin PendingLabels /\ pc'[h] \notin PendingLabels
      BY <1>2, <2>3, CallPc DEF PendingLabels
    <3>2. QED
      BY <1>3, <2>1, <2>3, <3>1, Onwards
  <2>4. QED
    BY <1>1, <1>8, <2>2, <2>3 DEF MakeConversationCheck
<1>9. ASSUME NEW left,
             \/ MakeConversationJoin(h) /\ left = req.contacts
             \/ MakeConversationMember(h) /\ left = Tail(work[h].todo),
             GenUserConvos(h, left) \/ Fail(h, req)
      PROVE  Atomic!Welcome(req, convo)
  <2>1. CASE Fail(h, req)
    BY <2>1, AnswerSpeaks DEF Atomic!Welcome
  <2>2. CASE Call(h, "User", "makeConversation:contact", frame[h],
                  [work[h] EXCEPT !.todo = left])
    BY <1>3, <2>2, CallSpeaks DEF Atomic!Welcome
  <2>3. CASE left = << >> /\ RespondText(h, "Success")
    <3>1. Atomic!Say(req, "Success")
      BY <2>3, AnswerSpeaks
    <3>2. EmailsOf(MembersOf(convo))' \cup EmailsIn(left)
            = {req.creator} \cup EmailsIn(req.contacts)
      <4>1. Joining(h, left)
        BY <1>1, <1>2, <1>9 DEF Joining
      <4>2. EmailsOf(MembersOf(convo))' \cup EmailsIn(left)
              = {Req(h).creator} \cup EmailsIn(Req(h).contacts)
        BY <1>1, <1>2, <4>1, JoinParty
      <4>3. QED
        BY <1>1, <1>2, <4>2
    <3>3. EmailsIn(left) = {}
      BY <2>3 DEF EmailsIn
    <3>4. \E who : InsertMember(convo, who)
      BY <1>1, <1>9 DEF MakeConversationJoin, MakeConversationMember
    <3>5. {Joined'[i].email : i \in {j \in DOMAIN Joined' : Joined'[j].room = convo}}
            = EmailsOf(MembersOf(convo))'
      BY <1>2, <1>4, <3>4, MemberJoins
    <3>6. {Joined'[i].email : i \in {j \in DOMAIN Joined' : Joined'[j].room = convo}}
            = {req.creator} \cup Atomic!Invited(req)
      BY <1>6, <3>2, <3>3, <3>5
    <3>7. QED
      BY <3>1, <3>6 DEF Atomic!Welcome
  <2>4. QED
    BY <1>9, <2>1, <2>2, <2>3 DEF GenUserConvos
<1>10. CASE MakeConversationJoin(h)
  <2>1. InsertMember(convo, user)
    BY <1>1, <1>10 DEF MakeConversationJoin
  <2>2. Atomic!Welcome(req, convo)
    <3>1. GenUserConvos(h, req.contacts) \/ Fail(h, req)
      BY <1>10, Zenon DEF MakeConversationJoin
    <3>2. PICK left : left = req.contacts
      OBVIOUS
    <3>3. MakeConversationJoin(h) /\ left = req.contacts
      BY <1>10, <3>2
    <3>4. QED
      BY <1>9, <3>1, <3>2, <3>3
  <2>3. convo \notin DOMAIN Rooms
    <3>1. MembersOf(convo) = {}
      BY <1>1, <1>2, <1>10 DEF PartyInv, PartyOf, Party
    <3>2. QED
      BY <3>1, RoomRows
  <2>4. /\ Joined' = Append(Joined, [room |-> convo, email |-> req.creator])
        /\ Rooms' = [id \in DOMAIN Rooms \cup {convo} |->
                       IF id = convo THEN [name |-> req.name, creator |-> req.creator]
                                     ELSE Rooms[id]]
    <3>1. Joined' = Append(Joined, [room |-> convo, email |-> EmailOf(user)])
      BY <1>2, <1>4, <2>1, MemberJoins
    <3>2. Rooms' = Furnished(convo, req.name, req.creator)
      BY <1>2, <1>4, <2>1, MemberJoins
    <3>3. QED
      BY <1>5, <3>1, <3>2 DEF Furnished
  <2>5. convo \in (DOMAIN Rooms)' \ DOMAIN Rooms
    <3>1. (DOMAIN Rooms)' = DOMAIN Rooms \cup {convo}
      BY <2>4
    <3>2. QED
      BY <2>3, <3>1
  <2>6. Atomic!Open(req)
    BY <1>2, <1>3, <2>2, <2>4, <2>5 DEF Atomic!Open, Atomic!OnlyRooms
  <2>7. QED
    BY <1>3, <2>6 DEF Atomic!Next
<1>11. CASE MakeConversationMember(h)
  <2>1. PICK who : who = Head(work[h].todo).email
    OBVIOUS
  <2>2. /\ who \in Atomic!Invited(req) /\ EmailOf(contact) = who
        /\ Atomic!Entries(req.creator, who) # {}
    <3>1. ContactRows(user, contact) # {}
      BY <1>1, <1>2, <1>11 DEF BringInv, Brought, Brings
    <3>2. QED
      BY <1>7, <1>11, <2>1, <3>1
  <2>3. InsertMember(convo, contact)
    BY <1>1, <1>11 DEF MakeConversationMember
  <2>4. Atomic!Welcome(req, convo)
    BY <1>9, <1>11 DEF MakeConversationMember
  <2>5. convo \in DOMAIN Rooms
    <3>1. user \in MembersOf(convo)
      BY <1>1, <1>2, <1>11 DEF Aware, Joins
    <3>2. QED
      BY <3>1, RoomRows
  <2>6. Rooms[convo] = [name |-> req.name, creator |-> req.creator]
    BY <1>4, <2>5, RoomRows
  <2>7. Joined' = Append(Joined, [room |-> convo, email |-> who])
    <3>1. Joined' = Append(Joined, [room |-> convo, email |-> EmailOf(contact)])
      BY <1>2, <1>4, <2>3, MemberJoins
    <3>2. QED
      BY <2>2, <3>1
  <2>8. Rooms' = Rooms
    <3>1. Rooms' = Furnished(convo, req.name, req.creator)
      BY <1>2, <1>4, <2>3, MemberJoins
    <3>2. Rooms = [id \in DOMAIN Rooms |-> Rooms[id]]
      BY DEF Rooms
    <3>3. QED
      BY <2>5, <2>6, <3>1, <3>2 DEF Furnished
  <2>9. Atomic!Join(req)
    BY <1>2, <1>3, <2>2, <2>4, <2>5, <2>6, <2>7, <2>8 DEF Atomic!Join, Atomic!OnlyRooms
  <2>10. QED
    BY <1>3, <2>9 DEF Atomic!Next
<1>12. QED
  BY <1>8, <1>10, <1>11

\* Members come one by one; lists happen at some earlier moment.
LEMMA ConversationHandler ==
  ASSUME NEW h \in Slots, Typed, Listed, RefInv, PostInv, EmailUnique,
         ConvoInv, BringInv, PartyInv,
         Aware(pc[h], frame[h]), Reading(pc[h], frame[h], work[h]), MoveOf(h),
         ConversationStep(h)
  PROVE  Atomic!Next
<1>1. PICK req, user : req = Req(h) /\ user = frame[h].user
  OBVIOUS
<1>2. /\ pc[h] # "idle" /\ pc[h] \notin PendingLabels /\ pc'[h] \notin PendingLabels
      /\ req \in Requests /\ Fits(pc[h], req) /\ frame[h].req = req
  <2>1. pc[h] # "idle" /\ pc[h] \notin PendingLabels
    BY StepsStart DEF PendingLabels
  <2>2. pc'[h] \notin PendingLabels
    BY ConversationLeads DEF PendingLabels
  <2>3. QED
    BY <1>1, <2>1, <2>2, Busy DEF Req
<1>3. /\ UNCHANGED <<usrlst, contactslst, msglst, Book, Log>> /\ Grow
      /\ userconvolst' = userconvolst => Rooms' = Rooms /\ Joined' = Joined
  <2>1. UNCHANGED <<usrlst, contactslst, msglst>> /\ Grow
    BY ConversationLeads, ConversationsGrow
  <2>2. QED
    BY <1>2, <2>1, SameView
<1>4. ASSUME UNCHANGED db, NEW f, f.req = req, NEW m, NEW label, NEW w,
             Call(h, m, label, f, w)
      PROVE  Atomic!Next
  BY <1>1, <1>2, <1>4, Onwards
<1>5. ASSUME UNCHANGED db, Fail(h, req)
      PROVE  Atomic!Next
  BY <1>1, <1>2, <1>5, Onwards
<1>6. /\ \A data : RespondJson(h, data) => Atomic!Show(req) /\ response'.data = data
      /\ \A id : /\ [frame[h] EXCEPT !.user = id].req = req
                 /\ [frame[h] EXCEPT !.contact = id].req = req
                 /\ [frame[h] EXCEPT !.convo = id].req = req
  BY <1>1, AnswerSpeaks, SameRequest
<1>7. RowsRefer
  BY DEF RefInv
<1>8. CASE MakeConversationCreator(h)
  BY <1>1, <1>4, <1>5, <1>6, <1>8 DEF MakeConversationCreator
<1>9. CASE MakeConversationInsert(h)
  <2>1. UNCHANGED userconvolst
    BY <1>9 DEF MakeConversationInsert, OnlyConvolst
  <2>2. Atomic!Silence \/ Atomic!Refuse(req)
    BY <1>2, <1>9, CallSpeaks DEF MakeConversationInsert
  <2>3. QED
    BY <1>2, <1>3, <2>1, <2>2, QuietStep DEF Unsaid
<1>10. CASE MakeConversationId(h)
  BY <1>1, <1>4, <1>5, <1>6, <1>10 DEF MakeConversationId
<1>11. CASE MakeConversationContact(h)
  BY <1>1, <1>4, <1>5, <1>6, <1>11 DEF MakeConversationContact
<1>12. CASE \/ MakeConversationJoin(h) \/ MakeConversationMember(h)
            \/ MakeConversationCheck(h)
  BY <1>1, <1>3, <1>12, MakeHandler
<1>13. CASE GetConversationsUser(h)
  BY <1>1, <1>4, <1>5, <1>6, <1>13 DEF GetConversationsUser
<1>14. CASE GetConversationsUsers(h)
  BY <1>1, <1>2, <1>4, <1>14 DEF GetConversationsUsers
<1>15. ASSUME UNCHANGED db, NEW w, NEW todo, NEW out, req.op = "getConversations",
              user \in UsersWithEmail(req.email), NEW n \in 0 .. Len(userconvolst),
              w.todo = todo, w.out = out, ConvosRead(user, req.email, w, n),
              ConvoHelper(h, todo, out), out \in Seq(Item)
       PROVE  Atomic!Next
  <2>1. CASE todo # << >>
    BY <1>1, <1>2, <1>4, <1>15, <2>1 DEF ConvoHelper
  <2>2. CASE todo = << >> /\ RespondJson(h, out)
    <3>1. Atomic!Show(req) /\ response'.data = out
      BY <1>6, <2>2
    <3>2. Rooms' = Rooms /\ Joined' = Joined
      BY <1>3, <1>15 DEF db, rows
    <3>3. QED
      BY <1>2, <1>3, <1>7, <1>15, <2>2, <3>1, <3>2, ConvosTold
  <2>3. QED
    BY <1>15, <2>1, <2>2 DEF ConvoHelper
<1>16. CASE GetConversationsList(h)
  <2> DEFINE ids == MembershipList(user, Len(userconvolst))
             todo == [k \in DOMAIN ids |->
                        [conversation_id |-> userconvolst[ids[k]].conversation_id,
                         user_id |-> userconvolst[ids[k]].users_id]]
             w == [todo |-> todo, out |-> << >>]
  <2>1. /\ pc[h] = "getConversations:list" /\ req.op = "getConversations" /\ UNCHANGED db
        /\ user \in UsersWithEmail(req.email) /\ ConvoHelper(h, todo, << >>)
    BY <1>1, <1>2, <1>16 DEF GetConversationsList, Reply, Fits, Aware
  <2>2. w.todo = todo /\ w.out = << >> /\ << >> \in Seq(Item)
    BY NoWorkTyped
  <2>3. /\ ConvosRead(user, req.email, w, Len(userconvolst))
        /\ Len(userconvolst) \in 0 .. Len(userconvolst)
    BY <2>2, ConvosReadFirst
  <2> HIDE DEF w, todo
  <2>4. QED
    BY <1>15, <2>1, <2>2, <2>3
<1>17. CASE GetConversationsRow(h)
  <2>1. PICK room : room = Head(work[h].todo).conversation_id
    OBVIOUS
  <2>2. PICK item : item = [conversation_name |-> convolst[room].convo_name,
                            conversation_id |-> room,
                            creator_email |-> convolst[room].creator_name,
                            users |-> work[h].users]
    OBVIOUS
  <2>3. /\ pc[h] = "getConversations:row" /\ req.op = "getConversations" /\ UNCHANGED db
        /\ user \in UsersWithEmail(req.email)
        /\ \/ /\ room \in DOMAIN convolst
              /\ ConvoHelper(h, Tail(work[h].todo), Append(work[h].out, item))
           \/ Fail(h, req)
    BY <1>1, <1>2, <1>17, <2>1, <2>2 DEF GetConversationsRow, Reply, Fits, Aware
  <2>4. CASE Fail(h, req)
    BY <1>5, <2>3, <2>4
  <2>5. CASE /\ room \in DOMAIN convolst
             /\ ConvoHelper(h, Tail(work[h].todo), Append(work[h].out, item))
    <3>1. PICK w : w = [todo |-> Tail(work[h].todo), out |-> Append(work[h].out, item)]
      OBVIOUS
    <3>2. w.todo = Tail(work[h].todo) /\ w.out = Append(work[h].out, item)
      BY <3>1
    <3>3. PICK n \in 0 .. Len(userconvolst) :
            ConvosRead(user, req.email, w, n) /\ w.out \in Seq(Item)
      BY <1>1, <2>1, <2>2, <2>3, <2>5, <3>2, ConvosReadNext
    <3>4. QED
      BY <1>15, <2>3, <2>5, <3>2, <3>3
  <2>6. QED
    BY <2>3, <2>4, <2>5
<1>18. QED
  BY <1>8, <1>9, <1>10, <1>11, <1>12, <1>13, <1>14, <1>16, <1>17 DEF ConversationStep

-----------------------------------------------------------------------------
(***************************************************************************)
(* /getMessages.                                                           *)
(***************************************************************************)
LEMMA LogRows ==
  ASSUME Typed, PostInv
  PROVE  /\ Len(msglst) \in Nat /\ DOMAIN msglst = 1 .. Len(msglst)
         /\ Unfinished \in 0 .. Len(msglst) /\ Len(Log) = Len(msglst) - Unfinished
         /\ \A i \in 1 .. Len(Log) :
              /\ i \in DOMAIN msglst /\ Log[i].convo = msglst[i].convoid
              /\ Log[i].sender = EmailOf(msglst[i].senderid)
              /\ [by |-> Log[i].by, text |-> Log[i].text] = msglst[i].msg
<1>1. /\ Len(msglst) \in Nat /\ DOMAIN msglst = 1 .. Len(msglst)
      /\ Unfinished \in 0 .. Len(msglst)
  BY PendingOnce DEF Typed, RowsTypeOK
<1>2. PICK m \in Nat : m = Len(msglst) - Unfinished
  <2>1. Len(msglst) - Unfinished \in Nat
    BY <1>1
  <2>2. QED
    BY <2>1, Zenon
<1>3. DOMAIN Log = 1 .. m /\ Log = [i \in 1 .. m |-> Log[i]]
      /\ \A i \in 1 .. m :
           Log[i] = [sender |-> EmailOf(msglst[i].senderid), convo |-> msglst[i].convoid,
                     by |-> msglst[i].msg.by, text |-> msglst[i].msg.text]
  BY <1>2 DEF Log
<1>4. Len(Log) = m
  <2> DEFINE S == {Log[i] : i \in 1 .. m}
  <2>1. \A i \in 1 .. m : Log[i] \in S
    OBVIOUS
  <2> HIDE DEF S
  <2>2. QED
    BY <1>2, <1>3, <2>1, FunctionIsSeq
<1>5. ASSUME NEW i \in 1 .. m
      PROVE  /\ i \in DOMAIN msglst /\ Log[i].convo = msglst[i].convoid
             /\ Log[i].sender = EmailOf(msglst[i].senderid)
             /\ [by |-> Log[i].by, text |-> Log[i].text] = msglst[i].msg
  <2>1. i \in DOMAIN msglst
    BY <1>1, <1>2
  <2>2. msglst[i] \in StoredMessage
    BY <2>1, RowOf DEF Typed, RowsTypeOK
  <2>3. msglst[i].msg = [by |-> msglst[i].msg.by, text |-> msglst[i].msg.text]
    BY <2>2 DEF StoredMessage, Message
  <2>4. /\ Log[i].convo = msglst[i].convoid /\ Log[i].by = msglst[i].msg.by
        /\ Log[i].text = msglst[i].msg.text /\ Log[i].sender = EmailOf(msglst[i].senderid)
    BY <1>3
  <2>5. QED
    BY <2>1, <2>3, <2>4
<1>6. QED
  BY <1>1, <1>2, <1>4, <1>5

\* What the rows to be told are made of
LEMMA MessageColumns ==
  ASSUME RowsRefer, NEW i \in DOMAIN msglst
  PROVE  \E id \in DOMAIN usrlst :
           /\ msglst[i].senderid = id /\ EmailOf(id) = usrlst[id].email
           /\ MessageRow[i] = [senderid |-> id, msg |-> msglst[i].msg]
           /\ MessageTold[i] = [username |-> usrlst[id].username,
                                message |-> msglst[i].msg]
BY DEF RowsRefer, MessageRow, MessageTold, EmailOf

\* A conversation that has been told entirely
LEMMA MessagesTold ==
  ASSUME Typed, PostInv, RowsRefer, Unfinished = 0,
         NEW req \in Requests, req.op = "getMessages",
         NEW w, MessagesRead(req.convo, w), w.todo = << >>,
         w.out \in Seq(Item), Atomic!Show(req), response'.data = w.out,
         UNCHANGED <<usrlst, Book, Rooms, Joined, Log>>
  PROVE  Atomic!Next
<1>0. PICK n \in Nat : n = Len(msglst) /\ n = Len(Log)
  <2>1. Len(msglst) \in Nat /\ Len(Log) = Len(msglst) - Unfinished
    BY LogRows, Zenon
  <2>2. Len(Log) = Len(msglst)
    BY <2>1
  <2>3. QED
    BY <2>1, <2>2, Zenon
<1> DEFINE mine == MessageList(req.convo, n)
<1>2. {i \in 1 .. n : Log[i].convo = req.convo} = {i \in 1 .. n : msglst[i].convoid = req.convo}
  BY <1>0, LogRows
<1>3. Atomic!LatestFirst({i \in 1 .. n : Log[i].convo = req.convo}, n) = mine
  BY <1>2, SameListing DEF MessageList
<1>4. /\ mine \in Seq(Nat)
      /\ \A k \in DOMAIN mine : mine[k] \in 1 .. n
  <2>1. Lists(mine, {i \in 1 .. n : msglst[i].convoid = req.convo}, n)
    BY ListingIsComplete DEF MessageList
  <2>2. QED
    BY <2>1 DEF Lists
<1>5. /\ Len(mine) = Len(w.out) + 0
      /\ \A k \in 1 .. Len(w.out) : w.out[k] = MessageTold[mine[k]]
  BY <1>0 DEF MessagesRead, Partly
<1> HIDE DEF mine
<1>6. DOMAIN w.out = DOMAIN mine /\ DOMAIN mine = 1 .. Len(w.out)
  BY <1>4, <1>5
<1>7. ASSUME NEW k \in DOMAIN mine
      PROVE  \E i \in Atomic!WithEmail(Log[mine[k]].sender) :
               response'.data[k] = [username |-> usrlst[i].username,
                                    message |-> [by |-> Log[mine[k]].by,
                                                 text |-> Log[mine[k]].text]]
  <2>1. mine[k] \in 1 .. Len(Log)
    BY <1>0, <1>4
  <2>2. PICK i \in DOMAIN msglst : i = mine[k]
    BY <2>1, LogRows
  <2>3. /\ Log[i].sender = EmailOf(msglst[i].senderid)
        /\ [by |-> Log[i].by, text |-> Log[i].text] = msglst[i].msg
    BY <2>1, <2>2, LogRows, Zenon
  <2>4. PICK id \in DOMAIN usrlst :
          /\ msglst[i].senderid = id /\ EmailOf(id) = usrlst[id].email
          /\ MessageTold[i] = [username |-> usrlst[id].username, message |-> msglst[i].msg]
    BY MessageColumns
  <2>5. response'.data[k] = MessageTold[i]
    BY <1>5, <1>6, <2>2
  <2>6. id \in Atomic!WithEmail(Log[mine[k]].sender)
    BY <2>2, <2>3, <2>4 DEF Atomic!WithEmail
  <2>7. QED
    BY <2>2, <2>3, <2>4, <2>5, <2>6
<1>8. /\ Atomic!LatestFirst({i \in 1 .. Len(Log) : Log[i].convo = req.convo}, Len(Log))
           = mine
      /\ DOMAIN response'.data = DOMAIN mine
  BY <1>0, <1>3, <1>6, Zenon
<1>9. Atomic!GetMessages(req)
  BY <1>7, <1>8, Zenon DEF Atomic!GetMessages
<1>10. QED
  BY <1>9 DEF Atomic!Next

\* The list just read is the conversation at this moment.
LEMMA MessagesReadFirst ==
  ASSUME Typed, NEW convo, NEW ids, ids = MessageList(convo, Len(msglst)),
         NEW w, w.out = << >>,
         w.todo = [k \in DOMAIN ids |-> [senderid |-> msglst[ids[k]].senderid,
                                         msg |-> msglst[ids[k]].msg]]
  PROVE  MessagesRead(convo, w)
<1>1. Lists(ids, {i \in DOMAIN msglst : msglst[i].convoid = convo}, Len(msglst))
  BY MessageListTyped
<1>2. ids \in Seq(Nat) /\ \A k \in DOMAIN ids : ids[k] \in DOMAIN msglst
  BY <1>1 DEF Lists
<1>3. PICK todo : todo = [k \in DOMAIN ids |-> [senderid |-> msglst[ids[k]].senderid,
                                               msg |-> msglst[ids[k]].msg]]
  OBVIOUS
<1>4. todo \in Seq([senderid : Nat, msg : Message])
  BY <1>3, MessageListTyped
<1>5. todo = [k \in DOMAIN ids |-> MessageRow[ids[k]]]
  BY <1>2, <1>3 DEF MessageRow
<1>6. w.todo = todo
  BY <1>3, Zenon
<1>7. /\ ids \in Seq(Nat) /\ w.out = << >> /\ w.todo \in Seq([senderid : Nat, msg : Message])
      /\ w.todo = [k \in DOMAIN ids |-> MessageRow[ids[k]]]
  <2>1. w.todo \in Seq([senderid : Nat, msg : Message])
    BY <1>4, <1>6, Zenon
  <2>2. w.todo = [k \in DOMAIN ids |-> MessageRow[ids[k]]]
    BY <1>5, <1>6, Zenon
  <2>3. QED
    BY <1>2, <2>1, <2>2, Zenon
<1>8. Partly(ids, MessageTold, MessageRow, w)
  BY <1>7, ReadFirst, Zenon
<1>9. QED
  BY <1>8 DEF MessagesRead

\* Telling one more message keeps the list one of this moment.
LEMMA MessagesReadNext ==
  ASSUME NEW h \in Slots, Typed, Listed, RowsRefer, pc[h] = "getMessages:row", Polling(h),
         NEW message, message = Head(work[h].todo),
         NEW item, item = [username |-> usrlst[message.senderid].username,
                           message |-> message.msg],
         NEW v, v.todo = Tail(work[h].todo), v.out = Append(work[h].out, item)
  PROVE  MessagesRead(Req(h).convo, v) /\ v.out \in Seq(Item)
<1>1. /\ work[h].todo \in Seq([senderid : Nat, msg : Message]) /\ work[h].todo # << >>
      /\ work[h].out \in Seq(Item)
  <2>1. TodoFits(pc[h], work[h]) /\ work[h].out \in Seq(Item)
    BY DEF Listed, WorkSet
  <2>2. TodoFits("getMessages:row", work[h])
    BY <2>1, Zenon
  <2>3. QED
    BY <2>1, <2>2, Zenon DEF TodoFits
<1>2. PICK w, convo : w = work[h] /\ convo = Req(h).convo
  OBVIOUS
<1>3. PICK ids : ids = MessageList(convo, Len(msglst))
  OBVIOUS
<1>4. ids \in Seq(Nat) /\ \A k \in DOMAIN ids : ids[k] \in DOMAIN msglst
  <2>1. Lists(ids, {i \in DOMAIN msglst : msglst[i].convoid = convo}, Len(msglst))
    BY <1>3, MessageListTyped
  <2>2. QED
    BY <2>1 DEF Lists
<1>5. Partly(ids, MessageTold, MessageRow, w)
  BY <1>2, <1>3 DEF Polling, MessagesRead
<1>6. PICK p : p = Len(w.out) + 1
  OBVIOUS
<1>7. p \in DOMAIN ids /\ Head(w.todo) = MessageRow[ids[p]]
  <2>1. /\ w.todo \in Seq([senderid : Nat, msg : Message])
        /\ w.todo # << >> /\ w.out \in Seq(Item)
    BY <1>1, <1>2, Zenon
  <2>2. HeadIs(ids, MessageRow, w)
    BY <1>4, <1>5, <2>1, HeadRow, Zenon
  <2>3. QED
    BY <1>6, <2>2, Zenon DEF HeadIs
<1>8. PICK i \in DOMAIN msglst : i = ids[p]
  BY <1>4, <1>7
<1>9. PICK id \in DOMAIN usrlst :
        /\ MessageRow[i] = [senderid |-> id, msg |-> msglst[i].msg]
        /\ MessageTold[i] = [username |-> usrlst[id].username, message |-> msglst[i].msg]
  BY MessageColumns
<1>10. message.senderid = id /\ message.msg = msglst[i].msg
  BY <1>2, <1>7, <1>8, <1>9
<1>11. item = MessageTold[ids[p]]
  BY <1>8, <1>9, <1>10
<1>12. item \in Item
  <2>1. message \in [senderid : Nat, msg : Message]
    BY <1>1, HeadTail
  <2>2. usrlst[id] \in Account
    BY RowOf DEF Typed, RowsTypeOK
  <2>3. item \in [username : Text, message : Message]
    BY <1>10, <2>1, <2>2 DEF Account
  <2>4. QED
    BY <2>3, ItemsAreItems
<1>13. Partly(ids, MessageTold, MessageRow, v)
  BY <1>1, <1>2, <1>5, <1>6, <1>11, <1>12, ReadOn, Zenon
<1>14. v.out \in Seq(Item)
  BY <1>1, <1>12
<1>15. QED
  BY <1>2, <1>3, <1>13, <1>14 DEF MessagesRead

\* A post happens at its insertions, a poll when it is answered.
LEMMA MessageHandler ==
  ASSUME NEW h \in Slots, Typed, Typed', Listed, RefInv, PostInv, BotEmails',
         Signed(msglst'), Polling(h), Grow, MoveOf(h), MessageStep(h)
  PROVE  Atomic!Next
<1>1. PICK req : req = Req(h)
  OBVIOUS
<1>2. CASE PostMessageUser(h) \/ PostMessageBob(h) \/ PostMessageJoe(h)
  BY <1>2, PostHandler
<1>3. ASSUME pc[h] \in {"postMessage:sender", "getMessages:list", "getMessages:row"}
      PROVE  /\ pc[h] # "idle" /\ pc[h] \notin PendingLabels
             /\ req \in Requests /\ Fits(pc[h], req) /\ frame[h].req = req
  BY <1>1, <1>3, Busy DEF Req, PendingLabels
<1>4. CASE PostMessageSender(h)
  <2>1. /\ pc[h] = "postMessage:sender" /\ UNCHANGED db
        /\ \/ \E id : Call(h, "Storage", "postMessage:user",
                           [frame[h] EXCEPT !.user = id], work[h])
           \/ Fail(h, req)
    BY <1>1, <1>4 DEF PostMessageSender, Reply
  <2>2. pc'[h] \notin PendingLabels
    BY <2>1, CallSpeaks, AnswersPc DEF PendingLabels
  <2>3. \A id : [frame[h] EXCEPT !.user = id].req = req
    BY <1>1, SameRequest
  <2>4. QED
    BY <1>1, <1>3, <2>1, <2>2, <2>3, Onwards
<1>5. ASSUME pc[h] \in {"getMessages:list", "getMessages:row"}, UNCHANGED db,
             NEW w, NEW todo, NEW out, Unfinished = 0,
             w.todo = todo, w.out = out, MessagesRead(req.convo, w),
             InterpretMsglist(h, todo, out), out \in Seq(Item)
      PROVE  Atomic!Next
  <2>1. CASE /\ todo # << >>
             /\ Call(h, "User", "getMessages:row", frame[h],
                     [work[h] EXCEPT !.todo = todo, !.out = out])
    <3>1. pc'[h] \notin PendingLabels
      BY <2>1, CallSpeaks DEF PendingLabels
    <3>2. QED
      BY <1>1, <1>3, <1>5, <2>1, <3>1, Onwards
  <2>2. CASE todo = << >> /\ RespondJson(h, out)
    <3>1. Atomic!Show(req) /\ response'.data = out
      BY <1>1, <2>2, AnswerSpeaks
    <3>2. pc'[h] \notin PendingLabels
      BY <2>2, AnswersPc DEF PendingLabels
    <3>3. UNCHANGED <<usrlst, contactslst, userconvolst, msglst>>
      BY <1>5 DEF db, rows
    <3>4. UNCHANGED <<usrlst, Book, Rooms, Joined, Log>>
      BY <1>3, <1>5, <3>2, <3>3, SameView
    <3>5. req.op = "getMessages"
      BY <1>3, <1>5 DEF Fits
    <3>6. QED
      BY <1>3, <1>5, <2>2, <3>1, <3>4, <3>5, MessagesTold DEF RefInv
  <2>3. QED
    BY <1>5, <2>1, <2>2 DEF InterpretMsglist
<1>6. CASE GetMessagesList(h)
  <2> DEFINE ids == MessageList(req.convo, Len(msglst))
             todo == [k \in DOMAIN ids |-> [senderid |-> msglst[ids[k]].senderid,
                                            msg |-> msglst[ids[k]].msg]]
             w == [todo |-> todo, out |-> << >>]
  <2>1. /\ pc[h] = "getMessages:list" /\ "Storage" \in calls[h] /\ UNCHANGED db
        /\ InterpretMsglist(h, todo, << >>)
    BY <1>1, <1>6 DEF GetMessagesList, Reply
  <2>2. w.todo = todo /\ w.out = << >> /\ << >> \in Seq(Item)
    BY NoWorkTyped
  <2>3. MessagesRead(req.convo, w)
    BY <2>2, MessagesReadFirst
  <2>4. Unfinished = 0
    <3>1. \A g \in Slots : pc[g] \in PendingLabels => "Storage" \in calls[g]
      BY DEF PostInv, PostWindow, PendingLabels
    <3>2. \A g \in Slots : pc[g] \notin PendingLabels
      BY <1>3, <2>1, <3>1 DEF Typed, Exclusive
    <3>3. QED
      BY <3>2, NothingPending, UnfinishedWaits
  <2> HIDE DEF w, todo
  <2>5. QED
    BY <1>5, <2>1, <2>2, <2>3, <2>4
<1>7. CASE GetMessagesRow(h)
  <2>1. PICK message : message = Head(work[h].todo)
    OBVIOUS
  <2>2. PICK item : item = [username |-> usrlst[message.senderid].username,
                            message |-> message.msg]
    OBVIOUS
  <2>3. /\ pc[h] = "getMessages:row" /\ UNCHANGED db
        /\ \/ /\ message.senderid \in DOMAIN usrlst
              /\ InterpretMsglist(h, Tail(work[h].todo), Append(work[h].out, item))
           \/ Fail(h, req)
    BY <1>1, <1>7, <2>1, <2>2 DEF GetMessagesRow, Reply
  <2>4. CASE Fail(h, req)
    <3>1. pc'[h] \notin PendingLabels
      BY <2>4, AnswersPc DEF PendingLabels
    <3>2. QED
      BY <1>1, <1>3, <2>3, <2>4, <3>1, Onwards
  <2>5. CASE /\ message.senderid \in DOMAIN usrlst
             /\ InterpretMsglist(h, Tail(work[h].todo), Append(work[h].out, item))
    <3>1. PICK w : w = [todo |-> Tail(work[h].todo), out |-> Append(work[h].out, item)]
      OBVIOUS
    <3>2. w.todo = Tail(work[h].todo) /\ w.out = Append(work[h].out, item)
      BY <3>1
    <3>3. MessagesRead(req.convo, w) /\ w.out \in Seq(Item)
      BY <1>1, <2>1, <2>2, <2>3, <3>2, MessagesReadNext DEF RefInv
    <3>4. Unfinished = 0
      <4>1. \A g \in Slots : pc[g] \notin PendingLabels
        BY <2>3 DEF Polling, PostLabels, PendingLabels
      <4>2. QED
        BY <4>1, NothingPending, UnfinishedWaits
    <3>5. QED
      BY <1>5, <2>3, <2>5, <3>2, <3>3, <3>4
  <2>6. QED
    BY <2>3, <2>4, <2>5
<1>8. QED
  BY <1>2, <1>4, <1>6, <1>7 DEF MessageStep

-----------------------------------------------------------------------------
(***************************************************************************)
(* What a handler knows stays true while rows only come.                   *)
(***************************************************************************)
LEMMA MoreRows ==
  ASSUME Typed, Typed', Grow
  PROVE  /\ Len(contactslst) \in Nat /\ Len(contactslst') \in Nat
         /\ Len(contactslst) <= Len(contactslst')
         /\ Len(userconvolst) \in Nat /\ Len(userconvolst') \in Nat
         /\ Len(userconvolst) <= Len(userconvolst')
         /\ Len(msglst) \in Nat /\ Len(msglst') \in Nat /\ Len(msglst) <= Len(msglst')
         /\ DOMAIN contactslst = 1 .. Len(contactslst)
         /\ DOMAIN userconvolst = 1 .. Len(userconvolst)
         /\ DOMAIN msglst = 1 .. Len(msglst) /\ DOMAIN msglst' = 1 .. Len(msglst')
<1>1. ASSUME NEW S, NEW T, NEW s \in Seq(S), NEW t \in Seq(T),
             \A i \in DOMAIN s : i \in DOMAIN t
      PROVE  Len(s) \in Nat /\ Len(t) \in Nat /\ Len(s) <= Len(t)
  <2>1. PICK p \in Nat, q \in Nat : p = Len(s) /\ q = Len(t)
    OBVIOUS
  <2>2. \A i \in 1 .. p : i \in 1 .. q
    BY <1>1, <2>1
  <2>3. p <= q
    <3>1. CASE p = 0
      BY <3>1
    <3>2. CASE p # 0
      <4>1. p \in 1 .. p
        BY <3>2
      <4>2. p \in 1 .. q
        BY <2>2, <4>1
      <4>3. QED
        BY <4>2
    <3>3. QED
      BY <3>1, <3>2
  <2>4. QED
    BY <2>1, <2>3
<1>2. /\ contactslst \in Seq(Contact) /\ contactslst' \in Seq(Contact)
      /\ userconvolst \in Seq(Membership) /\ userconvolst' \in Seq(Membership)
      /\ msglst \in Seq(StoredMessage) /\ msglst' \in Seq(StoredMessage)
  BY DEF Typed, RowsTypeOK
<1>3. /\ \A i \in DOMAIN contactslst : i \in DOMAIN contactslst'
      /\ \A i \in DOMAIN userconvolst : i \in DOMAIN userconvolst'
      /\ \A i \in DOMAIN msglst : i \in DOMAIN msglst'
  BY DEF Grow
<1>4. Len(contactslst) \in Nat /\ Len(contactslst') \in Nat
      /\ Len(contactslst) <= Len(contactslst')
  BY <1>1, <1>2, <1>3
<1>5. Len(userconvolst) \in Nat /\ Len(userconvolst') \in Nat
      /\ Len(userconvolst) <= Len(userconvolst')
  BY <1>1, <1>2, <1>3
<1>6. Len(msglst) \in Nat /\ Len(msglst') \in Nat /\ Len(msglst) <= Len(msglst')
  BY <1>1, <1>2, <1>3
<1>7. /\ DOMAIN contactslst = 1 .. Len(contactslst)
      /\ DOMAIN userconvolst = 1 .. Len(userconvolst)
      /\ DOMAIN msglst = 1 .. Len(msglst) /\ DOMAIN msglst' = 1 .. Len(msglst')
  BY <1>2
<1>8. QED
  BY <1>4, <1>5, <1>6, <1>7

\* Members stay, with their emails.
LEMMA MembersStay ==
  ASSUME Grow, RowsRefer, NEW room
  PROVE  /\ MembersOf(room) \subseteq MembersOf(room)'
         /\ EmailsOf(MembersOf(room)) \subseteq EmailsOf(MembersOf(room))'
<1>1. MembersOf(room) \subseteq MembersOf(room)'
  BY DEF Grow, MembersOf
<1>2. \A i \in MembersOf(room) : i \in DOMAIN usrlst
  BY DEF MembersOf, RowsRefer
<1>3. \A i \in MembersOf(room) : usrlst'[i].email = usrlst[i].email
  BY <1>2 DEF Grow
<1>4. QED
  BY <1>1, <1>3 DEF EmailsOf

\* What a handler has looked up stays so while the tables grow.
LEMMA AwareStays ==
  ASSUME Grow, RowsRefer, NEW label, NEW f, Aware(label, f)
  PROVE  Aware(label, f)'
<1>1. /\ \A email : UsersWithEmail(email) \subseteq UsersWithEmail(email)'
      /\ \A user, contact : ContactRows(user, contact) \subseteq ContactRows(user, contact)'
      /\ \A room : MembersOf(room) \subseteq MembersOf(room)'
  BY FoundStay, MembersStay
<1>2. QED
  BY <1>1 DEF Aware

\* Indices of two sequences one after another
LEMMA OneAfterAnother ==
  \A p, q \in Nat : /\ \A k \in 1 .. p : k \in 1 .. p + q
                    /\ \A k \in 1 .. q : p + k \in 1 .. p + q
OBVIOUS

\* What was told of a conversation stays true.
LEMMA ShownStays ==
  ASSUME Grow, RowsRefer, NEW item, NEW room \in DOMAIN convolst, NEW email,
         Shown(item, room, email)
  PROVE  Shown(item, room, email)'
<1>1. EmailsOf(MembersOf(room)) \subseteq EmailsOf(MembersOf(room))'
      /\ convolst'[room] = convolst[room]
  BY MembersStay DEF Grow
<1>2. QED
  BY <1>1 DEF Shown

\* Conversations are not renamed, so that what was told stays told.
LEMMA ConvosReadStays ==
  ASSUME Typed, Typed', RowsRefer, Grow, NEW user, NEW email, NEW w, Len(w.out) \in Nat,
         Len(w.todo) \in Nat, NEW n \in 0 .. Len(userconvolst),
         ConvosRead(user, email, w, n)
  PROVE  n \in 0 .. Len(userconvolst') /\ ConvosRead(user, email, w, n)'
<1>0. PICK mine : mine = MembershipList(user, n)
  OBVIOUS
<1>1. n \in Nat /\ n \in 0 .. Len(userconvolst') /\ \A i \in 1 .. n : i \in DOMAIN userconvolst
  BY MoreRows
<1>2. {i \in 1 .. n : userconvolst'[i].users_id = user}
        = {i \in 1 .. n : userconvolst[i].users_id = user}
  BY <1>1 DEF Grow
<1>3. MembershipList(user, n)' = mine
  BY <1>0, <1>2 DEF MembershipList
<1>4. /\ DOMAIN mine = 1 .. Len(mine)
      /\ \A k \in DOMAIN mine : mine[k] \in 1 .. n
  <2>1. Lists(mine, {i \in 1 .. n : userconvolst[i].users_id = user}, n)
    BY <1>0, <1>1, ListingIsComplete DEF MembershipList
  <2>2. QED
    BY <2>1 DEF Lists
<1>5. /\ Len(mine) = Len(w.out) + Len(w.todo)
      /\ \A k \in 1 .. Len(w.out) :
           Shown(w.out[k], userconvolst[mine[k]].conversation_id, email)
      /\ \A k \in 1 .. Len(w.todo) :
           w.todo[k].conversation_id = userconvolst[mine[Len(w.out) + k]].conversation_id
  BY <1>0 DEF ConvosRead
<1>6. \A k \in DOMAIN mine :
        /\ userconvolst'[mine[k]].conversation_id = userconvolst[mine[k]].conversation_id
        /\ userconvolst[mine[k]].conversation_id \in DOMAIN convolst
  <2>1. \A k \in DOMAIN mine : mine[k] \in DOMAIN userconvolst
    BY <1>1, <1>4
  <2>2. QED
    BY <2>1 DEF Grow, RowsRefer
<1>7. /\ \A k \in 1 .. Len(w.out) : k \in DOMAIN mine
      /\ \A k \in 1 .. Len(w.todo) : Len(w.out) + k \in DOMAIN mine
  BY <1>4, <1>5, OneAfterAnother, Zenon
<1>8. \A k \in 1 .. Len(w.out) :
        Shown(w.out[k], userconvolst[mine[k]].conversation_id, email)'
  <2> SUFFICES ASSUME NEW k \in 1 .. Len(w.out)
               PROVE  Shown(w.out[k], userconvolst[mine[k]].conversation_id, email)'
    OBVIOUS
  <2>1. PICK room \in DOMAIN convolst : room = userconvolst[mine[k]].conversation_id
    BY <1>6, <1>7
  <2>2. room = userconvolst'[mine[k]].conversation_id
    BY <1>6, <1>7, <2>1
  <2>3. Shown(w.out[k], room, email)
    BY <1>5, <2>1
  <2>4. PICK item : item = w.out[k]
    OBVIOUS
  <2>5. Shown(item, room, email)'
    BY <2>3, <2>4, ShownStays
  <2>6. QED
    BY <2>2, <2>4, <2>5 DEF Shown
<1>9. \A k \in 1 .. Len(w.todo) :
        w.todo[k].conversation_id = userconvolst'[mine[Len(w.out) + k]].conversation_id
  BY <1>5, <1>6, <1>7
<1>10. ConvosRead(user, email, w, n)'
  BY <1>3, <1>5, <1>8, <1>9 DEF ConvosRead
<1>11. QED
  BY <1>1, <1>10

\* All that a handler has read stays so.
LEMMA ReadingStays ==
  ASSUME Typed, Typed', Grow, RowsRefer, NEW label, NEW f, NEW w, w \in WorkSet,
         TodoFits(label, w), Refers(label, f, w), Reading(label, f, w)
  PROVE  Reading(label, f, w)'
<1>1. Len(w.out) \in Nat /\ Len(w.todo) \in Nat
  BY DEF WorkSet
<1>3. ASSUME label \in {"getConversations:users", "getConversations:row"}
      PROVE  \E n \in 0 .. Len(userconvolst') : ConvosRead(f.user, f.req.email, w, n)'
  <2>1. PICK n \in 0 .. Len(userconvolst) : ConvosRead(f.user, f.req.email, w, n)
    BY <1>3 DEF Reading
  <2>2. PICK user, email : user = f.user /\ email = f.req.email
    OBVIOUS
  <2>3. n \in 0 .. Len(userconvolst') /\ ConvosRead(user, email, w, n)'
    BY <1>1, <2>1, <2>2, ConvosReadStays
  <2>4. QED
    BY <2>2, <2>3
<1>4. ASSUME label = "getConversations:row"
      PROVE  Gathered(f, w)'
  <2>1. PICK room : room = Head(w.todo).conversation_id
    OBVIOUS
  <2>2. room \in DOMAIN convolst
    <3>1. w.todo \in Seq([conversation_id : Nat, user_id : Nat]) /\ w.todo # << >>
      BY <1>4 DEF TodoFits
    <3>2. 1 \in DOMAIN w.todo /\ Head(w.todo) = w.todo[1]
      BY <3>1, HeadTail
    <3>3. QED
      BY <1>4, <2>1, <3>2 DEF Refers
  <2>3. /\ EmailsOf(MembersOf(room)) \subseteq EmailsOf(MembersOf(room))'
        /\ convolst'[room] = convolst[room]
    BY <2>2, MembersStay DEF Grow
  <2>4. /\ w.users \subseteq EmailsOf(MembersOf(room))
        /\ {f.req.email, convolst[room].creator_name} \subseteq w.users
    BY <1>4, <2>1 DEF Reading, Gathered
  <2>5. /\ w.users \subseteq EmailsOf(MembersOf(room))'
        /\ {f.req.email, convolst'[room].creator_name} \subseteq w.users
    BY <2>3, <2>4
  <2>6. QED
    BY <2>1, <2>5 DEF Gathered
<1>5. label \in Joins => EmailsIn(w.todo) \subseteq EmailsIn(f.req.contacts)
  BY DEF Reading
<1>6. QED
  BY <1>3, <1>4, <1>5 DEF Reading

-----------------------------------------------------------------------------
(***************************************************************************)
(* A handler's own steps                                                   *)
(***************************************************************************)
KnowLabels == {"pair:contact", "pair:exists", "addContact:insert", "favorite:update",
               "getContacts:list", "getContacts:row", "getConversations:list",
               "getConversations:users", "getConversations:row"} \cup Joins

\* Where nothing need be known, it is.
LEMMA IdleKnows ==
  ASSUME NEW h \in Slots, pc'[h] \notin KnowLabels
  PROVE  Knows(h)'
BY DEF Knows, Aware, Reading, KnowLabels, Joins

\* Knowledge of tables nobody writes to
LEMMA SameKnowing ==
  ASSUME UNCHANGED db, NEW label, NEW f, NEW w, Aware(label, f), Reading(label, f, w)
  PROVE  Aware(label, f)' /\ Reading(label, f, w)'
<1>1. UNCHANGED <<usrlst, contactslst, convolst, userconvolst>>
  BY DEF db, rows
<1>2. Aware(label, f)'
  BY <1>1 DEF Aware, UsersWithEmail, ContactRows, MembersOf
<1>4. \A item, room, email : Shown(item, room, email) => Shown(item, room, email)'
  BY <1>1 DEF Shown, EmailsOf, MembersOf
<1>5. \A user, email, n : ConvosRead(user, email, w, n) => ConvosRead(user, email, w, n)'
  <2> SUFFICES ASSUME NEW user, NEW email, NEW n, ConvosRead(user, email, w, n)
               PROVE  ConvosRead(user, email, w, n)'
    OBVIOUS
  <2>1. PICK ids : ids = MembershipList(user, n)
    OBVIOUS
  <2>2. MembershipList(user, n)' = ids
    BY <1>1, <2>1 DEF MembershipList
  <2>3. \A k \in 1 .. Len(w.out) :
          Shown(w.out[k], userconvolst[ids[k]].conversation_id, email)'
    <3> SUFFICES ASSUME NEW k \in 1 .. Len(w.out)
                 PROVE  Shown(w.out[k], userconvolst[ids[k]].conversation_id, email)'
      OBVIOUS
    <3>1. PICK room, item : room = userconvolst[ids[k]].conversation_id /\ item = w.out[k]
      OBVIOUS
    <3>2. Shown(item, room, email)'
      BY <1>4, <2>1, <3>1 DEF ConvosRead
    <3>3. room = userconvolst'[ids[k]].conversation_id
      BY <1>1, <3>1
    <3>4. QED
      BY <3>1, <3>2, <3>3 DEF Shown
  <2>4. QED
    BY <1>1, <2>1, <2>2, <2>3 DEF ConvosRead
<1>6. Gathered(f, w) => Gathered(f, w)'
  BY <1>1 DEF Gathered, EmailsOf, MembersOf
<1>7. Reading(label, f, w)'
  <2>2. ASSUME label \in {"getConversations:users", "getConversations:row"}
        PROVE  \E n \in 0 .. Len(userconvolst') : ConvosRead(f.user, f.req.email, w, n)'
    BY <1>1, <1>5, <2>2 DEF Reading
  <2>3. QED
    BY <1>6, <2>2 DEF Reading
<1>8. QED
  BY <1>2, <1>7

\* A handler that calls knows what it is to know at its new label.
LEMMA CallKnows ==
  ASSUME NEW h \in Slots, Typed, NEW m, NEW label, NEW f, NEW w, Call(h, m, label, f, w),
         \/ Aware(label, f)' /\ Reading(label, f, w)'
         \/ UNCHANGED db /\ Aware(label, f) /\ Reading(label, f, w)
  PROVE  Knows(h)'
<1>1. Aware(label, f)' /\ Reading(label, f, w)'
  BY SameKnowing
<1>2. CASE pc'[h] = label /\ frame'[h] = f /\ work'[h] = w
  BY <1>1, <1>2 DEF Knows
<1>3. CASE pc'[h] = "idle"
  BY <1>3, IdleKnows DEF KnowLabels, Joins
<1>4. QED
  BY <1>2, <1>3, CallSays

\* A handler that loops holds what it is to do, and what it has done.
LEMMA Working ==
  ASSUME NEW h \in Slots, Listed, NEW todo, NEW out, NEW users
  PROVE  /\ [work[h] EXCEPT !.todo = todo, !.out = out].todo = todo
         /\ [work[h] EXCEPT !.todo = todo, !.out = out].out = out
         /\ [work[h] EXCEPT !.todo = todo].todo = todo
         /\ [work[h] EXCEPT !.users = users].users = users
         /\ [work[h] EXCEPT !.users = users].todo = work[h].todo
         /\ [work[h] EXCEPT !.users = users].out = work[h].out
<1>1. PICK v \in WorkSet : v = work[h]
  BY DEF Listed
<1>2. QED
  BY <1>1 DEF WorkSet

\* The contact book's handlers know what they have looked up.
LEMMA ContactKnows ==
  ASSUME NEW h \in Slots, Typed, Listed, RefInv, Knows(h), ContactStep(h)
  PROVE  Knows(h)'
<1> USE DEF KnowLabels, Joins
<1>1. PICK req, user, contact :
        req = Req(h) /\ user = frame[h].user /\ contact = frame[h].contact
  OBVIOUS
<1>2. Aware(pc[h], frame[h]) /\ Reading(pc[h], frame[h], work[h]) /\ frame[h].req = req
  BY <1>1 DEF Knows, Req
<1>3. CASE PairUser(h)
  <2>1. ASSUME NEW id \in UsersWithEmail(req.user)
        PROVE  /\ Aware("pair:contact", [frame[h] EXCEPT !.user = id])
               /\ Reading("pair:contact", [frame[h] EXCEPT !.user = id], work[h])
    BY <1>1, Held DEF Aware, Reading
  <2>2. QED
    BY <1>1, <1>3, <2>1, CallKnows, IdleKnows, AnswersPc DEF PairUser
<1>4. CASE PairContact(h)
  <2>1. ASSUME NEW id \in UsersWithEmail(req.contact)
        PROVE  /\ Aware("pair:exists", [frame[h] EXCEPT !.contact = id])
               /\ Reading("pair:exists", [frame[h] EXCEPT !.contact = id], work[h])
    BY <1>1, <1>2, <1>4, Held DEF PairContact, Reply, Aware, Reading
  <2>2. QED
    BY <1>1, <1>4, <2>1, CallKnows, IdleKnows, AnswersPc DEF PairContact
<1>5. CASE PairExists(h)
  <2>1. UNCHANGED db /\ pc[h] = "pair:exists"
    BY <1>5, Zenon DEF PairExists, Reply
  <2>2. CASE Call(h, "Contacts", "addContact:insert", frame[h], work[h])
    <3>1. /\ Aware("addContact:insert", frame[h])
          /\ Reading("addContact:insert", frame[h], work[h])
      BY <1>2, <2>1 DEF Aware, Reading
    <3>2. QED
      BY <2>1, <2>2, <3>1, CallKnows
  <2>3. CASE Known(h) /\ Call(h, "Contacts", "favorite:update", frame[h], work[h])
    <3>1. /\ Aware("favorite:update", frame[h])
          /\ Reading("favorite:update", frame[h], work[h])
      BY <1>2, <2>1, <2>3 DEF Aware, Reading, Known
    <3>2. QED
      BY <2>1, <2>3, <3>1, CallKnows
  <2>4. CASE (\E text : RespondText(h, text)) \/ Fail(h, Req(h))
    BY <2>4, AnswersPc, IdleKnows
  <2>5. \/ Call(h, "Contacts", "addContact:insert", frame[h], work[h])
        \/ Known(h) /\ Call(h, "Contacts", "favorite:update", frame[h], work[h])
        \/ (\E text : RespondText(h, text)) \/ Fail(h, Req(h))
    BY <1>5, Zenon DEF PairExists
  <2>6. QED
    BY <2>2, <2>3, <2>4, <2>5
<1>6. CASE AddContactInsert(h) \/ FavoriteUpdate(h)
  BY <1>6, AnswersPc, IdleKnows DEF AddContactInsert, FavoriteUpdate
<1>7. CASE GetContactsUser(h)
  <2>1. ASSUME NEW id \in UsersWithEmail(req.email)
        PROVE  /\ Aware("getContacts:list", [frame[h] EXCEPT !.user = id])
               /\ Reading("getContacts:list", [frame[h] EXCEPT !.user = id], work[h])
    BY <1>1, Held DEF Aware, Reading
  <2>2. QED
    BY <1>1, <1>7, <2>1, CallKnows, IdleKnows, AnswersPc DEF GetContactsUser
<1>8. ASSUME UNCHANGED db, pc[h] \in {"getContacts:list", "getContacts:row"},
             NEW todo, NEW out, ContactsHelper(h, todo, out)
      PROVE  Knows(h)'
  <2>1. CASE todo = << >> /\ RespondJson(h, out)
    BY <2>1, AnswersPc, IdleKnows
  <2>2. CASE Call(h, "User", "getContacts:row", frame[h],
                  [work[h] EXCEPT !.todo = todo, !.out = out])
    <3>1. PICK v : v = [work[h] EXCEPT !.todo = todo, !.out = out]
      OBVIOUS
    <3>2. Reading("getContacts:row", frame[h], v)
      BY DEF Reading
    <3>3. Aware("getContacts:row", frame[h])
      BY <1>2, <1>8 DEF Aware
    <3>4. QED
      BY <1>8, <2>2, <3>1, <3>2, <3>3, CallKnows
  <2>3. QED
    BY <1>8, <2>1, <2>2 DEF ContactsHelper
<1>9. CASE GetContactsList(h)
  <2>1. /\ pc[h] = "getContacts:list" /\ UNCHANGED db
        /\ \E todo : ContactsHelper(h, todo, << >>)
    BY <1>9 DEF GetContactsList, Reply
  <2>2. QED
    BY <1>8, <2>1
<1>10. CASE GetContactsRow(h)
  <2>1. /\ pc[h] = "getContacts:row" /\ UNCHANGED db
        /\ (\E todo, out : ContactsHelper(h, todo, out)) \/ Fail(h, req)
    BY <1>1, <1>10 DEF GetContactsRow, Reply
  <2>2. QED
    BY <1>8, <2>1, AnswersPc, IdleKnows
<1>11. QED
  BY <1>3, <1>4, <1>5, <1>6, <1>7, <1>9, <1>10 DEF ContactStep

\* The next conversation to be told is one of the user's.
LEMMA NextConvo ==
  ASSUME NEW h \in Slots, Typed, Listed, RowsRefer, CreatorsJoined,
         pc[h] = "getConversations:users", Knows(h),
         NEW room, room = Head(work[h].todo).conversation_id
  PROVE  /\ frame[h].user \in MembersOf(room) \cap DOMAIN usrlst
         /\ usrlst[frame[h].user].email = Req(h).email
         /\ \E who \in MembersOf(room) \cap DOMAIN usrlst :
              usrlst[who].email = convolst[room].creator_name
<1>0. PICK user, email, w : user = frame[h].user /\ email = Req(h).email /\ w = work[h]
  OBVIOUS
<1>20. user \in UsersWithEmail(email) /\ w \in WorkSet /\ w.todo # << >>
      /\ room = Head(w.todo).conversation_id
  BY <1>0 DEF Knows, Aware, Req, Listed, TodoFits
<1>21. PICK n \in 0 .. Len(userconvolst) : ConvosRead(user, email, w, n)
  BY <1>0 DEF Knows, Reading, Req
<1>1. PICK ids : ids = MembershipList(user, n)
  OBVIOUS
<1>2. PICK p \in Nat, q \in Nat : p = Len(w.out) /\ q = Len(w.todo) /\ 1 \in 1 .. q
  BY <1>20 DEF WorkSet
<1>3. Len(ids) = p + q /\ w.todo[1].conversation_id = userconvolst[ids[p + 1]].conversation_id
  BY <1>1, <1>2, <1>21 DEF ConvosRead
<1>4. Head(w.todo) = w.todo[1]
  BY <1>20 DEF WorkSet
<1>5. p + 1 \in 1 .. p + q
  BY <1>2, OneAfterAnother
<1>6. n \in Nat /\ \A i \in 1 .. n : i \in DOMAIN userconvolst
  <2>1. userconvolst \in Seq(Membership)
    BY DEF Typed, RowsTypeOK
  <2>2. QED
    BY <2>1
<1>7. PICK i : i = ids[p + 1]
  OBVIOUS
<1>8. i \in DOMAIN userconvolst /\ userconvolst[i].users_id = user
  <2>1. Lists(ids, {j \in 1 .. n : userconvolst[j].users_id = user}, n)
    BY <1>1, <1>6, ListingIsComplete DEF MembershipList
  <2>2. p + 1 \in DOMAIN ids
    <3>1. ids \in Seq(Nat)
      BY <2>1 DEF Lists
    <3>2. DOMAIN ids = 1 .. Len(ids)
      BY <3>1
    <3>3. QED
      BY <1>3, <1>5, <3>2
  <2>3. i \in {j \in 1 .. n : userconvolst[j].users_id = user}
    BY <1>7, <2>1, <2>2 DEF Lists
  <2>4. QED
    BY <1>6, <2>3
<1>9. room = userconvolst[i].conversation_id
  BY <1>20, <1>3, <1>4, <1>7
<1>10. user \in MembersOf(room) \cap DOMAIN usrlst /\ usrlst[user].email = email
  BY <1>20, <1>8, <1>9 DEF MembersOf, UsersWithEmail
<1>11. \E who \in MembersOf(room) \cap DOMAIN usrlst :
         usrlst[who].email = convolst[room].creator_name
  BY <1>8, <1>9 DEF CreatorsJoined, UsersWithEmail
<1>12. QED
  BY <1>0, <1>10, <1>11

\* So do the conversation book's.
LEMMA ConversationKnows ==
  ASSUME NEW h \in Slots, Typed, Listed, RefInv, CreatorsJoined, Knows(h),
         ConversationStep(h)
  PROVE  Knows(h)'
<1> USE DEF KnowLabels, Joins
<1>1. PICK req, user, convo, f :
        req = Req(h) /\ f = frame[h] /\ user = f.user /\ convo = f.convo
  OBVIOUS
<1>2. Aware(pc[h], f) /\ Reading(pc[h], f, work[h]) /\ f.req = req
  BY <1>1 DEF Knows, Req
<1>3. CASE MakeConversationCreator(h) \/ MakeConversationInsert(h) \/ MakeConversationId(h)
  <2>1. pc'[h] \in {"idle", "makeConversation:insert", "makeConversation:id",
                    "makeConversation:join"}
    BY <1>3, AnswersPc, CallPc DEF MakeConversationCreator, MakeConversationInsert,
       MakeConversationId
  <2>2. QED
    BY <2>1, IdleKnows
<1>4. ASSUME NEW left, GenUserConvos(h, left), EmailsIn(left) \subseteq EmailsIn(req.contacts),
             user \in MembersOf(convo)'
      PROVE  Knows(h)'
  <2>1. CASE left = << >> /\ RespondText(h, "Success")
    BY <2>1, AnswersPc, IdleKnows
  <2>2. CASE Call(h, "User", "makeConversation:contact", frame[h],
                  [work[h] EXCEPT !.todo = left])
    <3>1. PICK w : w = [work[h] EXCEPT !.todo = left]
      OBVIOUS
    <3>2. w.todo = left
      BY <3>1, Working
    <3>3. Aware("makeConversation:contact", f)'
      BY <1>1, <1>4 DEF Aware
    <3>4. Reading("makeConversation:contact", f, w)'
      BY <1>2, <1>4, <3>2 DEF Reading
    <3>5. QED
      BY <1>1, <2>2, <3>1, <3>3, <3>4, CallKnows
  <2>3. QED
    BY <1>4, <2>1, <2>2 DEF GenUserConvos
<1>5. userconvolst \in Seq(Membership) /\ RowsRefer
  BY DEF Typed, RowsTypeOK, RefInv
<1>6. CASE MakeConversationJoin(h)
  <2>1. InsertMember(convo, user)
    BY <1>1, <1>6 DEF MakeConversationJoin
  <2>2. user \in MembersOf(convo)'
    BY <1>5, <2>1, JoinMembers
  <2>3. PICK left : left = req.contacts
    OBVIOUS
  <2>4. GenUserConvos(h, left) \/ Fail(h, req)
    BY <1>1, <1>6, <2>3 DEF MakeConversationJoin
  <2>5. QED
    BY <1>4, <2>2, <2>3, <2>4, AnswersPc, IdleKnows
<1>7. CASE MakeConversationMember(h)
  <2>1. pc[h] = "makeConversation:member" /\ InsertMember(convo, frame[h].contact)
        /\ GenUserConvos(h, Tail(work[h].todo))
    BY <1>1, <1>7 DEF MakeConversationMember, Reply
  <2>2. user \in MembersOf(convo)
    BY <1>1, <1>2, <2>1 DEF Aware
  <2>3. user \in MembersOf(convo)'
    BY <1>5, <2>1, <2>2, JoinMembers
  <2>4. /\ work[h].todo \in Seq([email : Text]) /\ work[h].todo # << >>
        /\ EmailsIn(work[h].todo) \subseteq EmailsIn(req.contacts)
    BY <1>2, <2>1, ZenonT(60) DEF Listed, TodoFits, Reading
  <2>5. EmailsIn(Tail(work[h].todo)) \subseteq EmailsIn(req.contacts)
    BY <2>4, EmailsOfHeadTail
  <2>6. QED
    BY <1>4, <2>1, <2>3, <2>5
<1>8. CASE MakeConversationContact(h)
  <2>1. pc[h] = "makeConversation:contact" /\ UNCHANGED db
    BY <1>8 DEF MakeConversationContact, Reply
  <2>2. ASSUME NEW id
        PROVE  /\ Aware("makeConversation:check", [frame[h] EXCEPT !.contact = id])
               /\ Reading("makeConversation:check", [frame[h] EXCEPT !.contact = id], work[h])
    BY <1>1, <1>2, <2>1, Held DEF Aware, Reading
  <2>3. QED
    BY <1>8, <2>1, <2>2, CallKnows, IdleKnows, AnswersPc DEF MakeConversationContact
<1>9. CASE MakeConversationCheck(h)
  <2>1. pc[h] = "makeConversation:check" /\ UNCHANGED db
    BY <1>9 DEF MakeConversationCheck, Reply
  <2>2. /\ Aware("makeConversation:member", frame[h])
        /\ Reading("makeConversation:member", frame[h], work[h])
    BY <1>1, <1>2, <2>1 DEF Aware, Reading
  <2>3. QED
    BY <1>9, <2>1, <2>2, CallKnows, IdleKnows, AnswersPc DEF MakeConversationCheck
<1>10. CASE GetConversationsUser(h)
  <2>1. ASSUME NEW id \in UsersWithEmail(req.email)
        PROVE  /\ Aware("getConversations:list", [frame[h] EXCEPT !.user = id])
               /\ Reading("getConversations:list", [frame[h] EXCEPT !.user = id], work[h])
    BY <1>1, Held DEF Aware, Reading
  <2>2. QED
    BY <1>1, <1>10, <2>1, CallKnows, IdleKnows, AnswersPc DEF GetConversationsUser
<1>11. ASSUME UNCHANGED db, pc[h] \in {"getConversations:list", "getConversations:row"},
              NEW w, NEW todo, NEW out, NEW n \in 0 .. Len(userconvolst),
              w.todo = todo, w.out = out, ConvosRead(user, req.email, w, n),
              ConvoHelper(h, todo, out)
       PROVE  Knows(h)'
  <2>1. CASE todo = << >> /\ RespondJson(h, out)
    BY <2>1, AnswersPc, IdleKnows
  <2>2. CASE Call(h, "UserConversation", "getConversations:users", frame[h],
                  [todo |-> todo, out |-> out, users |-> {}])
    <3>1. PICK v : v = [todo |-> todo, out |-> out, users |-> {}]
      OBVIOUS
    <3>2. v.todo = w.todo /\ v.out = w.out
      BY <1>11, <3>1
    <3>3. ConvosRead(user, req.email, v, n)
      BY <1>11, <3>2 DEF ConvosRead
    <3>4. Reading("getConversations:users", frame[h], v)
      BY <1>1, <1>2, <3>3 DEF Reading
    <3>5. Aware("getConversations:users", frame[h])
      BY <1>1, <1>2, <1>11 DEF Aware
    <3>6. QED
      BY <1>11, <2>2, <3>1, <3>4, <3>5, CallKnows
  <2>3. QED
    BY <1>11, <2>1, <2>2 DEF ConvoHelper
<1>12. CASE GetConversationsList(h)
  <2> DEFINE ids == MembershipList(user, Len(userconvolst))
             todo == [k \in DOMAIN ids |->
                        [conversation_id |-> userconvolst[ids[k]].conversation_id,
                         user_id |-> userconvolst[ids[k]].users_id]]
             w == [todo |-> todo, out |-> << >>]
  <2>1. pc[h] = "getConversations:list" /\ UNCHANGED db /\ ConvoHelper(h, todo, << >>)
    BY <1>1, <1>12 DEF GetConversationsList, Reply
  <2>2. w.todo = todo /\ w.out = << >>
    OBVIOUS
  <2>3. /\ ConvosRead(user, req.email, w, Len(userconvolst))
        /\ Len(userconvolst) \in 0 .. Len(userconvolst)
    BY <2>2, ConvosReadFirst
  <2> HIDE DEF w, todo
  <2>4. QED
    BY <1>11, <2>1, <2>2, <2>3
<1>13. CASE GetConversationsUsers(h)
  <2>1. PICK room : room = Head(work[h].todo).conversation_id
    OBVIOUS
  <2>2. PICK users : users = {usrlst[i].email : i \in MembersOf(room) \cap DOMAIN usrlst}
    OBVIOUS
  <2>3. PICK w : w = [work[h] EXCEPT !.users = users]
    OBVIOUS
  <2>4. /\ pc[h] = "getConversations:users" /\ UNCHANGED db
        /\ Call(h, "Conversations", "getConversations:row", frame[h], w)
    BY <1>13, <2>1, <2>2, <2>3 DEF GetConversationsUsers, Reply
  <2>5. w.users = users /\ w.todo = work[h].todo /\ w.out = work[h].out
    BY <2>3, Working
  <2>6. user \in UsersWithEmail(req.email)
    BY <1>1, <1>2, <2>4 DEF Aware
  <2>7. PICK n \in 0 .. Len(userconvolst) : ConvosRead(user, req.email, work[h], n)
    BY <1>1, <1>2, <2>4 DEF Reading
  <2>8. /\ users \subseteq EmailsOf(MembersOf(room))
        /\ {req.email, convolst[room].creator_name} \subseteq users
    <3>1. /\ user \in MembersOf(room) \cap DOMAIN usrlst /\ usrlst[user].email = req.email
          /\ \E who \in MembersOf(room) \cap DOMAIN usrlst :
               usrlst[who].email = convolst[room].creator_name
      BY <1>1, <1>5, <2>1, <2>4, NextConvo
    <3>2. QED
      BY <2>2, <3>1 DEF EmailsOf
  <2>9. Gathered(f, w)
    BY <1>2, <2>1, <2>5, <2>8 DEF Gathered
  <2>10. ConvosRead(user, req.email, w, n)
    BY <2>5, <2>7 DEF ConvosRead
  <2>11. Reading("getConversations:row", f, w) /\ Aware("getConversations:row", f)
    BY <1>1, <1>2, <2>6, <2>9, <2>10 DEF Reading, Aware
  <2>12. QED
    BY <1>1, <2>4, <2>11, CallKnows
<1>14. CASE GetConversationsRow(h)
  <2>1. PICK room : room = Head(work[h].todo).conversation_id
    OBVIOUS
  <2>2. PICK item : item = [conversation_name |-> convolst[room].convo_name,
                            conversation_id |-> room,
                            creator_email |-> convolst[room].creator_name,
                            users |-> work[h].users]
    OBVIOUS
  <2>3. /\ pc[h] = "getConversations:row" /\ UNCHANGED db
        /\ \/ /\ room \in DOMAIN convolst
              /\ ConvoHelper(h, Tail(work[h].todo), Append(work[h].out, item))
           \/ Fail(h, req)
    BY <1>1, <1>14, <2>1, <2>2 DEF GetConversationsRow, Reply
  <2>4. CASE Fail(h, req)
    BY <2>4, AnswersPc, IdleKnows
  <2>5. CASE /\ room \in DOMAIN convolst
             /\ ConvoHelper(h, Tail(work[h].todo), Append(work[h].out, item))
    <3>1. PICK w : w = [todo |-> Tail(work[h].todo), out |-> Append(work[h].out, item)]
      OBVIOUS
    <3>2. w.todo = Tail(work[h].todo) /\ w.out = Append(work[h].out, item)
      BY <3>1
    <3>3. PICK n \in 0 .. Len(userconvolst) : ConvosRead(user, req.email, w, n)
      BY <1>1, <1>2, <2>1, <2>2, <2>3, <2>5, <3>2, ConvosReadNext
    <3>4. QED
      BY <1>11, <2>3, <2>5, <3>2, <3>3
  <2>6. QED
    BY <2>3, <2>4, <2>5
<1>15. QED
  BY <1>3, <1>6, <1>7, <1>8, <1>9, <1>10, <1>12, <1>13, <1>14 DEF ConversationStep

\* One handler's step takes nothing from what another knows.
LEMMA OthersKnow ==
  ASSUME NEW h \in Slots, NEW g \in Slots \ {h}, Typed, Typed', Listed, Grow, RefInv,
         MoveOf(h), Knows(g)
  PROVE  Knows(g)'
<1>1. PICK label, f, w : label = pc[g] /\ f = frame[g] /\ w = work[g]
  OBVIOUS
<1>2. /\ Aware(label, f) /\ Reading(label, f, w) /\ Refers(label, f, w)
      /\ TodoFits(label, w) /\ w \in WorkSet /\ RowsRefer
  BY <1>1 DEF Knows, RefInv, Ref, Listed
<1>3. Aware(label, f)'
  BY <1>2, AwareStays
<1>4. Reading(label, f, w)'
  BY <1>2, ReadingStays
<1>5. pc'[g] = label /\ frame'[g] = f /\ work'[g] = w
  BY <1>1 DEF MoveOf
<1>6. QED
  BY <1>3, <1>4, <1>5 DEF Knows

\* Nor from what it knows itself.
LEMMA StepKnows ==
  ASSUME NEW h \in Slots, Typed, Listed, RefInv, CreatorsJoined, Knows(h), Step(h)
  PROVE  Knows(h)'
<1>1. CASE ContactStep(h) \/ ConversationStep(h)
  BY <1>1, ContactKnows, ConversationKnows
<1>2. CASE AccountStep(h) \/ SchemaStep(h) \/ MessageStep(h) \/ StatementError(h)
  <2>1. pc'[h] \notin KnowLabels
    BY <1>2, AccountLeads, SchemaLeads, MessageLeads, ErrorLeads DEF KnowLabels, Joins
  <2>2. QED
    BY <2>1, IdleKnows
<1>3. QED
  BY <1>1, <1>2 DEF Step

\* Knows is kept by every step.
LEMMA NextKnows ==
  ASSUME Standing, Typed, Typed', Listed, RefInv, CreatorsJoined,
         \A h \in Slots : Knows(h), [Next]_vars
  PROVE  \A h \in Slots : Knows(h)'
<1>1. Grow
  BY NextGrows
<1>2. ASSUME NEW h \in Slots, MoveOf(h), Knows(h)'
      PROVE  \A g \in Slots : Knows(g)'
  BY <1>1, <1>2, OthersKnow
<1>3. ASSUME NEW h \in Slots, NEW req \in Requests, Receive(h, req)
      PROVE  \A g \in Slots : Knows(g)'
  <2>1. MoveOf(h) /\ pc'[h] \notin KnowLabels
    BY <1>3, ReceiveKeeps, ReceiveLeads DEF Kept, KnowLabels, Joins
  <2>2. QED
    BY <1>2, <2>1, IdleKnows
<1>4. ASSUME NEW h \in Slots, Step(h)
      PROVE  \A g \in Slots : Knows(g)'
  <2>1. MoveOf(h)
    BY <1>4, StepKeeps DEF Kept
  <2>2. QED
    BY <1>2, <1>4, <2>1, StepKnows
<1>5. ASSUME Restart  PROVE \A h \in Slots : Knows(h)'
  BY <1>5, IdleKnows DEF Restart, KnowLabels, Joins
<1>6. ASSUME UNCHANGED vars, NEW h \in Slots  PROVE Knows(h)'
  <2>1. PICK label, f, w : label = pc[h] /\ f = frame[h] /\ w = work[h]
    OBVIOUS
  <2>2. Aware(label, f)' /\ Reading(label, f, w)'
    BY <1>6, <2>1, SameKnowing DEF vars, Knows
  <2>3. pc'[h] = label /\ frame'[h] = f /\ work'[h] = w
    BY <1>6, <2>1 DEF vars, server
  <2>4. QED
    BY <2>2, <2>3 DEF Knows
<1>7. QED
  BY <1>3, <1>4, <1>5, <1>6 DEF Next

-----------------------------------------------------------------------------
(***************************************************************************)
(* /login                                                                  *)
(***************************************************************************)
LogLabels == {"login:email", "login:byEmail", "login:byUsername"}

\* Who writes to usrlst holds its connection.
LEMMA UsrlstHeld ==
  ASSUME NEW h \in Slots, Standing, Typed, Step(h)
  PROVE  usrlst' = usrlst \/ "User" \in calls[h]
<1>1. CASE AccountStep(h)
  <2>1. CASE RegisterEmail(h) \/ RegisterUsername(h) \/ LoginPassword(h)
    <3>1. UNCHANGED db
      BY <2>1, Zenon DEF RegisterEmail, RegisterUsername, LoginPassword
    <3>2. QED
      BY <3>1 DEF db, rows
  <2>2. CASE RegisterAdd(h) \/ ChangeUsername(h)
    BY <2>2 DEF RegisterAdd, ChangeUsername, Reply
  <2>3. CASE LoginEmail(h) \/ LoginByEmail(h) \/ LoginByUsername(h)
    BY <2>3 DEF LoginEmail, LoginByEmail, LoginByUsername, Reply, db, rows
  <2>4. QED
    BY <1>1, <2>1, <2>2, <2>3 DEF AccountStep
<1>2. CASE SchemaStep(h)
  <2>1. \A m \in Modules : ~Rollback(h, m)
    BY NothingDropped
  <2>2. CASE CreateBob(h) \/ CreateAddBob(h) \/ CreateJoe(h) \/ CreateAddJoe(h)
    <3>1. UNCHANGED db \/ "User" \in calls[h]
      BY <2>2, Zenon DEF CreateBob, CreateAddBob, CreateJoe, CreateAddJoe, Reply
    <3>2. QED
      BY <3>1 DEF db, rows
  <2>3. CASE CreateUsrlst(h)
    BY <2>3 DEF CreateUsrlst, rows
  <2>4. ASSUME NEW m \in Modules, Migrate(h, m) \/ LaunchedError(h, m)
        PROVE  usrlst' = usrlst
    BY <2>4 DEF Migrate, LaunchedError, db, rows
  <2>5. QED
    BY <1>2, <2>1, <2>2, <2>3, <2>4 DEF SchemaStep
<1>3. CASE ContactStep(h) \/ ConversationStep(h) \/ MessageStep(h) \/ StatementError(h)
  BY <1>3, ContactLeads, ConversationLeads, MessageLeads, ErrorLeads
<1>4. QED
  BY <1>1, <1>2, <1>3 DEF Step

\* Other handlers need not know about passwords.
LEMMA NotLogging ==
  ASSUME NEW h \in Slots, pc'[h] \notin LogLabels
  PROVE  Logging(h)'
BY DEF Logging, LogLabels

\* Nobody else writes to usrlst during a login.
LEMMA OthersLog ==
  ASSUME NEW h \in Slots, NEW g \in Slots \ {h}, Typed, MoveOf(h), Logging(g),
         usrlst' = usrlst \/ "User" \in calls[h]
  PROVE  Logging(g)'
<1>1. CASE pc[g] \notin LogLabels
  <2>1. pc'[g] \notin LogLabels
    BY <1>1 DEF MoveOf
  <2>2. QED
    BY <2>1, NotLogging
<1>2. CASE pc[g] \in LogLabels
  <2>1. "User" \in calls[g]
    BY <1>2 DEF Logging, LogLabels
  <2>2. usrlst' = usrlst
    BY <2>1 DEF Typed, Exclusive
  <2>3. pc'[g] = pc[g] /\ calls'[g] = calls[g] /\ Req(g)' = Req(g)
    BY DEF MoveOf, Req
  <2>4. /\ UsersWithEmail(Req(g).email)' = UsersWithEmail(Req(g).email)
        /\ UsersNamed(Req(g).username)' = UsersNamed(Req(g).username)
    BY <2>2, <2>3 DEF UsersWithEmail, UsersNamed
  <2>5. QED
    BY <2>2, <2>3, <2>4 DEF Logging
<1>3. QED
  BY <1>1, <1>2

\* A login itself only reads.
LEMMA StepLogs ==
  ASSUME NEW h \in Slots, Typed, Logging(h), Step(h)
  PROVE  Logging(h)'
<1>1. PICK req : req = Req(h)
  OBVIOUS
<1>2. ASSUME UNCHANGED db, pc[h] # "idle",
             NEW label \in LogLabels, Call(h, "User", label, frame[h], work[h]),
             \E i \in UsersWithEmail(req.email) \cup UsersNamed(req.username) :
               usrlst[i].password = req.password,
             label = "login:byUsername" => UsersWithEmail(req.email) = {}
      PROVE  Logging(h)'
  <2>1. UsersWithEmail(req.email)' = UsersWithEmail(req.email)
        /\ UsersNamed(req.username)' = UsersNamed(req.username) /\ usrlst' = usrlst
    BY <1>2 DEF UsersWithEmail, UsersNamed, db, rows
  <2>2. label \in Labels
    BY <1>2 DEF LogLabels, Labels
  <2>3. \/ pc'[h] = label /\ calls'[h] = {"User"} /\ Req(h)' = req
        \/ pc'[h] = "idle"
    BY <1>1, <1>2, <2>2, CallWindow
  <2>4. CASE pc'[h] = "idle"
    BY <2>4, NotLogging DEF LogLabels
  <2>5. CASE pc'[h] = label /\ calls'[h] = {"User"} /\ Req(h)' = req
    <3>1. /\ UsersWithEmail(Req(h).email)' = UsersWithEmail(req.email)
          /\ UsersNamed(Req(h).username)' = UsersNamed(req.username)
      BY <2>1, <2>5
    <3>2. QED
      BY <1>2, <2>1, <2>5, <3>1 DEF Logging
  <2>6. QED
    BY <2>3, <2>4, <2>5
<1>3. CASE LoginPassword(h)
  <2>1. PICK matching :
          matching = {i \in UsersWithEmail(req.email) \cup UsersNamed(req.username) :
                        usrlst[i].password = req.password}
    OBVIOUS
  <2>2. /\ pc[h] = "login:password" /\ UNCHANGED db
        /\ \/ RespondText(h, "No User")
           \/ matching # {} /\ Call(h, "User", "login:email", frame[h], work[h])
    BY <1>1, <1>3, <2>1, Zenon DEF LoginPassword, Reply
  <2>3. matching # {} =>
          \E i \in UsersWithEmail(req.email) \cup UsersNamed(req.username) :
            usrlst[i].password = req.password
    BY <2>1, Zenon
  <2>4. /\ pc[h] = "login:password" /\ UNCHANGED db
        /\ \/ \E text : RespondText(h, text)
           \/ /\ \E i \in UsersWithEmail(req.email) \cup UsersNamed(req.username) :
                   usrlst[i].password = req.password
              /\ Call(h, "User", "login:email", frame[h], work[h])
    BY <2>2, <2>3, Zenon
  <2>5. CASE \E text : RespondText(h, text)
    BY <2>5, AnswersPc, NotLogging DEF LogLabels
  <2>6. QED
    BY <1>2, <2>4, <2>5 DEF LogLabels
<1>4. CASE LoginEmail(h)
  <2>1. PICK label :
          label = IF UsersWithEmail(req.email) # {} THEN "login:byEmail"
                                                   ELSE "login:byUsername"
    OBVIOUS
  <2>2. /\ pc[h] = "login:email" /\ UNCHANGED db
        /\ Call(h, "User", label, frame[h], work[h])
    BY <1>1, <1>4, <2>1 DEF LoginEmail, Reply
  <2>3. \E i \in UsersWithEmail(req.email) \cup UsersNamed(req.username) :
          usrlst[i].password = req.password
    BY <1>1, <2>2 DEF Logging
  <2>4. label \in LogLabels /\ (label = "login:byUsername" => UsersWithEmail(req.email) = {})
    BY <2>1 DEF LogLabels
  <2>5. QED
    BY <1>2, <2>2, <2>3, <2>4
<1>5. CASE \/ RegisterEmail(h) \/ RegisterUsername(h) \/ RegisterAdd(h)
           \/ LoginByEmail(h) \/ LoginByUsername(h) \/ ChangeUsername(h)
  <2>1. CASE RegisterAdd(h) \/ ChangeUsername(h)
    BY <2>1, AnswersPc, NotLogging DEF RegisterAdd, ChangeUsername, LogLabels
  <2>2. CASE LoginByEmail(h)
    <3>1. pc'[h] = "idle"
      BY <2>2, AnswersPc, Zenon DEF LoginByEmail
    <3>2. QED
      BY <3>1, NotLogging DEF LogLabels
  <2>3. CASE LoginByUsername(h)
    <3>1. pc'[h] = "idle"
      BY <2>3, AnswersPc, Zenon DEF LoginByUsername
    <3>2. QED
      BY <3>1, NotLogging DEF LogLabels
  <2>4. CASE RegisterEmail(h)
    <3>1. pc'[h] \in {"idle", "register:username"}
      BY <2>4, AnswersPc, CallPc, Zenon DEF RegisterEmail
    <3>2. QED
      BY <3>1, NotLogging DEF LogLabels
  <2>5. CASE RegisterUsername(h)
    <3>1. pc'[h] \in {"idle", "register:add"}
      BY <2>5, AnswersPc, CallPc, Zenon DEF RegisterUsername
    <3>2. QED
      BY <3>1, NotLogging DEF LogLabels
  <2>6. QED
    BY <1>5, <2>1, <2>2, <2>3, <2>4, <2>5
<1>6. CASE \/ SchemaStep(h) \/ ContactStep(h) \/ ConversationStep(h) \/ MessageStep(h)
           \/ StatementError(h)
  <2>1. pc'[h] \notin LogLabels
    BY <1>6, SchemaLeads, ContactLeads, ConversationLeads, MessageLeads, ErrorLeads
       DEF LogLabels
  <2>2. QED
    BY <2>1, NotLogging
<1>7. QED
  BY <1>3, <1>4, <1>5, <1>6 DEF Step, AccountStep

\* Logging is kept by every step.
LEMMA NextLogs ==
  ASSUME Standing, Typed, \A h \in Slots : Logging(h), [Next]_vars
  PROVE  \A h \in Slots : Logging(h)'
<1>1. ASSUME NEW h \in Slots, NEW req \in Requests, Receive(h, req)
      PROVE  \A g \in Slots : Logging(g)'
  <2>1. MoveOf(h) /\ usrlst' = usrlst /\ pc'[h] \notin LogLabels
    BY <1>1, ReceiveKeeps, ReceiveLeads DEF Kept, LogLabels
  <2>2. QED
    BY <2>1, NotLogging, OthersLog
<1>2. ASSUME NEW h \in Slots, Step(h)
      PROVE  \A g \in Slots : Logging(g)'
  <2>1. MoveOf(h)
    BY <1>2, StepKeeps DEF Kept
  <2>2. QED
    BY <1>2, <2>1, UsrlstHeld, StepLogs, OthersLog
<1>3. ASSUME Restart  PROVE \A h \in Slots : Logging(h)'
  BY <1>3 DEF Restart, Logging
<1>4. ASSUME UNCHANGED vars, NEW h \in Slots  PROVE Logging(h)'
  BY <1>4 DEF vars, db, rows, server, Logging, Req, UsersWithEmail, UsersNamed
<1>5. QED
  BY <1>1, <1>2, <1>3, <1>4 DEF Next

-----------------------------------------------------------------------------
(***************************************************************************)
(* The lists of contacts and messages                                      *)
(***************************************************************************)
\* A handler that writes to usrlst, contactslst or msglst keeps the table's
\* connection, and it comes to the last two by way of User's.
Writes(h) ==
  /\ usrlst' = usrlst \/ "User" \in calls[h]
  /\ contactslst' = contactslst \/ pc[h] \in BookLabels
  /\ msglst' = msglst \/ pc[h] \in PostLabels
  /\ pc'[h] \in BookLabels =>
       "Contacts" \in calls'[h] /\ (pc[h] \in BookLabels \/ "User" \in calls[h])
  /\ pc'[h] \in PostLabels =>
       "Storage" \in calls'[h] /\ (pc[h] \in PostLabels \/ "User" \in calls[h])

LEMMA CallHolds ==
  ASSUME NEW h \in Slots, Typed, NEW m, NEW label, NEW f, NEW w, Call(h, m, label, f, w)
  PROVE  \/ /\ pc'[h] = label /\ calls'[h] = {m}
            /\ frame'[h] = f /\ work'[h] = w
         \/ pc'[h] = "idle"
BY DEF Call, Fail, Answer, Typed, HandlersTypeOK

\* A handler of the contact book enters it with Contacts' connection.
LEMMA ContactWrites ==
  ASSUME NEW h \in Slots, Typed, ContactStep(h)
  PROVE  Writes(h)
<1>1. usrlst' = usrlst /\ msglst' = msglst /\ pc'[h] \notin PostLabels
  BY ContactLeads DEF PostLabels
<1>2. ASSUME NEW label \in BookLabels, NEW f, NEW w, Call(h, "Contacts", label, f, w)
      PROVE  pc'[h] \in BookLabels => "Contacts" \in calls'[h]
  BY <1>2, CallHolds DEF BookLabels
<1>3. CASE PairUser(h) \/ GetContactsUser(h) \/ GetContactsList(h) \/ GetContactsRow(h)
  <2>1. contactslst' = contactslst
    BY <1>3, Zenon DEF PairUser, GetContactsUser, GetContactsList, GetContactsRow, db, rows
  <2>2. pc'[h] \in {"idle", "pair:contact", "getContacts:list", "getContacts:row"}
    BY <1>3, AnswersPc, CallPc
       DEF PairUser, GetContactsUser, GetContactsList, GetContactsRow, ContactsHelper
  <2>3. QED
    BY <1>1, <2>1, <2>2 DEF Writes, BookLabels
<1>4. CASE PairContact(h)
  <2>1. contactslst' = contactslst /\ "User" \in calls[h]
    BY <1>4, Zenon DEF PairContact, Reply, db, rows
  <2>2. \/ \E f, w : Call(h, "Contacts", "pair:exists", f, w)
        \/ Fail(h, Req(h))
    BY <1>4, Zenon DEF PairContact
  <2>3. pc'[h] \in BookLabels => "Contacts" \in calls'[h]
    BY <1>2, <2>2, AnswersPc DEF BookLabels
  <2>4. QED
    BY <1>1, <2>1, <2>3 DEF Writes
<1>5. CASE PairExists(h)
  <2>1. contactslst' = contactslst /\ pc[h] \in BookLabels
    BY <1>5, Zenon DEF PairExists, Reply, db, rows, BookLabels
  <2>2. \/ \E f, w : Call(h, "Contacts", "addContact:insert", f, w)
        \/ \E f, w : Call(h, "Contacts", "favorite:update", f, w)
        \/ (\E text : RespondText(h, text)) \/ Fail(h, Req(h))
    BY <1>5, Zenon DEF PairExists
  <2>3. pc'[h] \in BookLabels => "Contacts" \in calls'[h]
    BY <1>2, <2>2, AnswersPc DEF BookLabels
  <2>4. QED
    BY <1>1, <2>1, <2>3 DEF Writes
<1>6. CASE AddContactInsert(h) \/ FavoriteUpdate(h)
  <2>1. pc[h] \in BookLabels /\ pc'[h] = "idle"
    BY <1>6, AnswersPc DEF AddContactInsert, FavoriteUpdate, Reply, BookLabels
  <2>2. QED
    BY <1>1, <2>1 DEF Writes, BookLabels
<1>7. QED
  BY <1>3, <1>4, <1>5, <1>6 DEF ContactStep

\* So does a handler of the log, with Storage's.
LEMMA MessageWrites ==
  ASSUME NEW h \in Slots, Typed, MessageStep(h)
  PROVE  Writes(h)
<1>1. usrlst' = usrlst /\ contactslst' = contactslst /\ pc'[h] \notin BookLabels
  BY MessageLeads DEF BookLabels
<1>2. ASSUME NEW label \in PostLabels, NEW f, NEW w, Call(h, "Storage", label, f, w)
      PROVE  pc'[h] \in PostLabels => "Storage" \in calls'[h]
  BY <1>2, CallHolds DEF PostLabels
<1>3. ASSUME JoeTurn(h)  PROVE pc'[h] \in PostLabels => "Storage" \in calls'[h]
  <2>1. \/ \E f, w : Call(h, "Storage", "postMessage:joe", f, w)
        \/ (\E text : RespondText(h, text)) \/ Fail(h, Req(h))
    BY <1>3, Zenon DEF JoeTurn
  <2>2. QED
    BY <1>2, <2>1, AnswersPc DEF PostLabels
<1>4. CASE GetMessagesList(h) \/ GetMessagesRow(h)
  <2>1. msglst' = msglst
    BY <1>4, Zenon DEF GetMessagesList, GetMessagesRow, db, rows
  <2>2. pc'[h] \in {"idle", "getMessages:row"}
    BY <1>4, AnswersPc, CallPc DEF GetMessagesList, GetMessagesRow, InterpretMsglist
  <2>3. QED
    BY <1>1, <2>1, <2>2 DEF Writes, PostLabels
<1>5. CASE PostMessageSender(h)
  <2>1. msglst' = msglst /\ "User" \in calls[h]
    BY <1>5, Zenon DEF PostMessageSender, Reply, db, rows
  <2>2. (\E f, w : Call(h, "Storage", "postMessage:user", f, w)) \/ Fail(h, Req(h))
    BY <1>5, Zenon DEF PostMessageSender
  <2>3. pc'[h] \in PostLabels => "Storage" \in calls'[h]
    BY <1>2, <2>2, AnswersPc DEF PostLabels
  <2>4. QED
    BY <1>1, <2>1, <2>3 DEF Writes
<1>6. CASE PostMessageUser(h) \/ PostMessageBob(h) \/ PostMessageJoe(h)
  <2>1. pc[h] \in PostLabels
    BY <1>6, Zenon DEF PostMessageUser, PostMessageBob, PostMessageJoe, Reply, PostLabels
  <2>2. \/ \E f, w : Call(h, "Storage", "postMessage:bob", f, w)
        \/ JoeTurn(h) \/ (\E text : RespondText(h, text)) \/ Fail(h, Req(h))
    BY <1>6, Zenon DEF PostMessageUser, PostMessageBob, PostMessageJoe
  <2>3. pc'[h] \in PostLabels => "Storage" \in calls'[h]
    BY <1>2, <1>3, <2>2, AnswersPc DEF PostLabels
  <2>4. QED
    BY <1>1, <2>1, <2>3 DEF Writes
<1>7. QED
  BY <1>4, <1>5, <1>6 DEF MessageStep

\* Every handler writes so.
LEMMA HandlersWrite ==
  ASSUME NEW h \in Slots, Standing, Typed, Step(h) \/ \E req \in Requests : Receive(h, req)
  PROVE  Writes(h)
<1>1. CASE ContactStep(h) \/ MessageStep(h)
  BY <1>1, ContactWrites, MessageWrites
<1>2. CASE \/ AccountStep(h) \/ SchemaStep(h) \/ ConversationStep(h) \/ StatementError(h)
           \/ \E req \in Requests : Receive(h, req)
  <2>1. pc'[h] \notin BookLabels /\ pc'[h] \notin PostLabels
    BY <1>2, AccountLeads, SchemaLeads, ConversationLeads, ErrorLeads, ReceiveLeads
       DEF BookLabels, PostLabels
  <2>2. contactslst' = contactslst /\ msglst' = msglst
    BY <1>2, AccountLeads, SchemaLeaves, ConversationLeads, ErrorLeads, ReceiveLeads
  <2>3. usrlst' = usrlst \/ "User" \in calls[h]
    BY <1>2, UsrlstHeld, ReceiveLeads DEF Step
  <2>4. QED
    BY <2>1, <2>2, <2>3 DEF Writes
<1>3. QED
  BY <1>1, <1>2 DEF Step

\* What has been told of rows that do not change stays true.
LEMMA ContactsReadStays ==
  ASSUME UNCHANGED <<usrlst, contactslst>>, NEW user, NEW w, ContactsRead(user, w)
  PROVE  ContactsRead(user, w)'
<1>1. PICK ids, told, row : /\ ids = ContactList(user, Len(contactslst))
                            /\ told = ContactTold /\ row = ContactRow
  OBVIOUS
<1>2. Partly(ids, told, row, w)
  BY <1>1 DEF ContactsRead
<1>3. ContactList(user, Len(contactslst))' = ids /\ ContactTold' = told /\ ContactRow' = row
  BY <1>1 DEF ContactList, ContactTold, ContactRow
<1>4. QED
  BY <1>2, <1>3 DEF ContactsRead, Partly

LEMMA MessagesReadStays ==
  ASSUME UNCHANGED <<usrlst, msglst>>, NEW convo, NEW w, MessagesRead(convo, w)
  PROVE  MessagesRead(convo, w)'
<1>1. PICK ids, told, row : /\ ids = MessageList(convo, Len(msglst))
                            /\ told = MessageTold /\ row = MessageRow
  OBVIOUS
<1>2. Partly(ids, told, row, w)
  BY <1>1 DEF MessagesRead
<1>3. MessageList(convo, Len(msglst))' = ids /\ MessageTold' = told /\ MessageRow' = row
  BY <1>1 DEF MessageList, MessageTold, MessageRow
<1>4. QED
  BY <1>2, <1>3 DEF MessagesRead, Partly

\* Nobody writes to the tables another handler's list is made of.
LEMMA OthersPoll ==
  ASSUME NEW h \in Slots, NEW g \in Slots \ {h}, Typed, MoveOf(h), Writes(h), Polling(g)
  PROVE  Polling(g)'
<1>1. pc'[g] = pc[g] /\ calls'[g] = calls[g] /\ frame'[g] = frame[g] /\ work'[g] = work[g]
  BY DEF MoveOf
<1>2. ASSUME "User" \in calls[g]  PROVE "User" \notin calls[h] /\ usrlst' = usrlst
  BY <1>2 DEF Typed, Exclusive, Writes
<1>3. ASSUME pc[g] = "getContacts:row"
      PROVE  ContactsRead(frame[g].user, work[g])' /\ \A i \in Slots : pc'[i] \notin BookLabels
  <2>1. /\ "User" \in calls[g] /\ ContactsRead(frame[g].user, work[g])
        /\ \A i \in Slots : pc[i] \notin BookLabels
    BY <1>3 DEF Polling
  <2>2. UNCHANGED <<usrlst, contactslst>> /\ pc'[h] \notin BookLabels
    BY <1>2, <2>1 DEF Writes
  <2>3. PICK user, w : user = frame[g].user /\ w = work[g]
    OBVIOUS
  <2>4. ContactsRead(user, w)'
    BY <2>1, <2>2, <2>3, ContactsReadStays
  <2>5. frame'[g].user = user /\ work'[g] = w
    BY <1>1, <2>3
  <2>6. \A i \in Slots : pc'[i] \notin BookLabels
    BY <2>1, <2>2 DEF MoveOf
  <2>7. QED
    BY <2>4, <2>5, <2>6 DEF ContactsRead
<1>4. ASSUME pc[g] = "getMessages:row"
      PROVE  MessagesRead(Req(g).convo, work[g])' /\ \A i \in Slots : pc'[i] \notin PostLabels
  <2>1. /\ "User" \in calls[g] /\ MessagesRead(Req(g).convo, work[g])
        /\ \A i \in Slots : pc[i] \notin PostLabels
    BY <1>4 DEF Polling
  <2>2. UNCHANGED <<usrlst, msglst>> /\ pc'[h] \notin PostLabels
    BY <1>2, <2>1 DEF Writes
  <2>3. PICK convo, w : convo = Req(g).convo /\ w = work[g]
    OBVIOUS
  <2>4. MessagesRead(convo, w)'
    BY <2>1, <2>2, <2>3, MessagesReadStays
  <2>5. Req(g)'.convo = convo /\ work'[g] = w
    BY <1>1, <2>3 DEF Req
  <2>6. \A i \in Slots : pc'[i] \notin PostLabels
    BY <2>1, <2>2 DEF MoveOf
  <2>7. QED
    BY <2>4, <2>5, <2>6 DEF MessagesRead
<1>5. QED
  BY <1>1, <1>3, <1>4 DEF Polling

\* A handler whose list is none of contacts or messages
LEMMA NotPolling ==
  ASSUME NEW h \in Slots, Writes(h), pc'[h] \notin {"getContacts:row", "getMessages:row"}
  PROVE  Polling(h)'
BY DEF Polling, Writes

\* contacts_helper goes from Contacts' connection to User's at once.
LEMMA ContactPolls ==
  ASSUME NEW h \in Slots, Typed, Listed, RowsRefer, MoveOf(h), Writes(h),
         \A g \in Slots : Polling(g), GetContactsList(h) \/ GetContactsRow(h)
  PROVE  Polling(h)'
<1>1. PICK user : user = frame[h].user
  OBVIOUS
<1>2. ASSUME UNCHANGED db, NEW w, NEW todo, NEW out, w.todo = todo, w.out = out,
             ContactsRead(user, w), \A g \in Slots : pc[g] \notin BookLabels,
             ContactsHelper(h, todo, out)
      PROVE  Polling(h)'
  <2>1. CASE todo = << >> /\ RespondJson(h, out)
    BY <2>1, AnswersPc, NotPolling
  <2>2. CASE Call(h, "User", "getContacts:row", frame[h],
                  [work[h] EXCEPT !.todo = todo, !.out = out])
    <3>1. PICK v : v = [work[h] EXCEPT !.todo = todo, !.out = out]
      OBVIOUS
    <3>2. v.todo = w.todo /\ v.out = w.out
      BY <1>2, <3>1, Working
    <3>3. ContactsRead(user, v)
      BY <1>2, <3>2 DEF ContactsRead, Partly
    <3>4. ContactsRead(user, v)'
      BY <1>2, <3>3, ContactsReadStays DEF db, rows
    <3>5. CASE pc'[h] = "getContacts:row" /\ calls'[h] = {"User"}
               /\ frame'[h] = frame[h] /\ work'[h] = v
      <4>1. ContactsRead(frame[h].user, work[h])'
        BY <1>1, <3>4, <3>5 DEF ContactsRead
      <4>2. \A g \in Slots : pc'[g] \notin BookLabels
        BY <1>2, <3>5 DEF MoveOf, BookLabels
      <4>3. pc'[h] \notin BookLabels \cup PostLabels \cup {"getMessages:row"}
        BY <3>5 DEF BookLabels, PostLabels
      <4>4. QED
        BY <3>5, <4>1, <4>2, <4>3 DEF Polling
    <3>6. CASE pc'[h] = "idle"
      BY <3>6, NotPolling
    <3>7. QED
      BY <2>2, <3>1, <3>5, <3>6, CallHolds
  <2>3. QED
    BY <1>2, <2>1, <2>2 DEF ContactsHelper
<1>3. CASE GetContactsList(h)
  <2> DEFINE ids == ContactList(user, Len(contactslst))
             todo == [k \in DOMAIN ids |->
                        [contact_id |-> contactslst[ids[k]].contactid,
                         favorite |-> contactslst[ids[k]].favorite]]
             w == [todo |-> todo, out |-> << >>]
  <2>1. /\ pc[h] = "getContacts:list" /\ "Contacts" \in calls[h] /\ UNCHANGED db
        /\ ContactsHelper(h, todo, << >>)
    BY <1>1, <1>3 DEF GetContactsList, Reply
  <2>2. w.todo = todo /\ w.out = << >>
    OBVIOUS
  <2>3. ContactsRead(user, w)
    BY <2>2, ContactsReadFirst
  <2>4. \A g \in Slots : pc[g] \notin BookLabels
    <3>1. \A g \in Slots : pc[g] \in BookLabels => "Contacts" \in calls[g]
      BY DEF Polling
    <3>2. QED
      BY <2>1, <3>1 DEF Typed, Exclusive, BookLabels
  <2> HIDE DEF w, todo
  <2>5. QED
    BY <1>2, <2>1, <2>2, <2>3, <2>4
<1>4. CASE GetContactsRow(h)
  <2>1. PICK item : item = [email |-> usrlst[Head(work[h].todo).contact_id].email,
                            username |-> usrlst[Head(work[h].todo).contact_id].username,
                            favorite |-> Head(work[h].todo).favorite]
    OBVIOUS
  <2>2. /\ pc[h] = "getContacts:row" /\ UNCHANGED db
        /\ \/ ContactsHelper(h, Tail(work[h].todo), Append(work[h].out, item))
           \/ Fail(h, Req(h))
    BY <1>4, <2>1 DEF GetContactsRow, Reply
  <2>3. CASE Fail(h, Req(h))
    BY <2>3, AnswersPc, NotPolling
  <2>4. CASE ContactsHelper(h, Tail(work[h].todo), Append(work[h].out, item))
    <3>1. PICK w : w = [todo |-> Tail(work[h].todo), out |-> Append(work[h].out, item)]
      OBVIOUS
    <3>2. w.todo = Tail(work[h].todo) /\ w.out = Append(work[h].out, item)
      BY <3>1
    <3>3. ContactsRead(user, w)
      BY <1>1, <2>1, <2>2, <3>2, ContactsReadNext
    <3>4. \A g \in Slots : pc[g] \notin BookLabels
      BY <2>2 DEF Polling
    <3>5. QED
      BY <1>2, <2>2, <2>4, <3>2, <3>3, <3>4
  <2>5. QED
    BY <2>2, <2>3, <2>4
<1>5. QED
  BY <1>3, <1>4

\* interpret_msglist goes from Storage's connection to User's at once.
LEMMA MessagePolls ==
  ASSUME NEW h \in Slots, Typed, Listed, RowsRefer, MoveOf(h), Writes(h),
         \A g \in Slots : Polling(g), GetMessagesList(h) \/ GetMessagesRow(h)
  PROVE  Polling(h)'
<1>1. PICK convo : convo = Req(h).convo
  OBVIOUS
<1>2. ASSUME UNCHANGED db, NEW w, NEW todo, NEW out, w.todo = todo, w.out = out,
             MessagesRead(convo, w), \A g \in Slots : pc[g] \notin PostLabels,
             InterpretMsglist(h, todo, out)
      PROVE  Polling(h)'
  <2>1. CASE todo = << >> /\ RespondJson(h, out)
    BY <2>1, AnswersPc, NotPolling
  <2>2. CASE Call(h, "User", "getMessages:row", frame[h],
                  [work[h] EXCEPT !.todo = todo, !.out = out])
    <3>1. PICK v : v = [work[h] EXCEPT !.todo = todo, !.out = out]
      OBVIOUS
    <3>2. v.todo = w.todo /\ v.out = w.out
      BY <1>2, <3>1, Working
    <3>3. MessagesRead(convo, v)
      BY <1>2, <3>2 DEF MessagesRead, Partly
    <3>4. MessagesRead(convo, v)'
      BY <1>2, <3>3, MessagesReadStays DEF db, rows
    <3>5. CASE pc'[h] = "getMessages:row" /\ calls'[h] = {"User"}
               /\ frame'[h] = frame[h] /\ work'[h] = v
      <4>1. Req(h)'.convo = convo
        BY <1>1, <3>5 DEF Req
      <4>2. MessagesRead(Req(h).convo, work[h])'
        BY <3>4, <3>5, <4>1 DEF MessagesRead
      <4>3. \A g \in Slots : pc'[g] \notin PostLabels
        BY <1>2, <3>5 DEF MoveOf, PostLabels
      <4>4. pc'[h] \notin BookLabels \cup PostLabels \cup {"getContacts:row"}
        BY <3>5 DEF BookLabels, PostLabels
      <4>5. QED
        BY <3>5, <4>2, <4>3, <4>4 DEF Polling
    <3>6. CASE pc'[h] = "idle"
      BY <3>6, NotPolling
    <3>7. QED
      BY <2>2, <3>1, <3>5, <3>6, CallHolds
  <2>3. QED
    BY <1>2, <2>1, <2>2 DEF InterpretMsglist
<1>3. CASE GetMessagesList(h)
  <2> DEFINE ids == MessageList(convo, Len(msglst))
             todo == [k \in DOMAIN ids |-> [senderid |-> msglst[ids[k]].senderid,
                                            msg |-> msglst[ids[k]].msg]]
             w == [todo |-> todo, out |-> << >>]
  <2>1. /\ pc[h] = "getMessages:list" /\ "Storage" \in calls[h] /\ UNCHANGED db
        /\ InterpretMsglist(h, todo, << >>)
    BY <1>1, <1>3 DEF GetMessagesList, Reply
  <2>2. w.todo = todo /\ w.out = << >>
    OBVIOUS
  <2>3. MessagesRead(convo, w)
    BY <2>2, MessagesReadFirst
  <2>4. \A g \in Slots : pc[g] \notin PostLabels
    <3>1. \A g \in Slots : pc[g] \in PostLabels => "Storage" \in calls[g]
      BY DEF Polling
    <3>2. QED
      BY <2>1, <3>1 DEF Typed, Exclusive, PostLabels
  <2> HIDE DEF w, todo
  <2>5. QED
    BY <1>2, <2>1, <2>2, <2>3, <2>4
<1>4. CASE GetMessagesRow(h)
  <2>1. PICK message : message = Head(work[h].todo)
    OBVIOUS
  <2>2. PICK item : item = [username |-> usrlst[message.senderid].username,
                            message |-> message.msg]
    OBVIOUS
  <2>3. /\ pc[h] = "getMessages:row" /\ UNCHANGED db
        /\ \/ InterpretMsglist(h, Tail(work[h].todo), Append(work[h].out, item))
           \/ Fail(h, Req(h))
    BY <1>4, <2>1, <2>2 DEF GetMessagesRow, Reply
  <2>4. CASE Fail(h, Req(h))
    BY <2>4, AnswersPc, NotPolling
  <2>5. CASE InterpretMsglist(h, Tail(work[h].todo), Append(work[h].out, item))
    <3>1. PICK w : w = [todo |-> Tail(work[h].todo), out |-> Append(work[h].out, item)]
      OBVIOUS
    <3>2. w.todo = Tail(work[h].todo) /\ w.out = Append(work[h].out, item)
      BY <3>1
    <3>3. MessagesRead(convo, w)
      BY <1>1, <2>1, <2>2, <2>3, <3>2, MessagesReadNext
    <3>4. \A g \in Slots : pc[g] \notin PostLabels
      BY <2>3 DEF Polling
    <3>5. QED
      BY <1>2, <2>3, <2>5, <3>2, <3>3, <3>4
  <2>6. QED
    BY <2>3, <2>4, <2>5
<1>5. QED
  BY <1>3, <1>4

\* A handler's own list stays one of this moment.
LEMMA StepPolls ==
  ASSUME NEW h \in Slots, Typed, Listed, RowsRefer, MoveOf(h), Writes(h),
         \A g \in Slots : Polling(g), Step(h)
  PROVE  Polling(h)'
<1>1. CASE GetContactsList(h) \/ GetContactsRow(h)
  BY <1>1, ContactPolls
<1>2. CASE GetMessagesList(h) \/ GetMessagesRow(h)
  BY <1>2, MessagePolls
<1>3. ASSUME pc'[h] \in {"getContacts:row", "getMessages:row"}
      PROVE  \/ GetContactsList(h) \/ GetContactsRow(h)
             \/ GetMessagesList(h) \/ GetMessagesRow(h)
  <2>1. ~AccountStep(h) /\ ~SchemaStep(h) /\ ~ConversationStep(h) /\ ~StatementError(h)
    BY <1>3, AccountLeads, SchemaLeads, ConversationLeads, ErrorLeads
  <2>2. CASE ContactStep(h)
    <3>1. CASE PairUser(h) \/ PairContact(h) \/ PairExists(h) \/ GetContactsUser(h)
      <4>1. pc'[h] \in {"idle", "pair:contact", "pair:exists", "addContact:insert",
                        "favorite:update", "getContacts:list"}
        BY <3>1, AnswersPc, CallPc DEF PairUser, PairContact, PairExists, GetContactsUser
      <4>2. QED
        BY <1>3, <4>1
    <3>2. CASE AddContactInsert(h) \/ FavoriteUpdate(h)
      BY <1>3, <3>2, AnswersPc DEF AddContactInsert, FavoriteUpdate
    <3>3. QED
      BY <2>2, <3>1, <3>2 DEF ContactStep
  <2>3. CASE MessageStep(h)
    <3>1. CASE PostMessageSender(h)
      BY <1>3, <3>1, AnswersPc, CallPc DEF PostMessageSender
    <3>2. CASE PostMessageUser(h) \/ PostMessageBob(h) \/ PostMessageJoe(h)
      <4>1. pc'[h] \in {"idle", "postMessage:bob", "postMessage:joe"}
        BY <3>2, AnswersPc, CallPc
           DEF PostMessageUser, PostMessageBob, PostMessageJoe, JoeTurn
      <4>2. QED
        BY <1>3, <4>1
    <3>3. QED
      BY <2>3, <3>1, <3>2 DEF MessageStep
  <2>4. QED
    BY <2>1, <2>2, <2>3 DEF Step
<1>4. QED
  BY <1>1, <1>2, <1>3, NotPolling

\* Polling is kept by every step.
LEMMA NextPolls ==
  ASSUME Standing, Typed, Listed, RefInv, \A h \in Slots : Polling(h), [Next]_vars
  PROVE  \A h \in Slots : Polling(h)'
<1>1. ASSUME NEW h \in Slots, NEW req \in Requests, Receive(h, req)
      PROVE  \A g \in Slots : Polling(g)'
  <2>1. MoveOf(h) /\ pc'[h] \notin {"getContacts:row", "getMessages:row"} /\ Writes(h)
    BY <1>1, ReceiveKeeps, ReceiveLeads, HandlersWrite DEF Kept
  <2>2. QED
    BY <2>1, NotPolling, OthersPoll
<1>2. ASSUME NEW h \in Slots, Step(h)
      PROVE  \A g \in Slots : Polling(g)'
  <2>1. MoveOf(h) /\ Writes(h) /\ RowsRefer
    BY <1>2, StepKeeps, HandlersWrite DEF Kept, RefInv
  <2>2. Polling(h)'
    BY <1>2, <2>1, StepPolls
  <2>3. QED
    BY <2>1, <2>2, OthersPoll
<1>3. ASSUME Restart  PROVE \A h \in Slots : Polling(h)'
  BY <1>3 DEF Restart, Polling, BookLabels, PostLabels
<1>4. ASSUME UNCHANGED vars, NEW h \in Slots  PROVE Polling(h)'
  <2>1. UNCHANGED <<usrlst, contactslst, msglst, pc, calls, frame, work>>
    BY <1>4 DEF vars, db, rows, server
  <2>2. PICK user, convo, w : user = frame[h].user /\ convo = Req(h).convo /\ w = work[h]
    OBVIOUS
  <2>3. /\ ContactsRead(user, w) => ContactsRead(user, w)'
        /\ MessagesRead(convo, w) => MessagesRead(convo, w)'
    BY <2>1, ContactsReadStays, MessagesReadStays
  <2>4. frame'[h].user = user /\ Req(h)'.convo = convo /\ work'[h] = w
    BY <2>1, <2>2 DEF Req
  <2>5. /\ ContactsRead(frame[h].user, work[h]) => ContactsRead(frame[h].user, work[h])'
        /\ MessagesRead(Req(h).convo, work[h]) => MessagesRead(Req(h).convo, work[h])'
    BY <2>2, <2>3, <2>4 DEF ContactsRead, MessagesRead
  <2>6. QED
    BY <2>1, <2>5 DEF Polling
<1>5. QED
  BY <1>1, <1>2, <1>3, <1>4 DEF Next

-----------------------------------------------------------------------------
(***************************************************************************)
(* Creators and bots                                                       *)
(***************************************************************************)
Headed(room) == MembersOf(room) \cap UsersWithEmail(convolst[room].creator_name) # {}

\* A creator who is a member remains one.
LEMMA HeadedStay ==
  ASSUME Grow, RowsRefer, NEW room \in DOMAIN convolst, Headed(room)
  PROVE  Headed(room)'
<1>1. PICK creator : creator = convolst[room].creator_name
  OBVIOUS
<1>2. PICK who : who \in MembersOf(room) /\ who \in UsersWithEmail(creator)
  BY <1>1 DEF Headed
<1>3. who \in MembersOf(room)' /\ who \in UsersWithEmail(creator)'
  BY <1>2, MembersStay, SameEmails
<1>4. convolst'[room].creator_name = creator
  BY <1>1 DEF Grow
<1>5. QED
  BY <1>3, <1>4 DEF Headed

\* The creator comes first: whoever is brought in finds the creator there.
LEMMA JoinHeads ==
  ASSUME NEW h \in Slots, Typed, Grow, RefInv, ConvoInv, BringInv, CreatorsJoined,
         Knows(h), pc[h] \in {"makeConversation:join", "makeConversation:member"},
         NEW room, room = frame[h].convo, NEW user, InsertMember(room, user),
         pc[h] = "makeConversation:join" => user = frame[h].user, convolst' = convolst
  PROVE  Headed(room)'
<1>1. /\ room \in DOMAIN convolst /\ convolst[room].creator_name = Req(h).creator
  <2>1. room \in DOMAIN convolst
    BY DEF RefInv, Ref, Refers, WithConvo
  <2>2. room # 0
    BY <2>1 DEF Typed, RowsTypeOK
  <2>3. Req(h).op = "makeConversation"
    BY Busy DEF Fits
  <2>4. convolst[room] = [convo_name |-> Req(h).name, creator_name |-> Req(h).creator]
    BY <2>2, <2>3, Zenon DEF ConvoInv, LastIdIsMine
  <2>5. QED
    BY <2>1, <2>4
<1>2. frame[h].user \in UsersWithEmail(Req(h).creator)
  BY DEF BringInv, Brought, Brings, Makes, Req
<1>3. MembersOf(room)' = MembersOf(room) \cup {user}
  BY JoinMembers DEF Typed, RowsTypeOK
<1>4. CASE pc[h] = "makeConversation:join"
  <2>1. PICK creator : creator = Req(h).creator
    OBVIOUS
  <2>2. convolst'[room].creator_name = creator
    BY <1>1, <2>1
  <2>3. user \in UsersWithEmail(creator)'
    BY <1>2, <1>4, <2>1, SameEmails
  <2>4. QED
    BY <1>3, <2>2, <2>3 DEF Headed
<1>5. CASE pc[h] = "makeConversation:member"
  <2>1. frame[h].user \in MembersOf(room)
    BY <1>5 DEF Knows, Aware, Joins
  <2>2. Headed(room)
    BY <1>1, <1>2, <2>1 DEF Headed
  <2>3. QED
    BY <1>1, <2>2, HeadedStay DEF RefInv
<1>6. QED
  BY <1>4, <1>5

\* CreatorsJoined is kept by every step.
LEMMA NextCreators ==
  ASSUME Standing, Typed, Grow, RefInv, ConvoInv, BringInv, CreatorsJoined,
         \A h \in Slots : Knows(h), [Next]_vars
  PROVE  CreatorsJoined'
<1>1. ASSUME userconvolst' = userconvolst  PROVE CreatorsJoined'
  <2> SUFFICES ASSUME NEW i \in DOMAIN userconvolst, NEW room,
                      room = userconvolst[i].conversation_id
               PROVE  Headed(room)'
    BY <1>1 DEF CreatorsJoined, Headed
  <2>1. Headed(room) /\ room \in DOMAIN convolst
    BY DEF CreatorsJoined, Headed, RefInv, RowsRefer
  <2>2. QED
    BY <2>1, HeadedStay DEF RefInv
<1>2. ASSUME NEW h \in Slots, Step(h), userconvolst' # userconvolst
      PROVE  CreatorsJoined'
  <2>1. ConversationStep(h)
    BY <1>2, MembersElsewhere
  <2>2. PICK room, user :
          /\ room = frame[h].convo /\ InsertMember(room, user) /\ convolst' = convolst
          /\ pc[h] \in {"makeConversation:join", "makeConversation:member"}
          /\ pc[h] = "makeConversation:join" => user = frame[h].user
    BY <1>2, <2>1, Members
  <2>3. Headed(room)'
    BY <2>2, JoinHeads
  <2>4. PICK row : row = [conversation_id |-> room, users_id |-> user]
    OBVIOUS
  <2>5. userconvolst' = Append(userconvolst, row) /\ row.conversation_id = room
    BY <2>2, <2>4 DEF InsertMember
  <2>6. ASSUME NEW i \in DOMAIN userconvolst'
        PROVE  userconvolst'[i] = row \/ \E j \in DOMAIN userconvolst :
                 userconvolst'[i] = userconvolst[j]
    BY <2>5, <2>6 DEF Typed, RowsTypeOK
  <2>7. ASSUME NEW j \in DOMAIN userconvolst  PROVE Headed(userconvolst[j].conversation_id)'
    <3>1. PICK old : old = userconvolst[j].conversation_id
      OBVIOUS
    <3>2. Headed(old) /\ old \in DOMAIN convolst
      BY <3>1 DEF CreatorsJoined, Headed, RefInv, RowsRefer
    <3>3. Headed(old)'
      BY <3>2, HeadedStay DEF RefInv
    <3>4. userconvolst'[j] = userconvolst[j]
      BY DEF Grow
    <3>5. QED
      BY <3>1, <3>3, <3>4
  <2>8. QED
    BY <2>3, <2>5, <2>6, <2>7 DEF CreatorsJoined, Headed
<1>3. userconvolst' = userconvolst \/ \E h \in Slots : Step(h)
  BY ReceiveLeads DEF Next, Restart, vars, db, rows
<1>4. QED
  BY <1>1, <1>2, <1>3

\* The bots' emails stay.
LEMMA NextBotEmails ==
  ASSUME Grow, RefInv, BotEmails
  PROVE  BotEmails'
BY DEF Grow, RefInv, BotEmails

\* AtomicInv is kept by every step.
LEMMA NextAtomic ==
  ASSUME Standing, Typed, Typed', Listed, RefInv, ConvoInv, BringInv, PostInv,
         AtomicInv, [Next]_vars
  PROVE  AtomicInv'
<1>1. Grow
  BY NextGrows
<1>2. BotEmails /\ CreatorsJoined /\ \A h \in Slots : Knows(h) /\ Polling(h) /\ Logging(h)
  BY DEF AtomicInv
<1>3. BotEmails' /\ CreatorsJoined'
  BY <1>1, <1>2, NextBotEmails, NextCreators
<1>4. \A h \in Slots : Knows(h)'
  BY <1>2, NextKnows
<1>5. \A h \in Slots : Polling(h)'
  BY <1>2, NextPolls
<1>6. \A h \in Slots : Logging(h)'
  BY <1>2, NextLogs
<1>7. QED
  BY <1>3, <1>4, <1>5, <1>6 DEF AtomicInv

-----------------------------------------------------------------------------
(***************************************************************************)
(* The first state                                                         *)
(***************************************************************************)
BotsEnrolled == InitUsers[BobId].email = "bob" /\ InitUsers[JoeId].email = "joe"

\* A function of nothing is the empty sequence.
LEMMA NoRows ==
  ASSUME NEW f, DOMAIN f = {}, f = [i \in DOMAIN f |-> f[i]]
  PROVE  f = << >>
OBVIOUS

\* No message waits for a reply at the start.
LEMMA InitPending == Init => Unfinished = 0
BY NothingPending, UnfinishedWaits DEF Init, PendingLabels

\* The server starts as AtomicChat does.
LEMMA InitMaps ==
  ASSUME Rooted, Text \subseteq STRING, Init
  PROVE  Atomic!Init
<1>1. usrlst \in Seq([email : STRING, password : STRING, username : STRING])
  <2>1. Account \subseteq [email : STRING, password : STRING, username : STRING]
    BY DEF Account
  <2>2. QED
    BY <2>1, InitAssumption, WiderSeq, Zenon DEF Init
<1>2. Book \in Seq([user : STRING, contact : STRING, favorite : BOOLEAN])
  <2>1. contactslst \in Seq(Contact)
    BY InitAssumption DEF Init
  <2>2. ASSUME NEW id \in DOMAIN usrlst  PROVE EmailOf(id) \in STRING
    <3>1. usrlst[id] \in [email : STRING, password : STRING, username : STRING]
      BY <1>1, RowOf
    <3>2. QED
      BY <3>1 DEF EmailOf
  <2>3. ASSUME NEW i \in DOMAIN contactslst
        PROVE  Book[i] \in [user : STRING, contact : STRING, favorite : BOOLEAN]
    <3>1. contactslst[i] \in Contact
      BY <2>1, RowOf
    <3>2. contactslst[i].favorite \in BOOLEAN
      BY <3>1 DEF Contact
    <3>3. EmailOf(contactslst[i].userid) \in STRING /\ EmailOf(contactslst[i].contactid) \in STRING
      BY <2>2 DEF Rooted, Init
    <3>4. Book[i] = [user |-> EmailOf(contactslst[i].userid),
                     contact |-> EmailOf(contactslst[i].contactid),
                     favorite |-> contactslst[i].favorite]
      BY DEF Book
    <3>5. QED
      BY <3>2, <3>3, <3>4
  <2>4. DOMAIN Book = DOMAIN contactslst /\ Book = [i \in DOMAIN contactslst |-> Book[i]]
    BY DEF Book
  <2>5. QED
    BY <2>1, <2>3, <2>4, MadeOf
<1>3. DOMAIN userconvolst = {} /\ DOMAIN msglst = {} /\ Len(msglst) = 0
  BY DEF Init
<1>4. Rooms = << >>
  <2>1. {userconvolst[i].conversation_id : i \in DOMAIN userconvolst} = {}
    BY <1>3
  <2>2. DOMAIN Rooms = {} /\ Rooms = [id \in DOMAIN Rooms |-> Rooms[id]]
    BY <2>1, Zenon DEF Rooms
  <2>3. QED
    BY <2>2, NoRows
<1>5. Joined = << >>
  BY <1>3, NoRows DEF Joined
<1>6. Log = << >>
  <2>1. 1 .. Len(msglst) - Unfinished = {}
    BY <1>3, InitPending
  <2>2. QED
    BY <2>1, NoRows DEF Log
<1>7. response.status = 0
  BY DEF Init, Silent
<1>8. QED
  BY <1>1, <1>2, <1>4, <1>5, <1>6, <1>7 DEF Atomic!Init

\* At the start nobody knows anything yet.
LEMMA InitAtomic ==
  ASSUME Rooted, BotsEnrolled, Init
  PROVE  AtomicInv
<1>1. BotEmails /\ CreatorsJoined
  BY DEF BotsEnrolled, Init, BotEmails, CreatorsJoined
<1>2. \A h \in Slots : Knows(h) /\ Polling(h) /\ Logging(h)
  BY DEF Init, Knows, Aware, Reading, Polling, BookLabels, PostLabels, Logging, Joins
<1>3. QED
  BY <1>1, <1>2 DEF AtomicInv
-----------------------------------------------------------------------------
(***************************************************************************)
(* Every step                                                              *)
(***************************************************************************)
\* Where nothing changes, nothing changes for a client.
LEMMA StutterMaps ==
  ASSUME UNCHANGED vars
  PROVE  UNCHANGED Atomic!vars
<1>1. UNCHANGED <<rows, response>> /\ pc' = pc /\ frame' = frame
  BY DEF vars, db, server
<1>2. UNCHANGED <<usrlst, contactslst, convolst, userconvolst, msglst>>
  BY <1>1 DEF rows
<1>3. Unfinished' = Unfinished
  BY <1>1, UnfinishedWaits
<1>4. Book' = Book
  BY <1>2 DEF Book, EmailOf
<1>5. Rooms' = Rooms
  BY <1>2 DEF Rooms
<1>6. Joined' = Joined
  BY <1>2 DEF Joined, EmailOf
<1>7. Log' = Log
  BY <1>2, <1>3 DEF Log, EmailOf
<1>8. QED
  BY <1>1, <1>2, <1>4, <1>5, <1>6, <1>7 DEF Atomic!vars

\* All that the proof knows of a reachable state
Sound ==
  /\ Typed /\ Listed /\ Windows /\ CreateInv /\ EmailUnique /\ ContactInv
  /\ ConvoInv /\ RefInv /\ BringInv /\ PartyInv /\ PostInv
  /\ Signed(msglst) /\ AtomicInv

\* Every step is one of AtomicChat, or none.
LEMMA NextImplements ==
  ASSUME Standing, Sound, Sound', [Next]_vars
  PROVE  [Atomic!Next]_(Atomic!vars)
<1>1. /\ Typed /\ Listed /\ Windows /\ CreateInv /\ EmailUnique /\ ContactInv
      /\ ConvoInv /\ RefInv /\ BringInv /\ PartyInv /\ PostInv
      /\ \A h \in Slots : /\ Aware(pc[h], frame[h]) /\ Reading(pc[h], frame[h], work[h])
                          /\ Polling(h) /\ Logging(h)
  BY DEF Sound, AtomicInv, Knows
<1>2. Typed' /\ Listed' /\ BotEmails' /\ Signed(msglst')
  BY DEF Sound, AtomicInv
<1>3. Grow
  BY <1>1, NextGrows
<1>4. ASSUME NEW h \in Slots, NEW req \in Requests, Receive(h, req)  PROVE Atomic!Next
  BY <1>1, <1>4, ReceiveKeeps, ReceiveHandler DEF Kept
<1>5. ASSUME NEW h \in Slots, Step(h)  PROVE Atomic!Next
  <2>1. MoveOf(h)
    BY <1>1, <1>5, StepKeeps DEF Kept
  <2>2. CASE AccountStep(h)
    BY <1>1, <2>1, <2>2, AccountHandler
  <2>3. CASE SchemaStep(h)
    BY <1>1, <2>1, <2>3, SchemaHandler
  <2>4. CASE ContactStep(h)
    BY <1>1, <1>2, <2>1, <2>4, ContactHandler
  <2>5. CASE ConversationStep(h)
    BY <1>1, <2>1, <2>5, ConversationHandler
  <2>6. CASE MessageStep(h)
    BY <1>1, <1>2, <1>3, <2>1, <2>6, MessageHandler
  <2>7. CASE StatementError(h)
    BY <1>1, <1>2, <2>1, <2>7, ErrorHandler
  <2>8. QED
    BY <1>5, <2>2, <2>3, <2>4, <2>5, <2>6, <2>7 DEF Step
<1>6. CASE Restart
  BY <1>1, <1>2, <1>6, RestartHandlers
<1>7. CASE UNCHANGED vars
  BY <1>7, StutterMaps
<1>8. QED
  BY <1>4, <1>5, <1>6, <1>7 DEF Next
-----------------------------------------------------------------------------
(***************************************************************************)
(* Every behaviour                                                         *)
(***************************************************************************)
\* What is stored as a bot's carries the bot's id.
LEMMA AlwaysSigned == Standing => (Spec => []Signed(msglst))
<1> SUFFICES ASSUME Standing  PROVE Spec => []Signed(msglst)
  OBVIOUS
<1>1. Init => Signed(msglst)
  BY DEF Init, Signed
<1>2. Typed /\ Signed(msglst) /\ [Next]_vars => Signed(msglst)'
  <2> SUFFICES ASSUME Typed, Signed(msglst), [Next]_vars  PROVE Signed(msglst)'
    OBVIOUS
  <2>1. ASSUME NEW h \in Slots, Step(h)  PROVE Signed(msglst)'
    BY <2>1, StepSigned
  <2>2. msglst' = msglst \/ \E h \in Slots : Step(h)
    BY ReceiveLeads DEF Next, Restart, vars, db, rows
  <2>3. QED
    BY <2>1, <2>2
<1>3. QED
  BY <1>1, <1>2, AlwaysTyped, PTL DEF Spec

\* All of that knowledge is there in every reachable state.
LEMMA AlwaysSound ==
  Standing /\ Rooted /\ Ordinary /\ Reserved /\ ContactsWellSeeded /\ BotsEnrolled
    => (Spec => []Sound)
<1> SUFFICES ASSUME Standing, Rooted, Ordinary, Reserved, ContactsWellSeeded, BotsEnrolled
             PROVE  Spec => []Sound
  OBVIOUS
<1>1. Spec => /\ []Typed /\ []Listed /\ []ConvoInv /\ []RefInv /\ []BringInv
              /\ []PartyInv /\ []Signed(msglst)
  BY AlwaysTyped, AlwaysListed, AlwaysConvos, AlwaysRefers, AlwaysBrings, AlwaysParty,
     AlwaysSigned
<1>2. Spec => []Windows
  BY AlwaysWindows, PTL
<1>3. Spec => []EmailUnique
  BY EmailsAreUnique
<1>4. Spec => []ContactInv
  <2>1. Init => ContactInv
    BY DEF Init, ContactsWellSeeded, ContactInv, ContactUnique, ContactWindow
  <2>2. QED
    BY <2>1, AlwaysTyped, NextContacts, PTL DEF Spec
<1>5. Spec => []CreateInv
  <2>1. Init => CreateInv
    BY DEF Init, CreateInv, CreateWindow, NamesHeld, Reserved, Seeding
  <2>2. Typed /\ CreateInv /\ [Next]_vars => CreateInv'
    BY NextCreates
  <2>3. QED
    BY <2>1, <2>2, AlwaysTyped, PTL DEF Spec
<1>6. Spec => []PostInv
  <2>1. Init => PostInv
    BY DEF Init, PostInv, PostWindow
  <2>2. Typed /\ PostInv /\ [Next]_vars => PostInv'
    BY NextPosts
  <2>3. QED
    BY <2>1, <2>2, AlwaysTyped, PTL DEF Spec
<1>7. Spec => []AtomicInv
  <2>1. Init => AtomicInv
    BY InitAtomic
  <2>2. /\ Typed /\ Typed' /\ Listed /\ RefInv /\ ConvoInv /\ BringInv /\ PostInv
        /\ AtomicInv /\ [Next]_vars
        => AtomicInv'
    BY NextAtomic
  <2>3. QED
    BY <1>1, <1>6, <2>1, <2>2, PTL DEF Spec
<1>8. Typed /\ Listed /\ Windows /\ CreateInv /\ EmailUnique /\ ContactInv
        /\ ConvoInv /\ RefInv /\ BringInv /\ PartyInv /\ PostInv
        /\ Signed(msglst) /\ AtomicInv
        => Sound
  BY DEF Sound
<1>9. QED
  BY <1>1, <1>2, <1>3, <1>4, <1>5, <1>6, <1>7, <1>8, PTL

\* Whatever the handlers of main.ml do, in any order, refused, failing or
\* killed, they implement AtomicChat: a request happens at one moment or not at
\* all, with the exceptions told there, and every field of an answer, looked up
\* row by row or not, is what AtomicChat has at the moment of the answer.  Bob
\* and Joe have the first two accounts and keep their emails, nobody takes
\* their names, nobody sends /close, and the database starts with rows that
\* are each other's.
THEOREM HandlersAreAtomic ==
  Standing /\ Rooted /\ Ordinary /\ Reserved /\ ContactsWellSeeded /\ BotsEnrolled
      /\ Text \subseteq STRING
    => (Spec => IsAtomic)
<1> SUFFICES ASSUME Standing, Rooted, Ordinary, Reserved, ContactsWellSeeded, BotsEnrolled,
                    Text \subseteq STRING
             PROVE  Spec => IsAtomic
  OBVIOUS
<1>1. Init => Atomic!Init
  BY InitMaps
<1>2. Sound /\ Sound' /\ [Next]_vars => [Atomic!Next]_(Atomic!vars)
  BY NextImplements
<1>3. Spec => []Sound
  BY AlwaysSound
<1>4. QED
  BY <1>1, <1>2, <1>3, PTL DEF Spec, IsAtomic, Atomic!Spec
=============================================================================
