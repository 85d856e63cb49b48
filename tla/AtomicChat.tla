----------------------------- MODULE AtomicChat -----------------------------
(***************************************************************************)
(* What the backend promises its clients, with the tables, the connections *)
(* and the single statements of a handler forgotten.  Every request is     *)
(* either refused, and then nothing happened, or it happens at one moment, *)
(* and the answer is true at that moment.  There are three exceptions:     *)
(* /makeConversation brings the members in one by one, /postMessage may    *)
(* break off after the user's message or after Bob's reply, and the list   *)
(* of /getConversations may be older than its answer and name some members *)
(* only.                                                                   *)
(***************************************************************************)
EXTENDS Listing, FiniteSets, SequencesExt

CONSTANTS
  Requests,    \* what clients may ask
  JoeMinds     \* the messages Joe does not pass over in silence

VARIABLES
  users,    \* the accounts, oldest first
  book,     \* who has whom for contact, oldest first
  rooms,    \* the conversations that have a member, by id
  joined,   \* who became a member of which conversation, oldest first
  log,      \* the messages of all conversations, oldest first
  told      \* the answer given by the latest step, if it gave one

vars == <<users, book, rooms, joined, log, told>>

Init ==
  /\ users \in Seq([email : STRING, password : STRING, username : STRING])
  /\ book \in Seq([user : STRING, contact : STRING, favorite : BOOLEAN])
  /\ rooms = << >> /\ joined = << >> /\ log = << >>
  /\ told.status = 0
-----------------------------------------------------------------------------
\* The text of an answer without one
Empty == ""

Silence == told'.status = 0
Refuse(req) == told'.req = req /\ told'.status = 500
Say(req, text) ==
  told' = [req |-> req, status |-> 200, text |-> text, data |-> << >>]
Show(req) == told'.req = req /\ told'.status = 200 /\ told'.text = Empty

\* Nothing happens, and nobody is promised anything.
Nothing ==
  /\ Silence \/ \E req \in Requests : Refuse(req)
  /\ UNCHANGED <<users, book, rooms, joined, log>>
-----------------------------------------------------------------------------
WithEmail(email) == {i \in DOMAIN users : users[i].email = email}
Named(username) == {i \in DOMAIN users : users[i].username = username}
OnlyUsers == UNCHANGED <<book, rooms, joined, log>>

\* An account is opened if email and username are free, and the answer tells
\* which of them was not.
Register(req) ==
  /\ req.op = "register"
  /\ \/ /\ WithEmail(req.email) # {}
        /\ Say(req, "Email taken") /\ UNCHANGED users
     \/ /\ WithEmail(req.email) = {} /\ Named(req.username) # {}
        /\ Say(req, "Username taken") /\ UNCHANGED users
     \/ /\ WithEmail(req.email) = {} /\ Named(req.username) = {}
        /\ users' = Append(users, [email |-> req.email, password |-> req.password,
                                   username |-> req.username])
        /\ Say(req, "Success")
  /\ OnlyUsers

\* The password must be one of the accounts meant; the answer is the account
\* with the email or, if the email is nobody's, the one with the username.
Login(req) ==
  LET meant == WithEmail(req.email) \cup Named(req.username)
      right == \E i \in meant : users[i].password = req.password
      found == IF WithEmail(req.email) # {} THEN WithEmail(req.email) ELSE meant
  IN
  /\ req.op = "login"
  /\ \/ ~right /\ Say(req, "No User")
     \/ /\ right /\ Show(req)
        /\ \E i \in found : told'.data = <<[email |-> users[i].email,
                                            username |-> users[i].username]>>
  /\ UNCHANGED users /\ OnlyUsers

\* Whoever has the email has the new username.
ChangeUsername(req) ==
  /\ req.op = "changeUsername"
  /\ \A i \in DOMAIN users : users'[i] =
       [users[i] EXCEPT !.username =
          IF users[i].email = req.email THEN req.username ELSE @]
  /\ DOMAIN users' = DOMAIN users
  /\ Say(req, Empty) /\ OnlyUsers

\* Bob and Joe get accounts, once each; /create answers when both have one.
EnrollBot ==
  /\ \E bot \in {<<"bob", "Bob Bot", "Bob-bot">>, <<"joe", "Joe Bot", "Joe-bot">>} :
       /\ Named(bot[3]) = {}
       /\ users' = Append(users, [email |-> bot[1], password |-> bot[2],
                                  username |-> bot[3]])
  /\ Silence \/ \E req \in Requests : req.op = "create" /\ Refuse(req)
  /\ OnlyUsers
Created(req) ==
  /\ req.op = "create" /\ Show(req)
  /\ {"Bob-bot", "Joe-bot"} \subseteq {users[i].username : i \in DOMAIN users}
  /\ UNCHANGED users /\ OnlyUsers
-----------------------------------------------------------------------------
Entries(user, contact) ==
  {i \in DOMAIN book : book[i].user = user /\ book[i].contact = contact}
OnlyBook == UNCHANGED <<users, rooms, joined, log>>

\* A contact is entered once.
AddContact(req) ==
  /\ req.op = "addContact"
  /\ \/ /\ Entries(req.user, req.contact) # {}
        /\ Say(req, "Contact already exists") /\ UNCHANGED book
     \/ /\ Entries(req.user, req.contact) = {}
        /\ book' = Append(book, [user |-> req.user, contact |-> req.contact,
                                 favorite |-> FALSE])
        /\ Say(req, "Success")
  /\ OnlyBook

\* Exactly this contact's flag is set or cleared.
Favorite(req) ==
  /\ req.op \in {"makeFavorite", "removeFavorite"}
  /\ \E i \in Entries(req.user, req.contact) :
       book' = [book EXCEPT ![i].favorite = (req.op = "makeFavorite")]
  /\ Say(req, "Success") /\ OnlyBook

\* The list is the user's contacts at the moment of the answer, newest first,
\* with the flag and the username each of them then has.
GetContacts(req) ==
  LET n == Len(book)
      mine == LatestFirst({i \in 1 .. n : book[i].user = req.email}, n)
  IN
  /\ req.op = "getContacts" /\ Show(req)
  /\ DOMAIN told'.data = DOMAIN mine
  /\ \A k \in DOMAIN mine :
       \E i \in WithEmail(book[mine[k]].contact) :
         told'.data[k] = [email |-> users[i].email, username |-> users[i].username,
                          favorite |-> book[mine[k]].favorite]
  /\ UNCHANGED book /\ OnlyBook
-----------------------------------------------------------------------------
Members(room) ==
  {joined[i].email : i \in {j \in DOMAIN joined : joined[j].room = room}}
Invited(req) == {req.contacts[i].email : i \in DOMAIN req.contacts}
OnlyRooms == UNCHANGED <<users, book, log>>

\* Everybody asked for has been brought in: "Success".  Otherwise the rest is
\* still to come, or never comes.
Welcome(req, room) ==
  \/ Silence
  \/ Refuse(req)
  \/ /\ {joined'[i].email : i \in {j \in DOMAIN joined' : joined'[j].room = room}}
          = {req.creator} \cup Invited(req)
     /\ Say(req, "Success")

\* A conversation appears under a new id, with its creator for a member.
Open(req) ==
  /\ req.op = "makeConversation"
  /\ \E room \in (DOMAIN rooms)' \ DOMAIN rooms :
       /\ rooms' = [id \in DOMAIN rooms \cup {room} |->
                      IF id = room THEN [name |-> req.name, creator |-> req.creator]
                                   ELSE rooms[id]]
       /\ joined' = Append(joined, [room |-> room, email |-> req.creator])
       /\ Welcome(req, room)
  /\ OnlyRooms

\* One of those asked for, and a contact of the creator, becomes a member.
Join(req) ==
  /\ req.op = "makeConversation"
  /\ \E room \in DOMAIN rooms, who \in Invited(req) :
       /\ rooms[room] = [name |-> req.name, creator |-> req.creator]
       /\ Entries(req.creator, who) # {}
       /\ joined' = Append(joined, [room |-> room, email |-> who])
       /\ Welcome(req, room)
  /\ UNCHANGED rooms /\ OnlyRooms

\* Somebody asked for is no contact of the creator.
Stranger(req) ==
  /\ req.op = "makeConversation"
  /\ \E who \in Invited(req) : Entries(req.creator, who) = {}
  /\ Say(req, "Failure")
  /\ UNCHANGED <<rooms, joined>> /\ OnlyRooms

\* The list is the conversations the user was in at some moment, latest first,
\* each with members who include its creator and the user.
GetConversations(req) ==
  /\ req.op = "getConversations" /\ Show(req)
  /\ \E n \in 0 .. Len(joined) :
       LET mine == LatestFirst({i \in 1 .. n : joined[i].email = req.email}, n)
       IN  /\ DOMAIN told'.data = DOMAIN mine
           /\ \A k \in DOMAIN mine :
                LET shown == told'.data[k]
                    room == joined[mine[k]].room
                IN  /\ shown.conversation_id = room
                    /\ shown.conversation_name = rooms[room].name
                    /\ shown.creator_email = rooms[room].creator
                    /\ shown.users \subseteq Members(room)
                    /\ {req.email, rooms[room].creator} \subseteq shown.users
  /\ UNCHANGED <<rooms, joined>> /\ OnlyRooms
-----------------------------------------------------------------------------
\* A message and the replies it calls for
Exchange(req) ==
  LET line(sender, by) ==
        [sender |-> sender, convo |-> req.convo, by |-> by, text |-> req.msg]
  IN  <<line(req.sender, "user")>>
        \o (IF req.bob THEN <<line("bob", "bob")>> ELSE << >>)
        \o (IF req.joe /\ req.msg \in JoeMinds THEN <<line("joe", "joe")>> ELSE << >>)

\* The message and its replies are logged together, and "OK" is said of all of
\* them; or the first of them are, and "OK" is not said.
Post(req) ==
  /\ req.op = "postMessage"
  /\ \E n \in 1 .. Len(Exchange(req)) :
       /\ log' = log \o SubSeq(Exchange(req), 1, n)
       /\ IF n = Len(Exchange(req)) THEN Say(req, Empty) ELSE Silence \/ Refuse(req)
  /\ UNCHANGED <<users, book, rooms, joined>>

\* The list is the conversation at the moment of the answer, latest first, each
\* message under the username its sender then has; and the log never holds a
\* message without the replies it got.
GetMessages(req) ==
  LET n == Len(log)
      those == LatestFirst({i \in 1 .. n : log[i].convo = req.convo}, n)
  IN
  /\ req.op = "getMessages" /\ Show(req)
  /\ DOMAIN told'.data = DOMAIN those
  /\ \A k \in DOMAIN those :
       \E i \in WithEmail(log[those[k]].sender) :
         told'.data[k] = [username |-> users[i].username,
                          message |-> [by |-> log[those[k]].by,
                                       text |-> log[those[k]].text]]
  /\ UNCHANGED <<users, book, rooms, joined, log>>
-----------------------------------------------------------------------------
Next ==
  \/ Nothing \/ EnrollBot
  \/ \E req \in Requests :
       \/ Register(req) \/ Login(req) \/ ChangeUsername(req) \/ Created(req)
       \/ AddContact(req) \/ Favorite(req) \/ GetContacts(req)
       \/ Open(req) \/ Join(req) \/ Stranger(req) \/ GetConversations(req)
       \/ Post(req) \/ GetMessages(req)

Spec == Init /\ [][Next]_vars
=============================================================================
