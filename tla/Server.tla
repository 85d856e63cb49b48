------------------------------- MODULE Server -------------------------------
(***************************************************************************)
(* The backend's machinery: five PostgreSQL tables, the one connection     *)
(* each of the five library modules opens to them, and the request         *)
(* handlers that run as callbacks of Lwt.                                  *)
(*                                                                         *)
(* Lwt runs OCaml code on a single thread.  A handler therefore advances   *)
(* only when the database answers the call it waits for, and then runs     *)
(* without interruption up to its next call or to the HTTP answer.  One    *)
(* step of this model is that whole stretch: the pending statement takes   *)
(* effect, its reply is delivered, and the continuation runs.              *)
(*                                                                         *)
(* A library module (User, Contacts, Conversations, UserConversation,      *)
(* Storage) owns one table and one connection, so its name stands for all  *)
(* three.  Caqti refuses a second statement on a connection that is        *)
(* waiting for a reply: it raises, and the request is answered with 500.   *)
(***************************************************************************)
EXTENDS Listing, FiniteSets, SequencesExt

CONSTANTS
  Slots,          \* the handlers that may be running at the same time
  Requests,       \* the requests clients may send
  Text,           \* values of the TEXT columns
  Apostrophed,    \* texts that end too early when quoted, as it's does
  MaxRows,        \* bound: no insertion is requested of a table this long
  Faults,         \* may a statement fail for a reason of the database's own?
  Restarts,       \* may the server process be killed and started again?
  InitTables,     \* the tables that exist when the server starts,
  InitUsers,      \* with the rows earlier runs of the server
  InitContacts    \* left in usrlst and contactslst

Modules == {"User", "Contacts", "Conversations", "UserConversation", "Storage"}

\* A row's SERIAL id is its position: rows are never deleted one by one, and
\* a dropped table starts again from 1.
Account == [email : Text, password : Text, username : Text]
Contact == [userid : Nat, contactid : Nat, favorite : BOOLEAN]
Conversation == [convo_name : Text, creator_name : Text]
Membership == [conversation_id : Nat, users_id : Nat]

\* A message is what somebody typed, or what a bot made of it.
Message == [by : {"user", "bob", "joe"}, text : Text]
StoredMessage == [senderid : Nat, convoid : Nat, msg : Message]

NoRequest == [op |-> "none"]

ASSUME SwitchAssumption == Faults \in BOOLEAN /\ Restarts \in BOOLEAN
ASSUME BoundAssumption == MaxRows \in Nat
ASSUME TextAssumption == Apostrophed \subseteq Text
ASSUME InitAssumption ==
  /\ InitTables \subseteq Modules
  /\ InitUsers \in Seq(Account)
  /\ InitContacts \in Seq(Contact)
  /\ "User" \notin InitTables => InitUsers = << >>
  /\ "Contacts" \notin InitTables => InitContacts = << >>
-----------------------------------------------------------------------------
VARIABLES
  usrlst, contactslst, convolst, userconvolst, msglst,  \* rows, oldest first
  tables,     \* the tables that exist
  pc,         \* what each handler waits for
  calls,      \* the connections each handler waits on
  failed,     \* of a handler's CREATE or DROP statements, those that failed
  frame,      \* each handler's request and the ids it has looked up
  work,       \* each handler's lists: still to do, and answered so far
  response    \* the HTTP answer sent by the latest step, if it sent one

rows == <<usrlst, contactslst, convolst, userconvolst, msglst>>
db == <<rows, tables>>
server == <<pc, calls, failed, frame, work, response>>
vars == <<db, server>>

\* The ids a handler has bound so far, 0 for one it has not.
Frame == [req : Requests \cup {NoRequest}, user : Nat, contact : Nat, convo : Nat]
NoFrame == [req |-> NoRequest, user |-> 0, contact |-> 0, convo |-> 0]

\* What the loops over lists still have to visit, the JSON objects made so
\* far, and the members read for the conversation being visited.
Item ==
  [email : Text] \cup [email : Text, username : Text]
    \cup [contact_id : Nat, favorite : BOOLEAN]
    \cup [email : Text, username : Text, favorite : BOOLEAN]
    \cup [conversation_id : Nat, user_id : Nat]
    \cup [conversation_name : Text, conversation_id : Nat,
          creator_email : Text, users : SUBSET Text]
    \cup [senderid : Nat, msg : Message]
    \cup [username : Text, message : Message]
NoWork == [todo |-> << >>, out |-> << >>, users |-> {}]

\* The text of an answer without one
Empty == ""

Silent == [req |-> NoRequest, status |-> 0, text |-> Empty, data |-> << >>]

Init ==
  /\ usrlst = InitUsers
  /\ contactslst = InitContacts
  /\ convolst = << >> /\ userconvolst = << >> /\ msglst = << >>
  /\ tables = InitTables
  /\ pc = [h \in Slots |-> "idle"]
  /\ calls = [h \in Slots |-> {}]
  /\ failed = [h \in Slots |-> {}]
  /\ frame = [h \in Slots |-> NoFrame]
  /\ work = [h \in Slots |-> NoWork]
  /\ response = Silent
-----------------------------------------------------------------------------
Req(h) == frame[h].req

\* Mutants of Available: a pool has a connection for everybody; a connection
\* is not released before the continuation runs.
AvailableInPool(h, m) == TRUE
AvailableOnceReleased(h, m) == \A g \in Slots : m \notin calls[g]

\* Nobody but h is waiting on m's connection.
Available(h, m) == \A g \in Slots \ {h} : m \notin calls[g]

\* The handler sends its answer and is gone.
Answer(h, req, status, text, data) ==
  /\ response' = [req |-> req, status |-> status, text |-> text, data |-> data]
  /\ pc' = [pc EXCEPT ![h] = "idle"]
  /\ calls' = [calls EXCEPT ![h] = {}]
  /\ failed' = [failed EXCEPT ![h] = {}]
  /\ frame' = [frame EXCEPT ![h] = NoFrame]
  /\ work' = [work EXCEPT ![h] = NoWork]

RespondText(h, text) == Answer(h, Req(h), 200, text, << >>)
RespondJson(h, data) == Answer(h, Req(h), 200, Empty, data)

\* An exception in a handler, or a promise it rejects, becomes a 500.
Fail(h, req) == Answer(h, req, 500, Empty, << >>)

\* The handler sends a statement over m's connection and waits, at label,
\* for the reply, holding f and w; on a busy connection Caqti raises.
Call(h, m, label, f, w) ==
  \/ /\ Available(h, m)
     /\ pc' = [pc EXCEPT ![h] = label]
     /\ calls' = [calls EXCEPT ![h] = {m}]
     /\ frame' = [frame EXCEPT ![h] = f]
     /\ work' = [work EXCEPT ![h] = w]
     /\ response' = Silent
     /\ UNCHANGED failed
  \/ /\ ~Available(h, m)
     /\ Fail(h, f.req)

\* The texts that lib/ pastes, between apostrophes, into the statement h waits
\* for.  Ids need no apostrophes, and the bots double theirs.
Pasted(h) ==
  LET req == Req(h) IN
  CASE pc[h] \in {"register:email", "login:email", "login:byEmail",
                  "getContacts:user", "getConversations:user"} -> {req.email}
    [] pc[h] \in {"register:username", "login:byUsername"} -> {req.username}
    [] pc[h] \in {"register:add", "login:password"} ->
         {req.email, req.password, req.username}
    [] pc[h] = "changeUsername:update" -> {req.email, req.username}
    [] pc[h] = "pair:user" -> {req.user}
    [] pc[h] = "pair:contact" -> {req.contact}
    [] pc[h] = "makeConversation:creator" -> {req.creator}
    [] pc[h] = "makeConversation:insert" -> {req.name, req.creator}
    [] pc[h] = "makeConversation:contact" -> {Head(work[h].todo).email}
    [] pc[h] = "postMessage:sender" -> {req.sender}
    [] pc[h] = "postMessage:user" -> {req.msg}
    [] OTHER -> {}

\* The statement h waits for is the SQL its author meant.
WellFormed(h) == Pasted(h) \cap Apostrophed = {}

\* The database answers the statement h waits for at label.
Reply(h, label, m) ==
  pc[h] = label /\ m \in calls[h] /\ m \in tables /\ WellFormed(h)
-----------------------------------------------------------------------------
\* The tables the statement h waits for reads or writes: the one that lists a
\* conversation's users also reads usrlst, CREATE TABLE needs none.
Needs(h) ==
  CASE pc[h] = "getConversations:users" -> {"UserConversation", "User"}
    [] pc[h] = "create:table" -> {}
    [] OTHER -> calls[h]

\* A statement of a handler that waits for one reply at a time fails.
StatementError(h) ==
  /\ pc[h] \notin {"idle", "ddl", "orphans"}
  /\ Faults \/ ~ Needs(h) \subseteq tables \/ ~WellFormed(h)
  /\ Fail(h, Req(h))
  /\ UNCHANGED db

\* The process dies and is started again: the handlers are gone, the tables
\* are not.
Restart ==
  /\ Restarts
  /\ \E h \in Slots : pc[h] # "idle"
  /\ pc' = [h \in Slots |-> "idle"]
  /\ calls' = [h \in Slots |-> {}]
  /\ failed' = [h \in Slots |-> {}]
  /\ frame' = [h \in Slots |-> NoFrame]
  /\ work' = [h \in Slots |-> NoWork]
  /\ response' = Silent
  /\ UNCHANGED db
-----------------------------------------------------------------------------
\* The queries several handlers share.

UsersWithEmail(email) == {i \in DOMAIN usrlst : usrlst[i].email = email}
UsersNamed(username) == {i \in DOMAIN usrlst : usrlst[i].username = username}

\* Db.find accepts exactly one row.
Single(S) == \E i \in S : S = {i}

ContactRows(user, contact) ==
  {i \in DOMAIN contactslst :
     contactslst[i].userid = user /\ contactslst[i].contactid = contact}
=============================================================================
