# Webchat in TLA+

This directory holds a TLA+ specification of Webchat: of its server
(`src/WebChat/ocaml_webapp`), of what the server promises its clients, of the bots,
and of the parts of the frontend (`src/WebChat/frontend/src`) that wait for answers;
TLC configurations that check it on small instances; and TLAPS proofs of theorems
about it for every instance.

## 1. Inventory

Webchat is a chat application for small groups. A Vue frontend talks over HTTP to
an OCaml server (Opium, Lwt), which keeps everything in PostgreSQL through Caqti.

| Component | Source | State | Operations | What makes it correct |
|---|---|---|---|---|
| Server runtime | `bin/main.ml`, the `Db` of each `lib/*.ml` | one connection per library module; the Lwt callbacks under way | a request starts a handler; a reply resumes it; a busy connection refuses it; a statement fails; the process dies | statements on one connection never overlap; every request is answered; nothing but a busy connection refuses a legal one |
| Accounts | `lib/User.ml`, `/register`, `/login`, `/changeUsername` | `usrlst` | ask, insert, rename, look up | emails unique, usernames fresh at insertion, answers true when sent |
| Schema lifecycle | all of `lib/`, `/create`, `/close` | which tables exist | `migrate` x 5, `rollback` x 5, the two bots' accounts | OK means done; bots once, with ids 1 and 2; no table outlives `usrlst` |
| Contact book | `lib/Contacts.ml`, `/addContact`, `/makeFavorite`, `/removeFavorite`, `/getContacts` | `contactslst` | ask, insert, flag, list | a contact is there once; lists complete |
| Conversation book | `lib/Conversations.ml`, `lib/UserConversation.ml`, `/makeConversation`, `/getConversations` | `convolst`, `userconvolst` | insert, take the last id, add members, list | members go to their own conversation and are the creator's contacts |
| Message log | `lib/Storage.ml`, `/postMessage`, `/getMessages` | `msglst` | append, list | replies next to their message, polls are a moment of the log |
| Bots | `lib/Bot.ml` | none | a reply, silence or an exception for a message | which messages break them; greetings and sums right |
| Frontend store | `frontend/src/store/store.js` | user, processing flag, contacts, conversations | a dispatch per request, a commit per answer | the user is an account's; the overlay goes away |
| Chat view | `frontend/src/views/Chat.vue` | shown messages, the box, the polling timer | poll every 100 ms, post | the view shows its own conversation and converges to it; nothing typed is lost |
| Other views, router | `frontend/src/views`, `router`, `App.vue` | current view, popups, functions under way | submit, navigate, log out, reload | a view that needs a user has one; a finished registration is complete |
| CORS, static files | `main.ml` 684-694 | none | - | - |

How they interact: the frontend sends each request on its own, without order
between them; `App.vue` sends `/create` at every load and does not wait for it.
A handler of `main.ml` is a chain of `Lwt.bind`s, each of them one SQL statement
of one library module. Handlers of different requests interleave at every bind,
and share the five tables and the five connections. There is no transaction, no
`UNIQUE` column and no foreign key: what keeps the data consistent is the order
of statements and the fact that Caqti lets a connection do one thing at a time.

The hard behaviours, each listed in `PROJECT.json` as a hazard with its line:
questions asked in one statement and acted on in another (registration, contacts,
bots, the last id); lists read row by row while they change; statements launched
all at once (`bind_functions` in `create_db` and `close_db`); half-made
conversations; a server killed between two statements; bots that raise after the
message has been stored; refusals under load; and in the browser, asynchronous
functions that go on after the user has left, logged out or started them again, with
answers out of order, refused or lost.

## 2. Modules

| Module | Stands for |
|---|---|
| `Listing` | the folds that read the rows of a query into a list |
| `Server` | tables, connections, handlers; calling, answering, failing, restarting |
| `Accounts` | `register_user`, `login_user`, `change_username` |
| `Schema` | `create_db`, `close_db`, `bind_functions`, `migrate`, `rollback` |
| `ContactBook` | `add_contact`, `make_favorite`, `remove_favorite`, `get_contacts` |
| `ConversationBook` | `make_conversation`, `gen_user_convos`, `insert_convo`, `get_conversations` |
| `MessageLog` | `post_message`, `get_messages`, the bots' turns |
| `WebChat` | the composition: `Receive`, `Step`, `Next`, `Spec`, the type invariant |
| `AtomicChat` | the service its clients see: a request happens at one moment or not at all |
| `WebChatRefinement` | the mapping under which `WebChat` implements `AtomicChat` |
| `Bots` | all of `Bot.ml` |
| `Session` | the store's user and processing flag, router and guard, `postLogin`, `postRegister`, `editName`, `addContact`, `logOut`, reload |
| `ChatView` | `Chat.vue`: timers, polls, posts, the box |
| `MCWebChat`, `MCBots`, `MCSession`, `MCChatView` | small instances for TLC |
| `WebChat_proof`, `Schema_proof`, `Books_proof`, `Service_proof`, `WebChatRefinement_proof`, `Bots_proof`, `Session_proof`, `ChatView_proof` | lemmas and theorems |

`Accounts`, `ContactBook`, `ConversationBook` and `MessageLog` extend `Server`, which extends `Listing`;
`Schema` extends `Accounts`, whose insertion it uses; `WebChat` extends them all, and
`WebChatRefinement` extends `WebChat` and instantiates `AtomicChat`. `MCWebChat`
instantiates `Bots`: the messages on which its bots raise, speak or stay silent are
shown (`WordingAssumption`) to be what `Bots` says of them. `Session` and
`ChatView` stand for one browser page; the server they talk to does what
`AtomicChat` allows, reduced to what the page can tell apart.

### The server's state

* `usrlst`, `contactslst`, `convolst`, `userconvolst`, `msglst`: sequences of
  rows. A row's `SERIAL` id is its position: rows are appended and never deleted
  one by one. `tables` is the set of tables that exist. A module's name stands for
  the module, its table and its connection, which are one to one to one.
* `pc[h]`: the place in the code where handler `h` waits, as `handler:reply`, for
  instance `register:username` for "waiting for the reply of `username_exists`".
* `calls[h]`: the connections on which `h` has a statement under way: one, except
  in the launches of `bind_functions`.
* `frame[h]`, `work[h]`: the request, the ids bound so far, and the lists that
  `contacts_helper`, `convo_helper`, `gen_user_convos` and `interpret_msglist`
  recurse over.
* `failed[h]`: of the statements `h` launched at once, those that failed.
* `response`: the answer sent by the latest step, for the properties about
  answers; it is reset by every other step.

### The server's steps

Lwt runs OCaml code on one thread, so a handler runs without interruption from the
reply it waited for to its next call. One action is exactly that stretch: the
pending statement takes effect, its reply is delivered, the continuation makes
the next call (`Call`) or answers (`Answer`). Letting the statement take effect at
the end of its flight and not at the start loses nothing: only the holder of a
connection touches its table, so nobody can tell. The one exception, the query of
`get_users_from_conversationid` that also reads `usrlst`, reads it atomically.

`Call` models what Caqti does: a connection that waits for a reply refuses the
next statement with an exception, and Opium turns an exception into status 500
(`Fail`). `StatementError` is the `Error` branch that every library function
has: always possible when the table is missing, at any time when `Faults`, and certain when
the statement is not the SQL its author meant (`WellFormed`): `lib/` puts texts between
apostrophes without doubling those they hold, so that `it's` ends the string too early.
`Pasted(h)` are the texts in the statement `h` waits for, `Apostrophed` the texts that break it.
`Restart` kills the process when `Restarts`. A statement in flight at that moment
has either been executed, which is the behaviour in which the kill comes one step
later, or is never executed.

`bind_functions fun1 fun2` takes promises. OCaml evaluates arguments from last to
first, so the nest of `create_db` launches `UserConversation`'s statement first and
`Storage`'s last, and only then waits, outermost first. `Launch` models the launch:
if some connection is busy the exception stops it there, the statements already
launched complete with nobody waiting (`pc = "orphans"`). `Settle` models the
waiting: the answer is sent at the first failure known in the order of waiting, or
when all succeeded. `register_user` ignores the value `add_usr` returns
(`fun _ ->`), but `add_usr` raises on an error and never returns one, so a failed
insertion is still a 500.

### The service (`AtomicChat`) and the refinement

`AtomicChat` has no tables, connections, handlers or statements: accounts, contacts,
conversations with members, one log of messages, and the answer of the latest step.
A registration, a login, a renaming, a new contact, a flag, a list is one step whose answer is
true at that step, or a refusal that changes nothing. Every field of an answer is constrained:
the lists of `/getContacts` and `/getMessages` are the contacts, with their usernames and flags,
and the messages, with their senders' usernames, of the moment of the answer, although the
code looks the names up row by row (`main.ml:260`, `434`). What makes it so is the
connections: `contacts_helper` and `interpret_msglist` keep `User`'s from the first
name to the last, and whoever renames, adds a contact, changes a flag or posts has to come by
that connection first and is refused. Three operations are weaker, as the code is: `Open` and `Join` bring a
conversation's members in one by one; `Post` logs the message and its replies
in one step, but may break off after any of them without saying `OK`; and the list of
`/getConversations` may be that of an earlier moment and name some of the members only, the
creator and the user among them. An insertion whose answer is lost is `Silence`.

The mapping (`WebChatRefinement`) turns ids into emails. Two parts of it carry an argument:
a conversation exists for clients once `userconvolst` mentions it, which hides the
two statements of `insert_convo`; and the last `Unfinished` rows of `msglst` are not yet in
the log, because the handler that stored them has a reply to add and keeps
`Storage`'s connection, so that no poll can read them. When it adds the reply, fails or dies
they enter the log in one step. `IsAtomic` is the property that every behaviour of
`Spec` maps to one of `AtomicChat`. `/close` is left out of it: no client is promised
anything about what it drops.

### The frontend

A page runs one function at a time, up to its next `await`. One action is one such stretch:
a `Submit...` starts a function and sends its first request, `Reply` is the
server's part (done and answered; refused; done or not and the answer lost), and the actions
under `Deliver` are what the function does when its answer arrives. The same
function may be under way twice. `axios` rejects alike for a 500 and for a lost
answer, and has no timeout of its own.

* The views other than `Home` are one lazy chunk (`about`), which holds `Login.vue`
  and so is loaded before anybody can log in: a navigation is over before the next event,
  and `beforeEach` and the change of view are one step.
* The processing overlay covers the page. It stops the mouse, not the keyboard: what is
  started by Enter (`postLogin`, `postRegister`, `addContact`) may be started under it.
* `postRegister` passes the store its form by reference, and `RegisterUser` reads it again after
  the answer. `form` is what the inputs hold; a registration under way shares it
  (`flow[t].form`) until the view is left, and `Edit` changes both. So the page is logged in under
  whatever has been typed by the time of the answer, and the bots' contacts are asked for that
  email. `late` (the email was typed after the request was sent) and `flow[t].sent` (for
  whom a registration's requests went) are history variables for the properties.
* In `ChatView` each view ever opened keeps its timer and its conversation:
  a stopped component's computed `convoID` keeps the value it had. An answer goes
  to the view that asked.
* `owed` in `ChatView` is a history variable for `SubmittedIsKept` alone.

### Abstractions

* Text is a set of values. In the server, what Bob and Joe say is left out: a bot's message is
  known by the bot and the text replied to, and the three constants `BobRaises`,
  `JoeRaises`, `JoeSpeaks` say on which texts a bot raises or speaks. The instances
  have `im.` (matched by `key_word`, missed by `rec_strlist`),
  a blank text (no first word), `:(` (Joe answers), `hi` (he does not), and derive the
  three constants from `Bots`.
* Of the characters of a text only the apostrophe matters to a statement, and only whether one ends the
  string too early. A text whose apostrophes are all doubled passes, and is stored with single
  ones; such texts are left out. The bots double theirs (`Bot.ml`), so their replies are
  always stored.
* In `Bots` a message is a sequence of words, a word a stem, a capital or not, and
  punctuation marks; the wording of an answer is left out except the words it repeats, so
  an answer is a topic, the number drawn among its variants, and those
  words. A call that raises has the empty set of answers. Note that `Bot.mli`
  calls 0 the random choice where the code and `main.ml` use 4. The blanks
  are spaces; other white space inside a message is part of a word, as in
  `String.split_on_char`.
* A body that does not parse is refused before the first call and changes nothing.
  It is left out, except the list of contacts of `/makeConversation`, which is
  parsed only after the first insertions (`parses`).
* PostgreSQL returns rows in the order of insertion. An `UPDATE` may move a row;
  the code does not ask for an order, and where the order matters here
  (the lists of `AtomicChat`) it is a property of the heap the model assumes.

## 3. Runs

The runs of the server use `MCWebChat`. Two ordinary users, Ann and Bea, and the two bots: two
is what a race over one email or name needs. A race over one connection
needs two handlers: a third could only be refused, which `contacts` has it for.

| Run | Instance | States | What it shows |
|---|---|---|---|
| `accounts` | 2 handlers, empty database, failures, restarts, `MaxRows` 4 | 983 000 | registrations of one email and of one username, logins, renamings, `/create` and new contacts race, fail and are killed, one name has an apostrophe: `EmailUnique`, `UsernameFresh`, `ContactUnique`, `RegisterOutcome`, `CreateOutcome`, `IsAtomic` |
| `contacts` | 3 handlers, one contact at the start, `MaxRows` 5 | 75 600 | contacts are added, favoured, renamed and listed: `ContactUnique`, `RefusedOnlyWhenBusy`, `Answered`, `IsAtomic` |
| `conversations` | 2 handlers, failures, restarts, `MaxRows` 2 | 211 000 | `LastIdIsMine`, `MembersAreContacts`, `MakeConversationOutcome`, `LookupsFind`, `TypeOK`, `Answered`, `IsAtomic` |
| `messages` | 2 handlers, failures, restarts, `MaxRows` 2 | 59 500 | posts, one with an apostrophe, polls and a renaming: `BotReplyAdjacent`, `PostOutcome`, `PollAttribution`, `Answered`, `IsAtomic` |
| `schema` | 2 handlers, empty database | 125 000 | `/create` and `/close` race: `BotIds`, `NoOrphanTables`, `Answered` |
| `teardown` | 2 handlers, full database | 2 500 | `CloseOutcome` |
| `bots` | messages of up to 4 words out of 26, integers of 4 bits | 475 000 | `BotsBreakOn`, `GreetingIsRest`, `JoeReckons`, `JoeStandsBy` |
| `session` | 2 emails, one with an account and its bots, 2 usernames, 3 states of the form, 1 friend, 2 functions under way | 1 037 000 | `GuardedViews`, `RegisteredHasBots`, `ProcessingEnds` |
| `chat` | 2 conversations of 2 messages, 2 views, 2 polls and 1 post under way | 930 000 | `ShownBelongs`, `SubmittedIsKept`, `Converges` |
| `stranger`, `namesake`, `renamedbot` | 1 handler | | the three disagreements of section 6 |

`MaxRows` bounds the requests, not the tables: a request that inserts is received only while its
table is shorter, and then runs to its end, so that every branch is still taken on the longest
tables. Four rows of `usrlst` are two bots and two users; two conversations are what `LastIdIsMine`
needs; with two messages one post with two replies still falls among those of the other handler, and
the log grows to seven. The runs without a property of liveness use the symmetry of the handlers'
names.

Four words are one more than the patterns of `Bot.ml` look at together
(`mathmode add 3 7`; a first word, two keywords and a mark). `JoeReckons`
in four bits meets every case of 63 (overflow on both sides, the quotient of the
smallest number by -1, a numeral one too large); the width is the constant `Half`.
The cases of `test/main.ml` that the vocabulary can express are the assumption
`TestSuite` of `MCBots`.

Two functions under way are what the overlay, a doubled form or an answer after a logout
needs. Two emails are what an edited form needs: one that gets its account from the page, one that
has an account and both bots already, and blank inputs for the email nobody has; the form may become any of
the three while `/register` is under way. In `chat`, two polls overtake each other, two views have
the one left deliver beside the one shown, and one post under way is all a
patient user has.

Some properties hold only under conditions their comments name. `CreateOutcome` is checked without
`/close` and `CloseOutcome` without `/create`: with both under way the last statement wins. `BotIds`
and `NoOrphanTables` are checked without failing statements and restarts: a server killed between
the bots' insertions leaves id 2 to the next registration, one killed during a `/close` leaves some
of the tables. `MakeConversationOutcome`, `LookupsFind`, `MembersAreContacts`, `PostOutcome` and
`IsAtomic` are checked without `/close`, `RefusedOnlyWhenBusy` with legal requests of known users in
texts without apostrophes. `GuardedViews` allows a user without an account where the form was edited
while its `/register` was under way, and `RegisteredHasBots` speaks of the registrations all of
whose requests were sent for one email: after an edit, a logout or another login the remaining ones
are sent for whoever is logged in by then, and the bots go to them. `SubmittedIsKept` is checked
with `Patient`, a user who waits for a post's answer before typing on, submitting again or leaving.
Without it TLC finds in a few steps that a message is lost: the box is cleared when an earlier post
is answered, or the view is left before a refusal. No comment or document says otherwise, so it is
no finding. `ProcessingEnds` is conditional on no renaming being refused, because `editName` has no
`catch`.

`TypeOK` is checked in `conversations`, whose requests use every list a handler works through.

### Fairness

`WF_vars(Step(h))` for every handler: PostgreSQL answers every statement in the
end, with a result or an error, and Lwt runs the continuation of a promise that is
resolved. Nothing obliges a client to send a request, and nothing obliges the server to die or a
statement to fail. `Answered` rests on this alone: a busy connection does not
make a handler wait, so that weak fairness is enough.

In `Session`, `WF_vars(Reply(t))` and `WF_vars(Deliver(t))`: an answer or its loss reaches the page in
the end, and the promise goes on. That the loss is noticed is an assumption about the
browser, which ends a broken connection; `axios` is given no timeout. In `ChatView`,
weak fairness of each timer (`setInterval` is never cleared) and of each poll's answer and its
delivery; posts and the user have none. `Converges` is conditional: for a view that stays
open and takes answers again and again. Unconditionally it would not follow, for the server
may refuse every poll, and the bound on the polls under way could starve one timer.

## 4. Proofs

The proofs about the server hold for every finite or infinite set of handlers, every set of requests
and texts, tables of every length, and with statement failures and restarts unless an assumption
excludes them; those about the frontend for every set of functions, polls and posts under way, of
users, conversations and texts. They rest on the named assumptions of the modules only:
`SwitchAssumption`, `BoundAssumption`, `InitAssumption` (the database at the start is one the code
can have made: tables that do not exist are empty), `BotAssumption` and `RequestsAreTyped` in the
server, `WordAssumption` (what a word is) and `HalfAssumption` (integers have some width) in `Bots`,
`NullAssumption`, `FormsAssumption` and `InitAssumption` in `Session`, `PatientAssumption` and
`TextAssumption` in `ChatView`. Those about `Bots` hold for every vocabulary, every reading of
numerals, integers of every width (OCaml's 63 bits among them) and messages of every length.

| Theorem | Module | States | Assumes further |
|---|---|---|---|
| `TypeCorrect` | `WebChat_proof` | `[]TypeOK` | |
| `ListingIsComplete` | `WebChat_proof` | `LatestFirst` lists every selected row once, newest first | |
| `UsernamesEnterFresh` | `Schema_proof` | `UsernameFresh` | |
| `RegistrationsAreTold` | `Schema_proof` | `[]RegisterOutcome` | |
| `EmailsAreUnique` | `Schema_proof` | `[]EmailUnique` | `Ordinary` |
| `ClosesAreTold` | `Schema_proof` | `[]CloseOutcome` | `Waning` |
| `NoTableIsOrphaned` | `Schema_proof` | `[]NoOrphanTables` | `Undisturbed` |
| `BotsComeFirst` | `Schema_proof` | `[]BotIds` | `Undisturbed`, `BotsKept` |
| `CreatesAreTold` | `Schema_proof` | `[]CreateOutcome` | `Standing`, `Reserved` |
| `ContactsAreUnique` | `Books_proof` | `[]ContactUnique` | `ContactsWellSeeded` |
| `LastIdsAreMine` | `Books_proof` | `[]LastIdIsMine` | `Standing` |
| `LookupsAlwaysFind` | `Books_proof` | `[]LookupsFind` | `Standing`, `Rooted` |
| `MembersAreKnown` | `Books_proof` | `[]MembersAreContacts` | `Standing`, `Rooted` |
| `SuccessMakesConversation` | `Books_proof` | `[]MakeConversationOutcome` | `Standing`, `Rooted` |
| `RepliesAreAdjacent` | `Books_proof` | `[]BotReplyAdjacent` | |
| `PostsAreTold` | `Books_proof` | `[]PostOutcome` | `Standing` |
| `PollsAreAttributed` | `Books_proof` | `[]PollAttribution` | `Standing`, `Seated` |
| `OnlyTheBusyAreRefused` | `Service_proof` | `[]RefusedOnlyWhenBusy` | `Standing`, `Rooted`, `Ordinary`, `Acquainted` |
| `HandlersAreAtomic` | `WebChatRefinement_proof` | `IsAtomic` | `Standing`, `Rooted`, `Ordinary`, `Reserved`, `ContactsWellSeeded`, `BotsEnrolled`, `Text` is made of strings |
| `BotsBreak` | `Bots_proof` | `[]BotsBreakOn` | |
| `GreetingIsTheRest` | `Bots_proof` | `[]GreetingIsRest` | |
| `JoeReckonsRight` | `Bots_proof` | `[]JoeReckons` | |
| `JoeStands` | `Bots_proof` | `JoeStandsBy` | |
| `ViewsAreGuarded` | `Session_proof` | `[]GuardedViews` | |
| `RegistrationsHaveBots` | `Session_proof` | `[]RegisteredHasBots` | |
| `ViewsShowTheirOwn` | `ChatView_proof` | `[]ShownBelongs` | |
| `PatienceLosesNothing` | `ChatView_proof` | `[]SubmittedIsKept` | `Patient` |

What the conditions say, each of them one the code does not enforce and the runs satisfy:

* `Standing`: nobody asks for `/close` (the frontend never does); `Waning`: nobody asks for
  `/create`, which would bring back a table another handler has just dropped.
* `Rooted`: the contacts of the start are between users, and the bots are among them;
  `ContactsWellSeeded`: they are distinct; `BotsKept`: where `usrlst` exists at the start, its first two
  accounts are the bots'.
* `Ordinary`: no request renames a bot or registers under a bot's email, and the emails of the start are
  distinct. `Reserved`: no request gives anybody a bot's username or a bot another one.
  `Seated`: the bots have the ids 1 and 2 and nobody renames them. The run
  `renamedbot` shows what happens otherwise. `BotsEnrolled`: the ids 1 and 2 are accounts with
  the bots' emails. `HandlersAreAtomic` therefore starts from a database that has been set up, as in the runs
  `contacts`, `conversations` and `messages`, whose instances satisfy all its conditions; that
  the service is atomic while an empty one is being set up is left to the run `accounts`.
  Without the bots' accounts it would not be: a reply is stored under id 1 or 2, whoever has it.
* `Undisturbed`: no failing statements and no restarts, and a database that is empty or has `usrlst` at
  the start.
* `Acquainted`: the requests are legal. They are made by and about users the server knows; a
  favorite is a contact already; no text the server pastes into a statement has an apostrophe
  (`Words`); no message stops a bot it addresses; a list of contacts parses; and where users log in,
  usernames are unique and nobody changes one (the run `namesake` shows why).
* `Patient`: the user waits for a post's answer.

**The base.** `Typed` is the inductive invariant all the others stand on: the two parts
of the type invariant about rows and handlers, `Exclusive` (no two handlers wait on one
connection, which every statement asks before it is sent), and `Serves(h)`: the label a handler
waits at is one of the request it serves. `Serves` keeps a step from reading a field its request
does not have; `Exclusive` is what the invariants below need. `WebChat_proof` first shows what `Call`,
`Answer`, `Launch` and `Settle` do to one handler (`MoveOf`: the others keep their place, and none of
their connections is taken); then it has one lemma per component (`AccountKeeps`,
`ContactKeeps`, ...) that every action keeps `Kept(h)`, and `NextTyped` collects them.

**The lists.** The third part of the type invariant needs more: a handler that waits in a loop must have
something left to do, or `Head` would be of an empty list. `Listed` says, per label, which
rows `todo` holds and that it is not empty. It rests on `ListingIsComplete`, what
`LatestFirst` computes, which is an induction over the length of the table. The library's induction
theorems cannot be used, for they take an operator for a parameter; `WebChat_proof` derives
first a least number with a property given as a set (`LeastNat`) and runs each induction by that.

**The windows.** A question and the statement that acts on its answer are two steps,
and the property alone is not inductive: it says nothing of a handler that has asked and
not yet acted. Each proof adds what such a handler knows, its *window*, and that it still
holds the connection it asked on. `Exclusive` then says that no other
handler can write to that table before it acts.

* Accounts (`Schema_proof`): after `register:email` no account has the email, after
  `register:username` none has the username; in `/create`,
  before a bot is inserted, none has the bot's username.
  `EmailsAreUnique` also needs `BotNames` (the bots' accounts keep their names), the
  condition the run `renamedbot` violates.
* Contacts (`Books_proof`): at `addContact:insert` the pair is not in `contactslst`.
* Conversations (`Books_proof`): at `makeConversation:id` the last conversation is the
  handler's own, and no handler has its id yet. A `DROP TABLE` by `/close` may
  fall after the window, when a handler already has an id and works on other
  connections: hence `Standing`.
* Messages (`Books_proof`): at `postMessage:bob` the last message is the user's, at
  `postMessage:joe` it is the user's or Bob's reply to it. For `PostsAreTold` the window
  (`PostInv`) says more: from there back the log is the whole exchange so far, stored for this request,
  and a handler that is about to store has looked its sender up.

A restart empties every window: all handlers are idle again and the tables keep what
was written. A failing statement writes nothing and ends the handler.

**What a handler has found out stays true.** The remaining theorems about rows are about knowledge that
outlives the connection it was asked on. They hold because without `/close` the tables only grow and
no row's ids or email ever change (`Grow`).

* `RefInv`: every id in a row, in a frame or in a list to work through is that of an existing row.
  Rows alone are not inductive, for an id passes through a handler's frame before it is written.
* `BringInv` adds to `MembersAreContacts` that a handler of `/makeConversation` has looked its creator
  up, and at `makeConversation:member` that the contact it brings in is one.
* `PartyInv`: while the members are brought in, those who have joined together with those still in
  `todo` are the ones asked for. Nobody else can add a member, because the id is the
  handler's own (`LastIdIsMine`). When `todo` is empty this is the outcome.
* `AttributionInv`: rows of `msglst`, the rows a poll still has to look up and the ones it has, carry
  the bots' ids and names where a bot is the speaker.

**The launches.** `/create` and `/close` launch five statements at once, and other handlers, a second
`/create` among them, run in between.

* `CloseInv`: a `/close` that has launched all its statements accounts for every table: one
  that exists is among the statements under way or has failed. Answering OK means that both are none.
* `OrphanInv`: without `usrlst`, each table that exists has a `DROP` under way. This needs to know that
  `usrlst`'s statement is launched last (`OrphanWindow`): a `/close` that stops at a busy connection
  never reaches it.
* `BotInv`: `usrlst` is empty and, if it exists, some `/create` is about to insert Bob; or it has
  Bob alone and some `/create` is about to insert Joe; or the first two are the bots. The handler in
  between holds `usrlst`'s connection, so that nobody else's registration gets in.
* `CreateInv`: a `/create` that launches has found or inserted both bots, and a table is there, being
  created, or has failed.

**The service.** `ServiceInv` says that the tables exist, the rows of the start are still there, no
statement has failed, and what each handler has looked up is what its request names. With `RefInv`
and `Listed` it shows that each of the code's exceptions other than Caqti's needs a state that does
not occur; what is left of a 500 is a connection some other handler holds.

**The refinement.** `HandlersAreAtomic` is the theorem the others serve. Its proof is
that `Init` maps to `AtomicChat`'s, that stuttering maps to stuttering, and one lemma per component
(`AccountHandler`, `SchemaHandler`, `ContactHandler`, `ConversationHandler`,
`MessageHandler`, and `ReceiveHandler`, `ErrorHandler`, `RestartHandlers`) that every step of it
is a step of `AtomicChat`. Most steps only ask, and a client sees nothing (`QuietHandler`).
The interesting ones answer, and the answer must be true in `AtomicChat`'s state of that very step, although
the handler collected it in several. The windows above say so for `/register` and
`/addContact`; `RefInv`, `BringInv`, `PartyInv`, `PostInv` and `CreateInv` for what is stored and
for the outcomes; `AtomicInv` adds what the lists and the logins need:

* `Aware`: the ids in a handler's frame are those of the emails its request names, and a contact it
  has been shown is still there.
* `Polling`: what `/getContacts` and `/getMessages` have answered so far, followed by what is still in `todo`,
  is the list of this very moment, every field of it. It stays so until the answer because the handler holds
  `User`'s connection: no renaming takes effect, and no handler can be between looking its
  users up and writing to `contactslst` or `msglst` (`BookLabels`, `PostLabels`). When the rows were read
  those handlers were not there either, for they would have held the table's own connection.
* `Reading`: the same for `/getConversations`, but of some earlier moment: of the first `n` rows of
  `userconvolst`, for some `n`, since its loop goes over other connections. For the members of a
  conversation this needs `CreatorsJoined`: whoever is in a conversation finds its creator there,
  because the creator is inserted first.
* `Logging`: from the password on, `login_user` keeps `usrlst`'s connection, so that the account it
  names is one that had the password.

`Unfinished` counts handlers; that it is 0 or belongs to the one handler with `Storage`'s connection
(`PendingOnce`) is `Exclusive` again. A failing statement or the server's death after a message
was stored ends that count: the stored rows enter the log at that step, as a `Post` broken off.

**The bots.** The only state of `Bots` is the message, so that its invariants rest on
`AlwaysMessage` alone (it is a sequence of words); the work is in what the functions of `Bot.ml`
compute.

* *The list.* `StrlistSifts` shows by induction over the message that the list is its words without the
  empty ones, in their order and in lower case, and gives the function `at` from places in the list to
  places in the message. Each scan of the list (`key_word`, `joe_key_words`, the search for "im", the head)
  then finds the first place of the message that matches (`ScanFinds`, from `FirstPlace`:
  `at` is increasing and leaves no word out).
* `BotsBreak` compares two scans that match differently: `key_word` ignores one mark (`MarkLess`),
  `rec_strlist` none, so that Bob may choose the greeting for an "im" that is not found afterwards.
* `GreetingIsTheRest` says that what is cut is what follows in the message: the words after a place
  correspond to the places of the list after its number (`CountWithin`, a bijection with an interval),
  and the k-th of them is the only one with k words up to it (`NthWithin`).
* `JoeStands`: typing on adds places behind the ones there are, so that the first stay
  first (`MinKept`).
* `JoeReckonsRight` needs arithmetic the solver does not find by itself: a remainder is between zero
  and its modulus (`DivMod`), multiples have none (`MultipleMod`), so `Wrap` leaves an integer that
  differs by a multiple of their number (`WrapRight`); and `QuotientRight`, by the signs of the two
  numbers, that division drops the fraction.

**The page.** The frontend has no locks; what its functions rely on is that an answer
stays true until they hear it.

* `Session_proof`: `Guarding` adds to `GuardedViews` that the user logged in is an account, nobody, or
  `late` (`UserSound`), and `FlowSound(t)`: a "yes" under way to a login is about an account, and a
  registration that has got past a request (`Past`) has brought in the account or the bot for one of those
  its requests were sent for (`Brought`). Accounts and contacts only grow (`EffectGrows`), so that what is
  true when the server answers is true when the page hears it, whatever is edited or logs in or out
  in between. Where all were sent for one email, that one has them all. A function that has heard "yes" from
  `/register` either finds its form unedited, and its email has an account, or sets `late`.
* `ChatView_proof`: `Belong` adds to `ShownBelongs` the same of the lists on their way
  (`ListsBelong`); conversations only grow, so that both stay prefixes. `Kept` adds to
  `SubmittedIsKept` that one view is open, that one post is under way and its text is still
  in the box (`OnePost`), and that nothing is owed for a stored one (`StoredIsSettled`):
  clearing the box then clears nothing else.

## 5. Only model-checked, and not modelled

Of the properties of the passing runs, the three of liveness (`Answered`, `ProcessingEnds`,
`Converges`) are left to TLC: ENABLED and fairness are out of the prover's reach. Every other one is
a theorem of section 4. Where a theorem has conditions, the runs check the property
in instances that satisfy them and show nothing outside them; what happens then is said with
the conditions above. `WordingAssumption`, by which `MCWebChat` takes three constants from
`Bots`, is evaluated by TLC for the texts of the instances.

Not modelled:

* the store's lists of contacts and conversations, `toggleFavorite` and
  `addConversation`: they are replaced whole by each answer, by the last to arrive, of whatever
  session. Two hazards of `PROJECT.json` name what follows from that
  (`store.js:105`, `Chat.vue:61`);
* confirmations, scrolling, markup and styles;
* CORS and static files (no state), and the queries of `lib/` no handler uses;
* vendored and generated code. The repository contains the whole source of PostgreSQL 14.2,
  by far the largest part of its lines, and `node_modules`; neither is Webchat's own
  program. Of PostgreSQL, Caqti, Opium, Lwt, Vue and axios the model holds what
  `main.ml`, `lib/` and the frontend rely on, and the share of the repository's
  lines this project covers is accordingly small.

## 6. Where documentation and code differ

* `stranger`: `/makeConversation` answers `Failure` and leaves the conversation and
  its first members behind; the documentation of `make_conversation` has a
  conversation added only on `Success`.
* `namesake`: `/changeUsername` lets two accounts share a username; from then on a
  login by that username with the right password is answered with 500, where
  `login_user` documents two answers.
* `renamedbot`: `create_db` recognises a bot by its username and inserts it under a
  fixed email; after the bot's account is renamed the next `/create` inserts a
  second account with that email, which `User.mli` takes for unique.

Two things the code does that no document speaks of, and that the models show:

* a form of `Register.vue` that is edited while `/register` is under way logs its user in under the new
  email, be it nobody's or somebody else's, and the bots' contacts are asked for that email
  (`store.js:45`; see `Edit` and `Registered` in `Session`);
* a legal request with an apostrophe in a text is answered 500 with nothing busy and no database
  fault (`User.ml:76-135`, `Storage.ml:54-57`, `Conversations.ml:29-32`; see `WellFormed` in
  `Server`). `Register.vue:48` accepts such emails. In `/makeConversation` the statement that fails
  may be one after the conversation was inserted.

Two more differences need no run: `/postMessage` stores a message under any
conversation id and answers `OK`, where its documentation (`main.ml:479-484`) has it fail when
the conversation does not exist; and `Bot.mli` names 0 as the random choice, where
the code takes 4.

## 7. Plan

1. (done) `Server`, `Accounts`, `Schema`, `ContactBook`, `ConversationBook`,
   `MessageLog`, their composition `WebChat`, and the theorems of section 4.
2. (done) `AtomicChat` and the refinement; `Bots`; `Session` and `ChatView`.
3. (done) The frontend's theorems, `Session_proof` and `ChatView_proof`.
4. (done) The lists, the outcomes, the schema's theorems and `OnlyTheBusyAreRefused`.
5. (done) The refinement, `HandlersAreAtomic`.
6. (done) The theorems about `Bots`.
