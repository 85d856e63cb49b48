------------------------------- MODULE Session -------------------------------
(***************************************************************************)
(* One browser page: the store's user and processing flag, the router and  *)
(* its guard, and the asynchronous functions of the views Login, Register  *)
(* and Home that run between two answers of the server.  A page runs one   *)
(* function at a time, but while one awaits an answer the user may start   *)
(* others, also the same one again, and the answers come in any order.     *)
(* postRegister hands the store the form itself, not what it holds: the    *)
(* store reads it again after the answer, and until then it is edited.     *)
(*                                                                         *)
(* The server is what AtomicChat makes of it: a request happens at one     *)
(* moment or not at all.  Here its answer may also be lost on the way;     *)
(* axios rejects then as it does for a 500.                                *)
(***************************************************************************)
EXTENDS Naturals, FiniteSets

CONSTANTS
  Threads,   \* bound: the asynchronous functions awaiting an answer
  Emails,    \* what users type: emails,
  Names,     \* usernames,
  NewNames,  \* usernames to change to,
  Forms,     \* what the form of Register holds while they type,
  Friends,   \* and the emails of contacts
  InitAccounts, InitContacts,  \* what the server knows when the page is opened
  Null

\* The text of an input nobody has typed into
Empty == ""
Blank == [email |-> Empty, name |-> Empty]

ASSUME NullAssumption == Null \notin Emails \cup Names \cup {Empty}
ASSUME FormsAssumption ==
  /\ NewNames \subseteq Names
  /\ Forms \subseteq [email : Emails \cup {Empty}, name : Names \cup {Empty}]
ASSUME InitAssumption ==
  /\ DOMAIN InitAccounts \subseteq Emails
  /\ \A e \in DOMAIN InitAccounts : InitAccounts[e] \in Names

BotEmails == {"bob", "joe"}
AuthViews == {"home", "conversations", "chat"}
Views == AuthViews \cup {"login", "register"}

VARIABLES
  accounts,     \* of the server: each email's username,
  contacts,     \* and who has whom for contact
  user,         \* state.user
  processing,   \* state.processing: the overlay that covers the page
  view,         \* the router's current view
  popup,        \* Home's addContactPopup
  form,         \* Register's form: what its inputs hold
  flow,         \* the functions under way
  late          \* history: was the user's email typed after /register was sent?

vars == <<accounts, contacts, user, processing, view, popup, form, flow, late>>

\* A function of run awaits the answer to the request step, which was sent
\* for email with the given name or about the given friend; mounted tells
\* whether its view is still there.  For /register, form is what the Register
\* it came from has in its form, or had when it was left.  (sent is a history:
\* for whom all the requests of a registration were sent.)
Idle == [run |-> "none", step |-> "none", email |-> Null, name |-> Null,
         friend |-> Null, form |-> Blank, answer |-> "none", mounted |-> FALSE,
         sent |-> {}]
Nobody == [email |-> Null, username |-> Null]

\* App: created logs out, mounted clears the processing screen.
Init ==
  /\ accounts = InitAccounts /\ contacts = InitContacts
  /\ user = Nobody /\ processing = FALSE
  /\ view = "login" /\ popup = FALSE /\ form = Blank /\ late = FALSE
  /\ flow = [t \in Threads |-> Idle]
-----------------------------------------------------------------------------
\* router.beforeEach, for the user u
Guarded(v, u) == IF v \in AuthViews /\ u.email = Null THEN "login" ELSE v

\* The views are all in one chunk, loaded before anybody can log in, so that
\* a navigation is over before the next event.  A view that is left is
\* unmounted, and its inputs are blank when it comes back.
GoTo(v, u, f) ==
  /\ view' = Guarded(v, u)
  /\ popup' = (popup /\ view' = "home")
  /\ form' = IF view' = view THEN form ELSE Blank
  /\ flow' = [t \in Threads |-> [f[t] EXCEPT !.mounted = @ /\ view' = view]]

\* Links, navigate of User.vue, or the address bar
Visit(v) ==
  /\ v # view
  /\ GoTo(v, user, flow)
  /\ UNCHANGED <<accounts, contacts, user, processing, late>>

\* The overlay keeps the mouse off the page, not the keyboard.
Clickable == ~processing

\* Mutant of LogOut: the page stays where it is.
LogOutHere ==
  /\ view \in AuthViews /\ Clickable
  /\ user' = Nobody /\ late' = FALSE
  /\ UNCHANGED <<accounts, contacts, processing, view, popup, form, flow>>

\* logOut of User.vue
LogOut ==
  /\ view \in AuthViews /\ Clickable
  /\ user' = Nobody /\ late' = FALSE
  /\ GoTo("login", user', flow)
  /\ UNCHANGED <<accounts, contacts, processing>>

\* The page is loaded again: its functions are gone, their requests are not.
Reload ==
  /\ user' = Nobody /\ processing' = FALSE /\ late' = FALSE
  /\ view' = Guarded(view, user') /\ popup' = FALSE /\ form' = Blank
  /\ flow' = [t \in Threads |->
       IF flow[t].answer = "awaited"
       THEN [flow[t] EXCEPT !.run = "gone", !.form = Blank, !.mounted = FALSE, !.sent = {}]
       ELSE Idle]
  /\ UNCHANGED <<accounts, contacts>>
-----------------------------------------------------------------------------
\* Typing into the form of Register: its functions hold the same object.
Edit(typed) ==
  /\ view = "register"
  /\ form' = typed
  /\ flow' = [t \in Threads |->
       IF flow[t].run = "register" /\ flow[t].step = "register" /\ flow[t].mounted
       THEN [flow[t] EXCEPT !.form = typed] ELSE flow[t]]
  /\ UNCHANGED <<accounts, contacts, user, processing, view, popup, late>>

Sent(run, step, email, name, friend) ==
  [run |-> run, step |-> step, email |-> email, name |-> name, friend |-> friend,
   form |-> Blank, answer |-> "awaited", mounted |-> TRUE, sent |-> {}]

Start(t, request) ==
  /\ flow[t] = Idle
  /\ flow' = [flow EXCEPT ![t] = request]
  /\ UNCHANGED <<accounts, contacts, user, view, form, late>>

\* postLogin of Login.vue, by the button or by Enter
SubmitLogin(t, email) ==
  /\ view = "login"
  /\ Start(t, Sent("login", "login", email, Null, Null))
  /\ UNCHANGED <<processing, popup>>

\* postRegister of Register.vue, for a valid form
SubmitRegister(t) ==
  /\ view = "register" /\ form.email # Empty /\ form.name # Empty
  /\ Start(t, [Sent("register", "register", form.email, form.name, Null)
                 EXCEPT !.form = form, !.sent = {form.email}])
  /\ UNCHANGED <<processing, popup>>

\* editName of Home.vue, while the name is being edited: by mouse only, and
\* the popup would cover it
SubmitName(t, name) ==
  /\ view = "home" /\ ~popup /\ Clickable
  /\ processing' = TRUE
  /\ Start(t, Sent("rename", "changeUsername", user.email, name, Null))
  /\ UNCHANGED popup

TogglePopup ==
  /\ view = "home" /\ Clickable
  /\ popup' = ~popup
  /\ UNCHANGED <<accounts, contacts, user, processing, view, form, flow, late>>

\* addContact of Home.vue: by Enter even while it is under way
SubmitContact(t, friend) ==
  /\ view = "home" /\ popup
  /\ processing' = TRUE
  /\ Start(t, Sent("addContact", "addContact", user.email, Null, friend))
  /\ UNCHANGED popup
-----------------------------------------------------------------------------
Awaited(t) == flow[t].answer = "awaited"

\* Whom the requests bob, joe and addContact name
Contact(t) == IF flow[t].step = "addContact" THEN flow[t].friend ELSE flow[t].step

\* Does the server do what is asked?
Accepted(t) ==
  LET f == flow[t] IN
  CASE f.step = "register" ->
         /\ f.email \notin DOMAIN accounts
         /\ \A e \in DOMAIN accounts : accounts[e] # f.name
    [] f.step \in BotEmails \cup {"addContact"} ->
         /\ f.email \in DOMAIN accounts
         /\ Contact(t) \in BotEmails \cup DOMAIN accounts
         /\ <<f.email, Contact(t)>> \notin contacts
    [] OTHER -> f.email \in DOMAIN accounts

Effect(t) ==
  LET f == flow[t] IN
  /\ accounts' =
       IF Accepted(t) /\ f.step = "register"
       THEN [e \in DOMAIN accounts \cup {f.email} |->
               IF e = f.email THEN f.name ELSE accounts[e]]
       ELSE IF Accepted(t) /\ f.step = "changeUsername"
       THEN [accounts EXCEPT ![f.email] = f.name]
       ELSE accounts
  /\ contacts' = contacts \cup
       {<<f.email, Contact(t)>> : e \in
          IF Accepted(t) /\ f.step \in BotEmails \cup {"addContact"} THEN {f.email} ELSE {}}

\* After a reload nobody listens any more.
Answered(t, answer) ==
  /\ LET f == flow[t]
         name == IF f.step = "login" /\ answer = "yes" THEN accounts[f.email] ELSE f.name
     IN  flow' = [flow EXCEPT ![t] = IF f.run = "gone" THEN Idle
                                     ELSE [f EXCEPT !.answer = answer, !.name = name]]
  /\ UNCHANGED <<user, processing, view, popup, form, late>>

\* The server's answer, its 500, and an answer that does not arrive
Serve(t) ==
  /\ Awaited(t) /\ Effect(t)
  /\ \/ Accepted(t) /\ Answered(t, "yes")
     \/ ~Accepted(t) /\ Answered(t, "no")
Refuse(t) == Awaited(t) /\ Answered(t, "no") /\ UNCHANGED <<accounts, contacts>>
Lose(t) == Awaited(t) /\ Effect(t) /\ Answered(t, "no")
-----------------------------------------------------------------------------
\* What the function does when its answer arrives
Heard(t, run, answer) == flow[t].run = run /\ flow[t].answer = answer
Ended(t) == [flow EXCEPT ![t] = Idle]
OnlyPage == UNCHANGED <<accounts, contacts>>

\* Login of the store; then the view is left
LoggedIn(t) ==
  /\ Heard(t, "login", "yes")
  /\ user' = [email |-> flow[t].email, username |-> flow[t].name] /\ late' = FALSE
  /\ GoTo("home", user', Ended(t))
  /\ OnlyPage /\ UNCHANGED processing

\* An alert, and the view stays.
Alerted(t) ==
  /\ Heard(t, "login", "no") \/ Heard(t, "register", "no")
  /\ flow' = Ended(t)
  /\ OnlyPage /\ UNCHANGED <<user, processing, view, popup, form, late>>

\* Mutant of NextStep: the second bot is not awaited but forgotten.
NextStepOneBot ==
  [register |-> "bob", bob |-> "getContacts", joe |-> "getContacts",
   getContacts |-> "getConversations", getConversations |-> "done"]

\* postRegister's requests, one after the other
NextStep ==
  [register |-> "bob", bob |-> "joe", joe |-> "getContacts",
   getContacts |-> "getConversations", getConversations |-> "done"]

\* RegisterUser logs in what the form holds by now.  Each later request is sent
\* for whoever is logged in by then.
Registered(t) ==
  LET f == flow[t]
      next == NextStep[f.step] IN
  /\ Heard(t, "register", "yes")
  /\ IF f.step = "register"
     THEN /\ user' = [email |-> f.form.email, username |-> f.form.name]
          /\ late' = (f.form.email # f.email)
     ELSE UNCHANGED <<user, late>>
  /\ \/ /\ next # "done"
        /\ flow' = [flow EXCEPT ![t].step = next, ![t].email = user'.email,
                                ![t].sent = @ \cup {user'.email}, ![t].answer = "awaited",
                                ![t].name = Null, ![t].form = Blank]
        /\ UNCHANGED <<view, popup, form>>
     \/ next = "done" /\ GoTo("home", user', Ended(t))
  /\ OnlyPage /\ UNCHANGED processing

\* SetUserName of the store: the email is read again.  A rejection is not
\* caught: the overlay stays.
Renamed(t) ==
  /\ \/ /\ Heard(t, "rename", "yes")
        /\ user' = [email |-> user.email, username |-> flow[t].name]
        /\ processing' = FALSE
     \/ Heard(t, "rename", "no") /\ UNCHANGED <<user, processing>>
  /\ flow' = Ended(t)
  /\ OnlyPage /\ UNCHANGED <<view, popup, form, late>>

\* Mutant of ContactDone: a failure is not caught here either.
ContactDoneUncaught(t) ==
  /\ \/ Heard(t, "addContact", "no") /\ UNCHANGED processing
     \/ /\ Heard(t, "addContact", "yes") /\ flow[t].step = "getContacts"
        /\ processing' = FALSE
  /\ popup' = (popup /\ ~flow[t].mounted)
  /\ flow' = Ended(t)
  /\ OnlyPage /\ UNCHANGED <<user, view, form, late>>

\* addContact ends, in its try or in its catch.
ContactDone(t) ==
  /\ \/ Heard(t, "addContact", "no")
     \/ Heard(t, "addContact", "yes") /\ flow[t].step = "getContacts"
  /\ processing' = FALSE
  /\ popup' = (popup /\ ~flow[t].mounted)
  /\ flow' = Ended(t)
  /\ OnlyPage /\ UNCHANGED <<user, view, form, late>>

\* addContact goes on to GetContacts.
ContactAdded(t) ==
  /\ Heard(t, "addContact", "yes") /\ flow[t].step = "addContact"
  /\ flow' = [flow EXCEPT ![t].step = "getContacts", ![t].email = user.email,
                          ![t].answer = "awaited"]
  /\ OnlyPage /\ UNCHANGED <<user, processing, view, popup, form, late>>

Deliver(t) ==
  \/ LoggedIn(t) \/ Alerted(t) \/ Registered(t) \/ Renamed(t)
  \/ ContactDone(t) \/ ContactAdded(t)
-----------------------------------------------------------------------------
Reply(t) == Serve(t) \/ Refuse(t) \/ Lose(t)

Next ==
  \/ \E v \in Views : Visit(v)
  \/ LogOut \/ Reload \/ TogglePopup
  \/ \E typed \in Forms : Edit(typed)
  \/ \E t \in Threads :
       \/ \E email \in Emails : SubmitLogin(t, email)
       \/ SubmitRegister(t)
       \/ \E name \in NewNames : SubmitName(t, name)
       \/ \E friend \in Friends : SubmitContact(t, friend)
       \/ Reply(t) \/ Deliver(t)

\* An answer comes, or its loss is noticed, and the promise goes on; nothing
\* obliges the user to do anything.
Spec ==
  Init /\ [][Next]_vars
    /\ \A t \in Threads : WF_vars(Reply(t)) /\ WF_vars(Deliver(t))
-----------------------------------------------------------------------------
\* A view that requires a user has one, at every moment: also when the answer
\* of a login, a registration or a renaming comes after a logout, or a reload
\* comes before it.  And the user is an account of the server's, unless the form
\* was edited while its /register was under way: the page is then logged in
\* under whatever email had been typed by the time of the answer.
GuardedViews ==
  view \in AuthViews =>
    /\ user.email # Null
    /\ late \/ user.email \in DOMAIN accounts

\* A registration that has passed its two addContact requests, all its requests
\* sent for one email, has given that email an account with both bots for
\* contacts, however often forms were submitted, edited, refused or lost.
\* (An edited form, a logout or another login sends some of its requests for
\* others, and the bots go to them.)
RegisteredHasBots ==
  \A t \in Threads :
    flow[t].run = "register" /\ flow[t].step \in {"getContacts", "getConversations"} =>
      \A email \in Emails :
        flow[t].sent = {email} =>
          /\ email \in DOMAIN accounts
          /\ \A bot \in BotEmails : <<email, bot>> \in contacts

\* The overlay goes away again, whichever of the functions under it end in
\* whichever order, unless a renaming is refused: editName has no catch.
ProcessingEnds ==
  \/ <>(\E t \in Threads : Heard(t, "rename", "no"))
  \/ processing ~> ~processing
=============================================================================
