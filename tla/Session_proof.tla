---------------------------- MODULE Session_proof ----------------------------
(***************************************************************************)
(* A view that requires a user has one, an account unless the form of      *)
(* Register was edited too late, and a registration that went out for one  *)
(* email has brought that email both bots: for any number of functions     *)
(* under way, users, usernames and forms.                                  *)
(***************************************************************************)
EXTENDS Session, TLAPS

Runs == {"none", "login", "register", "rename", "addContact", "gone"}
Steps == {"none", "login", "register", "changeUsername", "addContact",
          "bob", "joe", "getContacts", "getConversations"}
Answers == {"none", "awaited", "yes", "no"}

\* What state.user.email may be
Users == Emails \cup {Empty, Null}

Flow == [run : Runs, step : Steps, email : Users, name : Names \cup {Null},
         friend : Friends \cup {Null}, form : Forms \cup {Blank}, answer : Answers,
         mounted : BOOLEAN, sent : SUBSET Users]

FlowTyped == flow \in [Threads -> Flow]

\* The requests that a registration has had answered with yes: it has got past
\* them, or has just been answered.
Later == [register |-> {"bob", "joe", "getContacts", "getConversations"},
          bob |-> {"joe", "getContacts", "getConversations"},
          joe |-> {"getContacts", "getConversations"}]
Past(f, step) == f.step \in Later[step] \/ (f.step = step /\ f.answer = "yes")

\* A registration has been sent for an account, and has brought in the bots of
\* the requests it has got past, each for one of those it was sent for.
Brought(f) ==
  /\ f.step = "register" => f.sent = {f.email}
  /\ f.email \in f.sent
  /\ Past(f, "register") => \E e \in f.sent : e \in DOMAIN accounts
  /\ Past(f, "bob") => \E e \in f.sent : <<e, "bob">> \in contacts
  /\ Past(f, "joe") => \E e \in f.sent : <<e, "joe">> \in contacts

\* What a function under way has been answered is true.
FlowSound(t) ==
  LET f == flow[t] IN
  /\ f.step = "register" => f.email \in Emails
  /\ f.run = "login" /\ f.answer = "yes" => f.email \in DOMAIN accounts
  /\ f.run = "login" => f.step = "login"
  /\ f.run = "register" =>
       /\ f.step \in {"register", "bob", "joe", "getContacts", "getConversations"}
       /\ Brought(f)

\* The user is an account, unless typed too late.
UserSound ==
  /\ user.email \in Users
  /\ late \/ user.email \in DOMAIN accounts \cup {Null}

Guarding ==
  /\ FlowTyped /\ form \in Forms \cup {Blank}
  /\ DOMAIN accounts \subseteq Emails
  /\ \A e \in DOMAIN accounts : accounts[e] \in Names \cup {Null}
  /\ UserSound
  /\ view \in AuthViews => user.email # Null
  /\ \A t \in Threads : FlowSound(t)
-----------------------------------------------------------------------------
LEMMA NullIsNobody == Null \notin Emails \cup {Empty}
BY NullAssumption

LEMMA IdleIsIdle ==
  /\ Idle \in Flow
  /\ Idle.run = "none" /\ Idle.step = "none" /\ Idle.answer = "none"
BY DEF Idle, Flow, Runs, Steps, Answers, Users

LEMMA FormsAreForms ==
  ASSUME NEW f \in Forms \cup {Blank}
  PROVE  f.email \in Emails \cup {Empty} /\ f.name \in Names \cup {Empty}
BY FormsAssumption DEF Blank

LEMMA GuardingInit ==
  ASSUME Init
  PROVE  Guarding
<1>1. /\ user.email = Null /\ view = "login" /\ form = Blank
      /\ DOMAIN accounts \subseteq Emails
      /\ \A e \in DOMAIN accounts : accounts[e] \in Names
  BY InitAssumption DEF Init, Nobody
<1>2. FlowTyped /\ \A t \in Threads : flow[t] = Idle
  BY IdleIsIdle DEF Init, FlowTyped
<1>3. \A t \in Threads : FlowSound(t)
  BY <1>2, IdleIsIdle DEF FlowSound
<1>4. QED
  BY <1>1, <1>2, <1>3 DEF Guarding, UserSound, Users, AuthViews
-----------------------------------------------------------------------------
\* A navigation changes of the functions only whether their view is mounted.
AlikeAt(f, g) ==
  /\ g.run = f.run /\ g.step = f.step /\ g.email = f.email
  /\ g.answer = f.answer /\ g.sent = f.sent

LEMMA GoToGuards ==
  ASSUME NEW v, NEW u, NEW f \in [Threads -> Flow], GoTo(v, u, f),
         form \in Forms \cup {Blank}
  PROVE  /\ FlowTyped' /\ form' \in Forms \cup {Blank}
         /\ \A t \in Threads : AlikeAt(f[t], flow'[t])
         /\ view' \in AuthViews => u.email # Null
<1>1. view' \in AuthViews => u.email # Null
  BY DEF GoTo, Guarded, AuthViews
<1>2. ASSUME NEW t \in Threads
      PROVE  flow'[t] \in Flow /\ AlikeAt(f[t], flow'[t])
  <2>1. flow'[t] = [f[t] EXCEPT !.mounted = @ /\ view' = view]
    BY DEF GoTo
  <2>2. f[t] \in Flow /\ (f[t].mounted /\ view' = view) \in BOOLEAN
    OBVIOUS
  <2>3. QED
    BY <2>1, <2>2 DEF Flow, AlikeAt
<1>3. flow' = [t \in Threads |-> flow'[t]]
  BY DEF GoTo
<1>4. form' \in Forms \cup {Blank}
  BY DEF GoTo
<1>5. QED
  BY <1>1, <1>2, <1>3, <1>4 DEF FlowTyped

\* Functions that were answered alike are sound alike, as accounts grow.
LEMMA SoundAlike ==
  ASSUME NEW t \in Threads, AlikeAt(flow[t], flow'[t]),
         DOMAIN accounts \subseteq DOMAIN accounts', contacts \subseteq contacts',
         FlowSound(t)
  PROVE  FlowSound(t)'
<1>1. PICK f, g : f = flow[t] /\ g = flow'[t]
  OBVIOUS
<1>2. Brought(f) => Brought(g)'
  BY <1>1 DEF AlikeAt, Brought, Past
<1>3. QED
  BY <1>1, <1>2 DEF AlikeAt, FlowSound

\* A step of one function leaves the others sound.
LEMMA OthersSound ==
  ASSUME Guarding, NEW t \in Threads, NEW g, flow' = [flow EXCEPT ![t] = g],
         DOMAIN accounts \subseteq DOMAIN accounts', contacts \subseteq contacts',
         NEW r \in Threads \ {t}
  PROVE  FlowSound(r)'
<1>1. flow'[r] = flow[r]
  BY DEF Guarding, FlowTyped
<1>2. AlikeAt(flow[r], flow'[r])
  BY <1>1 DEF AlikeAt
<1>3. QED
  BY <1>2, SoundAlike DEF Guarding

LEMMA IdleIsSound ==
  ASSUME NEW t \in Threads, flow'[t].run = "none", flow'[t].step = "none"
  PROVE  FlowSound(t)'
BY DEF FlowSound

\* Navigation and logout
LEMMA NavigationGuards ==
  ASSUME Guarding, NEW v, NEW f \in [Threads -> Flow], GoTo(v, user', f),
         UNCHANGED <<accounts, contacts>>, UserSound',
         \A t \in Threads : \/ f[t].run = "none" /\ f[t].step = "none"
                            \/ f[t] = flow[t]
  PROVE  Guarding'
<1>1. /\ FlowTyped' /\ form' \in Forms \cup {Blank}
      /\ \A t \in Threads : AlikeAt(f[t], flow'[t])
      /\ view' \in AuthViews => user'.email # Null
  BY GoToGuards DEF Guarding
<1>2. ASSUME NEW t \in Threads  PROVE FlowSound(t)'
  <2>1. CASE f[t].run = "none" /\ f[t].step = "none"
    BY <1>1, <2>1, IdleIsSound DEF AlikeAt
  <2>2. CASE f[t] = flow[t]
    BY <1>1, <2>2, SoundAlike DEF Guarding
  <2>3. QED
    BY <2>1, <2>2
<1>3. QED
  BY <1>1, <1>2 DEF Guarding

LEMMA VisitGuards ==
  ASSUME Guarding, NEW v \in Views, Visit(v)
  PROVE  Guarding'
BY NavigationGuards DEF Visit, Guarding, FlowTyped, UserSound

LEMMA LogOutGuards ==
  ASSUME Guarding, LogOut
  PROVE  Guarding'
BY NavigationGuards DEF LogOut, Guarding, FlowTyped, Nobody, UserSound, Users

LEMMA ReloadGuards ==
  ASSUME Guarding, Reload
  PROVE  Guarding'
<1>1. ASSUME NEW t \in Threads  PROVE flow'[t] \in Flow /\ FlowSound(t)'
  <2>1. flow[t] \in Flow /\ FlowSound(t)
    BY DEF Guarding, FlowTyped
  <2>2. CASE flow[t].answer = "awaited"
    <3>1. flow'[t] = [flow[t] EXCEPT !.run = "gone", !.form = Blank, !.mounted = FALSE,
                                     !.sent = {}]
      BY <2>2 DEF Reload
    <3>2. /\ flow'[t] \in Flow /\ flow'[t].run = "gone"
          /\ flow'[t].step = flow[t].step /\ flow'[t].email = flow[t].email
      BY <2>1, <3>1 DEF Flow, Runs
    <3>3. FlowSound(t)'
      BY <2>1, <3>2 DEF FlowSound
    <3>4. QED
      BY <3>2, <3>3
  <2>3. CASE flow[t].answer # "awaited"
    <3>1. flow'[t] = Idle
      BY <2>3 DEF Reload
    <3>2. QED
      BY <3>1, IdleIsIdle, IdleIsSound
  <2>4. QED
    BY <2>2, <2>3
<1>2. FlowTyped'
  BY <1>1 DEF Reload, FlowTyped
<1>3. /\ UserSound' /\ form' \in Forms \cup {Blank} /\ UNCHANGED accounts
      /\ view' \in AuthViews => FALSE
  BY DEF Reload, Nobody, UserSound, Users, Guarded, AuthViews
<1>4. QED
  BY <1>1, <1>2, <1>3 DEF Guarding

\* Typing into Register's form is none of the server's business.
LEMMA EditGuards ==
  ASSUME Guarding, NEW typed \in Forms, Edit(typed)
  PROVE  Guarding'
<1>1. ASSUME NEW t \in Threads
      PROVE  flow'[t] \in Flow /\ AlikeAt(flow[t], flow'[t])
  <2>1. flow[t] \in Flow
    BY DEF Guarding, FlowTyped
  <2>2. flow'[t] = [flow[t] EXCEPT !.form = typed] \/ flow'[t] = flow[t]
    BY DEF Edit
  <2>3. QED
    BY <2>1, <2>2 DEF Flow, AlikeAt
<1>2. FlowTyped'
  BY <1>1 DEF Edit, FlowTyped
<1>3. UNCHANGED <<accounts, contacts, user, view, late>> /\ form' \in Forms
  BY DEF Edit
<1>4. \A t \in Threads : FlowSound(t)'
  BY <1>1, <1>3, SoundAlike DEF Guarding
<1>5. QED
  BY <1>2, <1>3, <1>4 DEF Guarding, UserSound
-----------------------------------------------------------------------------
\* One function goes on and the page stays: it is enough to look at that one.
LEMMA OneGoesOn ==
  ASSUME Guarding, NEW t \in Threads, NEW g \in Flow, flow' = [flow EXCEPT ![t] = g],
         DOMAIN accounts \subseteq DOMAIN accounts', contacts \subseteq contacts',
         DOMAIN accounts' \subseteq Emails,
         \A e \in DOMAIN accounts' : accounts'[e] \in Names \cup {Null},
         UserSound', form' = form,
         view' \in AuthViews => user'.email # Null,
         FlowSound(t)'
  PROVE  Guarding'
<1>1. FlowTyped'
  BY DEF Guarding, FlowTyped
<1>2. \A r \in Threads : FlowSound(r)'
  BY OthersSound
<1>3. QED
  BY <1>1, <1>2 DEF Guarding

\* The same where the server and the user stay as they are
LEMMA OneGoesOnQuietly ==
  ASSUME Guarding, NEW t \in Threads, NEW g \in Flow, flow' = [flow EXCEPT ![t] = g],
         UNCHANGED <<accounts, contacts, view, form, late>>, user'.email = user.email,
         FlowSound(t)'
  PROVE  Guarding'
<1>1. /\ DOMAIN accounts' \subseteq Emails
      /\ \A e \in DOMAIN accounts' : accounts'[e] \in Names \cup {Null}
      /\ UserSound'
      /\ view' \in AuthViews => user'.email # Null
  BY DEF Guarding, UserSound
<1>2. QED
  BY <1>1, OneGoesOn

LEMMA StartsSound ==
  ASSUME Guarding, NEW t \in Threads, NEW g \in Flow, Start(t, g), UNCHANGED user,
         g.answer = "awaited",
         g.run = "register" \/ g.step = "register" =>
           /\ g.run = "register" /\ g.step = "register" /\ g.email \in Emails
           /\ g.sent = {g.email},
         g.run = "login" => g.step = "login"
  PROVE  Guarding'
<1>1. flow' = [flow EXCEPT ![t] = g] /\ UNCHANGED <<accounts, contacts, view, form, late>>
  BY DEF Start
<1>2. flow'[t] = g
  BY <1>1 DEF Guarding, FlowTyped
<1>3. g.run = "register" => Brought(g)'
  BY DEF Brought, Past, Later
<1>4. FlowSound(t)'
  BY <1>2, <1>3 DEF FlowSound
<1>5. QED
  BY <1>1, <1>4, OneGoesOnQuietly

LEMMA SentIsFlow ==
  ASSUME NEW run \in Runs, NEW step \in Steps, NEW email \in Users,
         NEW name \in Names \cup {Null}, NEW friend \in Friends \cup {Null},
         NEW g, g = Sent(run, step, email, name, friend)
  PROVE  /\ g \in Flow /\ g.answer = "awaited" /\ g.run = run /\ g.step = step
         /\ g.email = email
BY DEF Sent, Flow, Answers

LEMMA SubmitLoginGuards ==
  ASSUME Guarding, NEW t \in Threads, NEW email \in Emails, SubmitLogin(t, email)
  PROVE  Guarding'
<1>1. PICK g : g = Sent("login", "login", email, Null, Null)
  OBVIOUS
<1>2. g \in Flow /\ g.answer = "awaited" /\ g.run = "login" /\ g.step = "login"
  BY <1>1, SentIsFlow DEF Runs, Steps, Users
<1>3. Start(t, g) /\ UNCHANGED user
  BY <1>1 DEF SubmitLogin, Start
<1>4. QED
  BY <1>2, <1>3, StartsSound

LEMMA SubmitRegisterGuards ==
  ASSUME Guarding, NEW t \in Threads, SubmitRegister(t)
  PROVE  Guarding'
<1> DEFINE s == Sent("register", "register", form.email, form.name, Null)
<1>1. form \in Forms \cup {Blank} /\ form.email \in Emails /\ form.name \in Names
  BY FormsAreForms DEF SubmitRegister, Guarding
<1>2. /\ s \in Flow /\ s.answer = "awaited" /\ s.run = "register"
      /\ s.step = "register" /\ s.email = form.email
  BY <1>1, SentIsFlow DEF Runs, Steps, Users
<1> HIDE DEF s
<1>3. PICK g : g = [s EXCEPT !.form = form, !.sent = {form.email}]
  OBVIOUS
<1>4. /\ g \in Flow /\ g.answer = "awaited" /\ g.run = "register"
      /\ g.step = "register" /\ g.email = form.email /\ g.sent = {form.email}
  BY <1>1, <1>2, <1>3 DEF Flow, Users
<1>5. Start(t, g) /\ UNCHANGED user
  BY <1>3 DEF SubmitRegister, Start, s
<1>6. QED
  BY <1>1, <1>4, <1>5, StartsSound

LEMMA SubmitNameGuards ==
  ASSUME Guarding, NEW t \in Threads, NEW name \in Names, SubmitName(t, name)
  PROVE  Guarding'
<1>1. PICK g : g = Sent("rename", "changeUsername", user.email, name, Null)
  OBVIOUS
<1>2. g \in Flow /\ g.answer = "awaited" /\ g.run = "rename" /\ g.step = "changeUsername"
  <2>1. user.email \in Users
    BY DEF Guarding, UserSound
  <2>2. /\ "rename" \in Runs /\ "changeUsername" \in Steps
        /\ name \in Names \cup {Null} /\ Null \in Friends \cup {Null}
    BY FormsAssumption DEF Runs, Steps
  <2>3. QED
    BY <1>1, <2>1, <2>2 DEF Sent, Flow, Answers
<1>3. Start(t, g) /\ UNCHANGED user
  BY <1>1 DEF SubmitName, Start
<1>4. QED
  BY <1>2, <1>3, StartsSound

LEMMA SubmitContactGuards ==
  ASSUME Guarding, NEW t \in Threads, NEW friend \in Friends, SubmitContact(t, friend)
  PROVE  Guarding'
<1>1. PICK g : g = Sent("addContact", "addContact", user.email, Null, friend)
  OBVIOUS
<1>2. g \in Flow /\ g.answer = "awaited" /\ g.run = "addContact" /\ g.step = "addContact"
  <2>1. user.email \in Users
    BY DEF Guarding, UserSound
  <2>2. /\ "addContact" \in Runs /\ "addContact" \in Steps
        /\ Null \in Names \cup {Null} /\ friend \in Friends \cup {Null}
    BY DEF Runs, Steps
  <2>3. QED
    BY <1>1, <2>1, <2>2 DEF Sent, Flow, Answers
<1>3. Start(t, g) /\ UNCHANGED user
  BY <1>1 DEF SubmitContact, Start
<1>4. QED
  BY <1>2, <1>3, StartsSound

LEMMA StillGuards ==
  ASSUME Guarding, UNCHANGED <<accounts, contacts, user, view, form, flow, late>>
  PROVE  Guarding'
<1>1. \A t \in Threads : AlikeAt(flow[t], flow'[t])
  BY DEF AlikeAt
<1>2. \A t \in Threads : FlowSound(t)'
  BY <1>1, SoundAlike DEF Guarding
<1>3. QED
  BY <1>2 DEF Guarding, FlowTyped, UserSound
-----------------------------------------------------------------------------
\* Whatever the server does, accounts and contacts only grow.
LEMMA EffectGrows ==
  ASSUME Guarding, NEW t \in Threads, Effect(t)
  PROVE  /\ DOMAIN accounts \subseteq DOMAIN accounts' /\ contacts \subseteq contacts'
         /\ DOMAIN accounts' \subseteq Emails
         /\ \A e \in DOMAIN accounts' : accounts'[e] \in Names \cup {Null}
<1> DEFINE f == flow[t]
<1>1. /\ f \in Flow /\ FlowSound(t) /\ DOMAIN accounts \subseteq Emails
      /\ \A e \in DOMAIN accounts : accounts[e] \in Names \cup {Null}
  BY DEF Guarding, FlowTyped
<1>2. f.name \in Names \cup {Null} /\ (f.step = "register" => f.email \in Emails)
  BY <1>1 DEF Flow, FlowSound
<1>3. contacts \subseteq contacts'
  BY DEF Effect
<1>4. CASE Accepted(t) /\ f.step = "register"
  <2>1. accounts' = [e \in DOMAIN accounts \cup {f.email} |->
                      IF e = f.email THEN f.name ELSE accounts[e]]
    BY <1>4 DEF Effect
  <2> HIDE DEF f
  <2>2. QED
    BY <1>1, <1>2, <1>3, <1>4, <2>1
<1>5. CASE Accepted(t) /\ f.step = "changeUsername"
  <2>1. accounts' = [accounts EXCEPT ![f.email] = f.name]
    BY <1>5 DEF Effect
  <2> HIDE DEF f
  <2>2. QED
    BY <1>1, <1>2, <1>3, <1>5, <2>1
<1>6. CASE ~(Accepted(t) /\ f.step \in {"register", "changeUsername"})
  <2>1. accounts' = accounts
    BY <1>6 DEF Effect
  <2>2. QED
    BY <1>1, <1>3, <2>1
<1>7. QED
  BY <1>4, <1>5, <1>6

\* A bot's request that is answered with yes has brought it in.
LEMMA BotAnswered ==
  ASSUME NEW t \in Threads, Accepted(t), Effect(t), NEW bot \in BotEmails,
         flow[t].step = bot
  PROVE  <<flow[t].email, bot>> \in contacts'
<1>1. Contact(t) = bot
  BY DEF Contact, BotEmails
<1>2. QED
  BY <1>1 DEF Effect

\* The answer to one function; the page hears of it later.
LEMMA AnsweredGuards ==
  ASSUME Guarding, NEW t \in Threads, Awaited(t), NEW answer \in {"yes", "no"},
         Answered(t, answer),
         DOMAIN accounts \subseteq DOMAIN accounts', contacts \subseteq contacts',
         DOMAIN accounts' \subseteq Emails,
         \A e \in DOMAIN accounts' : accounts'[e] \in Names \cup {Null},
         answer = "yes" => Accepted(t) /\ Effect(t)
  PROVE  Guarding'
<1>0. PICK f, n, g :
        /\ f = flow[t]
        /\ n = IF f.step = "login" /\ answer = "yes" THEN accounts[f.email] ELSE f.name
        /\ g = [f EXCEPT !.answer = answer, !.name = n]
  OBVIOUS
<1>1. f \in Flow /\ FlowSound(t) /\ f.answer = "awaited"
  BY <1>0 DEF Guarding, FlowTyped, Awaited
<1>2. f.step = "login" /\ answer = "yes" => f.email \in DOMAIN accounts
  BY <1>0 DEF Accepted, BotEmails
<1>3. n \in Names \cup {Null}
  BY <1>0, <1>1, <1>2 DEF Guarding, Flow
<1>4. /\ f.run = "gone" => flow' = [flow EXCEPT ![t] = Idle]
      /\ f.run # "gone" => flow' = [flow EXCEPT ![t] = g]
  <2>1. flow' = [flow EXCEPT ![t] = IF f.run = "gone" THEN Idle ELSE g]
    BY <1>0, Zenon DEF Answered
  <2>2. QED
    BY <2>1
<1>5. /\ g \in Flow /\ g.run = f.run /\ g.step = f.step /\ g.email = f.email
      /\ g.sent = f.sent /\ g.answer = answer
  BY <1>0, <1>1, <1>3 DEF Flow, Answers
<1>6. /\ UserSound' /\ form' = form
      /\ view' \in AuthViews => user'.email # Null
  BY DEF Answered, Guarding, UserSound
<1>7. CASE f.run = "gone"
  <2>1. flow' = [flow EXCEPT ![t] = Idle] /\ flow'[t] = Idle
    BY <1>4, <1>7 DEF Guarding, FlowTyped
  <2>2. FlowSound(t)'
    BY <2>1, IdleIsIdle, IdleIsSound
  <2>3. QED
    BY <1>6, <2>1, <2>2, IdleIsIdle, OneGoesOn
<1>8. CASE f.run # "gone"
  <2>1. flow' = [flow EXCEPT ![t] = g] /\ flow'[t] = g
    BY <1>4, <1>8 DEF Guarding, FlowTyped
  <2>2. ASSUME f.run = "register"  PROVE Brought(g)'
    <3>1. Brought(f) /\ f.email \in f.sent
      BY <1>0, <1>1, <2>2 DEF FlowSound, Brought
    <3>2. /\ f.step = "register" => f.sent = {f.email}
          /\ Past(f, "register") => \E e \in f.sent : e \in DOMAIN accounts'
          /\ Past(f, "bob") => \E e \in f.sent : <<e, "bob">> \in contacts'
          /\ Past(f, "joe") => \E e \in f.sent : <<e, "joe">> \in contacts'
      BY <3>1 DEF Brought
    <3>3. ASSUME answer = "yes", f.step = "register"  PROVE f.email \in DOMAIN accounts'
      BY <1>0, <3>3 DEF Effect
    <3>4. ASSUME answer = "yes", NEW bot \in BotEmails, f.step = bot
          PROVE  <<f.email, bot>> \in contacts'
      BY <1>0, <3>4, BotAnswered
    <3>5. \A step : Past(g, step) =>
                      Past(f, step) \/ (answer = "yes" /\ f.step = step)
      BY <1>5, Zenon DEF Past
    <3>6. Past(g, "register") => \E e \in g.sent : e \in DOMAIN accounts'
      BY <1>5, <3>1, <3>2, <3>3, <3>5
    <3>7. Past(g, "bob") => \E e \in g.sent : <<e, "bob">> \in contacts'
      <4>1. Past(g, "bob") => Past(f, "bob") \/ (answer = "yes" /\ f.step = "bob")
        BY <3>5
      <4>2. answer = "yes" /\ f.step = "bob" => <<f.email, "bob">> \in contacts'
        BY <3>4 DEF BotEmails
      <4>3. QED
        BY <1>5, <3>1, <3>2, <4>1, <4>2, Zenon
    <3>8. Past(g, "joe") => \E e \in g.sent : <<e, "joe">> \in contacts'
      <4>1. Past(g, "joe") => Past(f, "joe") \/ (answer = "yes" /\ f.step = "joe")
        BY <3>5
      <4>2. answer = "yes" /\ f.step = "joe" => <<f.email, "joe">> \in contacts'
        BY <3>4 DEF BotEmails
      <4>3. QED
        BY <1>5, <3>1, <3>2, <4>1, <4>2, Zenon
    <3>9. QED
      BY <1>5, <3>1, <3>2, <3>6, <3>7, <3>8 DEF Brought
  <2>3. g.run = "login" /\ g.answer = "yes" => g.email \in DOMAIN accounts'
    BY <1>0, <1>1, <1>2, <1>5 DEF FlowSound
  <2>4. FlowSound(t)'
    BY <1>0, <1>1, <1>5, <2>1, <2>2, <2>3 DEF FlowSound
  <2>5. QED
    BY <1>5, <1>6, <2>1, <2>4, OneGoesOn
<1>9. QED
  BY <1>7, <1>8

LEMMA ReplyGuards ==
  ASSUME Guarding, NEW t \in Threads, Reply(t)
  PROVE  Guarding'
<1>1. CASE Serve(t)
  BY <1>1, EffectGrows, AnsweredGuards DEF Serve
<1>2. CASE Refuse(t)
  BY <1>2, AnsweredGuards DEF Refuse, Guarding
<1>3. CASE Lose(t)
  BY <1>3, EffectGrows, AnsweredGuards DEF Lose
<1>4. QED
  BY <1>1, <1>2, <1>3 DEF Reply
-----------------------------------------------------------------------------
\* A function that has ended has nothing to answer for.
LEMMA EndedIsFlow ==
  ASSUME Guarding, NEW t \in Threads
  PROVE  /\ Ended(t) \in [Threads -> Flow] /\ Ended(t)[t] = Idle
         /\ \A r \in Threads : Ended(t)[r] = Idle \/ Ended(t)[r] = flow[r]
BY IdleIsIdle DEF Guarding, FlowTyped, Ended

LEMMA EndedGuards ==
  ASSUME Guarding, NEW t \in Threads, flow' = Ended(t),
         UNCHANGED <<accounts, contacts, view, form, late>>, user'.email = user.email
  PROVE  Guarding'
<1>1. flow'[t] = Idle /\ flow' = [flow EXCEPT ![t] = Idle]
  BY EndedIsFlow DEF Ended
<1>2. FlowSound(t)'
  BY <1>1, IdleIsIdle, IdleIsSound
<1>3. QED
  BY <1>1, <1>2, IdleIsIdle, OneGoesOnQuietly

\* Leaving for Home when a function has ended
LEMMA HomeGuards ==
  ASSUME Guarding, NEW t \in Threads, GoTo("home", user', Ended(t)),
         UNCHANGED <<accounts, contacts>>, UserSound'
  PROVE  Guarding'
<1> DEFINE f == Ended(t)
<1>1. f \in [Threads -> Flow]
  BY EndedIsFlow
<1>2. \A r \in Threads : \/ f[r].run = "none" /\ f[r].step = "none"
                         \/ f[r] = flow[r]
  BY EndedIsFlow, IdleIsIdle
<1>3. GoTo("home", user', f)
  OBVIOUS
<1> HIDE DEF f
<1>4. QED
  BY <1>1, <1>2, <1>3, NavigationGuards

LEMMA LoggedInGuards ==
  ASSUME Guarding, NEW t \in Threads, LoggedIn(t)
  PROVE  Guarding'
<1>1. flow[t].email \in DOMAIN accounts
  BY DEF LoggedIn, Heard, Guarding, FlowSound
<1>2. user'.email = flow[t].email
  BY DEF LoggedIn
<1>3. UserSound' /\ UNCHANGED <<accounts, contacts>>
  BY <1>1, <1>2 DEF LoggedIn, OnlyPage, UserSound, Users, Guarding
<1>4. QED
  BY <1>3, HomeGuards DEF LoggedIn

LEMMA AlertedGuards ==
  ASSUME Guarding, NEW t \in Threads, Alerted(t)
  PROVE  Guarding'
BY EndedGuards DEF Alerted, OnlyPage

LEMMA RenamedGuards ==
  ASSUME Guarding, NEW t \in Threads, Renamed(t)
  PROVE  Guarding'
<1>1. user'.email = user.email
  BY DEF Renamed
<1>2. QED
  BY <1>1, EndedGuards DEF Renamed, OnlyPage

LEMMA ContactDoneGuards ==
  ASSUME Guarding, NEW t \in Threads, ContactDone(t)
  PROVE  Guarding'
BY EndedGuards DEF ContactDone, OnlyPage

\* Going on to the next request
LEMMA ContactAddedGuards ==
  ASSUME Guarding, NEW t \in Threads, ContactAdded(t)
  PROVE  Guarding'
<1> DEFINE f == flow[t]
           g == [f EXCEPT !.step = "getContacts", !.email = user.email,
                          !.answer = "awaited"]
<1>1. f \in Flow /\ f.run = "addContact"
  BY DEF Guarding, FlowTyped, ContactAdded, Heard
<1>2. user.email \in Users
  BY DEF Guarding, UserSound
<1>3. flow' = [flow EXCEPT ![t] = g]
  BY DEF ContactAdded, Guarding, FlowTyped
<1> HIDE DEF f
<1>4. g \in Flow /\ g.run = "addContact" /\ g.step = "getContacts"
  BY <1>1, <1>2 DEF Flow, Steps, Answers
<1> HIDE DEF g
<1>5. flow'[t] = g
  BY <1>3 DEF Guarding, FlowTyped
<1>6. FlowSound(t)'
  BY <1>4, <1>5 DEF FlowSound
<1>7. QED
  BY <1>3, <1>4, <1>6, OneGoesOnQuietly DEF ContactAdded, OnlyPage

\* The next request of a registration; what it has brought stays brought.
LEMMA BroughtOn ==
  ASSUME NEW f, NEW g, NEW next, Brought(f), f.answer = "yes",
         \/ f.step = "register" /\ next = "bob"
         \/ f.step = "bob" /\ next = "joe"
         \/ f.step = "joe" /\ next = "getContacts"
         \/ f.step = "getContacts" /\ next = "getConversations",
         g.step = next, g.answer = "awaited", g.email \in g.sent,
         f.sent \subseteq g.sent, UNCHANGED <<accounts, contacts>>
  PROVE  Brought(g)'
<1>1. next # "register"
  OBVIOUS
<1>2. /\ Past(g, "register") => Past(f, "register")
      /\ Past(g, "bob") => Past(f, "bob")
      /\ Past(g, "joe") => Past(f, "joe")
  BY DEF Past, Later
<1>3. QED
  BY <1>1, <1>2 DEF Brought

\* A registration's requests, one after the other
LEMMA StepsInTurn ==
  /\ NextStep["register"] = "bob" /\ NextStep["bob"] = "joe"
  /\ NextStep["joe"] = "getContacts" /\ NextStep["getContacts"] = "getConversations"
  /\ NextStep["getConversations"] = "done"
BY DEF NextStep

LEMMA RegisteredGuards ==
  ASSUME Guarding, NEW t \in Threads, Registered(t)
  PROVE  Guarding'
<1>0. PICK f, next, g :
        /\ f = flow[t] /\ next = NextStep[f.step]
        /\ g = [f EXCEPT !.step = next, !.email = user'.email,
                         !.sent = f.sent \cup {user'.email}, !.answer = "awaited",
                         !.name = Null, !.form = Blank]
  OBVIOUS
<1>1. /\ f \in Flow /\ f.run = "register" /\ f.answer = "yes" /\ Brought(f)
      /\ f.step \in {"register", "bob", "joe", "getContacts", "getConversations"}
  BY <1>0 DEF Guarding, FlowTyped, FlowSound, Registered, Heard
<1>2. UNCHANGED <<accounts, contacts>>
  BY DEF Registered, OnlyPage
<1>3. UserSound' /\ (user'.email # Null \/ user' = user)
  <2>1. CASE f.step = "register"
    <3>1. user'.email = f.form.email /\ late' = (f.form.email # f.email)
      BY <1>0, <2>1 DEF Registered
    <3>2. f.form.email \in Emails \cup {Empty}
      BY <1>1, FormsAreForms DEF Flow
    <3>3. f.email \in DOMAIN accounts
      BY <1>1, <2>1 DEF Brought, Past, Later
    <3>4. user'.email # Null
      BY <3>1, <3>2, NullIsNobody
    <3>5. UserSound'
      BY <1>2, <3>1, <3>2, <3>3 DEF UserSound, Users
    <3>6. QED
      BY <3>4, <3>5
  <2>2. CASE f.step # "register"
    BY <1>0, <1>2, <2>2 DEF Registered, Guarding, UserSound
  <2>3. QED
    BY <2>1, <2>2
<1>4. CASE next = "done" /\ GoTo("home", user', Ended(t))
  BY <1>2, <1>3, <1>4, HomeGuards
<1>5. CASE /\ next # "done" /\ UNCHANGED <<view, form>>
           /\ flow' = [flow EXCEPT ![t].step = next, ![t].email = user'.email,
                                   ![t].sent = @ \cup {user'.email},
                                   ![t].answer = "awaited",
                                   ![t].name = Null, ![t].form = Blank]
  <2>1. flow' = [flow EXCEPT ![t] = g]
    BY <1>0, <1>5 DEF Guarding, FlowTyped
  <2>2. \/ f.step = "register" /\ next = "bob"
        \/ f.step = "bob" /\ next = "joe"
        \/ f.step = "joe" /\ next = "getContacts"
        \/ f.step = "getContacts" /\ next = "getConversations"
    BY <1>0, <1>1, <1>5, StepsInTurn
  <2>3. user'.email \in Users /\ next \in Steps
    BY <1>3, <2>2 DEF UserSound, Steps
  <2>4. /\ g \in Flow /\ g.run = "register" /\ g.step = next
        /\ g.answer = "awaited" /\ g.email = user'.email
        /\ g.sent = f.sent \cup {user'.email}
    BY <1>0, <1>1, <2>3 DEF Flow, Answers
  <2>5. flow'[t] = g
    BY <2>1 DEF Guarding, FlowTyped
  <2>6. Brought(g)'
    BY <1>1, <1>2, <2>2, <2>4, BroughtOn
  <2>7. FlowSound(t)'
    BY <2>2, <2>4, <2>5, <2>6 DEF FlowSound
  <2>8. view' \in AuthViews => user'.email # Null
    BY <1>3, <1>5 DEF Guarding
  <2>9. QED
    BY <1>2, <1>3, <1>5, <2>1, <2>4, <2>7, <2>8, OneGoesOn DEF Guarding
<1>6. QED
  BY <1>0, <1>4, <1>5 DEF Registered
-----------------------------------------------------------------------------
LEMMA GuardingNext ==
  ASSUME Guarding, [Next]_vars
  PROVE  Guarding'
<1>1. ASSUME NEW v \in Views, Visit(v)  PROVE Guarding'
  BY <1>1, VisitGuards
<1>2. CASE LogOut
  BY <1>2, LogOutGuards
<1>3. CASE Reload
  BY <1>3, ReloadGuards
<1>4. CASE TogglePopup \/ UNCHANGED vars
  BY <1>4, StillGuards DEF TogglePopup, vars
<1>5. ASSUME NEW typed \in Forms, Edit(typed)  PROVE Guarding'
  BY <1>5, EditGuards
<1>6. ASSUME NEW t \in Threads, NEW email \in Emails, SubmitLogin(t, email)
      PROVE  Guarding'
  BY <1>6, SubmitLoginGuards
<1>7. ASSUME NEW t \in Threads, SubmitRegister(t)  PROVE Guarding'
  BY <1>7, SubmitRegisterGuards
<1>8. ASSUME NEW t \in Threads, NEW name \in NewNames, SubmitName(t, name)
      PROVE  Guarding'
  BY <1>8, SubmitNameGuards, FormsAssumption
<1>9. ASSUME NEW t \in Threads, NEW friend \in Friends, SubmitContact(t, friend)
      PROVE  Guarding'
  BY <1>9, SubmitContactGuards
<1>10. ASSUME NEW t \in Threads, Reply(t)  PROVE Guarding'
  BY <1>10, ReplyGuards
<1>11. ASSUME NEW t \in Threads, Deliver(t)  PROVE Guarding'
  BY <1>11, LoggedInGuards, AlertedGuards, RegisteredGuards, RenamedGuards,
     ContactDoneGuards, ContactAddedGuards DEF Deliver
<1>12. QED
  BY <1>1, <1>2, <1>3, <1>4, <1>5, <1>6, <1>7, <1>8, <1>9, <1>10, <1>11 DEF Next

\* A view that requires a user has one, of the server's accounts unless the form
\* of Register was edited while its /register was under way (store.js:45): the
\* guard of the router (router/index.js) against late answers, logouts, edits
\* and reloads in any order, for any number of functions under way.
THEOREM ViewsAreGuarded == Spec => []GuardedViews
<1>1. Init => Guarding
  BY GuardingInit
<1>2. Guarding /\ [Next]_vars => Guarding'
  BY GuardingNext
<1>3. Guarding => GuardedViews
  BY DEF Guarding, UserSound, GuardedViews
<1>4. QED
  BY <1>1, <1>2, <1>3, PTL DEF Spec

\* A registration that has passed its requests for the bots (postRegister of
\* Register.vue), all of them sent for one email, has opened that email's
\* account and brought it both bots: for any number of people at the page,
\* submissions, edits, refusals and lost answers.
THEOREM RegistrationsHaveBots == Spec => []RegisteredHasBots
<1>1. Init => Guarding
  BY GuardingInit
<1>2. Guarding /\ [Next]_vars => Guarding'
  BY GuardingNext
<1>3. ASSUME NEW t \in Threads, Guarding, flow[t].run = "register",
             flow[t].step \in {"getContacts", "getConversations"},
             NEW email \in Emails, flow[t].sent = {email}
      PROVE  /\ email \in DOMAIN accounts
             /\ \A bot \in BotEmails : <<email, bot>> \in contacts
  <2>1. PICK f : f = flow[t]
    OBVIOUS
  <2>2. Brought(f) /\ f.sent = {email} /\ f.step \in {"getContacts", "getConversations"}
    BY <1>3, <2>1 DEF Guarding, FlowSound
  <2>3. Past(f, "register") /\ Past(f, "bob") /\ Past(f, "joe")
    BY <2>2 DEF Past, Later
  <2>4. email \in DOMAIN accounts /\ <<email, "bob">> \in contacts
          /\ <<email, "joe">> \in contacts
    BY <2>2, <2>3 DEF Brought
  <2>5. QED
    BY <2>4 DEF BotEmails
<1>4. Guarding => RegisteredHasBots
  BY <1>3 DEF RegisteredHasBots
<1>5. QED
  BY <1>1, <1>2, <1>4, PTL DEF Spec
=============================================================================
