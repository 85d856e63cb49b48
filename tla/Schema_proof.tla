----------------------------- MODULE Schema_proof -----------------------------
(***************************************************************************)
(* usrlst, and the tables over the life of /create and /close.             *)
(*                                                                         *)
(* Emails are unique and usernames are fresh in usrlst, although the       *)
(* question and the insertion are different statements: between the two,   *)
(* the handler keeps waiting on User's connection, so nobody else reads or *)
(* writes the table.                                                       *)
(***************************************************************************)
EXTENDS WebChat_proof

Asking == {"register:username", "register:add", "create:addBob", "create:addJoe"}

\* What a handler between a question and its insertion still knows
Window(h) ==
  /\ pc[h] \in Asking => "User" \in calls[h]
  /\ pc[h] \in {"register:username", "register:add"} =>
       UsersWithEmail(Req(h).email) = {}
  /\ pc[h] = "register:add" => UsersNamed(Req(h).username) = {}
  /\ pc[h] = "create:addBob" => UsersNamed("Bob-bot") = {}
  /\ pc[h] = "create:addJoe" => UsersNamed("Joe-bot") = {}

Windows == \A h \in Slots : Window(h)

\* The bots' accounts keep their names: without this, create_db would not
\* find a renamed bot and would insert its email a second time.
BotNames ==
  \A i \in DOMAIN usrlst :
    /\ usrlst[i].email = "bob" => usrlst[i].username = "Bob-bot"
    /\ usrlst[i].email = "joe" => usrlst[i].username = "Joe-bot"

\* A step of h that leaves the table alone and asks nothing
LEMMA QuietWindows ==
  ASSUME NEW h \in Slots, Typed, Windows, MoveOf(h),
         usrlst' = usrlst, pc'[h] \notin Asking
  PROVE  Windows'
<1>1. ASSUME NEW g \in Slots \ {h}  PROVE Window(g)'
  BY DEF Windows, Window, MoveOf, Req, UsersWithEmail, UsersNamed
<1>2. Window(h)'
  BY DEF Window, Asking
<1>3. QED
  BY <1>1, <1>2 DEF Windows

\* A step of h over User's connection: nobody else is asking.
LEMMA HolderWindows ==
  ASSUME NEW h \in Slots, Typed, Windows, MoveOf(h), "User" \in calls[h],
         Window(h)'
  PROVE  Windows'
<1>1. ASSUME NEW g \in Slots \ {h}  PROVE Window(g)'
  <2>1. "User" \notin calls[g]
    BY DEF Typed, Exclusive
  <2>2. pc'[g] \notin Asking
    BY <2>1 DEF Windows, Window, MoveOf
  <2>3. QED
    BY <2>2 DEF Window, Asking
<1>2. QED
  BY <1>1 DEF Windows

LEMMA CallWindow ==
  ASSUME NEW h \in Slots, Typed, NEW label \in Labels, pc[h] # "idle", NEW w,
         Call(h, "User", label, frame[h], w)
  PROVE  \/ pc'[h] = label /\ calls'[h] = {"User"} /\ Req(h)' = Req(h)
         \/ pc'[h] = "idle"
<1>1. frame[h] \in Frame /\ "User" \in Modules
  BY Busy DEF Modules
<1>2. QED
  BY <1>1, HandlersTyped, CallMoves DEF Typed, Req

LEMMA AccountWindows ==
  ASSUME NEW h \in Slots, Typed, Windows, AccountStep(h)
  PROVE  Windows'
<1>1. MoveOf(h)
  BY AccountKeeps DEF Kept
<1>2. "register:username" \in Labels /\ "register:add" \in Labels
  BY DEF Labels
<1>3. CASE RegisterEmail(h)
  <2>1. Window(h)'
    BY <1>2, <1>3, CallWindow, AnswersPc
       DEF RegisterEmail, Reply, db, rows, Window, Asking,
           UsersWithEmail, UsersNamed
  <2>2. QED
    BY <1>1, <1>3, <2>1, HolderWindows DEF RegisterEmail, Reply
<1>4. CASE RegisterUsername(h)
  <2>1. Window(h)'
    BY <1>2, <1>4, CallWindow, AnswersPc
       DEF RegisterUsername, Reply, db, rows, Windows, Window, Asking,
           UsersWithEmail, UsersNamed
  <2>2. QED
    BY <1>1, <1>4, <2>1, HolderWindows DEF RegisterUsername, Reply
<1>5. CASE RegisterAdd(h) \/ ChangeUsername(h)
  <2>1. pc'[h] = "idle"
    BY <1>5, AnswersPc DEF RegisterAdd, ChangeUsername
  <2>2. Window(h)'
    BY <2>1 DEF Window, Asking
  <2>3. QED
    BY <1>1, <1>5, <2>2, HolderWindows DEF RegisterAdd, ChangeUsername, Reply
<1>6. CASE LoginPassword(h) \/ LoginEmail(h) \/ LoginByEmail(h) \/ LoginByUsername(h)
  <2>1. usrlst' = usrlst
    BY <1>6 DEF LoginPassword, LoginEmail, LoginByEmail, LoginByUsername, db, rows
  <2>2. pc'[h] \notin Asking
    <3>1. CASE LoginPassword(h)
      BY <3>1, AnswersPc, CallPc DEF LoginPassword, Asking
    <3>2. CASE LoginEmail(h)
      BY <3>2, CallPc DEF LoginEmail, Asking
    <3>3. CASE LoginByEmail(h)
      BY <3>3, AnswersPc DEF LoginByEmail, Asking
    <3>4. CASE LoginByUsername(h)
      BY <3>4, AnswersPc DEF LoginByUsername, Asking
    <3>5. QED
      BY <1>6, <3>1, <3>2, <3>3, <3>4
  <2>3. QED
    BY <1>1, <2>1, <2>2, QuietWindows
<1>7. QED
  BY <1>3, <1>4, <1>5, <1>6 DEF AccountStep

LEMMA SchemaWindows ==
  ASSUME NEW h \in Slots, Typed, Windows, SchemaStep(h)
  PROVE  Windows'
<1>1. MoveOf(h)
  BY SchemaKeeps DEF Kept
<1>2. {"create:bob", "create:addBob", "create:joe", "create:addJoe"} \subseteq Labels
  BY DEF Labels
<1>3. ASSUME pc'[h] \in {"idle", "ddl", "orphans", "create:bob", "create:joe"}
      PROVE  Window(h)' /\ pc'[h] \notin Asking
  BY <1>3 DEF Window, Asking
<1>4. CASE CreateUsrlst(h)
  BY <1>1, <1>3, <1>4, CallPc, QuietWindows DEF CreateUsrlst, rows
<1>5. CASE CreateBob(h)
  <2>1. Window(h)'
    BY <1>2, <1>5, CallWindow
       DEF CreateBob, Reply, db, rows, Window, Asking, UsersNamed
  <2>2. QED
    BY <1>1, <1>5, <2>1, HolderWindows DEF CreateBob, Reply
<1>6. CASE CreateAddBob(h)
  <2>1. Window(h)'
    BY <1>3, <1>6, CallPc DEF CreateAddBob
  <2>2. QED
    BY <1>1, <1>6, <2>1, HolderWindows DEF CreateAddBob, Reply
<1>7. CASE CreateJoe(h)
  <2>1. CASE Launch(h, Req(h))
    <3>1. Window(h)'
      BY <1>3, <1>7, <2>1, Busy, LaunchKeeps DEF CreateJoe, Reply
    <3>2. QED
      BY <1>1, <1>7, <3>1, HolderWindows DEF CreateJoe, Reply
  <2>2. CASE /\ UsersNamed("Joe-bot") = {}
             /\ Call(h, "User", "create:addJoe", frame[h], work[h])
    <3>1. Window(h)'
      BY <1>2, <1>7, <2>2, CallWindow
         DEF CreateJoe, Reply, db, rows, Window, Asking, UsersNamed
    <3>2. QED
      BY <1>1, <1>7, <3>1, HolderWindows DEF CreateJoe, Reply
  <2>3. QED
    BY <1>7, <2>1, <2>2 DEF CreateJoe
<1>8. CASE CreateAddJoe(h)
  <2>1. Window(h)'
    BY <1>3, <1>8, Busy, LaunchKeeps DEF CreateAddJoe, Reply
  <2>2. QED
    BY <1>1, <1>8, <2>1, HolderWindows DEF CreateAddJoe, Reply
<1>9. ASSUME NEW m \in Modules, Migrate(h, m)  PROVE Windows'
  BY <1>1, <1>3, <1>9, SettleKeeps, QuietWindows DEF Migrate, Running, rows
<1>10. ASSUME NEW m \in Modules, Rollback(h, m)  PROVE Windows'
  <2>1. Window(h)' /\ pc'[h] \notin Asking
    BY <1>3, <1>10, SettleKeeps DEF Rollback, Running
  <2>2. CASE m = "User"
    BY <1>1, <1>10, <2>1, <2>2, HolderWindows DEF Rollback, Running
  <2>3. CASE m # "User"
    BY <1>1, <1>10, <2>1, <2>3, QuietWindows DEF Rollback
  <2>4. QED
    BY <2>2, <2>3
<1>11. ASSUME NEW m \in Modules, LaunchedError(h, m)  PROVE Windows'
  BY <1>1, <1>3, <1>11, SettleKeeps, QuietWindows
     DEF LaunchedError, Running, db, rows
<1>12. QED
  BY <1>4, <1>5, <1>6, <1>7, <1>8, <1>9, <1>10, <1>11 DEF SchemaStep

LEMMA NextWindows == Typed /\ Windows /\ [Next]_vars => Windows'
<1> SUFFICES ASSUME Typed, Windows, [Next]_vars  PROVE Windows'
  OBVIOUS
<1>1. ASSUME NEW h \in Slots, NEW req \in Requests, Receive(h, req)  PROVE Windows'
  BY <1>1, ReceiveKeeps, ReceiveLeads, QuietWindows DEF Kept, Asking
<1>2. ASSUME NEW h \in Slots, Step(h)  PROVE Windows'
  <2>1. MoveOf(h)
    BY <1>2, StepKeeps DEF Kept
  <2>2. CASE AccountStep(h) \/ SchemaStep(h)
    BY <2>2, AccountWindows, SchemaWindows
  <2>3. CASE ContactStep(h)
    BY <2>1, <2>3, ContactLeads, QuietWindows DEF Asking
  <2>4. CASE ConversationStep(h)
    BY <2>1, <2>4, ConversationLeads, QuietWindows DEF Asking
  <2>5. CASE MessageStep(h)
    BY <2>1, <2>5, MessageLeads, QuietWindows DEF Asking
  <2>6. CASE StatementError(h)
    BY <2>1, <2>6, ErrorLeads, QuietWindows DEF Asking
  <2>7. QED
    BY <1>2, <2>2, <2>3, <2>4, <2>5, <2>6 DEF Step
<1>3. CASE Restart
  BY <1>3 DEF Restart, Windows, Window, Asking
<1>4. CASE UNCHANGED vars
  BY <1>4 DEF vars, db, rows, server, Windows, Window, Asking, Req,
              UsersWithEmail, UsersNamed
<1>5. QED
  BY <1>1, <1>2, <1>3, <1>4 DEF Next

LEMMA InitWindows == Init => Windows
BY DEF Init, Windows, Window, Asking

LEMMA AlwaysWindows == Spec => [](Typed /\ Windows)
BY InitTyped, InitWindows, NextTyped, NextWindows, PTL DEF Spec
-----------------------------------------------------------------------------
\* An account never enters usrlst under a username somebody holds, for any
\* requests, any number of handlers, statement failures and restarts.
THEOREM UsernamesEnterFresh == Spec => UsernameFresh
<1> DEFINE Fresh == \A i \in DOMAIN usrlst' \ DOMAIN usrlst, j \in DOMAIN usrlst :
                      usrlst'[i].username # usrlst[j].username
<1>1. ASSUME Typed, Windows, [Next]_vars  PROVE Fresh
  <2>1. usrlst \in Seq(Account)
    BY <1>1 DEF Typed, RowsTypeOK
  <2>2. ASSUME NEW email, NEW password, NEW username,
               AddUsr(email, password, username), UsersNamed(username) = {}
        PROVE  Fresh
    BY <2>1, <2>2 DEF AddUsr, UsersNamed
  <2>3. CASE usrlst' = usrlst
    BY <2>3
  <2>4. ASSUME NEW h \in Slots, RegisterAdd(h)  PROVE Fresh
    BY <1>1, <2>2, <2>4 DEF RegisterAdd, Reply, Windows, Window
  <2>5. ASSUME NEW h \in Slots, ChangeUsername(h)  PROVE Fresh
    BY <2>5 DEF ChangeUsername
  <2>6. ASSUME NEW h \in Slots, CreateAddBob(h)  PROVE Fresh
    BY <1>1, <2>2, <2>6 DEF CreateAddBob, Reply, Windows, Window
  <2>7. ASSUME NEW h \in Slots, CreateAddJoe(h)  PROVE Fresh
    BY <1>1, <2>2, <2>7 DEF CreateAddJoe, Reply, Windows, Window
  <2>8. CASE usrlst' = << >>
    BY <2>8
  <2>9. QED
    BY <1>1, <2>3, <2>4, <2>5, <2>6, <2>7, <2>8, UsrlstChanges
<1>2. ASSUME Typed, Windows, [Next]_vars  PROVE [Fresh]_vars
  BY <1>1, <1>2
<1>3. QED
  BY <1>2, AlwaysWindows, PTL DEF Spec, UsernameFresh
-----------------------------------------------------------------------------
LEMMA EmptyText ==
  /\ Empty # "Success" /\ Empty # "Email taken" /\ Empty # "Username taken"
BY Zenon DEF Empty

\* What register_user answers at each of its places
LEMMA RegisterTells ==
  ASSUME NEW h \in Slots, Typed, Windows, pc[h] # "idle", NEW req, req = Req(h),
         RegisterEmail(h) \/ RegisterUsername(h) \/ RegisterAdd(h),
         response'.status = 200, response'.req = req
  PROVE  RegisterOutcome'
<1>1. usrlst \in Seq(Account)
  BY DEF Typed, RowsTypeOK
<1>2. \A text : RespondText(h, text) => response'.text = text
  BY AnswerSays DEF RespondText
<1>3. CASE RegisterEmail(h)
  <2>1. /\ response'.text = "Email taken" /\ UsersWithEmail(req.email) # {}
        /\ usrlst' = usrlst
    <3>1. ~Call(h, "User", "register:username", frame[h], work[h])
      BY CallTells
    <3>2. QED
      BY <1>2, <1>3, <3>1 DEF RegisterEmail, db, rows
  <2>2. UsersWithEmail(req.email)' = UsersWithEmail(req.email)
    BY <2>1 DEF UsersWithEmail
  <2>3. QED
    BY <2>1, <2>2 DEF RegisterOutcome
<1>4. CASE RegisterUsername(h)
  <2>1. /\ response'.text = "Username taken" /\ UsersWithEmail(req.email) = {}
        /\ UsersNamed(req.username) # {} /\ usrlst' = usrlst
    <3>1. ~Call(h, "User", "register:add", frame[h], work[h])
      BY CallTells
    <3>2. QED
      <4>1. pc[h] = "register:username"
        BY <1>4 DEF RegisterUsername, Reply
      <4>2. UsersWithEmail(req.email) = {}
        BY <4>1 DEF Windows, Window
      <4>3. RespondText(h, "Username taken") /\ UsersNamed(Req(h).username) # {}
            /\ usrlst' = usrlst
        BY <1>4, <3>1 DEF RegisterUsername, db, rows
      <4>4. QED
        BY <1>2, <4>2, <4>3
  <2>2. /\ UsersWithEmail(req.email)' = UsersWithEmail(req.email)
        /\ UsersNamed(req.username)' = UsersNamed(req.username)
    BY <2>1 DEF UsersWithEmail, UsersNamed
  <2>3. QED
    BY <2>1, <2>2 DEF RegisterOutcome
<1>5. CASE RegisterAdd(h)
  <2>1. /\ response'.text = "Success" /\ UsersWithEmail(req.email) = {}
        /\ usrlst' = Append(usrlst, [email |-> req.email, password |-> req.password,
                                     username |-> req.username])
    <3>1. pc[h] = "register:add"
      BY <1>5 DEF RegisterAdd, Reply
    <3>2. UsersWithEmail(req.email) = {}
      BY <3>1 DEF Windows, Window
    <3>3. /\ RespondText(h, "Success")
          /\ usrlst' = Append(usrlst, [email |-> req.email, password |-> req.password,
                                       username |-> req.username])
      BY <1>5 DEF RegisterAdd, AddUsr
    <3>4. QED
      BY <1>2, <3>2, <3>3
  <2>2. PICK i : /\ i = Len(usrlst) + 1
                 /\ UsersWithEmail(req.email)' = {i}
                 /\ usrlst'[i].username = req.username
                 /\ usrlst'[i].password = req.password
    <3>1. /\ DOMAIN usrlst = 1 .. Len(usrlst) /\ Len(usrlst) \in Nat
          /\ DOMAIN usrlst' = 1 .. Len(usrlst) + 1
          /\ \A k \in 1 .. Len(usrlst) : usrlst'[k] = usrlst[k]
          /\ usrlst'[Len(usrlst) + 1] = [email |-> req.email,
                password |-> req.password, username |-> req.username]
      BY <1>1, <2>1
    <3>2. \A k \in 1 .. Len(usrlst) : usrlst[k].email # req.email
      BY <2>1, <3>1 DEF UsersWithEmail
    <3>3. {k \in DOMAIN usrlst' : usrlst'[k].email = req.email} = {Len(usrlst) + 1}
      BY <3>1, <3>2
    <3>4. UsersWithEmail(req.email)' = {Len(usrlst) + 1}
      BY <3>3 DEF UsersWithEmail
    <3>5. QED
      BY <3>1, <3>4
  <2>3. QED
    BY <2>1, <2>2 DEF RegisterOutcome
<1>6. QED
  BY <1>3, <1>4, <1>5

LEMMA NextRegisters ==
  ASSUME Typed, Windows, RegisterOutcome, [Next]_vars
  PROVE  RegisterOutcome'
<1>1. CASE UNCHANGED vars
  BY <1>1 DEF vars, db, rows, server, RegisterOutcome, UsersWithEmail, UsersNamed
<1>2. CASE Next /\ response'.status # 200
  <2>1. response'.text = Empty
    BY <1>2, NextTells
  <2>2. QED
    BY <2>1, EmptyText DEF RegisterOutcome
<1>3. CASE Next /\ response'.status = 200 /\ response'.req.op = "register"
  <2>1. PICK h \in Slots : /\ Step(h) /\ ~StatementError(h)
                           /\ pc[h] # "idle" /\ response'.req = Req(h)
    BY <1>3, NextTells
  <2>2. pc[h] \in {"register:email", "register:username", "register:add"}
    BY <1>3, <2>1, Waiting
  <2>3. AccountStep(h)
    BY <2>1, <2>2, StepsStart DEF Step
  <2>4. RegisterEmail(h) \/ RegisterUsername(h) \/ RegisterAdd(h)
    BY <2>2, <2>3 DEF AccountStep, LoginPassword, LoginEmail, LoginByEmail,
                      LoginByUsername, ChangeUsername, Reply
  <2>5. QED
    BY <1>3, <2>1, <2>4, RegisterTells
<1>4. CASE response'.req.op # "register"
  BY <1>4 DEF RegisterOutcome
<1>5. QED
  BY <1>1, <1>2, <1>3, <1>4

\* What /register answers is true when it is sent, for any requests, any
\* number of handlers, statement failures, restarts and drops of the tables.
THEOREM RegistrationsAreTold == Spec => []RegisterOutcome
<1>1. Init => RegisterOutcome
  <2>1. Init => response.req.op = "none"
    BY DEF Init, Silent, NoRequest
  <2>2. QED
    BY <2>1 DEF RegisterOutcome
<1>2. QED
  BY <1>1, NextRegisters, AlwaysWindows, PTL DEF Spec
-----------------------------------------------------------------------------
\* The requests of the theorem below: nobody registers as a bot or renames
\* one.  The rows the server starts with obey the same.
Ordinary ==
  /\ \A req \in Requests :
       req.op \in {"register", "changeUsername"} => req.email \notin {"bob", "joe"}
  /\ \A i, j \in DOMAIN InitUsers : InitUsers[i].email = InitUsers[j].email => i = j
  /\ \A i \in DOMAIN InitUsers :
       /\ InitUsers[i].email = "bob" => InitUsers[i].username = "Bob-bot"
       /\ InitUsers[i].email = "joe" => InitUsers[i].username = "Joe-bot"

\* usrlst after add_usr
LEMMA AddedUsr ==
  ASSUME usrlst \in Seq(Account), NEW email, NEW password, NEW username,
         AddUsr(email, password, username)
  PROVE  /\ Len(usrlst) \in Nat /\ DOMAIN usrlst = 1 .. Len(usrlst)
         /\ DOMAIN usrlst' = 1 .. Len(usrlst) + 1
         /\ \A i \in 1 .. Len(usrlst) : usrlst'[i] = usrlst[i]
         /\ usrlst'[Len(usrlst) + 1].email = email
         /\ usrlst'[Len(usrlst) + 1].username = username
BY DEF AddUsr

LEMMA FreshEmail ==
  ASSUME usrlst \in Seq(Account), EmailUnique, NEW email, NEW password, NEW username,
         UsersWithEmail(email) = {}, AddUsr(email, password, username)
  PROVE  EmailUnique'
<1>1. /\ Len(usrlst) \in Nat /\ DOMAIN usrlst = 1 .. Len(usrlst)
      /\ DOMAIN usrlst' = 1 .. Len(usrlst) + 1
      /\ \A i \in 1 .. Len(usrlst) : usrlst'[i] = usrlst[i]
      /\ usrlst'[Len(usrlst) + 1].email = email
  BY AddedUsr
<1>2. \A i \in DOMAIN usrlst : usrlst[i].email # email
  BY DEF UsersWithEmail
<1>3. QED
  BY <1>1, <1>2 DEF EmailUnique

LEMMA FreshBotNames ==
  ASSUME usrlst \in Seq(Account), BotNames, NEW email, NEW password, NEW username,
         email = "bob" => username = "Bob-bot", email = "joe" => username = "Joe-bot",
         AddUsr(email, password, username)
  PROVE  BotNames'
<1>1. /\ Len(usrlst) \in Nat /\ DOMAIN usrlst = 1 .. Len(usrlst)
      /\ DOMAIN usrlst' = 1 .. Len(usrlst) + 1
      /\ \A i \in 1 .. Len(usrlst) : usrlst'[i] = usrlst[i]
      /\ usrlst'[Len(usrlst) + 1] = [email |-> email, password |-> password,
                                     username |-> username]
  BY DEF AddUsr
<1>2. QED
  BY <1>1 DEF BotNames

LEMMA NextEmails ==
  Ordinary /\ Typed /\ Windows /\ EmailUnique /\ BotNames /\ [Next]_vars
    => EmailUnique' /\ BotNames'
<1> SUFFICES ASSUME Ordinary, Typed, Windows, EmailUnique, BotNames, [Next]_vars
             PROVE  EmailUnique' /\ BotNames'
  OBVIOUS
<1>1. usrlst \in Seq(Account)
  BY DEF Typed, RowsTypeOK
<1>2. CASE usrlst' = usrlst
  BY <1>2 DEF EmailUnique, BotNames
<1>3. ASSUME NEW h \in Slots, RegisterAdd(h)  PROVE EmailUnique' /\ BotNames'
  <2>1. /\ UsersWithEmail(Req(h).email) = {}
        /\ AddUsr(Req(h).email, Req(h).password, Req(h).username)
    BY <1>3 DEF RegisterAdd, Reply, Windows, Window
  <2>2. Req(h).email \notin {"bob", "joe"}
    BY <1>3, Busy DEF RegisterAdd, Reply, Fits, Ordinary
  <2>3. QED
    BY <1>1, <2>1, <2>2, FreshEmail, FreshBotNames
<1>4. ASSUME NEW h \in Slots, ChangeUsername(h)  PROVE EmailUnique' /\ BotNames'
  <2>1. Req(h).email \notin {"bob", "joe"}
    BY <1>4, Busy DEF ChangeUsername, Reply, Fits, Ordinary
  <2>2. DOMAIN usrlst' = DOMAIN usrlst
    BY <1>4 DEF ChangeUsername
  <2>3. ASSUME NEW i \in DOMAIN usrlst
        PROVE  /\ usrlst'[i].email = usrlst[i].email
               /\ usrlst[i].email \in {"bob", "joe"} => usrlst'[i] = usrlst[i]
    <3>1. usrlst[i] \in Account
      BY <1>1, RowOf
    <3>2. QED
      BY <1>4, <2>1, <3>1 DEF ChangeUsername, Account
  <2>4. QED
    BY <2>2, <2>3 DEF EmailUnique, BotNames
<1>5. ASSUME NEW h \in Slots, CreateAddBob(h)  PROVE EmailUnique' /\ BotNames'
  <2>1. UsersNamed("Bob-bot") = {} /\ AddUsr("bob", "Bob Bot", "Bob-bot")
    BY <1>5 DEF CreateAddBob, Reply, Windows, Window
  <2>2. UsersWithEmail("bob") = {}
    BY <2>1 DEF BotNames, UsersWithEmail, UsersNamed
  <2>3. QED
    BY <1>1, <2>1, <2>2, FreshEmail, FreshBotNames
<1>6. ASSUME NEW h \in Slots, CreateAddJoe(h)  PROVE EmailUnique' /\ BotNames'
  <2>1. UsersNamed("Joe-bot") = {} /\ AddUsr("joe", "Joe Bot", "Joe-bot")
    BY <1>6 DEF CreateAddJoe, Reply, Windows, Window
  <2>2. UsersWithEmail("joe") = {}
    BY <2>1 DEF BotNames, UsersWithEmail, UsersNamed
  <2>3. QED
    BY <1>1, <2>1, <2>2, FreshEmail, FreshBotNames
<1>7. CASE usrlst' = << >>
  BY <1>7 DEF EmailUnique, BotNames
<1>8. QED
  BY <1>2, <1>3, <1>4, <1>5, <1>6, <1>7, UsrlstChanges

\* No two accounts share an email, with any number of handlers, statement
\* failures and restarts, as long as nobody renames a bot or registers under
\* a bot's email.
THEOREM EmailsAreUnique == Ordinary => (Spec => []EmailUnique)
<1> SUFFICES ASSUME Ordinary  PROVE Spec => []EmailUnique
  OBVIOUS
<1>1. Init => EmailUnique /\ BotNames
  BY DEF Ordinary, Init, EmailUnique, BotNames
<1>2. Typed /\ Windows /\ EmailUnique /\ BotNames /\ [Next]_vars
        => EmailUnique' /\ BotNames'
  BY NextEmails
<1>3. QED
  BY <1>1, <1>2, AlwaysWindows, PTL DEF Spec
-----------------------------------------------------------------------------
(***************************************************************************)
(* What the answers to /create and /close say, that usrlst goes last, and  *)
(* that the bots come first                                                *)
(***************************************************************************)
\* Where a handler stands after one of its launched statements is over
LEMMA SettleSays ==
  ASSUME NEW h \in Slots, Typed, pc[h] \in {"ddl", "orphans"},
         NEW left, NEW fail, Settle(h, left, fail)
  PROVE  /\ pc'[h] \in {"idle", "ddl", "orphans"} /\ calls'[h] = left
         /\ pc'[h] = "idle" <=> left = {}
         /\ pc'[h] = "ddl" => pc[h] = "ddl"
         /\ pc'[h] # "idle" => failed'[h] = fail /\ Req(h)' = Req(h)
         /\ response'.status = 200 =>
              pc[h] = "ddl" /\ left = {} /\ fail = {} /\ response'.req = Req(h)
<1>1. /\ pc'[h] \in {"idle", "ddl", "orphans"}
      /\ pc'[h] = "idle" <=> left = {}
      /\ pc'[h] = "ddl" => pc[h] = "ddl"
  BY DEF Settle, Typed, HandlersTypeOK
<1>2. calls'[h] = left
  BY DEF Settle, Typed, HandlersTypeOK
<1>3. left # {} => failed'[h] = fail /\ frame'[h] = frame[h]
  BY DEF Settle, Typed, HandlersTypeOK
<1>4. response'.status = 200 =>
        pc[h] = "ddl" /\ left = {} /\ fail = {} /\ response'.req = Req(h)
  BY DEF Settle, Silent
<1>5. QED
  BY <1>1, <1>2, <1>3, <1>4 DEF Req

LEMMA Chains ==
  /\ \A op : {Chain(op)[k] : k \in DOMAIN Chain(op)} \subseteq Modules
  /\ {Chain("close")[k] : k \in DOMAIN Chain("close")} = Modules
  /\ {Chain("create")[k] : k \in DOMAIN Chain("create")} = Modules \ {"User"}
  /\ \A op : DOMAIN Chain(op) = 1 .. Len(Chain(op)) /\ Len(Chain(op)) \in Nat
  /\ Len(Chain("close")) = 5
  /\ \A k \in DOMAIN Chain("close") : Chain("close")[k] = "User" => k = 1
<1>1. /\ DOMAIN Chain("close") = 1 .. 5 /\ Len(Chain("close")) = 5
      /\ Chain("close")[1] = "User" /\ Chain("close")[2] = "Storage"
      /\ Chain("close")[3] = "Contacts" /\ Chain("close")[4] = "Conversations"
      /\ Chain("close")[5] = "UserConversation"
  BY DEF Chain
<1>2. ASSUME NEW op, op # "create"  PROVE Chain(op) = Chain("close")
  BY <1>2 DEF Chain
<1>3. /\ DOMAIN Chain("create") = 1 .. 4 /\ Len(Chain("create")) = 4
      /\ Chain("create")[1] = "Storage" /\ Chain("create")[2] = "Contacts"
      /\ Chain("create")[3] = "Conversations"
      /\ Chain("create")[4] = "UserConversation"
  BY DEF Chain
<1>4. {Chain("close")[k] : k \in DOMAIN Chain("close")} = Modules
  BY <1>1 DEF Modules
<1>5. {Chain("create")[k] : k \in DOMAIN Chain("create")} = Modules \ {"User"}
  BY <1>3 DEF Modules
<1>6. QED
  BY <1>1, <1>2, <1>3, <1>4, <1>5

\* Where a handler stands after it has launched its statements
LEMMA LaunchSays ==
  ASSUME NEW h \in Slots, Typed, NEW req, Launch(h, req)
  PROVE  /\ pc'[h] \in {"idle", "ddl", "orphans"}
         /\ pc'[h] = "idle" <=> calls'[h] = {}
         /\ calls'[h] = Launched(h, req.op) /\ failed'[h] = failed[h]
         /\ pc'[h] = "ddl" =>
              calls'[h] = {Chain(req.op)[k] : k \in DOMAIN Chain(req.op)}
         /\ pc'[h] # "idle" => Req(h)' = req
<1>1. {Chain(req.op)[k] : k \in DOMAIN Chain(req.op)} # {}
  BY DEF Chain
<1>2. /\ pc'[h] \in {"idle", "ddl", "orphans"}
      /\ calls'[h] = Launched(h, req.op) /\ failed'[h] = failed[h]
  BY DEF Launch, Typed, HandlersTypeOK
<1>3. /\ pc'[h] = "idle" <=> Launched(h, req.op) = {}
      /\ pc'[h] = "ddl" =>
           Launched(h, req.op) = {Chain(req.op)[k] : k \in DOMAIN Chain(req.op)}
  BY <1>1 DEF Launch, Typed, HandlersTypeOK
<1>4. Launched(h, req.op) # {} => frame'[h].req = req
  BY DEF Launch, Typed, HandlersTypeOK, NoFrame
<1>5. QED
  BY <1>2, <1>3, <1>4 DEF Req

\* The launched statement of the module m is over, and those of fail have failed.
Over(h, m, fail) ==
  /\ m \in calls[h] /\ Settle(h, calls[h] \ {m}, fail)
  /\ \/ Migrate(h, m) /\ fail = failed[h] /\ tables' = tables \cup {m}
     \/ Rollback(h, m) /\ fail = failed[h] /\ tables' = tables \ {m}
     \/ LaunchedError(h, m) /\ fail = failed[h] \cup {m} /\ UNCHANGED db

LEMMA DdlMoves ==
  ASSUME NEW h \in Slots, Typed, pc[h] \in {"ddl", "orphans"}, SchemaStep(h)
  PROVE  \E m \in Modules : \E fail : Over(h, m, fail)
<1>1. PICK m \in Modules : Migrate(h, m) \/ Rollback(h, m) \/ LaunchedError(h, m)
  BY DEF SchemaStep, CreateUsrlst, CreateBob, CreateAddBob, CreateJoe, CreateAddJoe,
         Reply
<1>2. m \in calls[h]
  BY <1>1 DEF Migrate, Rollback, LaunchedError, Running
<1>3. CASE Migrate(h, m)
  BY <1>2, <1>3 DEF Migrate, Over
<1>4. CASE Rollback(h, m)
  BY <1>2, <1>4 DEF Rollback, Over
<1>5. CASE LaunchedError(h, m)
  BY <1>2, <1>5 DEF LaunchedError, Over
<1>6. QED
  BY <1>1, <1>3, <1>4, <1>5

\* Who answers a /create or a /close with OK: the handler whose last
\* statement is over, none having failed.
LEMMA DdlAnswers ==
  ASSUME Typed, Next, response'.status = 200, response'.req.op \in {"create", "close"}
  PROVE  \E h \in Slots, m \in Modules :
           /\ pc[h] = "ddl" /\ response'.req = Req(h)
           /\ calls[h] = {m} /\ failed[h] = {}
           /\ \/ Req(h).op = "create" /\ tables' = tables \cup {m}
              \/ Req(h).op = "close" /\ tables' = tables \ {m}
           /\ Step(h)
<1>1. PICK h \in Slots : Step(h) /\ ~StatementError(h) /\ pc[h] # "idle"
                         /\ response'.req = Req(h)
  BY NextTells
<1>2. pc[h] \in {"ddl", "orphans", "create:table", "create:bob", "create:addBob",
                 "create:joe", "create:addJoe"}
  BY <1>1, Waiting
<1>3. SchemaStep(h)
  BY <1>1, <1>2, StepsStart DEF Step
<1>4. pc[h] = "ddl"
  BY <1>3, SchemaTells
<1>5. PICK m \in Modules : \E fail : Over(h, m, fail)
  BY <1>3, <1>4, DdlMoves
<1>10. PICK fail : Over(h, m, fail)
  BY <1>5
<1>6. calls[h] \ {m} = {} /\ fail = {}
  BY <1>1, <1>4, <1>10, SettleSays DEF Over
<1>7. Migrate(h, m) => Req(h).op = "create"
  BY DEF Migrate, Running
<1>8. Rollback(h, m) => Req(h).op = "close"
  BY DEF Rollback, Running
<1>9. QED
  BY <1>1, <1>4, <1>10, <1>6, <1>7, <1>8 DEF Over
-----------------------------------------------------------------------------
(***************************************************************************)
(* What a /close has left when it answers OK.                              *)
(***************************************************************************)
\* Nobody asks for /create.
Waning == \A req \in Requests : req.op # "create"

\* A /close that has launched all its statements accounts for every table.
CloseWindow(h) ==
  pc[h] = "ddl" /\ Req(h).op = "close" => tables \subseteq calls[h] \cup failed[h]

CloseInv == \A h \in Slots : CloseWindow(h)

LEMMA TablesShrink ==
  ASSUME Waning, Typed, [Next]_vars
  PROVE  tables' \subseteq tables
<1>1. ASSUME NEW h \in Slots, SchemaStep(h)  PROVE tables' \subseteq tables
  <2>1. pc[h] # "idle" /\ Req(h).op # "create" /\ Fits(pc[h], Req(h))
    BY <1>1, StepsStart, Busy DEF Waning
  <2>2. pc[h] \in {"ddl", "orphans"}
    BY <1>1, <2>1, StepsStart DEF Fits
  <2>3. QED
    BY <1>1, <2>1, <2>2, DdlMoves DEF Over, Migrate, Running, db
<1>2. ASSUME NEW h \in Slots, Step(h)  PROVE tables' \subseteq tables
  BY <1>1, <1>2, AccountLeads, ContactLeads, ConversationLeads, MessageLeads,
     ErrorLeads DEF Step
<1>3. QED
  BY <1>2, ReceiveLeads DEF Next, Restart, vars, db

LEMMA NextCloses ==
  Waning /\ Typed /\ CloseInv /\ [Next]_vars => CloseInv'
<1> SUFFICES ASSUME Waning, Typed, CloseInv, [Next]_vars  PROVE CloseInv'
  OBVIOUS
<1>1. tables' \subseteq tables
  BY TablesShrink
<1>2. ASSUME NEW h \in Slots, MoveOf(h), CloseWindow(h)'  PROVE CloseInv'
  BY <1>1, <1>2 DEF CloseInv, CloseWindow, MoveOf, Req
<1>3. ASSUME NEW h \in Slots, NEW req \in Requests, Receive(h, req)  PROVE CloseInv'
  <2>1. MoveOf(h)
    BY <1>3, ReceiveKeeps DEF Kept
  <2>2. CASE req.op = "close"
    <3>1. Launch(h, req)
      BY <1>3, <2>2 DEF Receive
    <3>2. pc'[h] = "ddl" => calls'[h] = Modules
      <4>1. pc'[h] = "ddl" =>
              calls'[h] = {Chain(req.op)[k] : k \in DOMAIN Chain(req.op)}
        BY <3>1, LaunchSays
      <4>2. Chain(req.op) = Chain("close")
        BY <2>2
      <4>3. QED
        BY <4>1, <4>2, Chains
    <3>3. tables' \subseteq Modules
      BY <1>1 DEF Typed, RowsTypeOK
    <3>4. QED
      BY <1>2, <2>1, <3>2, <3>3 DEF CloseWindow
  <2>3. CASE req.op # "close"
    <3>1. pc'[h] # "ddl"
      <4>1. req.op \in DOMAIN FirstCall
        BY <2>3, RequestsAreTyped DEF RequestAssumption
      <4>2. FirstCall[req.op][2] # "ddl"
        BY <4>1 DEF FirstCall
      <4>3. QED
        BY <1>3, <2>3, <4>2, CallPc DEF Receive
    <3>2. QED
      BY <1>2, <2>1, <3>1 DEF CloseWindow
  <2>4. QED
    BY <2>2, <2>3
<1>4. ASSUME NEW h \in Slots, Step(h)  PROVE CloseInv'
  <2>1. MoveOf(h)
    BY <1>4, StepKeeps DEF Kept
  <2>2. CASE SchemaStep(h) /\ pc[h] \in {"ddl", "orphans"}
    <3>0. PICK m \in Modules : \E fail : Over(h, m, fail)
      BY <2>2, DdlMoves
    <3>1. PICK fail : Over(h, m, fail)
      BY <3>0
    <3>2. pc'[h] = "ddl" => /\ pc[h] = "ddl" /\ calls'[h] = calls[h] \ {m}
                            /\ failed'[h] = fail /\ Req(h)' = Req(h)
      BY <2>2, <3>1, SettleSays DEF Over
    <3>3. ~Migrate(h, m)
      BY <2>2, Busy DEF Waning, Migrate, Running
    <3>4. CloseWindow(h)'
      BY <3>1, <3>2, <3>3 DEF CloseInv, CloseWindow, Over, db
    <3>5. QED
      BY <1>2, <2>1, <3>4
  <2>3. CASE ~(SchemaStep(h) /\ pc[h] \in {"ddl", "orphans"})
    <3>1. SchemaStep(h) => FALSE
      BY <2>3, StepsStart, Busy DEF Waning, Fits
    <3>2. pc'[h] # "ddl"
      BY <1>4, <3>1, AccountLeads, ContactLeads, ConversationLeads, MessageLeads,
         ErrorLeads DEF Step
    <3>3. QED
      BY <1>2, <2>1, <3>2 DEF CloseWindow
  <2>4. QED
    BY <2>2, <2>3
<1>5. CASE Restart
  BY <1>5 DEF Restart, CloseInv, CloseWindow
<1>6. CASE UNCHANGED vars
  BY <1>6 DEF vars, db, server, CloseInv, CloseWindow, Req
<1>7. QED
  BY <1>3, <1>4, <1>5, <1>6 DEF Next

\* When /close answers OK no table is left, whatever the other handlers do
\* meanwhile, with any statement failures and restarts, as long as nobody
\* creates the tables anew.
THEOREM ClosesAreTold == Waning => (Spec => []CloseOutcome)
<1> SUFFICES ASSUME Waning  PROVE Spec => []CloseOutcome
  OBVIOUS
<1>1. Init => CloseInv /\ CloseOutcome
  BY DEF Init, CloseInv, CloseWindow, CloseOutcome, Silent
<1>2. Typed /\ CloseInv /\ [Next]_vars => CloseInv'
  BY NextCloses
<1>3. Typed /\ CloseInv /\ CloseOutcome /\ [Next]_vars => CloseOutcome'
  <2> SUFFICES ASSUME Typed, CloseInv, CloseOutcome, [Next]_vars  PROVE CloseOutcome'
    OBVIOUS
  <2>1. CASE UNCHANGED vars
    BY <2>1 DEF vars, db, server, CloseOutcome
  <2>2. ASSUME Next, response'.req.op = "close", response'.status = 200
        PROVE  tables' = {}
    <3>1. PICK h \in Slots, m \in Modules :
            /\ pc[h] = "ddl" /\ response'.req = Req(h)
            /\ calls[h] = {m} /\ failed[h] = {}
            /\ \/ Req(h).op = "create" /\ tables' = tables \cup {m}
               \/ Req(h).op = "close" /\ tables' = tables \ {m}
      BY <2>2, DdlAnswers
    <3>2. tables \subseteq {m} /\ tables' = tables \ {m}
      BY <2>2, <3>1 DEF CloseInv, CloseWindow
    <3>3. QED
      BY <3>2
  <2>3. QED
    BY <2>1, <2>2 DEF CloseOutcome
<1>4. QED
  BY <1>1, <1>2, <1>3, AlwaysTyped, PTL DEF Spec
-----------------------------------------------------------------------------
(***************************************************************************)
(* usrlst is dropped last or not at all.                                   *)
(***************************************************************************)
\* No statement fails for a reason of the database's own, the process is not
\* killed, and earlier runs of the server left usrlst or nothing.
Undisturbed ==
  ~Faults /\ ~Restarts /\ ("User" \in InitTables \/ InitTables = {})

Launching(h, op) == pc[h] \in {"ddl", "orphans"} /\ Req(h).op = op

Seeding == {"create:bob", "create:addBob", "create:joe", "create:addJoe"}

\* The two bots are inserted, and the other tables created, only where usrlst
\* exists.  A /close that has launched the statement that drops usrlst has
\* launched all five, on connections that nobody else was using: until that
\* statement is over every table is its own to drop.
OrphanWindow(h) ==
  /\ pc[h] \in {"ddl", "orphans"} => calls[h] # {}
  /\ pc[h] \in Seeding => "User" \in calls[h] /\ "User" \in tables
  /\ Launching(h, "create") => "User" \in tables
  /\ Launching(h, "close") /\ "User" \in calls[h] =>
       /\ tables \subseteq calls[h]
       /\ \A g \in Slots : ~Launching(g, "create")

\* Without usrlst, what tables are left some /close is about to drop.
OrphanInv ==
  /\ \A h \in Slots : OrphanWindow(h)
  /\ "User" \notin tables =>
       \A m \in tables : \E h \in Slots : Launching(h, "close") /\ m \in calls[h]

\* A step that neither launches statements nor ends one
LEMMA OrphanQuiet ==
  ASSUME NEW h \in Slots, Typed, OrphanInv, MoveOf(h),
         tables' = tables \/ tables' = tables \cup {"User"},
         pc[h] \notin {"ddl", "orphans"}, pc'[h] \notin {"ddl", "orphans"},
         pc'[h] \in Seeding => "User" \in calls'[h] /\ "User" \in tables'
  PROVE  OrphanInv'
<1>1. \A g \in Slots \ {h} : /\ pc'[g] = pc[g] /\ calls'[g] = calls[g]
                             /\ \A op : Launching(g, op)' <=> Launching(g, op)
  BY DEF MoveOf, Launching, Req
<1>2. \A op : ~Launching(h, op) /\ ~Launching(h, op)'
  BY DEF Launching
<1>3. ASSUME NEW g \in Slots  PROVE OrphanWindow(g)'
  <2>1. CASE g = h
    BY <1>2, <2>1 DEF OrphanWindow
  <2>2. CASE g # h
    BY <1>1, <1>2, <2>2 DEF OrphanInv, OrphanWindow
  <2>3. QED
    BY <2>1, <2>2
<1>4. ASSUME "User" \notin tables', NEW m \in tables'
      PROVE  \E g \in Slots : Launching(g, "close")' /\ m \in calls'[g]
  <2>1. PICK g \in Slots : Launching(g, "close") /\ m \in calls[g]
    BY <1>4 DEF OrphanInv
  <2>2. QED
    BY <1>1, <1>2, <2>1
<1>5. QED
  BY <1>3, <1>4 DEF OrphanInv

\* A /close that reaches the statement that drops usrlst found every
\* connection free.
LEMMA WholeLaunch ==
  ASSUME NEW h \in Slots, Typed, "User" \in Launched(h, "close")
  PROVE  Launched(h, "close") = Modules /\ \A g \in Slots \ {h} : calls[g] = {}
<1>1. PICK k \in DOMAIN Chain("close") :
        /\ Chain("close")[k] = "User"
        /\ \A l \in k .. Len(Chain("close")) : Available(h, Chain("close")[l])
  BY Chains DEF Launched
<1>2. \A l \in DOMAIN Chain("close") : Available(h, Chain("close")[l])
  BY <1>1, Chains
<1>3. \A m \in Modules : Available(h, m)
  BY <1>2, Chains
<1>4. \A g \in Slots \ {h} : calls[g] = {}
  BY <1>3 DEF Available, Typed, HandlersTypeOK
<1>5. Launched(h, "close") = Modules
  <2>1. \A n \in DOMAIN Chain("close") : \A l \in n .. Len(Chain("close")) :
          l \in DOMAIN Chain("close")
    BY Chains
  <2>2. Launched(h, "close") = {Chain("close")[n] : n \in DOMAIN Chain("close")}
    BY <1>2, <2>1 DEF Launched
  <2>3. QED
    BY <2>2, Chains
<1>6. QED
  BY <1>4, <1>5
\* A step that launches statements
LEMMA OrphanLaunch ==
  ASSUME NEW h \in Slots, Typed, OrphanInv, MoveOf(h), tables' = tables,
         pc[h] \notin {"ddl", "orphans"}, NEW req, Launch(h, req),
         req.op \in {"create", "close"},
         req.op = "create" => "User" \in calls[h] /\ "User" \in tables
  PROVE  OrphanInv'
<1>1. /\ pc'[h] \in {"idle", "ddl", "orphans"}
      /\ pc'[h] = "idle" <=> calls'[h] = {}
      /\ calls'[h] = Launched(h, req.op)
      /\ pc'[h] # "idle" => Req(h)' = req
  BY LaunchSays
<1>2. CASE pc'[h] = "idle"
  BY <1>2, OrphanQuiet DEF Seeding
<1>3. CASE pc'[h] # "idle"
  <2>1. /\ Req(h)' = req /\ calls'[h] # {} /\ pc'[h] \in {"ddl", "orphans"}
    BY <1>1, <1>3
  <2>2. \A g \in Slots \ {h} : /\ pc'[g] = pc[g] /\ calls'[g] = calls[g]
                               /\ calls'[h] \cap calls[g] = {}
                               /\ \A op : Launching(g, op)' <=> Launching(g, op)
    BY DEF MoveOf, Launching, Req
  <2>3. \A op : ~Launching(h, op) /\ (Launching(h, op)' <=> op = req.op)
    BY <2>1 DEF Launching
  <2>4. CASE req.op = "create"
    <3>1. "User" \in tables' /\ "User" \in calls[h]
      BY <2>4
    <3>2. \A g \in Slots \ {h} : "User" \notin calls[g]
      BY <3>1 DEF Typed, Exclusive
    <3>3. ASSUME NEW g \in Slots  PROVE OrphanWindow(g)'
      <4>1. CASE g = h
        BY <2>1, <2>3, <2>4, <3>1, <4>1 DEF OrphanWindow, Seeding
      <4>2. CASE g # h
        BY <2>2, <3>1, <3>2, <4>2 DEF OrphanInv, OrphanWindow
      <4>3. QED
        BY <4>1, <4>2
    <3>4. QED
      BY <3>1, <3>3 DEF OrphanInv
  <2>5. CASE req.op = "close"
    <3>1. ASSUME "User" \in calls'[h]
          PROVE  tables' \subseteq calls'[h] /\ \A g \in Slots : ~Launching(g, "create")'
      <4>1. calls'[h] = Modules /\ \A g \in Slots \ {h} : calls[g] = {}
        BY <1>1, <2>5, <3>1, WholeLaunch
      <4>2. tables' \subseteq Modules
        BY DEF Typed, RowsTypeOK
      <4>3. \A g \in Slots \ {h} : ~Launching(g, "create")
        BY <4>1 DEF OrphanInv, OrphanWindow, Launching
      <4>4. QED
        BY <2>2, <2>3, <2>5, <4>1, <4>2, <4>3
    <3>2. ASSUME NEW g \in Slots  PROVE OrphanWindow(g)'
      <4>1. CASE g = h
        BY <2>1, <2>3, <2>5, <3>1, <4>1 DEF OrphanWindow, Seeding
      <4>2. CASE g # h
        BY <2>2, <2>3, <2>5, <4>2 DEF OrphanInv, OrphanWindow
      <4>3. QED
        BY <4>1, <4>2
    <3>3. ASSUME "User" \notin tables', NEW m \in tables'
          PROVE  \E g \in Slots : Launching(g, "close")' /\ m \in calls'[g]
      <4>1. PICK g \in Slots : Launching(g, "close") /\ m \in calls[g]
        BY <3>3 DEF OrphanInv
      <4>2. QED
        BY <2>2, <2>3, <4>1
    <3>4. QED
      BY <3>2, <3>3 DEF OrphanInv
  <2>6. QED
    BY <2>4, <2>5
<1>4. QED
  BY <1>2, <1>3

\* A step that ends a launched statement
LEMMA OrphanSettle ==
  ASSUME NEW h \in Slots, ~Faults, Typed, OrphanInv, MoveOf(h),
         pc[h] \in {"ddl", "orphans"}, NEW m \in Modules, NEW fail, Over(h, m, fail)
  PROVE  OrphanInv'
<1>1. /\ pc'[h] \in {"idle", "ddl", "orphans"} /\ calls'[h] = calls[h] \ {m}
      /\ pc'[h] = "idle" <=> calls'[h] = {}
      /\ pc'[h] # "idle" => Req(h)' = Req(h)
  BY SettleSays DEF Over
<1>2. \A g \in Slots \ {h} : /\ pc'[g] = pc[g] /\ calls'[g] = calls[g]
                             /\ calls[h] \cap calls[g] = {}
                             /\ \A op : Launching(g, op)' <=> Launching(g, op)
  BY DEF MoveOf, Launching, Req, Typed, Exclusive
<1>3. /\ m \in calls[h]
      /\ \A op : Launching(h, op)' => Launching(h, op)
      /\ Launching(h, Req(h).op)
      /\ calls'[h] # {} => \A op : Launching(h, op) => Launching(h, op)'
  BY <1>1 DEF Launching, Over
<1>4. CASE Launching(h, "create")
  <2>1. "User" \in tables
    BY <1>4 DEF OrphanInv, OrphanWindow
  <2>2. tables \subseteq tables'
    BY <1>4 DEF Over, Migrate, Rollback, LaunchedError, Running, Launching, db
  <2>3. \A g \in Slots : Launching(g, "close") => "User" \notin calls[g]
    BY <1>4 DEF OrphanInv, OrphanWindow
  <2>4. ASSUME NEW g \in Slots  PROVE OrphanWindow(g)'
    <3>1. CASE g = h
      <4>1. ~Launching(h, "close")
        BY <1>4 DEF Launching
      <4>2. QED
        BY <1>1, <1>3, <2>1, <2>2, <3>1, <4>1 DEF OrphanWindow, Seeding
    <3>2. CASE g # h
      BY <1>2, <2>1, <2>2, <2>3, <3>2 DEF OrphanInv, OrphanWindow
    <3>3. QED
      BY <3>1, <3>2
  <2>5. QED
    BY <2>1, <2>2, <2>4 DEF OrphanInv
<1>5. CASE Launching(h, "close")
  <2>1. tables' = tables \ {m}
    BY <1>5 DEF Over, Migrate, Rollback, LaunchedError, Running, Launching, db
  <2>2. ~Launching(h, "create")
    BY <1>5 DEF Launching
  <2>3. ASSUME NEW g \in Slots  PROVE OrphanWindow(g)'
    <3>1. CASE g = h
      <4>1. ASSUME "User" \in calls'[h]
            PROVE  tables' \subseteq calls'[h] /\ \A k \in Slots : ~Launching(k, "create")'
        BY <1>1, <1>2, <1>5, <2>1, <2>2, <1>3, <4>1 DEF OrphanInv, OrphanWindow
      <4>2. QED
        BY <1>1, <1>3, <2>2, <3>1, <4>1 DEF OrphanWindow, Seeding
    <3>2. CASE g # h
      <4>1. CASE m = "User"
        <5>1. "User" \notin calls[g] /\ ~Launching(g, "create")
          BY <1>2, <1>3, <1>5, <3>2, <4>1 DEF OrphanInv, OrphanWindow
        <5>2. QED
          BY <1>2, <3>2, <5>1 DEF OrphanInv, OrphanWindow
      <4>2. CASE m # "User"
        BY <1>2, <1>3, <2>1, <2>2, <3>2, <4>2 DEF OrphanInv, OrphanWindow
      <4>3. QED
        BY <4>1, <4>2
    <3>3. QED
      BY <3>1, <3>2
  <2>4. ASSUME "User" \notin tables', NEW n \in tables'
        PROVE  \E g \in Slots : Launching(g, "close")' /\ n \in calls'[g]
    <3>1. n # m /\ n \in tables
      BY <2>1, <2>4
    <3>2. CASE "User" \in tables
      <4>1. m = "User"
        BY <2>1, <2>4, <3>2
      <4>2. n \in calls'[h]
        BY <1>1, <1>3, <1>5, <3>1, <4>1 DEF OrphanInv, OrphanWindow
      <4>3. QED
        BY <1>3, <1>5, <4>2
    <3>3. CASE "User" \notin tables
      <4>1. PICK g \in Slots : Launching(g, "close") /\ n \in calls[g]
        BY <3>1, <3>3 DEF OrphanInv
      <4>2. CASE g = h
        BY <1>1, <1>3, <1>5, <3>1, <4>1, <4>2
      <4>3. CASE g # h
        BY <1>2, <4>1, <4>3
      <4>4. QED
        BY <4>2, <4>3
    <3>4. QED
      BY <3>2, <3>3
  <2>5. QED
    BY <2>3, <2>4 DEF OrphanInv
<1>6. QED
  <2>1. Req(h).op \in {"create", "close"}
    BY Busy DEF Fits
  <2>2. QED
    BY <1>3, <1>4, <1>5, <2>1

LEMMA OrphanSchema ==
  ASSUME NEW h \in Slots, ~Faults, Typed, OrphanInv, SchemaStep(h)
  PROVE  OrphanInv'
<1>1. MoveOf(h)
  BY SchemaKeeps DEF Kept
<1>2. pc[h] # "idle" /\ Fits(pc[h], Req(h))
  BY Busy, StepsStart
<1>3. ASSUME NEW label \in Labels, pc[h] \notin {"ddl", "orphans"},
             label \notin {"ddl", "orphans"},
             tables' = tables \/ tables' = tables \cup {"User"}, "User" \in tables',
             Call(h, "User", label, frame[h], work[h])
      PROVE  OrphanInv'
  BY <1>1, <1>2, <1>3, CallWindow, OrphanQuiet DEF Seeding
<1>4. CASE CreateUsrlst(h)
  BY <1>3, <1>4 DEF CreateUsrlst, Labels
<1>5. CASE CreateBob(h)
  BY <1>3, <1>5 DEF CreateBob, Reply, Labels, db
<1>6. CASE CreateAddBob(h)
  BY <1>3, <1>6 DEF CreateAddBob, Reply, OnlyUsrlst, Labels
<1>7. ASSUME CreateJoe(h) \/ CreateAddJoe(h), Launch(h, Req(h))  PROVE OrphanInv'
  <2>1. /\ tables' = tables /\ "User" \in calls[h] /\ "User" \in tables
        /\ pc[h] \in {"create:joe", "create:addJoe"}
    BY <1>7 DEF CreateJoe, CreateAddJoe, Reply, OnlyUsrlst, db
  <2>2. Req(h).op = "create"
    BY <1>2, <2>1 DEF Fits
  <2>3. QED
    BY <1>1, <1>7, <2>1, <2>2, OrphanLaunch
<1>8. CASE CreateJoe(h) /\ ~Launch(h, Req(h))
  BY <1>3, <1>8 DEF CreateJoe, Reply, Labels, db
<1>9. CASE \E m \in Modules : Migrate(h, m) \/ Rollback(h, m) \/ LaunchedError(h, m)
  <2>1. pc[h] \in {"ddl", "orphans"}
    BY <1>9 DEF Migrate, Rollback, LaunchedError, Running
  <2>2. PICK m \in Modules : \E fail : Over(h, m, fail)
    BY <2>1, DdlMoves
  <2>3. QED
    BY <1>1, <2>1, <2>2, OrphanSettle
<1>10. QED
  BY <1>4, <1>5, <1>6, <1>7, <1>8, <1>9 DEF SchemaStep, CreateAddJoe

LEMMA NextOrphans ==
  Undisturbed /\ Typed /\ OrphanInv /\ [Next]_vars => OrphanInv'
<1> SUFFICES ASSUME Undisturbed, Typed, OrphanInv, [Next]_vars  PROVE OrphanInv'
  OBVIOUS
<1>1. ASSUME NEW h \in Slots, NEW req \in Requests, Receive(h, req)  PROVE OrphanInv'
  <2>1. MoveOf(h) /\ pc[h] = "idle" /\ tables' = tables
    BY <1>1, ReceiveKeeps, ReceiveLeads DEF Kept, Receive
  <2>2. CASE req.op = "close"
    BY <1>1, <2>1, <2>2, OrphanLaunch DEF Receive
  <2>3. CASE req.op # "close"
    <3>1. req.op \in DOMAIN FirstCall
      BY <2>3, RequestsAreTyped DEF RequestAssumption
    <3>2. FirstCall[req.op][2] \notin {"ddl", "orphans"} \cup Seeding
      BY <3>1 DEF FirstCall, Seeding
    <3>3. pc'[h] \in {"idle", FirstCall[req.op][2]}
      BY <1>1, <2>3, CallPc DEF Receive
    <3>4. QED
      BY <2>1, <3>2, <3>3, OrphanQuiet DEF Seeding
  <2>4. QED
    BY <2>2, <2>3
<1>2. ASSUME NEW h \in Slots, Step(h)  PROVE OrphanInv'
  <2>1. CASE SchemaStep(h)
    BY <2>1, OrphanSchema DEF Undisturbed
  <2>2. CASE ~SchemaStep(h)
    <3>1. MoveOf(h) /\ tables' = tables /\ pc'[h] \notin {"ddl", "orphans"} \cup Seeding
      BY <1>2, <2>2, StepKeeps, AccountLeads, ContactLeads, ConversationLeads,
         MessageLeads, ErrorLeads DEF Step, Kept, Seeding
    <3>2. pc[h] \notin {"ddl", "orphans"}
      BY <1>2, <2>2, StepsStart DEF Step, StatementError
    <3>3. QED
      BY <3>1, <3>2, OrphanQuiet
  <2>3. QED
    BY <2>1, <2>2
<1>3. CASE UNCHANGED vars
  BY <1>3 DEF vars, db, server, OrphanInv, OrphanWindow, Launching, Req
<1>4. QED
  BY <1>1, <1>2, <1>3 DEF Next, Restart, Undisturbed

LEMMA InitOrphans == Undisturbed /\ Init => OrphanInv
BY DEF Undisturbed, Init, OrphanInv, OrphanWindow, Launching, Seeding

\* Whatever handlers of /create, /close and the rest run at the same time, and
\* however many of their statements find a connection busy or a table gone:
\* once all are done no table is left without usrlst, provided the database
\* has no failures of its own and the process is not killed.
THEOREM NoTableIsOrphaned == Undisturbed => (Spec => []NoOrphanTables)
<1> SUFFICES ASSUME Undisturbed  PROVE Spec => []NoOrphanTables
  OBVIOUS
<1>1. Init => OrphanInv
  BY InitOrphans
<1>2. Typed /\ OrphanInv /\ [Next]_vars => OrphanInv'
  BY NextOrphans
<1>3. OrphanInv => NoOrphanTables
  BY DEF OrphanInv, NoOrphanTables, Launching
<1>4. QED
  BY <1>1, <1>2, <1>3, AlwaysTyped, PTL DEF Spec
-----------------------------------------------------------------------------
(***************************************************************************)
(* The bots come first.                                                    *)
(***************************************************************************)
\* Where earlier runs of the server left usrlst, they left the bots in it.
BotsKept ==
  "User" \in InitTables =>
    /\ {1, 2} \subseteq DOMAIN InitUsers
    /\ InitUsers[1].email = "bob" /\ InitUsers[2].email = "joe"

\* The handler of /create keeps the users' connection from the creation of
\* usrlst until the two bots have been asked for.
BotWindow(h) == pc[h] \in Seeding \cup {"create:table"} => calls[h] = {"User"}

\* usrlst has nobody, and if it exists it is being filled; it has Bob-bot, and
\* Joe-bot comes next; it has both.
NoBot == usrlst = << >> /\ ("User" \in tables =>
                              \E h \in Slots : pc[h] \in {"create:bob", "create:addBob"})
BobAlone == /\ Len(usrlst) = 1
            /\ usrlst[1].email = "bob" /\ usrlst[1].username = "Bob-bot"
            /\ \E h \in Slots : pc[h] \in {"create:joe", "create:addJoe"}
BothBots == /\ {1, 2} \subseteq DOMAIN usrlst
            /\ usrlst[1].email = "bob" /\ usrlst[2].email = "joe"

BotInv ==
  /\ \A h \in Slots : BotWindow(h)
  /\ "User" \notin tables => usrlst = << >>
  /\ NoBot \/ BobAlone \/ BothBots

\* Only a handler that seeds usrlst holds its connection before it is filled.
LEMMA SeederHolds ==
  ASSUME NEW h \in Slots, Typed, BotInv, "User" \in calls[h], "User" \in tables
  PROVE  /\ pc[h] \notin {"create:bob", "create:addBob"} => ~NoBot
         /\ pc[h] \notin {"create:joe", "create:addJoe"} => ~BobAlone
BY DEF Typed, Exclusive, BotInv, BotWindow, NoBot, BobAlone, Seeding

\* A step of a handler that is not seeding usrlst and leaves it alone
LEMMA BotQuiet ==
  ASSUME NEW h \in Slots, Typed, BotInv, MoveOf(h), usrlst' = usrlst,
         "User" \in tables' <=> "User" \in tables,
         pc[h] \notin Seeding, BotWindow(h)'
  PROVE  BotInv'
<1>1. \A g \in Slots \ {h} : pc'[g] = pc[g] /\ calls'[g] = calls[g]
  BY DEF MoveOf
<1>2. ASSUME NEW g \in Slots  PROVE BotWindow(g)'
  BY <1>1 DEF BotInv, BotWindow
<1>3. ASSUME NEW g \in Slots, pc[g] \in Seeding  PROVE pc'[g] = pc[g]
  BY <1>1, <1>3
<1>4. (NoBot => NoBot') /\ (BobAlone => BobAlone') /\ (BothBots => BothBots')
  BY <1>3 DEF NoBot, BobAlone, BothBots, Seeding
<1>5. QED
  BY <1>2, <1>4 DEF BotInv

\* A call the handler that holds the users' connection makes on it succeeds.
LEMMA HolderCalls ==
  ASSUME NEW h \in Slots, Typed, pc[h] # "idle", "User" \in calls[h],
         NEW label \in Labels, NEW w, Call(h, "User", label, frame[h], w)
  PROVE  pc'[h] = label /\ calls'[h] = {"User"}
<1>1. Available(h, "User")
  BY DEF Available, Typed, Exclusive
<1>2. QED
  BY <1>1 DEF Call, Typed, HandlersTypeOK

\* usrlst grows, or has names changed, while no bot is missing.
LEMMA BothBotsStay ==
  ASSUME Typed, BothBots,
         \/ \E email, password, username : AddUsr(email, password, username)
         \/ \E h \in Slots : ChangeUsername(h)
         \/ usrlst' = usrlst
  PROVE  BothBots'
<1>1. CASE \E email, password, username : AddUsr(email, password, username)
  <2>1. PICK row : usrlst' = Append(usrlst, row)
    BY <1>1 DEF AddUsr
  <2>2. QED
    BY <2>1, AppendGrows DEF BothBots, Typed, RowsTypeOK
<1>2. CASE \E h \in Slots : ChangeUsername(h)
  <2>1. PICK h \in Slots : ChangeUsername(h)
    BY <1>2
  <2>2. /\ DOMAIN usrlst' = DOMAIN usrlst
        /\ \A i \in DOMAIN usrlst : usrlst'[i].email = usrlst[i].email
    BY <2>1, RowOf DEF ChangeUsername, Typed, RowsTypeOK, Account
  <2>3. QED
    BY <2>2 DEF BothBots
<1>3. CASE usrlst' = usrlst
  BY <1>3 DEF BothBots
<1>4. QED
  BY <1>1, <1>2, <1>3

LEMMA BotSeeds ==
  ASSUME NEW h \in Slots, Typed, OrphanInv, BotInv,
         \/ CreateUsrlst(h) \/ CreateBob(h) \/ CreateAddBob(h)
         \/ CreateJoe(h) \/ CreateAddJoe(h)
  PROVE  BotInv'
<1>1. MoveOf(h)
  BY SchemaKeeps DEF SchemaStep, Kept
<1>2. /\ pc[h] \in Seeding \cup {"create:table"} /\ pc[h] # "idle"
      /\ calls[h] = {"User"}
  BY DEF CreateUsrlst, CreateBob, CreateAddBob, CreateJoe, CreateAddJoe, Reply,
         Seeding, BotInv, BotWindow
<1>3. ASSUME BotWindow(h)', "User" \in tables', NoBot' \/ BobAlone' \/ BothBots'
      PROVE  BotInv'
  BY <1>1, <1>3 DEF BotInv, BotWindow, MoveOf
<1>4. ASSUME NEW label \in Labels, Call(h, "User", label, frame[h], work[h])
      PROVE  pc'[h] = label /\ BotWindow(h)'
  BY <1>2, <1>4, HolderCalls DEF BotWindow
<1>5. CASE CreateUsrlst(h)
  <2>1. pc'[h] = "create:bob" /\ BotWindow(h)'
    BY <1>4, <1>5 DEF CreateUsrlst, Labels
  <2>2. "User" \in tables' /\ usrlst' = usrlst /\ pc[h] = "create:table"
    BY <1>5 DEF CreateUsrlst, rows
  <2>3. CASE "User" \in tables
    BY <1>2, <1>3, <2>1, <2>2, <2>3, SeederHolds, BothBotsStay DEF BotInv
  <2>4. CASE "User" \notin tables
    BY <1>3, <2>1, <2>2, <2>4 DEF BotInv, NoBot
  <2>5. QED
    BY <2>3, <2>4
<1>6. CASE CreateBob(h)
  <2>1. "User" \in tables' /\ usrlst' = usrlst /\ "User" \in tables /\ pc[h] = "create:bob"
    BY <1>6 DEF CreateBob, Reply, db, rows
  <2>2. /\ pc'[h] \in {"create:joe", "create:addBob"} /\ BotWindow(h)'
        /\ UsersNamed("Bob-bot") = {} => pc'[h] = "create:addBob"
    BY <1>4, <1>6 DEF CreateBob, Labels
  <2>3. CASE NoBot
    BY <1>3, <2>1, <2>2, <2>3 DEF NoBot, UsersNamed
  <2>4. CASE BothBots
    BY <1>3, <2>1, <2>2, <2>4, BothBotsStay
  <2>5. QED
    BY <1>2, <2>1, <2>3, <2>4, SeederHolds DEF BotInv
<1>7. CASE CreateAddBob(h)
  <2>1. /\ "User" \in tables' /\ "User" \in tables /\ pc[h] = "create:addBob"
        /\ AddUsr("bob", "Bob Bot", "Bob-bot")
    BY <1>7 DEF CreateAddBob, Reply, OnlyUsrlst
  <2>2. pc'[h] = "create:joe" /\ BotWindow(h)'
    BY <1>4, <1>7 DEF CreateAddBob, Labels
  <2>3. CASE NoBot
    <3> DEFINE bob == [email |-> "bob", password |-> "Bob Bot", username |-> "Bob-bot"]
    <3>1. usrlst' = Append(usrlst, bob) /\ bob.email = "bob" /\ bob.username = "Bob-bot"
      BY <2>1 DEF AddUsr
    <3> HIDE DEF bob
    <3>2. Len(usrlst') = 1 /\ usrlst'[1] = bob
      BY <2>3, <3>1 DEF NoBot
    <3>3. QED
      BY <1>3, <2>1, <2>2, <3>1, <3>2 DEF BobAlone
  <2>4. CASE BothBots
    BY <1>3, <2>1, <2>2, <2>4, BothBotsStay
  <2>5. QED
    BY <1>2, <2>1, <2>3, <2>4, SeederHolds DEF BotInv
<1>8. CASE CreateJoe(h)
  <2>1. "User" \in tables' /\ usrlst' = usrlst /\ "User" \in tables /\ pc[h] = "create:joe"
    BY <1>8 DEF CreateJoe, Reply, db, rows
  <2>2. CASE BobAlone
    <3>1. UsersNamed("Joe-bot") = {}
      BY <2>2 DEF BobAlone, UsersNamed, Typed, RowsTypeOK
    <3>2. pc'[h] = "create:addJoe" /\ BotWindow(h)'
      BY <1>4, <1>8, <3>1 DEF CreateJoe, Labels
    <3>3. QED
      BY <1>3, <2>1, <2>2, <3>2 DEF BobAlone
  <2>3. CASE BothBots
    <3>1. BotWindow(h)'
      <4>1. CASE Launch(h, Req(h))
        BY <4>1, LaunchSays DEF BotWindow, Seeding
      <4>2. CASE Call(h, "User", "create:addJoe", frame[h], work[h])
        BY <1>4, <4>2 DEF Labels
      <4>3. QED
        BY <1>8, <4>1, <4>2 DEF CreateJoe
    <3>2. QED
      BY <1>3, <2>1, <2>3, <3>1, BothBotsStay
  <2>4. QED
    BY <1>2, <2>1, <2>2, <2>3, SeederHolds DEF BotInv
<1>9. CASE CreateAddJoe(h)
  <2>1. /\ "User" \in tables' /\ "User" \in tables /\ pc[h] = "create:addJoe"
        /\ AddUsr("joe", "Joe Bot", "Joe-bot")
    BY <1>9 DEF CreateAddJoe, Reply, OnlyUsrlst
  <2>2. BotWindow(h)'
    BY <1>9, LaunchSays DEF CreateAddJoe, BotWindow, Seeding
  <2>3. CASE BobAlone
    <3>1. /\ usrlst \in Seq(Account) /\ Len(usrlst) = 1
          /\ DOMAIN usrlst = 1 .. 1
      BY <2>3 DEF BobAlone, Typed, RowsTypeOK
    <3>2. /\ DOMAIN usrlst' = 1 .. Len(usrlst) + 1
          /\ \A i \in 1 .. Len(usrlst) : usrlst'[i] = usrlst[i]
          /\ usrlst'[Len(usrlst) + 1].email = "joe"
      BY <2>1, <3>1, AddedUsr
    <3>3. /\ {1, 2} \subseteq DOMAIN usrlst'
          /\ usrlst'[1] = usrlst[1] /\ usrlst'[2].email = "joe"
      BY ONLY <3>1, <3>2
    <3>4. QED
      BY <1>3, <2>1, <2>2, <2>3, <3>3 DEF BobAlone, BothBots
  <2>4. CASE BothBots
    BY <1>3, <2>1, <2>2, <2>4, BothBotsStay
  <2>5. QED
    BY <1>2, <2>1, <2>3, <2>4, SeederHolds DEF BotInv
<1>10. QED
  BY <1>5, <1>6, <1>7, <1>8, <1>9

LEMMA BotSettle ==
  ASSUME NEW h \in Slots, Typed, OrphanInv, BotInv, NEW m \in Modules,
         Migrate(h, m) \/ Rollback(h, m) \/ LaunchedError(h, m)
  PROVE  BotInv'
<1>1. MoveOf(h)
  BY SchemaKeeps DEF SchemaStep, Kept
<1>2. pc[h] \in {"ddl", "orphans"} /\ pc'[h] \in {"idle", "ddl", "orphans"}
  BY SettleKeeps DEF Migrate, Rollback, LaunchedError, Running
<1>3. pc[h] \notin Seeding /\ BotWindow(h)'
  BY <1>2 DEF BotWindow, Seeding
<1>4. CASE Rollback(h, m) /\ m = "User"
  <2>1. usrlst' = << >> /\ "User" \notin tables'
    BY <1>4 DEF Rollback
  <2>2. \A g \in Slots : BotWindow(g)'
    BY <1>1, <1>3 DEF BotInv, BotWindow, MoveOf
  <2>3. QED
    BY <2>1, <2>2 DEF BotInv, NoBot
<1>5. CASE ~(Rollback(h, m) /\ m = "User")
  <2>1. Migrate(h, m) => "User" \in tables
    BY DEF Migrate, Running, Launching, OrphanInv, OrphanWindow
  <2>2. usrlst' = usrlst /\ ("User" \in tables' <=> "User" \in tables)
    BY <1>5, <2>1 DEF Migrate, Rollback, LaunchedError, db, rows
  <2>3. QED
    BY <1>1, <1>3, <2>2, BotQuiet
<1>6. QED
  BY <1>4, <1>5

LEMMA NextBots ==
  Undisturbed /\ Typed /\ OrphanInv /\ BotInv /\ [Next]_vars => BotInv'
<1> SUFFICES ASSUME Undisturbed, Typed, OrphanInv, BotInv, [Next]_vars  PROVE BotInv'
  OBVIOUS
<1>1. ASSUME NEW h \in Slots, NEW req \in Requests, Receive(h, req)  PROVE BotInv'
  <2>1. MoveOf(h) /\ pc[h] = "idle" /\ tables' = tables /\ usrlst' = usrlst
    BY <1>1, ReceiveKeeps, ReceiveLeads DEF Kept, Receive
  <2>2. pc'[h] = "create:table" => calls'[h] = {"User"}
    <3>1. CASE req.op = "close"
      BY <1>1, <3>1, LaunchSays DEF Receive
    <3>2. CASE req.op # "close"
      <4>1. req.op \in DOMAIN FirstCall
        BY <3>2, RequestsAreTyped DEF RequestAssumption
      <4>2. /\ FirstCall[req.op][1] \in Modules
            /\ FirstCall[req.op][2] = "create:table" => FirstCall[req.op][1] = "User"
        BY <4>1 DEF FirstCall, Modules
      <4>3. [NoFrame EXCEPT !.req = req] \in Frame
        BY DEF NoFrame, Frame
      <4>4. QED
        BY <1>1, <3>2, <4>2, <4>3, HandlersTyped, CallMoves, ZenonT(60) DEF Receive
    <3>3. QED
      BY <3>1, <3>2
  <2>3. BotWindow(h)'
    BY <1>1, <2>2, ReceiveLeads DEF BotWindow, Seeding
  <2>4. QED
    BY <2>1, <2>3, BotQuiet DEF Seeding
<1>2. ASSUME NEW h \in Slots, Step(h)  PROVE BotInv'
  <2>1. MoveOf(h)
    BY <1>2, StepKeeps DEF Kept
  <2>2. CASE SchemaStep(h)
    BY <2>2, BotSeeds, BotSettle DEF SchemaStep
  <2>3. CASE RegisterAdd(h) \/ ChangeUsername(h)
    <3>1. /\ "User" \in calls[h] /\ "User" \in tables /\ pc[h] \notin Seeding
          /\ tables' = tables /\ pc'[h] = "idle"
      BY <2>3, AnswersPc DEF RegisterAdd, ChangeUsername, Reply, OnlyUsrlst, Seeding
    <3>2. BothBots'
      BY <2>3, <3>1, SeederHolds, BothBotsStay DEF BotInv, Seeding, RegisterAdd
    <3>3. \A g \in Slots : BotWindow(g)'
      BY <2>1, <3>1 DEF BotInv, BotWindow, MoveOf, Seeding
    <3>4. QED
      BY <3>1, <3>2, <3>3 DEF BotInv
  <2>4. CASE ~SchemaStep(h) /\ ~RegisterAdd(h) /\ ~ChangeUsername(h)
    <3>1. /\ tables' = tables /\ pc'[h] \notin Seeding \cup {"create:table"}
          /\ usrlst' = usrlst
      <4>1. CASE AccountStep(h)
        BY <2>4, <4>1, AccountLeads
           DEF AccountStep, RegisterEmail, RegisterUsername, LoginPassword, LoginEmail,
               LoginByEmail, LoginByUsername, db, rows, Seeding
      <4>2. CASE ContactStep(h) \/ ConversationStep(h) \/ MessageStep(h) \/ StatementError(h)
        BY <4>2, ContactLeads, ConversationLeads, MessageLeads, ErrorLeads DEF Seeding
      <4>3. QED
        BY <1>2, <2>4, <4>1, <4>2 DEF Step
    <3>2. pc[h] \notin Seeding
      <4>1. ASSUME pc[h] \in Seeding  PROVE ~StatementError(h)
        <5>1. WellFormed(h)
          BY <4>1 DEF Seeding, Pasted, WellFormed
        <5>2. QED
          BY <4>1, <5>1 DEF Undisturbed, StatementError, Needs, BotInv, BotWindow,
                            Seeding, OrphanInv, OrphanWindow
      <4>2. QED
        BY <1>2, <2>4, <4>1, StepsStart DEF Step, Seeding
    <3>3. BotWindow(h)'
      BY <3>1 DEF BotWindow
    <3>4. QED
      BY <2>1, <3>1, <3>2, <3>3, BotQuiet
  <2>5. QED
    BY <2>2, <2>3, <2>4
<1>3. CASE UNCHANGED vars
  BY <1>3 DEF vars, db, rows, server, BotInv, BotWindow, NoBot, BobAlone, BothBots
<1>4. QED
  BY <1>1, <1>2, <1>3 DEF Next, Restart, Undisturbed

LEMMA InitBots == BotsKept /\ Init => BotInv
BY InitAssumption DEF BotsKept, Init, BotInv, BotWindow, NoBot, BothBots, Seeding

\* Ids 1 and 2 are the bots', over any number of /close and /create, whoever
\* registers or takes another name meanwhile, provided that the database has
\* no failures of its own and the process is not killed while usrlst is being
\* filled.
THEOREM BotsComeFirst == Undisturbed /\ BotsKept => (Spec => []BotIds)
<1> SUFFICES ASSUME Undisturbed, BotsKept  PROVE Spec => []BotIds
  OBVIOUS
<1>1. Init => OrphanInv /\ BotInv
  BY InitOrphans, InitBots
<1>2. Typed /\ OrphanInv /\ BotInv /\ [Next]_vars => OrphanInv' /\ BotInv'
  BY NextOrphans, NextBots
<1>3. Typed /\ BotInv => BotIds
  BY DEF BotInv, NoBot, BobAlone, BothBots, BotIds, Typed, RowsTypeOK
<1>4. QED
  BY <1>1, <1>2, <1>3, AlwaysTyped, PTL DEF Spec
-----------------------------------------------------------------------------
(***************************************************************************)
(* What /create has made when it answers OK.                               *)
(***************************************************************************)
\* The bots' usernames are the bots', and nobody gives a bot another one.
Reserved ==
  /\ \A req \in Requests :
       /\ req.op = "changeUsername" => req.email \notin {"bob", "joe"}
       /\ req.op \in {"register", "changeUsername"} =>
            req.username \notin {"Bob-bot", "Joe-bot"}
  /\ \A i \in DOMAIN InitUsers :
       InitUsers[i].username \in {"Bob-bot", "Joe-bot"} =>
         InitUsers[i].email \in {"bob", "joe"}

NamesHeld ==
  \A i \in DOMAIN usrlst :
    usrlst[i].username \in {"Bob-bot", "Joe-bot"} => usrlst[i].email \in {"bob", "joe"}

Named(name) == UsersNamed(name) # {}

\* What /create has made so far, which nobody takes back.
CreateWindow(h) ==
  /\ pc[h] \in Seeding => "User" \in tables
  /\ pc[h] \in {"create:joe", "create:addJoe"} => Named("Bob-bot")
  /\ pc[h] = "ddl" /\ Req(h).op = "create" =>
       /\ Modules \subseteq tables \cup calls[h] \cup failed[h]
       /\ Named("Bob-bot") /\ Named("Joe-bot")

CreateInv == NamesHeld /\ \A h \in Slots : CreateWindow(h)

\* A new account may be a bot's; it keeps the others' names.
LEMMA NamedAdded ==
  ASSUME Typed, NamesHeld, NEW email, NEW password, NEW username,
         username \in {"Bob-bot", "Joe-bot"} => email \in {"bob", "joe"},
         AddUsr(email, password, username)
  PROVE  /\ NamesHeld' /\ Named(username)'
         /\ \A name : Named(name) => Named(name)'
<1>1. usrlst \in Seq(Account)
  BY DEF Typed, RowsTypeOK
<1>2. /\ Len(usrlst) \in Nat /\ DOMAIN usrlst = 1 .. Len(usrlst)
      /\ DOMAIN usrlst' = 1 .. Len(usrlst) + 1
      /\ \A i \in 1 .. Len(usrlst) : usrlst'[i] = usrlst[i]
      /\ usrlst'[Len(usrlst) + 1].email = email
      /\ usrlst'[Len(usrlst) + 1].username = username
  BY <1>1, AddedUsr
<1>3. NamesHeld'
  BY <1>2 DEF NamesHeld
<1>4. Named(username)'
  BY <1>2 DEF Named, UsersNamed
<1>5. ASSUME NEW name, Named(name)  PROVE Named(name)'
  BY <1>2, <1>5 DEF Named, UsersNamed
<1>6. QED
  BY <1>3, <1>4, <1>5

\* What one handler has made the others keep.
LEMMA NamesStay ==
  ASSUME Standing, Reserved, Typed, NamesHeld, [Next]_vars
  PROVE  /\ NamesHeld'
         /\ \A name \in {"Bob-bot", "Joe-bot"} : Named(name) => Named(name)'
<1>1. CASE usrlst' = usrlst
  BY <1>1 DEF NamesHeld, Named, UsersNamed
<1>2. ASSUME NEW h \in Slots, RegisterAdd(h)
      PROVE  NamesHeld' /\ \A name : Named(name) => Named(name)'
  <2>1. Req(h).username \notin {"Bob-bot", "Joe-bot"}
    BY <1>2, Busy DEF RegisterAdd, Reply, Fits, Reserved
  <2>2. AddUsr(Req(h).email, Req(h).password, Req(h).username)
    BY <1>2 DEF RegisterAdd
  <2>3. QED
    BY <2>1, <2>2, NamedAdded
<1>3. ASSUME NEW h \in Slots, ChangeUsername(h)
      PROVE  /\ NamesHeld'
             /\ \A name \in {"Bob-bot", "Joe-bot"} : Named(name) => Named(name)'
  <2>1. /\ Req(h).username \notin {"Bob-bot", "Joe-bot"}
        /\ Req(h).email \notin {"bob", "joe"}
    BY <1>3, Busy DEF ChangeUsername, Reply, Fits, Reserved
  <2>2. DOMAIN usrlst' = DOMAIN usrlst
    BY <1>3 DEF ChangeUsername
  <2>3. ASSUME NEW i \in DOMAIN usrlst
        PROVE  \/ usrlst'[i] = usrlst[i]
               \/ usrlst[i].email = Req(h).email /\ usrlst'[i].username = Req(h).username
    <3>1. usrlst[i] \in Account
      BY RowOf DEF Typed, RowsTypeOK
    <3>2. QED
      BY <1>3, <3>1 DEF ChangeUsername, Account
  <2>4. NamesHeld'
    BY <2>1, <2>2, <2>3 DEF NamesHeld
  <2>5. ASSUME NEW name \in {"Bob-bot", "Joe-bot"}, Named(name)  PROVE Named(name)'
    BY <2>1, <2>2, <2>3, <2>5 DEF NamesHeld, Named, UsersNamed
  <2>6. QED
    BY <2>4, <2>5
<1>4. ASSUME NEW h \in Slots, CreateAddBob(h) \/ CreateAddJoe(h)
      PROVE  NamesHeld' /\ \A name : Named(name) => Named(name)'
  BY <1>4, NamedAdded DEF CreateAddBob, CreateAddJoe
<1>5. CASE usrlst' = << >>
  <2>1. usrlst = << >>
    <3>1. usrlst \in Seq(Account)
      BY DEF Typed, RowsTypeOK
    <3>2. \A i \in DOMAIN usrlst : i \in DOMAIN usrlst'
      BY NextGrows DEF Grow
    <3>3. \A i : i \notin DOMAIN << >>
      OBVIOUS
    <3>4. DOMAIN usrlst = {}
      BY ONLY <1>5, <3>2, <3>3
    <3>5. QED
      BY <3>1, <3>4
  <2>2. QED
    BY <1>1, <1>5, <2>1
<1>6. QED
  BY <1>1, <1>2, <1>3, <1>4, <1>5, UsrlstChanges

\* The others' windows hold after any step.
LEMMA OthersCreate ==
  ASSUME NEW h \in Slots, Standing, Reserved, Typed, CreateInv, Next,
         MoveOf(h), CreateWindow(h)'
  PROVE  CreateInv'
<1>1. tables \subseteq tables'
  BY NextGrows DEF Grow
<1>2. /\ NamesHeld'
      /\ \A name \in {"Bob-bot", "Joe-bot"} : Named(name) => Named(name)'
  BY NamesStay DEF CreateInv
<1>3. ASSUME NEW g \in Slots \ {h}  PROVE CreateWindow(g)'
  BY <1>1, <1>2 DEF CreateInv, CreateWindow, MoveOf, Req
<1>4. QED
  BY <1>2, <1>3 DEF CreateInv

LEMMA CreateSeeds ==
  ASSUME NEW h \in Slots, Standing, Reserved, Typed, CreateInv, Next,
         \/ CreateUsrlst(h) \/ CreateBob(h) \/ CreateAddBob(h)
         \/ CreateJoe(h) \/ CreateAddJoe(h)
  PROVE  CreateWindow(h)'
<1>1. /\ pc[h] \in Seeding \cup {"create:table"} /\ pc[h] # "idle"
      /\ Req(h).op = "create"
  BY Busy DEF CreateUsrlst, CreateBob, CreateAddBob, CreateJoe, CreateAddJoe, Reply,
         Seeding, Fits
<1>2. "User" \in tables'
  BY DEF CreateUsrlst, CreateBob, CreateAddBob, CreateJoe, CreateAddJoe, Reply,
         OnlyUsrlst, db
<1>3. ASSUME NEW label \in Seeding, Call(h, "User", label, frame[h], work[h]),
             label \in {"create:joe", "create:addJoe"} => Named("Bob-bot")'
      PROVE  CreateWindow(h)'
  BY <1>2, <1>3, CallPc DEF CreateWindow, Seeding
<1>4. ASSUME Launch(h, Req(h)), Named("Bob-bot")', Named("Joe-bot")'
      PROVE  CreateWindow(h)'
  <2>1. pc'[h] = "ddl" => calls'[h] = Modules \ {"User"}
    <3>1. pc'[h] = "ddl" =>
            calls'[h] = {Chain(Req(h).op)[k] : k \in DOMAIN Chain(Req(h).op)}
      BY <1>4, LaunchSays
    <3>2. Chain(Req(h).op) = Chain("create")
      BY <1>1
    <3>3. QED
      BY <3>1, <3>2, Chains
  <2>2. pc'[h] \notin Seeding
    BY <1>4, LaunchSays DEF Seeding
  <2>3. QED
    BY <1>2, <1>4, <2>1, <2>2 DEF CreateWindow, Seeding
<1>5. \A name \in {"Bob-bot", "Joe-bot"} : Named(name) => Named(name)'
  BY NamesStay DEF CreateInv
<1>6. CASE CreateUsrlst(h)
  BY <1>3, <1>6 DEF CreateUsrlst, Seeding
<1>7. CASE CreateBob(h)
  BY <1>3, <1>5, <1>7 DEF CreateBob, Seeding, Named
<1>8. CASE CreateAddBob(h)
  <2>1. Named("Bob-bot")'
    BY <1>8, NamedAdded DEF CreateAddBob, CreateInv
  <2>2. QED
    BY <1>3, <1>8, <2>1 DEF CreateAddBob, Seeding
<1>9. CASE CreateJoe(h)
  <2>1. Named("Bob-bot")'
    BY <1>5, <1>9 DEF CreateJoe, Reply, CreateInv, CreateWindow
  <2>2. QED
    BY <1>3, <1>4, <1>5, <1>9, <2>1 DEF CreateJoe, Seeding, Named
<1>10. CASE CreateAddJoe(h)
  <2>1. Named("Bob-bot")'
    BY <1>5, <1>10 DEF CreateAddJoe, Reply, CreateInv, CreateWindow
  <2>2. Named("Joe-bot")'
    BY <1>10, NamedAdded DEF CreateAddJoe, CreateInv
  <2>3. QED
    BY <1>4, <1>10, <2>1, <2>2 DEF CreateAddJoe
<1>11. QED
  BY <1>6, <1>7, <1>8, <1>9, <1>10

LEMMA NextCreates ==
  Standing /\ Reserved /\ Typed /\ CreateInv /\ [Next]_vars => CreateInv'
<1> SUFFICES ASSUME Standing, Reserved, Typed, CreateInv, [Next]_vars  PROVE CreateInv'
  OBVIOUS
<1>1. ASSUME NEW h \in Slots, NEW req \in Requests, Receive(h, req)  PROVE CreateInv'
  <2>1. MoveOf(h) /\ Next
    BY <1>1, ReceiveKeeps DEF Kept, Next
  <2>2. pc'[h] \notin {"ddl"} \cup Seeding
    <3>1. req.op \in DOMAIN FirstCall
      BY RequestsAreTyped DEF RequestAssumption, Standing
    <3>2. FirstCall[req.op][2] \notin {"ddl"} \cup Seeding
      BY <3>1 DEF FirstCall, Seeding
    <3>3. pc'[h] \in {"idle", FirstCall[req.op][2]}
      BY <1>1, CallPc DEF Receive, Standing
    <3>4. QED
      BY <3>2, <3>3 DEF Seeding
  <2>3. CreateWindow(h)'
    BY <2>2 DEF CreateWindow, Seeding
  <2>4. QED
    BY <2>1, <2>3, OthersCreate
<1>2. ASSUME NEW h \in Slots, Step(h)  PROVE CreateInv'
  <2>1. MoveOf(h) /\ Next
    BY <1>2, StepKeeps DEF Kept, Next
  <2>2. CASE \/ CreateUsrlst(h) \/ CreateBob(h) \/ CreateAddBob(h)
             \/ CreateJoe(h) \/ CreateAddJoe(h)
    BY <2>1, <2>2, CreateSeeds, OthersCreate
  <2>3. CASE \E m \in Modules : Migrate(h, m) \/ Rollback(h, m) \/ LaunchedError(h, m)
    <3>1. pc[h] \in {"ddl", "orphans"} /\ SchemaStep(h)
      BY <2>3 DEF Migrate, Rollback, LaunchedError, Running, SchemaStep
    <3>2. PICK m \in Modules : \E fail : Over(h, m, fail)
      BY <3>1, DdlMoves
    <3>3. PICK fail : Over(h, m, fail)
      BY <3>2
    <3>4. /\ pc'[h] \in {"idle", "ddl", "orphans"}
          /\ pc'[h] = "ddl" => /\ pc[h] = "ddl" /\ calls'[h] = calls[h] \ {m}
                               /\ failed'[h] = fail /\ Req(h)' = Req(h)
      BY <3>1, <3>3, SettleSays DEF Over
    <3>5. ASSUME pc'[h] = "ddl", Req(h)'.op = "create"
          PROVE  Modules \subseteq tables' \cup calls'[h] \cup failed'[h]
      <4>1. Modules \subseteq tables \cup calls[h] \cup failed[h]
        BY <3>4, <3>5 DEF CreateInv, CreateWindow
      <4>2. ~Rollback(h, m)
        BY NothingDropped
      <4>3. QED
        BY <3>3, <3>4, <3>5, <4>1, <4>2 DEF Over, db
    <3>6. \A name \in {"Bob-bot", "Joe-bot"} : Named(name) => Named(name)'
      BY NamesStay DEF CreateInv
    <3>7. CreateWindow(h)'
      BY <3>4, <3>5, <3>6 DEF CreateInv, CreateWindow, Seeding, Req
    <3>8. QED
      BY <2>1, <3>7, OthersCreate
  <2>4. CASE ~SchemaStep(h)
    <3>1. pc'[h] \notin {"ddl"} \cup Seeding
      BY <1>2, <2>4, AccountLeads, ContactLeads, ConversationLeads,
         MessageLeads, ErrorLeads DEF Step, Seeding
    <3>2. CreateWindow(h)'
      BY <3>1 DEF CreateWindow, Seeding
    <3>3. QED
      BY <2>1, <3>2, OthersCreate
  <2>5. QED
    BY <2>2, <2>3, <2>4 DEF SchemaStep
<1>3. CASE Restart
  BY <1>3 DEF Restart, CreateInv, CreateWindow, NamesHeld, Seeding, db, rows
<1>4. CASE UNCHANGED vars
  BY <1>4 DEF vars, db, rows, server, CreateInv, CreateWindow, NamesHeld, Named,
              UsersNamed, Req
<1>5. QED
  BY <1>1, <1>2, <1>3, <1>4 DEF Next

\* When /create answers OK every table exists and both bots have an account,
\* with any number of /create and other handlers, statement failures and
\* restarts, as long as nobody closes the database, takes a bot's username or
\* renames a bot.
THEOREM CreatesAreTold == Standing /\ Reserved => (Spec => []CreateOutcome)
<1> SUFFICES ASSUME Standing, Reserved  PROVE Spec => []CreateOutcome
  OBVIOUS
<1>1. Init => CreateInv /\ CreateOutcome
  BY DEF Init, CreateInv, CreateWindow, NamesHeld, Reserved, Seeding, CreateOutcome,
         Silent
<1>2. Typed /\ CreateInv /\ [Next]_vars => CreateInv'
  BY NextCreates
<1>3. Typed /\ CreateInv /\ CreateOutcome /\ [Next]_vars => CreateOutcome'
  <2> SUFFICES ASSUME Typed, CreateInv, CreateOutcome, [Next]_vars
               PROVE  CreateOutcome'
    OBVIOUS
  <2>1. CASE UNCHANGED vars
    BY <2>1 DEF vars, db, rows, server, CreateOutcome, UsersNamed
  <2>2. ASSUME Next, response'.req.op = "create", response'.status = 200
        PROVE  /\ tables' = Modules
               /\ UsersNamed("Bob-bot")' # {} /\ UsersNamed("Joe-bot")' # {}
    <3>1. PICK h \in Slots, m \in Modules :
            /\ pc[h] = "ddl" /\ response'.req = Req(h)
            /\ calls[h] = {m} /\ failed[h] = {}
            /\ \/ Req(h).op = "create" /\ tables' = tables \cup {m}
               \/ Req(h).op = "close" /\ tables' = tables \ {m}
      BY <2>2, DdlAnswers
    <3>2. Req(h).op = "create" /\ tables' = tables \cup {m}
      BY <2>2, <3>1
    <3>3. /\ Modules \subseteq tables \cup {m}
          /\ Named("Bob-bot") /\ Named("Joe-bot")
      BY <3>1, <3>2 DEF CreateInv, CreateWindow
    <3>4. Named("Bob-bot")' /\ Named("Joe-bot")'
      BY <3>3, NamesStay DEF CreateInv
    <3>5. tables \subseteq Modules
      BY DEF Typed, RowsTypeOK
    <3>6. QED
      BY <3>2, <3>3, <3>4, <3>5 DEF Named
  <2>3. QED
    BY <2>1, <2>2 DEF CreateOutcome
<1>4. QED
  BY <1>1, <1>2, <1>3, AlwaysTyped, PTL DEF Spec
=============================================================================
