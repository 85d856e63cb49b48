---------------------------- MODULE WebChat_proof ----------------------------
(***************************************************************************)
(* Type correctness of the server and the exclusive use of its             *)
(* connections, for every set of handlers and of requests.                 *)
(***************************************************************************)
EXTENDS WebChat, TLAPS, WellFoundedInduction

\* The handlers' part of the state is well typed; pc's labels are left open.
ServerTyped ==
  /\ DOMAIN pc = Slots /\ pc = [h \in Slots |-> pc[h]]
  /\ DOMAIN failed = Slots /\ DOMAIN work = Slots
  /\ calls \in [Slots -> SUBSET Modules]
  /\ frame \in [Slots -> Frame]

\* A move of h alone: the other handlers keep their place, and h waits on no
\* connection another one waits on.
MoveOf(h) ==
  /\ ServerTyped'
  /\ \A g \in Slots \ {h} : /\ pc'[g] = pc[g]
                            /\ calls'[g] = calls[g]
                            /\ frame'[g] = frame[g]
                            /\ failed'[g] = failed[g]
                            /\ work'[g] = work[g]
                            /\ calls'[h] \cap calls[g] = {}

\* An answer frees the handler.
LEMMA AnswerMoves ==
  ASSUME NEW h \in Slots, NEW req, NEW status, NEW text, NEW data,
         ServerTyped, Answer(h, req, status, text, data)
  PROVE  MoveOf(h) /\ pc'[h] = "idle" /\ calls'[h] = {} /\ frame'[h] = NoFrame
<1>1. NoFrame \in Frame
  BY DEF NoFrame, Frame
<1>2. QED
  BY <1>1 DEF Answer, ServerTyped, MoveOf

\* A call leaves the handler waiting on that connection alone, at its label
\* and with its frame, or, refused, frees it.
LEMMA CallMoves ==
  ASSUME NEW h \in Slots, NEW m \in Modules, NEW label, NEW f \in Frame, NEW w,
         ServerTyped, Call(h, m, label, f, w)
  PROVE  /\ MoveOf(h)
         /\ \/ pc'[h] = label /\ calls'[h] = {m} /\ frame'[h] = f
            \/ pc'[h] = "idle" /\ calls'[h] = {} /\ frame'[h] = NoFrame
<1>1. CASE ~Available(h, m)
  <2>1. ASSUME NEW req, Fail(h, req)
        PROVE  MoveOf(h) /\ pc'[h] = "idle" /\ calls'[h] = {} /\ frame'[h] = NoFrame
    BY <2>1, AnswerMoves DEF Fail
  <2>2. QED
    BY <1>1, <2>1 DEF Call
<1>2. CASE Available(h, m)
  BY <1>2 DEF Call, Available, ServerTyped, MoveOf
<1>3. QED
  BY <1>1, <1>2

\* No two handlers wait on the same connection, so that consecutive calls of
\* one handler to the same module cannot be separated by another handler's.
Exclusive ==
  \A g, h \in Slots : g # h => calls[g] \cap calls[h] = {}

\* Moves keep the handlers' connections apart.
LEMMA MoveExclusive ==
  ASSUME NEW h \in Slots, Exclusive, MoveOf(h)
  PROVE  Exclusive'
BY DEF Exclusive, MoveOf
-----------------------------------------------------------------------------
\* Which requests a handler may serve can be told from its label.
Fits(label, req) ==
  /\ label # "idle" => req \in Requests
  /\ label \in {"ddl", "orphans"} => req.op \in {"create", "close"}
  /\ label \in {"create:table", "create:bob", "create:addBob", "create:joe",
                "create:addJoe"} => req.op = "create"
  /\ label \in {"register:email", "register:username", "register:add"} =>
       req.op = "register"
  /\ label \in {"login:password", "login:email", "login:byEmail",
                "login:byUsername"} => req.op = "login"
  /\ label = "changeUsername:update" => req.op = "changeUsername"
  /\ label \in {"pair:user", "pair:contact", "pair:exists"} =>
       req.op \in {"addContact", "makeFavorite", "removeFavorite"}
  /\ label = "addContact:insert" => req.op = "addContact"
  /\ label = "favorite:update" => req.op \in {"makeFavorite", "removeFavorite"}
  /\ label \in {"getContacts:user", "getContacts:list", "getContacts:row"} =>
       req.op = "getContacts"
  /\ label \in {"makeConversation:creator", "makeConversation:insert",
                "makeConversation:id", "makeConversation:join",
                "makeConversation:contact", "makeConversation:check",
                "makeConversation:member"} => req.op = "makeConversation"
  /\ label \in {"getConversations:user", "getConversations:list",
                "getConversations:users", "getConversations:row"} =>
       req.op = "getConversations"
  /\ label \in {"postMessage:sender", "postMessage:user", "postMessage:bob",
                "postMessage:joe"} => req.op = "postMessage"
  /\ label \in {"getMessages:list", "getMessages:row"} => req.op = "getMessages"

Serves(h) == Fits(pc[h], Req(h))

\* The inductive invariant of this module
Typed ==
  /\ RowsTypeOK
  /\ HandlersTypeOK
  /\ DOMAIN failed = Slots /\ DOMAIN work = Slots
  /\ Exclusive
  /\ \A h \in Slots : Serves(h)

\* What every step of a handler h keeps
Kept(h) == RowsTypeOK' /\ MoveOf(h) /\ pc'[h] \in Labels /\ Serves(h)'

LEMMA HandlersTyped == Typed => ServerTyped
BY DEF Typed, HandlersTypeOK, ServerTyped

LEMMA KeptTyped ==
  ASSUME NEW h \in Slots, Typed, Kept(h)
  PROVE  Typed'
<1>1. HandlersTypeOK'
  BY DEF Typed, Kept, HandlersTypeOK, MoveOf, ServerTyped
<1>2. Exclusive'
  BY MoveExclusive DEF Typed, Kept
<1>3. \A g \in Slots : Serves(g)'
  BY DEF Typed, Kept, MoveOf, Serves, Req
<1>4. DOMAIN failed' = Slots /\ DOMAIN work' = Slots
  BY DEF Kept, MoveOf, ServerTyped
<1>5. QED
  BY <1>1, <1>2, <1>3, <1>4 DEF Typed, Kept

\* A row can be appended to a table, and every row of a table replaced.
LEMMA RowOf ==
  ASSUME NEW S, NEW table \in Seq(S), NEW i \in DOMAIN table
  PROVE  table[i] \in S
OBVIOUS

LEMMA AppendRow ==
  ASSUME NEW S, NEW table \in Seq(S), NEW row \in S
  PROVE  Append(table, row) \in Seq(S)
OBVIOUS

LEMMA ReplaceRows ==
  ASSUME NEW S, NEW table \in Seq(S), NEW new,
         DOMAIN new = DOMAIN table, new = [i \in DOMAIN table |-> new[i]],
         \A i \in DOMAIN table : new[i] \in S
  PROVE  new \in Seq(S)
<1>1. DOMAIN table = 1 .. Len(table) /\ Len(table) \in Nat
  OBVIOUS
<1>2. new \in [1 .. Len(table) -> S]
  BY <1>1
<1>3. QED
  BY <1>1, <1>2

LEMMA UnchangedRows ==
  ASSUME RowsTypeOK, UNCHANGED db
  PROVE  RowsTypeOK'
BY DEF RowsTypeOK, db, rows

LEMMA AnswerKeeps ==
  ASSUME NEW h \in Slots, Typed, NEW req, NEW status, NEW text, NEW data,
         Answer(h, req, status, text, data)
  PROVE  MoveOf(h) /\ pc'[h] \in Labels /\ Serves(h)'
<1>1. MoveOf(h) /\ pc'[h] = "idle"
  BY HandlersTyped, AnswerMoves DEF Typed
<1>2. QED
  BY <1>1 DEF Labels, Serves, Fits

\* The same of every form an answer takes
LEMMA AnswersKeep ==
  ASSUME NEW h \in Slots, Typed,
         \/ \E req : Fail(h, req)
         \/ \E text : RespondText(h, text)
         \/ \E data : RespondJson(h, data)
  PROVE  MoveOf(h) /\ pc'[h] \in Labels /\ Serves(h)'
BY AnswerKeeps DEF Fail, RespondText, RespondJson

LEMMA CallKeeps ==
  ASSUME NEW h \in Slots, Typed, NEW m \in Modules, NEW label \in Labels,
         NEW f \in Frame, NEW w, Call(h, m, label, f, w), Fits(label, f.req)
  PROVE  MoveOf(h) /\ pc'[h] \in Labels /\ Serves(h)'
<1>1. MoveOf(h)
  BY HandlersTyped, CallMoves DEF Typed
<1>2. (pc'[h] = label /\ frame'[h] = f) \/ pc'[h] = "idle"
  BY HandlersTyped, CallMoves DEF Typed
<1>3. QED
  BY <1>1, <1>2 DEF Labels, Serves, Req, Fits

\* Where the request h serves may take it
Places(h) == {label \in Labels : Fits(label, Req(h))}

\* What the proofs below use of a busy handler
LEMMA Busy ==
  ASSUME NEW h \in Slots, Typed, pc[h] # "idle"
  PROVE  /\ frame[h] \in Frame /\ Req(h) \in Requests /\ Fits(pc[h], Req(h))
         /\ \A label \in Places(h) : label \in Labels /\ Fits(label, Req(h))
         /\ pc[h] \in {"create:joe", "create:addJoe", "ddl", "orphans"} =>
              Req(h).op \in {"create", "close"}
BY DEF Typed, HandlersTypeOK, Serves, Fits, Places

\* A busy handler's call, whatever it has looked up
LEMMA CallOn ==
  ASSUME NEW h \in Slots, Typed, NEW m \in Modules,
         NEW label \in Labels, Fits(label, Req(h)), NEW f \in Frame, f.req = Req(h),
         NEW w, Call(h, m, label, f, w)
  PROVE  MoveOf(h) /\ pc'[h] \in Labels /\ Serves(h)'
BY CallKeeps

LEMMA CallOnward ==
  ASSUME NEW h \in Slots, Typed, pc[h] # "idle", NEW m \in Modules,
         NEW label \in Places(h), NEW f \in Frame, f.req = Req(h), NEW w,
         Call(h, m, label, f, w)
  PROVE  MoveOf(h) /\ pc'[h] \in Labels /\ Serves(h)'
BY Busy, CallKeeps

\* The id of the one user with an email, bound to a frame
LEMMA Lookup ==
  ASSUME NEW h \in Slots, Typed, pc[h] # "idle", NEW email,
         NEW id \in UsersWithEmail(email)
  PROVE  /\ [frame[h] EXCEPT !.user = id] \in Frame
         /\ [frame[h] EXCEPT !.user = id].req = Req(h)
         /\ [frame[h] EXCEPT !.contact = id] \in Frame
         /\ [frame[h] EXCEPT !.contact = id].req = Req(h)
<1>1. id \in Nat
  BY DEF Typed, RowsTypeOK, UsersWithEmail
<1>2. QED
  BY <1>1, Busy DEF Frame, Req

LEMMA AccountKeeps ==
  ASSUME NEW h \in Slots, Typed, AccountStep(h)
  PROVE  Kept(h)
<1> USE DEF Reply, Kept
<1>1. RowsTypeOK /\ "User" \in Modules
  BY DEF Typed, Modules
<1>2. CASE RegisterEmail(h)
  <2>1. Fits("register:username", Req(h)) /\ "register:username" \in Labels
    BY <1>2, Busy DEF RegisterEmail, Fits, Labels
  <2>2. QED
    BY <1>1, <1>2, <2>1, Busy, AnswersKeep, CallKeeps, UnchangedRows
       DEF RegisterEmail, Req
<1>3. CASE RegisterUsername(h)
  <2>1. Fits("register:add", Req(h)) /\ "register:add" \in Labels
    BY <1>3, Busy DEF RegisterUsername, Fits, Labels
  <2>2. QED
    BY <1>1, <1>3, <2>1, Busy, AnswersKeep, CallKeeps, UnchangedRows
       DEF RegisterUsername, Req
<1>4. CASE RegisterAdd(h)
  <2>1. Req(h) \in Requests /\ Req(h).op = "register"
    BY <1>4, Busy DEF RegisterAdd, Fits
  <2>2. RowsTypeOK'
    <3>1. [email |-> Req(h).email, password |-> Req(h).password,
           username |-> Req(h).username] \in Account
      BY <2>1, RequestsAreTyped DEF Account, RequestAssumption
    <3>2. QED
      BY <1>1, <1>4, <3>1, AppendRow DEF RegisterAdd, AddUsr, OnlyUsrlst, RowsTypeOK
  <2>3. QED
    BY <1>4, <2>2, AnswersKeep DEF RegisterAdd
<1>5. CASE LoginPassword(h)
  <2>1. "login:email" \in Places(h)
    BY <1>5, Busy DEF LoginPassword, Places, Fits, Labels
  <2>2. QED
    BY <1>1, <1>5, <2>1, Busy, AnswersKeep, CallKeeps, UnchangedRows
       DEF LoginPassword, Req
<1>6. CASE LoginEmail(h)
  <2>1. "login:byEmail" \in Places(h) /\ "login:byUsername" \in Places(h)
    BY <1>6, Busy DEF LoginEmail, Places, Fits, Labels
  <2>2. QED
    BY <1>1, <1>6, <2>1, Busy, AnswersKeep, CallKeeps, UnchangedRows
       DEF LoginEmail, Req
<1>7. CASE LoginByEmail(h)
  BY <1>1, <1>7, AnswersKeep, UnchangedRows DEF LoginByEmail
<1>8. CASE LoginByUsername(h)
  BY <1>1, <1>8, AnswersKeep, UnchangedRows DEF LoginByUsername
<1>9. CASE ChangeUsername(h)
  <2>1. Req(h) \in Requests /\ Req(h).op = "changeUsername"
    BY <1>9, Busy DEF ChangeUsername, Fits
  <2>2. RowsTypeOK'
    <3>1. Req(h).username \in Text
      BY <2>1, RequestsAreTyped DEF RequestAssumption
    <3>2. ASSUME NEW i \in DOMAIN usrlst  PROVE usrlst'[i] \in Account
      <4>1. usrlst[i] \in Account
        BY <1>1, RowOf DEF RowsTypeOK
      <4>2. QED
        BY <1>9, <3>1, <4>1 DEF ChangeUsername, Account
    <3>3. usrlst' \in Seq(Account)
      BY <1>1, <1>9, <3>2, ReplaceRows DEF ChangeUsername, RowsTypeOK
    <3>4. QED
      BY <1>1, <1>9, <3>3 DEF ChangeUsername, OnlyUsrlst, RowsTypeOK
  <2>3. QED
    BY <1>9, <2>2, AnswersKeep DEF ChangeUsername
<1>10. QED
  BY <1>2, <1>3, <1>4, <1>5, <1>6, <1>7, <1>8, <1>9 DEF AccountStep
-----------------------------------------------------------------------------
LEMMA NoFrameTyped == NoFrame \in Frame
BY DEF NoFrame, Frame

\* Launching a chain takes only connections nobody else waits on.
LEMMA LaunchKeeps ==
  ASSUME NEW h \in Slots, Typed, NEW req \in Requests, req.op \in {"create", "close"},
         Launch(h, req)
  PROVE  /\ MoveOf(h) /\ pc'[h] \in Labels /\ Serves(h)'
         /\ pc'[h] \in {"idle", "ddl", "orphans"}
<1> DEFINE launched == Launched(h, req.op)
<1>1. launched \subseteq Modules
  BY DEF Launched, Chain, Modules
<1>2. \A g \in Slots \ {h} : launched \cap calls[g] = {}
  <2>1. \A k \in DOMAIN Chain(req.op) : k \in k .. Len(Chain(req.op))
    BY DEF Chain
  <2>2. \A m \in launched : Available(h, m)
    BY <2>1 DEF Launched
  <2>3. QED
    BY <2>2 DEF Available
<1>3. [NoFrame EXCEPT !.req = req] \in Frame
  BY DEF NoFrame, Frame
<1>4. pc'[h] \in {"idle", "ddl", "orphans"} /\ calls'[h] = launched
  BY DEF Launch, Typed, HandlersTypeOK
<1>5. pc'[h] # "idle" => frame'[h].req = req
  <2>1. {Chain(req.op)[k] : k \in DOMAIN Chain(req.op)} # {}
    BY DEF Chain
  <2>2. pc'[h] # "idle" => launched # {}
    BY <2>1 DEF Launch, Typed, HandlersTypeOK
  <2>3. QED
    BY <2>2 DEF Launch, Typed, HandlersTypeOK, NoFrame
<1>6. MoveOf(h)
  <2>1. /\ pc' = [pc EXCEPT ![h] = pc'[h]]
        /\ calls' = [calls EXCEPT ![h] = launched]
    BY <1>4 DEF Launch, Typed, HandlersTypeOK
  <2>2. \E f \in Frame : frame' = [frame EXCEPT ![h] = f]
    BY <1>3, NoFrameTyped DEF Launch
  <2>3. failed' = failed /\ work' = work /\ DOMAIN failed = Slots /\ DOMAIN work = Slots
    BY DEF Launch, Typed
  <2>4. HandlersTypeOK
    BY DEF Typed
  <2>5. QED
    BY <1>1, <1>2, <2>1, <2>2, <2>3, <2>4 DEF HandlersTypeOK, MoveOf, ServerTyped
<1>7. QED
  BY <1>4, <1>5, <1>6 DEF Labels, Serves, Fits, Req

\* A statement that is over is one connection less.
LEMMA SettleKeeps ==
  ASSUME NEW h \in Slots, Typed, pc[h] \in {"ddl", "orphans"},
         NEW m, NEW fail, Settle(h, calls[h] \ {m}, fail)
  PROVE  /\ MoveOf(h) /\ pc'[h] \in Labels /\ Serves(h)'
         /\ pc'[h] \in {"idle", "ddl", "orphans"}
<1> DEFINE left == calls[h] \ {m}
<1>1. frame[h] \in Frame /\ Req(h) \in Requests /\ Req(h).op \in {"create", "close"}
  BY Busy
<1>2. pc'[h] \in {"idle", "ddl", "orphans"} /\ (left = {} => pc'[h] = "idle")
  BY DEF Settle, Typed, HandlersTypeOK
<1>3. left # {} => frame'[h] = frame[h]
  BY DEF Settle, Typed, HandlersTypeOK
<1>4. MoveOf(h)
  <2>1. /\ pc' = [pc EXCEPT ![h] = pc'[h]]
        /\ calls' = [calls EXCEPT ![h] = left]
    BY DEF Settle, Typed, HandlersTypeOK
  <2>2. \E f \in Frame : frame' = [frame EXCEPT ![h] = f]
    BY <1>1, NoFrameTyped DEF Settle
  <2>3. left \subseteq Modules /\ \A g \in Slots \ {h} : left \cap calls[g] = {}
    BY DEF Typed, HandlersTypeOK, Exclusive
  <2>4. /\ DOMAIN failed' = Slots /\ DOMAIN work' = Slots
        /\ \A g \in Slots \ {h} : failed'[g] = failed[g] /\ work'[g] = work[g]
    BY DEF Settle, Typed
  <2>5. HandlersTypeOK
    BY DEF Typed
  <2>6. QED
    BY <2>1, <2>2, <2>3, <2>4, <2>5 DEF HandlersTypeOK, MoveOf, ServerTyped
<1>5. QED
  BY <1>1, <1>2, <1>3, <1>4 DEF Labels, Serves, Fits, Req

LEMMA SchemaKeeps ==
  ASSUME NEW h \in Slots, Typed, SchemaStep(h)
  PROVE  Kept(h)
<1> USE DEF Reply, Kept
<1>1. RowsTypeOK /\ "User" \in Modules
  BY DEF Typed, Modules
<1>2. pc[h] \in {"create:table", "create:bob", "create:addBob", "create:joe"} =>
        /\ "create:bob" \in Places(h) /\ "create:addBob" \in Places(h)
        /\ "create:joe" \in Places(h) /\ "create:addJoe" \in Places(h)
  BY Busy DEF Places, Fits, Labels
<1>3. CASE CreateUsrlst(h)
  <2>1. RowsTypeOK'
    BY <1>1, <1>3 DEF CreateUsrlst, rows, RowsTypeOK
  <2>2. QED
    BY <1>1, <1>2, <1>3, <2>1, Busy, CallKeeps DEF CreateUsrlst, Req
<1>4. CASE CreateBob(h)
  BY <1>1, <1>2, <1>4, Busy, CallKeeps, UnchangedRows DEF CreateBob, Req
<1>5. CASE CreateAddBob(h)
  <2>1. [email |-> "bob", password |-> "Bob Bot", username |-> "Bob-bot"] \in Account
    BY RequestsAreTyped DEF Account, RequestAssumption
  <2>2. RowsTypeOK'
    BY <1>1, <1>5, <2>1, AppendRow DEF CreateAddBob, AddUsr, OnlyUsrlst, RowsTypeOK
  <2>3. QED
    BY <1>1, <1>2, <1>5, <2>2, Busy, CallKeeps DEF CreateAddBob, Req
<1>6. CASE CreateJoe(h)
  BY <1>1, <1>2, <1>6, Busy, CallKeeps, LaunchKeeps, UnchangedRows
     DEF CreateJoe, Req
<1>7. CASE CreateAddJoe(h)
  <2>1. [email |-> "joe", password |-> "Joe Bot", username |-> "Joe-bot"] \in Account
    BY RequestsAreTyped DEF Account, RequestAssumption
  <2>2. RowsTypeOK'
    BY <1>1, <1>7, <2>1, AppendRow DEF CreateAddJoe, AddUsr, OnlyUsrlst, RowsTypeOK
  <2>3. QED
    BY <1>7, <2>2, Busy, LaunchKeeps DEF CreateAddJoe
<1>8. ASSUME NEW m \in Modules, Migrate(h, m)
      PROVE  Kept(h)
  <2>1. RowsTypeOK'
    BY <1>1, <1>8 DEF Migrate, rows, RowsTypeOK
  <2>2. QED
    BY <1>8, <2>1, SettleKeeps DEF Migrate, Running
<1>9. ASSUME NEW m \in Modules, Rollback(h, m)
      PROVE  Kept(h)
  <2>1. RowsTypeOK'
    BY <1>1, <1>9 DEF Rollback, RowsTypeOK
  <2>2. QED
    BY <1>9, <2>1, SettleKeeps DEF Rollback, Running
<1>10. ASSUME NEW m \in Modules, LaunchedError(h, m)
       PROVE  Kept(h)
  BY <1>1, <1>10, SettleKeeps, UnchangedRows DEF LaunchedError, Running
<1>11. QED
  BY <1>3, <1>4, <1>5, <1>6, <1>7, <1>8, <1>9, <1>10 DEF SchemaStep
-----------------------------------------------------------------------------
LEMMA ContactKeeps ==
  ASSUME NEW h \in Slots, Typed, ContactStep(h)
  PROVE  Kept(h)
<1> USE DEF Reply, Kept
<1>1. RowsTypeOK /\ "User" \in Modules /\ "Contacts" \in Modules
  BY DEF Typed, Modules
<1>2. /\ pc[h] \in {"pair:user", "pair:contact"} =>
           "pair:contact" \in Places(h) /\ "pair:exists" \in Places(h)
      /\ pc[h] = "pair:exists" =>
           /\ Req(h).op = "addContact" => "addContact:insert" \in Places(h)
           /\ Req(h).op # "addContact" => "favorite:update" \in Places(h)
      /\ pc[h] \in {"getContacts:user", "getContacts:list", "getContacts:row"} =>
           "getContacts:list" \in Places(h) /\ "getContacts:row" \in Places(h)
  BY Busy DEF Places, Fits, Labels
<1>5. CASE PairUser(h)
  <2>1. ASSUME NEW id \in UsersWithEmail(Req(h).user),
               Call(h, "User", "pair:contact",
                    [frame[h] EXCEPT !.user = id], work[h])
        PROVE  MoveOf(h) /\ pc'[h] \in Labels /\ Serves(h)'
    BY <1>1, <1>2, <1>5, <2>1, Lookup, CallOnward DEF PairUser
  <2>2. QED
    BY <1>1, <1>5, <2>1, AnswersKeep, UnchangedRows DEF PairUser
<1>6. CASE PairContact(h)
  <2>1. ASSUME NEW id \in UsersWithEmail(Req(h).contact),
               Call(h, "Contacts", "pair:exists",
                    [frame[h] EXCEPT !.contact = id], work[h])
        PROVE  MoveOf(h) /\ pc'[h] \in Labels /\ Serves(h)'
    BY <1>1, <1>2, <1>6, <2>1, Lookup, CallOnward DEF PairContact
  <2>2. QED
    BY <1>1, <1>6, <2>1, AnswersKeep, UnchangedRows DEF PairContact
<1>7. CASE PairExists(h)
  BY <1>1, <1>2, <1>7, Busy, AnswersKeep, CallKeeps, UnchangedRows
     DEF PairExists, Req
<1>8. CASE AddContactInsert(h)
  <2>1. [userid |-> frame[h].user, contactid |-> frame[h].contact,
         favorite |-> FALSE] \in Contact
    BY <1>8, Busy DEF AddContactInsert, Frame, Contact
  <2>2. RowsTypeOK'
    BY <1>1, <1>8, <2>1, AppendRow
       DEF AddContactInsert, OnlyContactslst, RowsTypeOK
  <2>3. QED
    BY <1>8, <2>2, AnswersKeep DEF AddContactInsert
<1>9. CASE FavoriteUpdate(h)
  <2>1. ASSUME NEW i \in DOMAIN contactslst  PROVE contactslst'[i] \in Contact
    <3>1. contactslst[i] \in Contact
      BY <1>1, RowOf DEF RowsTypeOK
    <3>2. QED
      BY <1>9, <3>1 DEF FavoriteUpdate, Contact
  <2>2. contactslst' \in Seq(Contact)
    BY <1>1, <1>9, <2>1, ReplaceRows DEF FavoriteUpdate, RowsTypeOK
  <2>3. RowsTypeOK'
    BY <1>1, <1>9, <2>2 DEF FavoriteUpdate, OnlyContactslst, RowsTypeOK
  <2>4. QED
    BY <1>9, <2>3, AnswersKeep DEF FavoriteUpdate
<1>10. CASE GetContactsUser(h)
  <2>1. ASSUME NEW id \in UsersWithEmail(Req(h).email),
               Call(h, "Contacts", "getContacts:list",
                    [frame[h] EXCEPT !.user = id], work[h])
        PROVE  MoveOf(h) /\ pc'[h] \in Labels /\ Serves(h)'
    BY <1>1, <1>2, <1>10, <2>1, Lookup, CallOnward DEF GetContactsUser
  <2>2. QED
    BY <1>1, <1>10, <2>1, AnswersKeep, UnchangedRows DEF GetContactsUser
<1>11. ASSUME NEW todo, NEW out, pc[h] \in {"getContacts:list", "getContacts:row"},
              ContactsHelper(h, todo, out)
       PROVE  MoveOf(h) /\ pc'[h] \in Labels /\ Serves(h)'
  BY <1>1, <1>2, <1>11, Busy, AnswersKeep, CallKeeps DEF ContactsHelper, Req
<1>12. CASE GetContactsList(h)
  BY <1>1, <1>11, <1>12, UnchangedRows DEF GetContactsList
<1>13. CASE GetContactsRow(h)
  BY <1>1, <1>11, <1>13, AnswersKeep, UnchangedRows DEF GetContactsRow
<1>14. QED
  BY <1>5, <1>6, <1>7, <1>8, <1>9, <1>10, <1>12, <1>13 DEF ContactStep
-----------------------------------------------------------------------------
LEMMA ConversationKeeps ==
  ASSUME NEW h \in Slots, Typed, ConversationStep(h)
  PROVE  Kept(h)
<1> USE DEF Reply, Kept
<1>1. /\ RowsTypeOK
      /\ {"User", "Contacts", "Conversations", "UserConversation"} \subseteq Modules
  BY DEF Typed, Modules
<1>2. /\ pc[h] \in {"makeConversation:insert", "makeConversation:id",
                     "makeConversation:join", "makeConversation:contact",
                     "makeConversation:check", "makeConversation:member"} =>
           {"makeConversation:id", "makeConversation:join", "makeConversation:contact",
            "makeConversation:check", "makeConversation:member"} \subseteq Places(h)
      /\ pc[h] \in {"getConversations:user", "getConversations:list",
                     "getConversations:users", "getConversations:row"} =>
           {"getConversations:list", "getConversations:users",
            "getConversations:row"} \subseteq Places(h)
      /\ "makeConversation:insert" \in Labels
  BY Busy DEF Places, Fits, Labels
<1>3. CASE MakeConversationCreator(h)
  <2>1. Fits("makeConversation:insert", Req(h))
    BY <1>3, Busy DEF MakeConversationCreator, Fits
  <2>2. ASSUME NEW id \in UsersWithEmail(Req(h).creator),
               Call(h, "Conversations", "makeConversation:insert",
                    [frame[h] EXCEPT !.user = id], work[h])
        PROVE  MoveOf(h) /\ pc'[h] \in Labels /\ Serves(h)'
    BY <1>1, <1>2, <1>3, <2>1, <2>2, Lookup, CallOn DEF MakeConversationCreator
  <2>3. QED
    BY <1>1, <1>3, <2>2, AnswersKeep, UnchangedRows DEF MakeConversationCreator
<1>4. CASE MakeConversationInsert(h)
  <2>1. Req(h) \in Requests /\ Req(h).op = "makeConversation"
    BY <1>4, Busy DEF MakeConversationInsert, Fits
  <2>2. [convo_name |-> Req(h).name, creator_name |-> Req(h).creator] \in Conversation
    BY <2>1, RequestsAreTyped DEF Conversation, RequestAssumption
  <2>3. RowsTypeOK'
    BY <1>1, <1>4, <2>2, AppendRow
       DEF MakeConversationInsert, OnlyConvolst, RowsTypeOK
  <2>4. QED
    BY <1>1, <1>2, <1>4, <2>3, Busy, CallOnward DEF MakeConversationInsert, Req
<1>5. CASE MakeConversationId(h)
  <2>1. /\ [frame[h] EXCEPT !.convo = Len(convolst)] \in Frame
        /\ [frame[h] EXCEPT !.convo = Len(convolst)].req = Req(h)
    <3>1. Len(convolst) \in Nat
      BY <1>1 DEF RowsTypeOK
    <3>2. QED
      BY <1>5, <3>1, Busy DEF MakeConversationId, Frame, Req
  <2>2. QED
    BY <1>1, <1>2, <1>5, <2>1, AnswersKeep, CallOnward, UnchangedRows
       DEF MakeConversationId
<1>6. ASSUME NEW todo, pc[h] \in {"makeConversation:join", "makeConversation:member"},
             GenUserConvos(h, todo)
      PROVE  MoveOf(h) /\ pc'[h] \in Labels /\ Serves(h)'
  BY <1>1, <1>2, <1>6, Busy, AnswersKeep, CallOnward DEF GenUserConvos, Req
<1>7. ASSUME NEW user \in Nat, pc[h] # "idle",
             InsertMember(frame[h].convo, user), OnlyUserconvolst
      PROVE  RowsTypeOK'
  <2>1. [conversation_id |-> frame[h].convo, users_id |-> user] \in Membership
    BY <1>7, Busy DEF Frame, Membership
  <2>2. QED
    BY <1>1, <1>7, <2>1, AppendRow DEF InsertMember, OnlyUserconvolst, RowsTypeOK
<1>8. ASSUME pc[h] # "idle"  PROVE frame[h].user \in Nat /\ frame[h].contact \in Nat
  BY <1>8, Busy DEF Frame
<1>9. CASE MakeConversationJoin(h)
  BY <1>6, <1>7, <1>8, <1>9, AnswersKeep DEF MakeConversationJoin
<1>10. CASE MakeConversationContact(h)
  <2>1. ASSUME NEW id \in UsersWithEmail(Head(work[h].todo).email),
               Call(h, "Contacts", "makeConversation:check",
                    [frame[h] EXCEPT !.contact = id], work[h])
        PROVE  MoveOf(h) /\ pc'[h] \in Labels /\ Serves(h)'
    BY <1>1, <1>2, <1>10, <2>1, Lookup, CallOnward DEF MakeConversationContact
  <2>2. QED
    BY <1>1, <1>10, <2>1, AnswersKeep, UnchangedRows DEF MakeConversationContact
<1>11. CASE MakeConversationCheck(h)
  BY <1>1, <1>2, <1>11, Busy, AnswersKeep, CallOnward, UnchangedRows
     DEF MakeConversationCheck, Req
<1>12. CASE MakeConversationMember(h)
  BY <1>6, <1>7, <1>8, <1>12 DEF MakeConversationMember
<1>13. CASE GetConversationsUser(h)
  <2>1. ASSUME NEW id \in UsersWithEmail(Req(h).email),
               Call(h, "UserConversation", "getConversations:list",
                    [frame[h] EXCEPT !.user = id], work[h])
        PROVE  MoveOf(h) /\ pc'[h] \in Labels /\ Serves(h)'
    BY <1>1, <1>2, <1>13, <2>1, Lookup, CallOnward DEF GetConversationsUser
  <2>2. QED
    BY <1>1, <1>13, <2>1, AnswersKeep, UnchangedRows DEF GetConversationsUser
<1>14. ASSUME NEW todo, NEW out,
              pc[h] \in {"getConversations:list", "getConversations:row"},
              ConvoHelper(h, todo, out)
       PROVE  MoveOf(h) /\ pc'[h] \in Labels /\ Serves(h)'
  BY <1>1, <1>2, <1>14, Busy, AnswersKeep, CallOnward DEF ConvoHelper, Req
<1>15. CASE GetConversationsList(h)
  BY <1>1, <1>14, <1>15, UnchangedRows DEF GetConversationsList
<1>16. CASE GetConversationsUsers(h)
  BY <1>1, <1>2, <1>16, Busy, CallOnward, UnchangedRows DEF GetConversationsUsers, Req
<1>17. CASE GetConversationsRow(h)
  BY <1>1, <1>14, <1>17, AnswersKeep, UnchangedRows DEF GetConversationsRow
<1>18. QED
  BY <1>3, <1>4, <1>5, <1>9, <1>10, <1>11, <1>12, <1>13, <1>15, <1>16, <1>17
     DEF ConversationStep

LEMMA MessageKeeps ==
  ASSUME NEW h \in Slots, Typed, MessageStep(h)
  PROVE  Kept(h)
<1> USE DEF Reply, Kept
<1>1. RowsTypeOK /\ "User" \in Modules /\ "Storage" \in Modules
  BY DEF Typed, Modules
<1>2. /\ pc[h] \in {"getMessages:list", "getMessages:row"} =>
           "getMessages:row" \in Places(h)
      /\ {"postMessage:user", "postMessage:bob", "postMessage:joe"} \subseteq Labels
  BY Busy DEF Places, Fits, Labels
<1>3. ASSUME pc[h] \in {"postMessage:sender", "postMessage:user", "postMessage:bob",
                        "postMessage:joe"}
      PROVE  /\ Fits("postMessage:user", Req(h)) /\ Fits("postMessage:bob", Req(h))
             /\ Fits("postMessage:joe", Req(h))
             /\ Req(h) \in Requests /\ Req(h).convo \in Nat /\ Req(h).msg \in Text
  BY <1>3, Busy, RequestsAreTyped DEF Fits, RequestAssumption
<1>4. CASE PostMessageSender(h)
  <2>1. ASSUME NEW id \in UsersWithEmail(Req(h).sender),
               Call(h, "Storage", "postMessage:user",
                    [frame[h] EXCEPT !.user = id], work[h])
        PROVE  MoveOf(h) /\ pc'[h] \in Labels /\ Serves(h)'
    BY <1>1, <1>2, <1>3, <1>4, <2>1, Lookup, CallOn DEF PostMessageSender
  <2>2. QED
    BY <1>1, <1>4, <2>1, AnswersKeep, UnchangedRows DEF PostMessageSender
<1>5. ASSUME NEW id \in Nat, NEW by \in {"user", "bob", "joe"},
             pc[h] \in {"postMessage:user", "postMessage:bob", "postMessage:joe"},
             AddMsg(id, Req(h).convo, by, Req(h).msg), OnlyMsglst
      PROVE  RowsTypeOK'
  <2>1. [senderid |-> id, convoid |-> Req(h).convo,
         msg |-> [by |-> by, text |-> Req(h).msg]] \in StoredMessage
    BY <1>3, <1>5 DEF StoredMessage, Message
  <2>2. QED
    BY <1>1, <1>5, <2>1, AppendRow DEF AddMsg, OnlyMsglst, RowsTypeOK
<1>6. ASSUME pc[h] \in {"postMessage:user", "postMessage:bob"}, JoeTurn(h)
      PROVE  MoveOf(h) /\ pc'[h] \in Labels /\ Serves(h)'
  BY <1>1, <1>2, <1>3, <1>6, Busy, AnswersKeep, CallKeeps DEF JoeTurn, Req
<1>7. CASE PostMessageUser(h)
  <2>1. frame[h].user \in Nat
    BY <1>7, Busy DEF PostMessageUser, Frame
  <2>2. RowsTypeOK'
    BY <1>5, <1>7, <2>1 DEF PostMessageUser
  <2>3. QED
    BY <1>1, <1>2, <1>3, <1>6, <1>7, <2>2, Busy, AnswersKeep, CallKeeps
       DEF PostMessageUser, Req
<1>8. CASE PostMessageBob(h)
  BY <1>5, <1>6, <1>8 DEF PostMessageBob, BobId
<1>9. CASE PostMessageJoe(h)
  BY <1>5, <1>9, AnswersKeep DEF PostMessageJoe, JoeId
<1>10. ASSUME NEW todo, NEW out, pc[h] \in {"getMessages:list", "getMessages:row"},
              InterpretMsglist(h, todo, out)
       PROVE  MoveOf(h) /\ pc'[h] \in Labels /\ Serves(h)'
  BY <1>1, <1>2, <1>10, Busy, AnswersKeep, CallOnward DEF InterpretMsglist, Req
<1>11. CASE GetMessagesList(h)
  BY <1>1, <1>10, <1>11, UnchangedRows DEF GetMessagesList
<1>12. CASE GetMessagesRow(h)
  BY <1>1, <1>10, <1>12, AnswersKeep, UnchangedRows DEF GetMessagesRow
<1>13. QED
  BY <1>4, <1>7, <1>8, <1>9, <1>11, <1>12 DEF MessageStep
-----------------------------------------------------------------------------
LEMMA ReceiveKeeps ==
  ASSUME NEW h \in Slots, Typed, NEW req \in Requests, Receive(h, req)
  PROVE  Kept(h)
<1>1. RowsTypeOK'
  BY UnchangedRows DEF Receive, Typed
<1>2. CASE req.op = "close"
  BY <1>1, <1>2, LaunchKeeps DEF Receive, Kept
<1>3. CASE req.op # "close"
  <2>1. req.op \in DOMAIN FirstCall
    BY <1>3, RequestsAreTyped DEF RequestAssumption
  <2>2. /\ FirstCall[req.op][1] \in Modules
        /\ FirstCall[req.op][2] \in Labels
        /\ Fits(FirstCall[req.op][2], req)
    <3>1. FirstCall[req.op][1] \in Modules
      BY <2>1 DEF FirstCall, Modules
    <3>2. FirstCall[req.op][2] \in Labels
      BY <2>1 DEF FirstCall, Labels
    <3>3. Fits(FirstCall[req.op][2], req)
      BY <2>1 DEF FirstCall, Fits
    <3>4. QED
      BY <3>1, <3>2, <3>3
  <2>3. [NoFrame EXCEPT !.req = req] \in Frame /\ [NoFrame EXCEPT !.req = req].req = req
    BY DEF NoFrame, Frame
  <2>4. QED
    BY <1>1, <1>3, <2>2, <2>3, CallKeeps DEF Receive, Kept
<1>4. QED
  BY <1>2, <1>3

LEMMA StepKeeps ==
  ASSUME NEW h \in Slots, Typed, Step(h)
  PROVE  Kept(h)
<1>1. ASSUME StatementError(h)  PROVE Kept(h)
  BY <1>1, AnswersKeep, UnchangedRows DEF StatementError, Kept, Typed
<1>2. QED
  BY <1>1, AccountKeeps, SchemaKeeps, ContactKeeps, ConversationKeeps, MessageKeeps
     DEF Step

LEMMA RestartTyped ==
  ASSUME Typed, Restart
  PROVE  Typed'
<1>1. RowsTypeOK'
  BY UnchangedRows DEF Restart, Typed
<1>2. HandlersTypeOK' /\ DOMAIN failed' = Slots /\ DOMAIN work' = Slots
  BY NoFrameTyped DEF Restart, HandlersTypeOK, Labels
<1>3. Exclusive' /\ \A h \in Slots : Serves(h)'
  BY DEF Restart, Exclusive, Serves, Fits
<1>4. QED
  BY <1>1, <1>2, <1>3 DEF Typed

LEMMA InitTyped == Init => Typed
<1> SUFFICES ASSUME Init  PROVE Typed
  OBVIOUS
<1>1. RowsTypeOK
  BY InitAssumption DEF Init, RowsTypeOK
<1>2. HandlersTypeOK /\ DOMAIN failed = Slots /\ DOMAIN work = Slots
  BY NoFrameTyped DEF Init, HandlersTypeOK, Labels
<1>3. Exclusive /\ \A h \in Slots : Serves(h)
  BY DEF Init, Exclusive, Serves, Fits
<1>4. QED
  BY <1>1, <1>2, <1>3 DEF Typed

LEMMA NextTyped == Typed /\ [Next]_vars => Typed'
<1> SUFFICES ASSUME Typed, [Next]_vars  PROVE Typed'
  OBVIOUS
<1>1. ASSUME NEW h \in Slots, NEW req \in Requests, Receive(h, req)  PROVE Typed'
  BY <1>1, ReceiveKeeps, KeptTyped
<1>2. ASSUME NEW h \in Slots, Step(h)  PROVE Typed'
  BY <1>2, StepKeeps, KeptTyped
<1>3. CASE Restart
  BY <1>3, RestartTyped
<1>4. CASE UNCHANGED vars
  BY <1>4 DEF vars, db, rows, server, Typed, RowsTypeOK, HandlersTypeOK, Exclusive,
              Serves, Fits, Req
<1>5. QED
  BY <1>1, <1>2, <1>3, <1>4 DEF Next

LEMMA AlwaysTyped == Spec => []Typed
BY InitTyped, NextTyped, PTL DEF Spec

-----------------------------------------------------------------------------
(***************************************************************************)
(* Where the handlers of each component go, and the tables they leave      *)
(* alone.                                                                  *)
(***************************************************************************)
LEMMA AnswerPc ==
  ASSUME NEW h \in Slots, Typed, NEW req, NEW status, NEW text, NEW data,
         Answer(h, req, status, text, data)
  PROVE  pc'[h] = "idle"
BY DEF Answer, Typed, HandlersTypeOK

\* The same of every form an answer takes
LEMMA AnswersPc ==
  ASSUME NEW h \in Slots, Typed
  PROVE  /\ \A req : Fail(h, req) => pc'[h] = "idle"
         /\ \A text : RespondText(h, text) => pc'[h] = "idle"
         /\ \A data : RespondJson(h, data) => pc'[h] = "idle"
BY AnswerPc DEF Fail, RespondText, RespondJson

LEMMA CallPc ==
  ASSUME NEW h \in Slots, Typed, NEW m, NEW label, NEW f, NEW w,
         Call(h, m, label, f, w)
  PROVE  pc'[h] = label \/ pc'[h] = "idle"
BY AnswersPc DEF Call, Typed, HandlersTypeOK

LEMMA AccountLeads ==
  ASSUME NEW h \in Slots, Typed, AccountStep(h)
  PROVE  /\ UNCHANGED <<contactslst, convolst, userconvolst, msglst, tables>>
         /\ pc'[h] \in {"idle", "register:username", "register:add", "login:email",
                       "login:byEmail", "login:byUsername"}
<1> USE AnswersPc, CallPc DEF Reply, db, rows
<1>1. CASE RegisterEmail(h)
  BY <1>1 DEF RegisterEmail
<1>2. CASE RegisterUsername(h)
  BY <1>2 DEF RegisterUsername
<1>3. CASE RegisterAdd(h)
  BY <1>3 DEF RegisterAdd, OnlyUsrlst
<1>4. CASE LoginPassword(h)
  BY <1>4 DEF LoginPassword
<1>5. CASE LoginEmail(h)
  BY <1>5 DEF LoginEmail
<1>6. CASE LoginByEmail(h)
  BY <1>6 DEF LoginByEmail
<1>7. CASE LoginByUsername(h)
  BY <1>7 DEF LoginByUsername
<1>8. CASE ChangeUsername(h)
  BY <1>8 DEF ChangeUsername, OnlyUsrlst
<1>9. QED
  BY <1>1, <1>2, <1>3, <1>4, <1>5, <1>6, <1>7, <1>8 DEF AccountStep

LEMMA ContactLeads ==
  ASSUME NEW h \in Slots, Typed, ContactStep(h)
  PROVE  /\ UNCHANGED <<usrlst, convolst, userconvolst, msglst, tables>>
         /\ pc'[h] \in {"idle", "pair:contact", "pair:exists", "addContact:insert",
                       "favorite:update", "getContacts:list", "getContacts:row"}
<1> USE AnswersPc, CallPc DEF Reply, db, rows
<1>1. CASE PairUser(h)
  BY <1>1 DEF PairUser
<1>2. CASE PairContact(h)
  BY <1>2 DEF PairContact
<1>3. CASE PairExists(h)
  BY <1>3 DEF PairExists
<1>4. CASE AddContactInsert(h)
  BY <1>4 DEF AddContactInsert, OnlyContactslst
<1>5. CASE FavoriteUpdate(h)
  BY <1>5 DEF FavoriteUpdate, OnlyContactslst
<1>6. CASE GetContactsUser(h)
  BY <1>6 DEF GetContactsUser
<1>7. CASE GetContactsList(h)
  BY <1>7 DEF GetContactsList, ContactsHelper
<1>8. CASE GetContactsRow(h)
  BY <1>8 DEF GetContactsRow, ContactsHelper
<1>9. QED
  BY <1>1, <1>2, <1>3, <1>4, <1>5, <1>6, <1>7, <1>8 DEF ContactStep

LEMMA ConversationLeads ==
  ASSUME NEW h \in Slots, Typed, ConversationStep(h)
  PROVE  /\ UNCHANGED <<usrlst, contactslst, msglst, tables>>
         /\ pc'[h] \in {"idle", "makeConversation:insert", "makeConversation:id",
                       "makeConversation:join", "makeConversation:contact",
                       "makeConversation:check", "makeConversation:member",
                       "getConversations:list", "getConversations:users",
                       "getConversations:row"}
<1> USE AnswersPc, CallPc DEF Reply, db, rows
<1>1. CASE MakeConversationCreator(h)
  BY <1>1 DEF MakeConversationCreator
<1>2. CASE MakeConversationInsert(h)
  BY <1>2 DEF MakeConversationInsert, OnlyConvolst
<1>3. CASE MakeConversationId(h)
  BY <1>3 DEF MakeConversationId
<1>4. CASE MakeConversationJoin(h)
  BY <1>4 DEF MakeConversationJoin, GenUserConvos, OnlyUserconvolst
<1>5. CASE MakeConversationContact(h)
  BY <1>5 DEF MakeConversationContact
<1>6. CASE MakeConversationCheck(h)
  BY <1>6 DEF MakeConversationCheck
<1>7. CASE MakeConversationMember(h)
  BY <1>7 DEF MakeConversationMember, GenUserConvos, OnlyUserconvolst
<1>8. CASE GetConversationsUser(h)
  BY <1>8 DEF GetConversationsUser
<1>9. CASE GetConversationsList(h)
  BY <1>9 DEF GetConversationsList, ConvoHelper
<1>10. CASE GetConversationsUsers(h)
  BY <1>10 DEF GetConversationsUsers
<1>11. CASE GetConversationsRow(h)
  BY <1>11 DEF GetConversationsRow, ConvoHelper
<1>12. QED
  BY <1>1, <1>2, <1>3, <1>4, <1>5, <1>6, <1>7, <1>8, <1>9, <1>10, <1>11 DEF ConversationStep

LEMMA MessageLeads ==
  ASSUME NEW h \in Slots, Typed, MessageStep(h)
  PROVE  /\ UNCHANGED <<usrlst, contactslst, convolst, userconvolst, tables>>
         /\ pc'[h] \in {"idle", "postMessage:user", "postMessage:bob", "postMessage:joe",
                       "getMessages:row"}
<1> USE AnswersPc, CallPc DEF Reply, db, rows
<1>1. CASE PostMessageSender(h)
  BY <1>1 DEF PostMessageSender
<1>2. CASE PostMessageUser(h)
  BY <1>2 DEF PostMessageUser, JoeTurn, OnlyMsglst
<1>3. CASE PostMessageBob(h)
  BY <1>3 DEF PostMessageBob, JoeTurn, OnlyMsglst
<1>4. CASE PostMessageJoe(h)
  BY <1>4 DEF PostMessageJoe, OnlyMsglst
<1>5. CASE GetMessagesList(h)
  BY <1>5 DEF GetMessagesList, InterpretMsglist
<1>6. CASE GetMessagesRow(h)
  BY <1>6 DEF GetMessagesRow, InterpretMsglist
<1>7. QED
  BY <1>1, <1>2, <1>3, <1>4, <1>5, <1>6 DEF MessageStep

LEMMA SchemaLeads ==
  ASSUME NEW h \in Slots, Typed, SchemaStep(h)
  PROVE  pc'[h] \in {"idle", "ddl", "orphans", "create:bob", "create:addBob",
                     "create:joe", "create:addJoe"}
<1>1. CASE CreateUsrlst(h) \/ CreateBob(h) \/ CreateAddBob(h)
  BY <1>1, CallPc DEF CreateUsrlst, CreateBob, CreateAddBob
<1>2. CASE CreateJoe(h) \/ CreateAddJoe(h)
  BY <1>2, Busy, CallPc, LaunchKeeps DEF CreateJoe, CreateAddJoe, Reply
<1>3. ASSUME NEW m \in Modules, Migrate(h, m) \/ Rollback(h, m) \/ LaunchedError(h, m)
      PROVE  pc'[h] \in {"idle", "ddl", "orphans"}
  BY <1>3, SettleKeeps DEF Migrate, Rollback, LaunchedError, Running
<1>4. QED
  BY <1>1, <1>2, <1>3 DEF SchemaStep

LEMMA ReceiveLeads ==
  ASSUME NEW h \in Slots, Typed, NEW req \in Requests, Receive(h, req)
  PROVE  /\ UNCHANGED <<usrlst, contactslst, convolst, userconvolst, msglst, tables>>
         /\ pc'[h] \in {"idle", "ddl", "orphans", "create:table", "register:email",
                       "login:password", "changeUsername:update", "pair:user",
                       "getContacts:user", "makeConversation:creator",
                       "getConversations:user", "postMessage:sender",
                       "getMessages:list"}
<1>1. UNCHANGED <<usrlst, contactslst, convolst, userconvolst, msglst, tables>>
  BY DEF Receive, db, rows
<1>2. CASE req.op = "close"
  BY <1>1, <1>2, LaunchKeeps DEF Receive
<1>3. CASE req.op # "close"
  <2>1. req.op \in DOMAIN FirstCall
    BY <1>3, RequestsAreTyped DEF RequestAssumption
  <2>2. pc'[h] = FirstCall[req.op][2] \/ pc'[h] = "idle"
    BY <1>3, CallPc DEF Receive
  <2>3. QED
    BY <1>1, <2>1, <2>2 DEF FirstCall
<1>4. QED
  BY <1>2, <1>3

LEMMA ErrorLeads ==
  ASSUME NEW h \in Slots, Typed, StatementError(h)
  PROVE  /\ UNCHANGED <<usrlst, contactslst, convolst, userconvolst, msglst, tables>>
         /\ pc'[h] = "idle"
BY AnswersPc DEF StatementError, db, rows
-----------------------------------------------------------------------------
(***************************************************************************)
(* Who answers, and to which request.                                      *)
(***************************************************************************)
\* A step of h that answers 200 answers the request h serves; any other says
\* nothing.
Tells(h) ==
  /\ response'.status \in {0, 200, 500}
  /\ response'.status = 200 => pc[h] # "idle" /\ response'.req = Req(h)
  /\ response'.status # 200 => response'.text = Empty /\ response'.data = << >>

LEMMA AnswersTell ==
  ASSUME NEW h \in Slots, pc[h] # "idle"
  PROVE  /\ \A req : Fail(h, req) => Tells(h)
         /\ \A text : RespondText(h, text) => Tells(h)
         /\ \A data : RespondJson(h, data) => Tells(h)
BY DEF Fail, RespondText, RespondJson, Answer, Tells

\* A call answers nothing but a refusal.
LEMMA CallTells ==
  ASSUME NEW h \in Slots, NEW m, NEW label, NEW f, NEW w, Call(h, m, label, f, w)
  PROVE  Tells(h) /\ response'.status # 200
BY DEF Call, Silent, Fail, Answer, Tells

LEMMA LaunchTells ==
  ASSUME NEW h \in Slots, NEW req, Launch(h, req)
  PROVE  Tells(h) /\ response'.status # 200
BY DEF Launch, Silent, Tells

LEMMA SettleTells ==
  ASSUME NEW h \in Slots, pc[h] # "idle", NEW left, NEW fail, Settle(h, left, fail)
  PROVE  Tells(h)
BY DEF Settle, Silent, Tells

LEMMA AccountTells ==
  ASSUME NEW h \in Slots, AccountStep(h)
  PROVE  Tells(h)
<1> USE AnswersTell, CallTells DEF Reply
<1>1. CASE RegisterEmail(h)
  BY <1>1 DEF RegisterEmail
<1>2. CASE RegisterUsername(h)
  BY <1>2 DEF RegisterUsername
<1>3. CASE RegisterAdd(h)
  BY <1>3 DEF RegisterAdd
<1>4. CASE LoginPassword(h)
  BY <1>4 DEF LoginPassword
<1>5. CASE LoginEmail(h)
  BY <1>5 DEF LoginEmail
<1>6. CASE LoginByEmail(h)
  BY <1>6 DEF LoginByEmail
<1>7. CASE LoginByUsername(h)
  BY <1>7 DEF LoginByUsername
<1>8. CASE ChangeUsername(h)
  BY <1>8 DEF ChangeUsername
<1>9. QED
  BY <1>1, <1>2, <1>3, <1>4, <1>5, <1>6, <1>7, <1>8 DEF AccountStep

LEMMA SchemaTells ==
  ASSUME NEW h \in Slots, SchemaStep(h)
  PROVE  /\ Tells(h)
         /\ response'.status = 200 => pc[h] = "ddl"
<1> USE CallTells, LaunchTells DEF Reply
<1>1. CASE CreateUsrlst(h)
  BY <1>1 DEF CreateUsrlst
<1>2. CASE CreateBob(h)
  BY <1>2 DEF CreateBob
<1>3. CASE CreateAddBob(h)
  <2>1. Call(h, "User", "create:joe", frame[h], work[h])
    BY <1>3 DEF CreateAddBob
  <2>2. QED
    BY <2>1
<1>4. CASE CreateJoe(h)
  BY <1>4 DEF CreateJoe
<1>5. CASE CreateAddJoe(h)
  <2>1. Launch(h, Req(h))
    BY <1>5 DEF CreateAddJoe
  <2>2. Tells(h) /\ response'.status # 200
    BY <2>1
  <2>3. QED
    BY <2>2
<1>6. ASSUME NEW left, NEW fail, Settle(h, left, fail)
      PROVE  response'.status = 200 => pc[h] = "ddl"
  BY <1>6 DEF Settle, Silent
<1>7. ASSUME NEW m \in Modules, Migrate(h, m) \/ Rollback(h, m) \/ LaunchedError(h, m)
      PROVE  Tells(h) /\ (response'.status = 200 => pc[h] = "ddl")
  BY <1>6, <1>7, SettleTells DEF Migrate, Rollback, LaunchedError, Running
<1>8. QED
  BY <1>1, <1>2, <1>3, <1>4, <1>5, <1>7 DEF SchemaStep

LEMMA ContactTells ==
  ASSUME NEW h \in Slots, ContactStep(h)
  PROVE  Tells(h)
<1> USE AnswersTell, CallTells DEF Reply
<1>1. CASE PairUser(h)
  BY <1>1 DEF PairUser
<1>2. CASE PairContact(h)
  BY <1>2 DEF PairContact
<1>3. CASE PairExists(h)
  BY <1>3 DEF PairExists
<1>4. CASE AddContactInsert(h)
  BY <1>4 DEF AddContactInsert
<1>5. CASE FavoriteUpdate(h)
  BY <1>5 DEF FavoriteUpdate
<1>6. CASE GetContactsUser(h)
  BY <1>6 DEF GetContactsUser
<1>7. CASE GetContactsList(h)
  BY <1>7 DEF GetContactsList, ContactsHelper
<1>8. CASE GetContactsRow(h)
  BY <1>8 DEF GetContactsRow, ContactsHelper
<1>9. QED
  BY <1>1, <1>2, <1>3, <1>4, <1>5, <1>6, <1>7, <1>8 DEF ContactStep

LEMMA ConversationTells ==
  ASSUME NEW h \in Slots, ConversationStep(h)
  PROVE  Tells(h)
<1> USE AnswersTell, CallTells DEF Reply
<1>1. CASE MakeConversationCreator(h)
  BY <1>1 DEF MakeConversationCreator
<1>2. CASE MakeConversationInsert(h)
  BY <1>2 DEF MakeConversationInsert
<1>3. CASE MakeConversationId(h)
  BY <1>3 DEF MakeConversationId
<1>4. CASE MakeConversationJoin(h)
  BY <1>4 DEF MakeConversationJoin, GenUserConvos
<1>5. CASE MakeConversationContact(h)
  BY <1>5 DEF MakeConversationContact
<1>6. CASE MakeConversationCheck(h)
  BY <1>6 DEF MakeConversationCheck
<1>7. CASE MakeConversationMember(h)
  BY <1>7 DEF MakeConversationMember, GenUserConvos
<1>8. CASE GetConversationsUser(h)
  BY <1>8 DEF GetConversationsUser
<1>9. CASE GetConversationsList(h)
  BY <1>9 DEF GetConversationsList, ConvoHelper
<1>10. CASE GetConversationsUsers(h)
  BY <1>10 DEF GetConversationsUsers
<1>11. CASE GetConversationsRow(h)
  BY <1>11 DEF GetConversationsRow, ConvoHelper
<1>12. QED
  BY <1>1, <1>2, <1>3, <1>4, <1>5, <1>6, <1>7, <1>8, <1>9, <1>10, <1>11
     DEF ConversationStep

LEMMA MessageTells ==
  ASSUME NEW h \in Slots, MessageStep(h)
  PROVE  Tells(h)
<1> USE AnswersTell, CallTells DEF Reply
<1>1. CASE PostMessageSender(h)
  BY <1>1 DEF PostMessageSender
<1>2. CASE PostMessageUser(h)
  BY <1>2 DEF PostMessageUser, JoeTurn
<1>3. CASE PostMessageBob(h)
  BY <1>3 DEF PostMessageBob, JoeTurn
<1>4. CASE PostMessageJoe(h)
  BY <1>4 DEF PostMessageJoe
<1>5. CASE GetMessagesList(h)
  BY <1>5 DEF GetMessagesList, InterpretMsglist
<1>6. CASE GetMessagesRow(h)
  BY <1>6 DEF GetMessagesRow, InterpretMsglist
<1>7. QED
  BY <1>1, <1>2, <1>3, <1>4, <1>5, <1>6 DEF MessageStep

\* Every answer but a refusal or an error ends a handler's last step.
LEMMA NextTells ==
  ASSUME Next
  PROVE  /\ response'.status # 200 => response'.text = Empty /\ response'.data = << >>
         /\ response'.status = 200 =>
              \E h \in Slots : /\ Step(h) /\ ~StatementError(h)
                              /\ pc[h] # "idle" /\ response'.req = Req(h)
<1>1. ASSUME NEW h \in Slots, NEW req \in Requests, Receive(h, req)
      PROVE  Tells(h) /\ response'.status # 200
  BY <1>1, CallTells, LaunchTells DEF Receive
<1>2. ASSUME NEW h \in Slots, StatementError(h)
      PROVE  Tells(h) /\ response'.status # 200
  <2>1. Fail(h, Req(h)) /\ pc[h] # "idle"
    BY <1>2 DEF StatementError
  <2>2. response'.status = 500
    BY <2>1 DEF Fail, Answer
  <2>3. QED
    BY <2>1, <2>2, AnswersTell
<1>3. ASSUME NEW h \in Slots, Step(h)
      PROVE  Tells(h)
  BY <1>2, <1>3, AccountTells, SchemaTells, ContactTells, ConversationTells,
     MessageTells DEF Step
<1>4. CASE Restart
  BY <1>4 DEF Restart, Silent
<1>5. QED
  BY <1>1, <1>2, <1>3, <1>4 DEF Next, Tells

\* The handler that answers a request waits at one of the request's places.
LEMMA Waiting ==
  ASSUME NEW h \in Slots, Typed, pc[h] # "idle"
  PROVE  /\ Req(h).op = "register" =>
              pc[h] \in {"register:email", "register:username", "register:add"}
         /\ Req(h).op \in {"create", "close"} =>
              pc[h] \in {"ddl", "orphans", "create:table", "create:bob",
                         "create:addBob", "create:joe", "create:addJoe"}
         /\ Req(h).op = "close" => pc[h] \in {"ddl", "orphans"}
         /\ Req(h).op = "makeConversation" =>
              pc[h] \in {"makeConversation:creator", "makeConversation:insert",
                         "makeConversation:id", "makeConversation:join",
                         "makeConversation:contact", "makeConversation:check",
                         "makeConversation:member"}
         /\ Req(h).op = "postMessage" =>
              pc[h] \in {"postMessage:sender", "postMessage:user",
                         "postMessage:bob", "postMessage:joe"}
         /\ Req(h).op = "getMessages" =>
              pc[h] \in {"getMessages:list", "getMessages:row"}
<1>1. pc[h] \in Labels /\ Fits(pc[h], Req(h))
  BY Busy DEF Typed, HandlersTypeOK
<1>2. QED
  BY <1>1 DEF Labels, Fits

LEMMA AnswerSays ==
  ASSUME NEW h \in Slots, NEW req, NEW status, NEW text, NEW data,
         Answer(h, req, status, text, data)
  PROVE  /\ response'.req = req /\ response'.status = status
         /\ response'.text = text /\ response'.data = data
BY DEF Answer

\* Where the steps of each component start
LEMMA StepsStart ==
  ASSUME NEW h \in Slots
  PROVE  /\ AccountStep(h) =>
              pc[h] \in {"register:email", "register:username", "register:add",
                         "login:password", "login:email", "login:byEmail",
                         "login:byUsername", "changeUsername:update"}
         /\ SchemaStep(h) =>
              pc[h] \in {"create:table", "create:bob", "create:addBob",
                         "create:joe", "create:addJoe", "ddl", "orphans"}
         /\ ContactStep(h) =>
              pc[h] \in {"pair:user", "pair:contact", "pair:exists",
                         "addContact:insert", "favorite:update",
                         "getContacts:user", "getContacts:list", "getContacts:row"}
         /\ ConversationStep(h) =>
              pc[h] \in {"makeConversation:creator", "makeConversation:insert",
                         "makeConversation:id", "makeConversation:join",
                         "makeConversation:contact", "makeConversation:check",
                         "makeConversation:member", "getConversations:user",
                         "getConversations:list", "getConversations:users",
                         "getConversations:row"}
         /\ MessageStep(h) =>
              pc[h] \in {"postMessage:sender", "postMessage:user",
                         "postMessage:bob", "postMessage:joe",
                         "getMessages:list", "getMessages:row"}
<1> USE DEF Reply
<1>1. ASSUME AccountStep(h)
      PROVE  pc[h] \in {"register:email", "register:username", "register:add",
                        "login:password", "login:email", "login:byEmail",
                        "login:byUsername", "changeUsername:update"}
  BY <1>1 DEF AccountStep, RegisterEmail, RegisterUsername, RegisterAdd, LoginPassword,
              LoginEmail, LoginByEmail, LoginByUsername, ChangeUsername
<1>2. ASSUME SchemaStep(h)
      PROVE  pc[h] \in {"create:table", "create:bob", "create:addBob",
                        "create:joe", "create:addJoe", "ddl", "orphans"}
  BY <1>2 DEF SchemaStep, CreateUsrlst, CreateBob, CreateAddBob, CreateJoe,
              CreateAddJoe, Migrate, Rollback, LaunchedError, Running
<1>3. ASSUME ContactStep(h)
      PROVE  pc[h] \in {"pair:user", "pair:contact", "pair:exists",
                        "addContact:insert", "favorite:update",
                        "getContacts:user", "getContacts:list", "getContacts:row"}
  BY <1>3 DEF ContactStep, PairUser, PairContact, PairExists, AddContactInsert,
              FavoriteUpdate, GetContactsUser, GetContactsList, GetContactsRow
<1>4. ASSUME ConversationStep(h)
      PROVE  pc[h] \in {"makeConversation:creator", "makeConversation:insert",
                        "makeConversation:id", "makeConversation:join",
                        "makeConversation:contact", "makeConversation:check",
                        "makeConversation:member", "getConversations:user",
                        "getConversations:list", "getConversations:users",
                        "getConversations:row"}
  BY <1>4 DEF ConversationStep, MakeConversationCreator, MakeConversationInsert,
              MakeConversationId, MakeConversationJoin, MakeConversationContact,
              MakeConversationCheck, MakeConversationMember, GetConversationsUser,
              GetConversationsList, GetConversationsUsers, GetConversationsRow
<1>5. ASSUME MessageStep(h)
      PROVE  pc[h] \in {"postMessage:sender", "postMessage:user", "postMessage:bob",
                        "postMessage:joe", "getMessages:list", "getMessages:row"}
  BY <1>5 DEF MessageStep, PostMessageSender, PostMessageUser, PostMessageBob,
              PostMessageJoe, GetMessagesList, GetMessagesRow
<1>6. QED
  BY <1>1, <1>2, <1>3, <1>4, <1>5
-----------------------------------------------------------------------------
(***************************************************************************)
(* How the tables change.                                                  *)
(***************************************************************************)
\* Every change of usrlst is one of these.
LEMMA UsrlstChanges ==
  ASSUME Typed, [Next]_vars, usrlst' # usrlst
  PROVE  \E h \in Slots :
           \/ RegisterAdd(h) \/ ChangeUsername(h)
           \/ CreateAddBob(h) \/ CreateAddJoe(h)
           \/ usrlst' = << >>
<1>1. ASSUME NEW h \in Slots, AccountStep(h)
      PROVE  RegisterAdd(h) \/ ChangeUsername(h)
  BY <1>1 DEF AccountStep, RegisterEmail, RegisterUsername, LoginPassword,
              LoginEmail, LoginByEmail, LoginByUsername, db, rows
<1>2. ASSUME NEW h \in Slots, SchemaStep(h)
      PROVE  CreateAddBob(h) \/ CreateAddJoe(h) \/ usrlst' = << >>
  BY <1>2 DEF SchemaStep, CreateUsrlst, CreateBob, CreateJoe, Migrate, Rollback,
              LaunchedError, db, rows
<1>3. ASSUME NEW h \in Slots, NEW req \in Requests, Receive(h, req)  PROVE FALSE
  BY <1>3, ReceiveLeads
<1>4. ASSUME NEW h \in Slots, ContactStep(h) \/ ConversationStep(h) \/ MessageStep(h)
                                \/ StatementError(h)
      PROVE  FALSE
  BY <1>4, ContactLeads, ConversationLeads, MessageLeads, ErrorLeads
<1>5. ~Restart /\ ~UNCHANGED vars
  BY DEF Restart, vars, db, rows
<1>6. QED
  BY <1>1, <1>2, <1>3, <1>4, <1>5 DEF Next, Step

\* Nobody asks for /close: the tables stand.
Standing == \A req \in Requests : req.op # "close"

LEMMA NothingDropped ==
  ASSUME Standing, Typed, NEW h \in Slots, NEW m \in Modules
  PROVE  ~Rollback(h, m)
BY Busy DEF Standing, Rollback, Running

\* Rows stay, and keep what identifies them.
Grow ==
  /\ \A i \in DOMAIN usrlst :
       i \in DOMAIN usrlst' /\ usrlst'[i].email = usrlst[i].email
  /\ \A i \in DOMAIN contactslst :
       /\ i \in DOMAIN contactslst'
       /\ contactslst'[i].userid = contactslst[i].userid
       /\ contactslst'[i].contactid = contactslst[i].contactid
  /\ \A i \in DOMAIN convolst :
       i \in DOMAIN convolst' /\ convolst'[i] = convolst[i]
  /\ \A i \in DOMAIN userconvolst :
       i \in DOMAIN userconvolst' /\ userconvolst'[i] = userconvolst[i]
  /\ \A i \in DOMAIN msglst :
       i \in DOMAIN msglst' /\ msglst'[i] = msglst[i]
  /\ tables \subseteq tables'

LEMMA AppendGrows ==
  ASSUME NEW S, NEW table \in Seq(S), NEW row
  PROVE  \A i \in DOMAIN table :
           i \in DOMAIN Append(table, row) /\ Append(table, row)[i] = table[i]
OBVIOUS

LEMMA AccountsGrow ==
  ASSUME NEW h \in Slots, Typed, AccountStep(h)
  PROVE  Grow
<1>1. /\ UNCHANGED <<contactslst, convolst, userconvolst, msglst, tables>>
      /\ usrlst \in Seq(Account)
  BY AccountLeads DEF Typed, RowsTypeOK
<1>2. ASSUME NEW i \in DOMAIN usrlst
      PROVE  i \in DOMAIN usrlst' /\ usrlst'[i].email = usrlst[i].email
  <2>1. CASE RegisterAdd(h)
    BY <1>1, <2>1, AppendGrows DEF RegisterAdd, AddUsr
  <2>2. CASE ChangeUsername(h)
    <3>1. usrlst[i] \in Account
      BY <1>1, RowOf
    <3>2. QED
      BY <2>2, <3>1 DEF ChangeUsername, Account
  <2>3. CASE usrlst' = usrlst
    BY <2>3
  <2>4. AccountStep(h) => RegisterAdd(h) \/ ChangeUsername(h) \/ usrlst' = usrlst
    BY DEF AccountStep, RegisterEmail, RegisterUsername, LoginPassword,
           LoginEmail, LoginByEmail, LoginByUsername, db, rows
  <2>5. QED
    BY <2>1, <2>2, <2>3, <2>4
<1>3. QED
  BY <1>1, <1>2 DEF Grow

LEMMA SchemaGrows ==
  ASSUME NEW h \in Slots, Standing, Typed, SchemaStep(h)
  PROVE  Grow
<1>1. usrlst \in Seq(Account)
  BY DEF Typed, RowsTypeOK
<1>2. /\ UNCHANGED <<contactslst, convolst, userconvolst, msglst>>
      /\ tables \subseteq tables'
  BY NothingDropped
     DEF SchemaStep, CreateUsrlst, CreateBob, CreateAddBob, CreateJoe, CreateAddJoe,
         Migrate, LaunchedError, OnlyUsrlst, db, rows
<1>3. CASE CreateAddBob(h)
  <2>1. \A i \in DOMAIN usrlst : i \in DOMAIN usrlst' /\ usrlst'[i] = usrlst[i]
    BY <1>1, <1>3, AppendGrows DEF CreateAddBob, AddUsr
  <2>2. QED
    BY <1>2, <2>1 DEF Grow
<1>4. CASE CreateAddJoe(h)
  <2>1. \A i \in DOMAIN usrlst : i \in DOMAIN usrlst' /\ usrlst'[i] = usrlst[i]
    BY <1>1, <1>4, AppendGrows DEF CreateAddJoe, AddUsr
  <2>2. QED
    BY <1>2, <2>1 DEF Grow
<1>5. CASE usrlst' = usrlst
  BY <1>2, <1>5 DEF Grow
<1>6. CreateAddBob(h) \/ CreateAddJoe(h) \/ usrlst' = usrlst
  BY NothingDropped
     DEF SchemaStep, CreateUsrlst, CreateBob, CreateJoe, Migrate, LaunchedError, db, rows
<1>7. QED
  BY <1>3, <1>4, <1>5, <1>6

LEMMA ContactsGrow ==
  ASSUME NEW h \in Slots, Typed, ContactStep(h)
  PROVE  Grow
<1>1. /\ UNCHANGED <<usrlst, convolst, userconvolst, msglst, tables>>
      /\ contactslst \in Seq(Contact)
  BY ContactLeads DEF Typed, RowsTypeOK
<1>2. ASSUME NEW i \in DOMAIN contactslst
      PROVE  /\ i \in DOMAIN contactslst'
             /\ contactslst'[i].userid = contactslst[i].userid
             /\ contactslst'[i].contactid = contactslst[i].contactid
  <2>1. CASE AddContactInsert(h)
    BY <1>1, <2>1, AppendGrows DEF AddContactInsert
  <2>2. CASE FavoriteUpdate(h)
    <3>1. contactslst[i] \in Contact
      BY <1>1, RowOf
    <3>2. QED
      BY <2>2, <3>1 DEF FavoriteUpdate, Contact
  <2>3. CASE contactslst' = contactslst
    BY <2>3
  <2>4. AddContactInsert(h) \/ FavoriteUpdate(h) \/ contactslst' = contactslst
    BY DEF ContactStep, PairUser, PairContact, PairExists, GetContactsUser,
           GetContactsList, GetContactsRow, db, rows
  <2>5. QED
    BY <2>1, <2>2, <2>3, <2>4
<1>3. QED
  BY <1>1, <1>2 DEF Grow

LEMMA ConversationsGrow ==
  ASSUME NEW h \in Slots, Typed, ConversationStep(h)
  PROVE  Grow
<1>1. /\ UNCHANGED <<usrlst, contactslst, msglst, tables>>
      /\ convolst \in Seq(Conversation) /\ userconvolst \in Seq(Membership)
  BY ConversationLeads DEF Typed, RowsTypeOK
<1>2. CASE MakeConversationInsert(h)
  <2>1. userconvolst' = userconvolst
    BY <1>2 DEF MakeConversationInsert, OnlyConvolst
  <2>2. \A i \in DOMAIN convolst : i \in DOMAIN convolst' /\ convolst'[i] = convolst[i]
    BY <1>1, <1>2, AppendGrows DEF MakeConversationInsert
  <2>3. QED
    BY <1>1, <2>1, <2>2 DEF Grow
<1>3. ASSUME NEW user, InsertMember(frame[h].convo, user), OnlyUserconvolst
      PROVE  Grow
  <2>1. convolst' = convolst
    BY <1>3 DEF OnlyUserconvolst
  <2>2. \A i \in DOMAIN userconvolst :
          i \in DOMAIN userconvolst' /\ userconvolst'[i] = userconvolst[i]
    BY <1>1, <1>3, AppendGrows DEF InsertMember
  <2>3. QED
    BY <1>1, <2>1, <2>2 DEF Grow
<1>4. CASE MakeConversationJoin(h) \/ MakeConversationMember(h)
  BY <1>3, <1>4 DEF MakeConversationJoin, MakeConversationMember
<1>5. CASE convolst' = convolst /\ userconvolst' = userconvolst
  BY <1>1, <1>5 DEF Grow
<1>6. QED
  BY <1>2, <1>4, <1>5
     DEF ConversationStep, MakeConversationCreator, MakeConversationId,
         MakeConversationContact, MakeConversationCheck, GetConversationsUser,
         GetConversationsList, GetConversationsUsers, GetConversationsRow, db, rows

LEMMA MessagesGrow ==
  ASSUME NEW h \in Slots, Typed, MessageStep(h)
  PROVE  Grow
<1>1. /\ UNCHANGED <<usrlst, contactslst, convolst, userconvolst, tables>>
      /\ msglst \in Seq(StoredMessage)
  BY MessageLeads DEF Typed, RowsTypeOK
<1>2. ASSUME NEW id, NEW by, AddMsg(id, Req(h).convo, by, Req(h).msg)
      PROVE  Grow
  <2>1. \A i \in DOMAIN msglst : i \in DOMAIN msglst' /\ msglst'[i] = msglst[i]
    BY <1>1, <1>2, AppendGrows DEF AddMsg
  <2>2. QED
    BY <1>1, <2>1 DEF Grow
<1>3. CASE PostMessageUser(h) \/ PostMessageBob(h) \/ PostMessageJoe(h)
  BY <1>2, <1>3 DEF PostMessageUser, PostMessageBob, PostMessageJoe
<1>4. CASE msglst' = msglst
  BY <1>1, <1>4 DEF Grow
<1>5. QED
  BY <1>3, <1>4 DEF MessageStep, PostMessageSender, GetMessagesList, GetMessagesRow,
                    db, rows

\* Without /close no table loses a row.
LEMMA NextGrows ==
  ASSUME Standing, Typed, [Next]_vars
  PROVE  Grow
<1>1. CASE UNCHANGED db
  BY <1>1 DEF db, rows, Grow
<1>2. ASSUME NEW h \in Slots, Step(h), ~UNCHANGED db  PROVE Grow
  BY <1>2, AccountsGrow, SchemaGrows, ContactsGrow, ConversationsGrow, MessagesGrow
     DEF Step, StatementError
<1>3. QED
  BY <1>1, <1>2 DEF Next, Receive, Restart, vars
-----------------------------------------------------------------------------
(***************************************************************************)
(* The lists of rows.  What a recursive function computes is proved by     *)
(* induction, for a set of numbers: the library's theorem on well-founded  *)
(* orders gives every set of naturals a least one.                         *)
(***************************************************************************)
LEMMA LeastNat ==
  ASSUME NEW S \in SUBSET Nat, S # {}
  PROVE  \E m \in S : \A k \in S : m <= k
<1> DEFINE Less == {ss \in Nat \X Nat : ss[1] < ss[2]}
<1>1. IsWellFoundedOn(Less, Nat)
  BY NatLessThanWellFounded DEF OpToRel
<1>2. \A x, y \in S : y < x => <<y, x>> \in Less
  OBVIOUS
<1> HIDE DEF Less
<1>3. \E x \in S : \A y \in S : <<y, x>> \notin Less
  BY <1>1, WFMin
<1>4. PICK m \in S : \A k \in S : <<k, m>> \notin Less
  BY <1>3
<1>5. m \in Nat /\ \A k \in S : k \in Nat /\ ~(k < m)
  BY <1>2, <1>4
<1>6. QED
  BY <1>5

LEMMA Induction ==
  ASSUME NEW S \in SUBSET Nat, 0 \in S, \A n \in S : n + 1 \in S
  PROVE  S = Nat
<1>1. SUFFICES ASSUME Nat \ S # {}  PROVE FALSE
  OBVIOUS
<1>2. PICK m \in Nat \ S : \A k \in Nat \ S : m <= k
  BY <1>1, LeastNat
<1>3. m # 0 /\ m - 1 \in Nat
  OBVIOUS
<1>4. m - 1 \in S
  BY <1>2, <1>3
<1>5. QED
  BY <1>4

\* f is the list of LatestFirst as it grows: what its definition chooses.
Reads(ids, n, f) ==
  f = [i \in 0 .. n |-> IF i = 0 THEN << >>
                        ELSE IF i \in ids THEN <<i>> \o f[i - 1] ELSE f[i - 1]]

LEMMA SomeReads ==
  ASSUME NEW ids, NEW n \in Nat
  PROVE  \E f : Reads(ids, n, f)
<1> DEFINE S == {k \in Nat : \E f : Reads(ids, k, f)}
<1>1. 0 \in S
  <2>1. Reads(ids, 0, [i \in 0 .. 0 |-> << >>])
    BY DEF Reads
  <2>2. QED
    BY <2>1
<1>2. ASSUME NEW k \in S  PROVE k + 1 \in S
  <2>1. PICK f : Reads(ids, k, f)
    BY <1>2
  <2> DEFINE g == [i \in 0 .. k + 1 |-> IF i <= k THEN f[i]
                                        ELSE IF i \in ids THEN <<i>> \o f[k] ELSE f[k]]
  <2>2. ASSUME NEW i \in 0 .. k + 1
        PROVE  g[i] = IF i = 0 THEN << >>
                      ELSE IF i \in ids THEN <<i>> \o g[i - 1] ELSE g[i - 1]
    <3>1. CASE i <= k
      <4>1. i \in 0 .. k /\ g[i] = f[i]
        BY <3>1
      <4>2. i # 0 => i - 1 \in 0 .. k + 1 /\ i - 1 <= k
        BY <3>1, <1>2
      <4>3. i # 0 => g[i - 1] = f[i - 1]
        BY <4>2
      <4>4. QED
        BY <4>1, <4>3, <2>1 DEF Reads
    <3>2. CASE i = k + 1
      <4>1. i - 1 = k /\ i # 0 /\ ~(i <= k) /\ k \in 0 .. k + 1
        BY <3>2, <1>2
      <4>2. g[k] = f[k]
        BY <4>1
      <4>3. g[i] = IF i \in ids THEN <<i>> \o f[k] ELSE f[k]
        BY <4>1
      <4>4. QED
        BY <4>1, <4>2, <4>3
    <3>3. QED
      BY <3>1, <3>2
  <2>3. g = [i \in 0 .. k + 1 |-> g[i]]
    OBVIOUS
  <2> HIDE DEF g
  <2>4. Reads(ids, k + 1, g)
    BY <2>2, <2>3 DEF Reads
  <2>5. k + 1 \in Nat
    BY <1>2
  <2>6. QED
    BY <2>4, <2>5
<1>3. S = Nat
  <2> HIDE DEF S
  <2>1. S \subseteq Nat
    BY DEF S
  <2>2. QED
    BY <1>1, <1>2, <2>1, Induction
<1>4. QED
  BY <1>3

LEMMA ListRead ==
  ASSUME NEW ids, NEW n \in Nat
  PROVE  \E f : Reads(ids, n, f) /\ LatestFirst(ids, n) = f[n]
<1> DEFINE f == CHOOSE g : Reads(ids, n, g)
<1>1. Reads(ids, n, f)
  BY SomeReads
<1>2. LatestFirst(ids, n) = f[n]
  BY DEF LatestFirst, Reads
<1>3. QED
  BY <1>1, <1>2

\* list lists the ids among the first n, each once, the latest first.
Lists(list, ids, n) ==
  /\ list \in Seq(Nat)
  /\ \A k \in DOMAIN list : list[k] \in ids /\ list[k] \in 1 .. n
  /\ \A i \in 1 .. n : i \in ids => \E k \in DOMAIN list : list[k] = i
  /\ \A k, l \in DOMAIN list : k < l => list[k] > list[l]

LEMMA ListOneMore ==
  ASSUME NEW ids, NEW n \in Nat, NEW list, Lists(list, ids, n)
  PROVE  Lists(IF n + 1 \in ids THEN <<n + 1>> \o list ELSE list, ids, n + 1)
<1>1. CASE n + 1 \notin ids
  <2>1. \A i \in 1 .. n + 1 : i \in ids => i \in 1 .. n
    BY <1>1
  <2>2. QED
    BY <1>1, <2>1 DEF Lists
<1>2. CASE n + 1 \in ids
  <2> DEFINE more == <<n + 1>> \o list
  <2>1. list \in Seq(Nat) /\ Len(list) \in Nat /\ DOMAIN list = 1 .. Len(list)
    BY DEF Lists
  <2>2. /\ more \in Seq(Nat) /\ Len(more) = Len(list) + 1
        /\ DOMAIN more = 1 .. Len(list) + 1
        /\ more[1] = n + 1
        /\ \A k \in 1 .. Len(list) : more[k + 1] = list[k]
    BY <2>1
  <2> HIDE DEF more
  <2>3. ASSUME NEW k \in DOMAIN more, k # 1
        PROVE  k - 1 \in DOMAIN list /\ more[k] = list[k - 1]
    <3>1. k - 1 \in 1 .. Len(list) /\ (k - 1) + 1 = k
      BY <2>1, <2>2, <2>3
    <3>2. QED
      BY <2>1, <2>2, <3>1
  <2>4. ASSUME NEW k \in DOMAIN more
        PROVE  more[k] \in ids /\ more[k] \in 1 .. n + 1
    <3>1. CASE k = 1
      BY <1>2, <2>2, <3>1
    <3>2. CASE k # 1
      <4>1. more[k] \in ids /\ more[k] \in 1 .. n
        BY <2>3, <3>2 DEF Lists
      <4>2. QED
        BY <4>1
    <3>3. QED
      BY <3>1, <3>2
  <2>5. ASSUME NEW i \in 1 .. n + 1, i \in ids
        PROVE  \E k \in DOMAIN more : more[k] = i
    <3>1. CASE i = n + 1
      BY <2>1, <2>2, <3>1
    <3>2. CASE i \in 1 .. n
      <4>1. PICK k \in DOMAIN list : list[k] = i
        BY <2>5, <3>2 DEF Lists
      <4>2. k + 1 \in DOMAIN more /\ more[k + 1] = i
        BY <2>1, <2>2, <4>1
      <4>3. QED
        BY <4>2
    <3>3. QED
      BY <3>1, <3>2
  <2>6. ASSUME NEW k \in DOMAIN more, NEW l \in DOMAIN more, k < l
        PROVE  more[k] > more[l]
    <3>1. l # 1 /\ more[l] = list[l - 1] /\ l - 1 \in DOMAIN list
      BY <2>1, <2>2, <2>3, <2>6
    <3>2. CASE k = 1
      BY <2>2, <3>1, <3>2 DEF Lists
    <3>3. CASE k # 1
      <4>1. more[k] = list[k - 1] /\ k - 1 \in DOMAIN list /\ k - 1 < l - 1
        BY <2>1, <2>2, <2>3, <2>6, <3>3
      <4>2. QED
        BY <3>1, <4>1 DEF Lists
    <3>4. QED
      BY <3>2, <3>3
  <2>7. Lists(more, ids, n + 1)
    BY <2>2, <2>4, <2>5, <2>6 DEF Lists
  <2>8. QED
    BY <1>2, <2>7 DEF more
<1>3. QED
  BY <1>1, <1>2

\* The fold that reads a query's rows lists each row that was selected once,
\* the latest first, from a table of any length.
THEOREM ListingIsComplete ==
  ASSUME NEW ids, NEW n \in Nat
  PROVE  Lists(LatestFirst(ids, n), ids, n)
<1>1. PICK f : Reads(ids, n, f) /\ LatestFirst(ids, n) = f[n]
  BY ListRead
<1> DEFINE S == {i \in Nat : i <= n => Lists(f[i], ids, i)}
<1>2. 0 \in S
  <2>1. f[0] = << >>
    BY <1>1 DEF Reads
  <2>2. Lists(<< >>, ids, 0)
    BY DEF Lists
  <2>3. QED
    BY <2>1, <2>2
<1>3. ASSUME NEW i \in S  PROVE i + 1 \in S
  <2>1. CASE i + 1 <= n
    <3>1. i \in Nat /\ Lists(f[i], ids, i)
      BY <1>3, <2>1
    <3>2. i + 1 \in 0 .. n /\ i + 1 # 0 /\ (i + 1) - 1 = i
      BY <2>1, <3>1
    <3>3. f[i + 1] = IF i + 1 \in ids THEN <<i + 1>> \o f[i] ELSE f[i]
      BY <1>1, <3>2 DEF Reads
    <3>4. Lists(f[i + 1], ids, i + 1)
      BY <3>1, <3>3, ListOneMore
    <3>5. QED
      BY <3>1, <3>4
  <2>2. CASE ~(i + 1 <= n)
    BY <1>3, <2>2
  <2>3. QED
    BY <2>1, <2>2
<1>4. S = Nat
  <2> HIDE DEF S
  <2>1. S \subseteq Nat
    BY DEF S
  <2>2. QED
    BY <1>2, <1>3, <2>1, Induction
<1>5. Lists(f[n], ids, n)
  BY <1>4
<1>6. QED
  BY <1>1, <1>5

-----------------------------------------------------------------------------
(***************************************************************************)
(* The lists the handlers work through, and what they answer.              *)
(***************************************************************************)
WorkSet == [todo : Seq(Item), out : Seq(Item), users : SUBSET Text]

\* What is listed for a loop, and that it never runs out of items
TodoFits(label, w) ==
  /\ label = "getContacts:row" =>
       w.todo \in Seq([contact_id : Nat, favorite : BOOLEAN]) /\ w.todo # << >>
  /\ label \in {"makeConversation:contact", "makeConversation:check",
                "makeConversation:member"} =>
       w.todo \in Seq([email : Text]) /\ w.todo # << >>
  /\ label \in {"getConversations:users", "getConversations:row"} =>
       w.todo \in Seq([conversation_id : Nat, user_id : Nat]) /\ w.todo # << >>
  /\ label = "getMessages:row" =>
       w.todo \in Seq([senderid : Nat, msg : Message]) /\ w.todo # << >>

Listed ==
  /\ work \in [Slots -> WorkSet]
  /\ failed \in [Slots -> SUBSET Modules]
  /\ \A h \in Slots : TodoFits(pc[h], work[h])
  /\ response.status \in {0, 200, 500}
  /\ response.data \in Seq(Item)

LoopLabels == {"getContacts:row", "makeConversation:contact", "makeConversation:check",
               "makeConversation:member", "getConversations:users",
               "getConversations:row", "getMessages:row"}

LEMMA FitsOutside ==
  ASSUME NEW label, label \notin LoopLabels, NEW w
  PROVE  TodoFits(label, w)
BY DEF LoopLabels, TodoFits

LEMMA NoWorkTyped == NoWork \in WorkSet /\ << >> \in Seq(Item)
BY DEF NoWork, WorkSet

LEMMA SilentTyped == Silent.status = 0 /\ Silent.data \in Seq(Item)
<1>1. Silent.status = 0
  BY DEF Silent
<1>2. Silent.data = << >>
  BY DEF Silent
<1>3. QED
  BY <1>1, <1>2, NoWorkTyped

LEMMA AnswerListed ==
  ASSUME NEW h \in Slots, Typed, Listed, NEW req, NEW status \in {200, 500}, NEW text,
         NEW data \in Seq(Item), Answer(h, req, status, text, data)
  PROVE  Listed'
<1>1. pc'[h] = "idle" /\ \A g \in Slots \ {h} : pc'[g] = pc[g]
  BY AnswerPc DEF Answer, Typed, HandlersTypeOK
<1>2. work' \in [Slots -> WorkSet] /\ \A g \in Slots \ {h} : work'[g] = work[g]
  BY NoWorkTyped DEF Answer, Listed
<1>3. failed' \in [Slots -> SUBSET Modules]
  BY DEF Answer, Listed
<1>4. \A g \in Slots : TodoFits(pc'[g], work'[g])
  <2>1. pc'[h] \notin LoopLabels
    BY <1>1 DEF LoopLabels
  <2>2. QED
    BY <1>1, <1>2, <2>1, FitsOutside DEF Listed
<1>5. response'.status = status /\ response'.data = data
  BY AnswerSays
<1>6. QED
  BY <1>2, <1>3, <1>4, <1>5 DEF Listed

LEMMA AnswersListed ==
  ASSUME NEW h \in Slots, Typed, Listed,
         \/ \E req : Fail(h, req)
         \/ \E text : RespondText(h, text)
         \/ \E data \in Seq(Item) : RespondJson(h, data)
  PROVE  Listed'
<1>1. ASSUME NEW req, Fail(h, req)  PROVE Listed'
  <2>1. \E text : \E data \in Seq(Item) : Answer(h, req, 500, text, data)
    BY <1>1, NoWorkTyped, Zenon DEF Fail
  <2>2. QED
    BY <2>1, AnswerListed
<1>2. ASSUME NEW text, RespondText(h, text)  PROVE Listed'
  <2>1. \E req : \E data \in Seq(Item) : Answer(h, req, 200, text, data)
    BY <1>2, NoWorkTyped, Zenon DEF RespondText
  <2>2. QED
    BY <2>1, AnswerListed
<1>3. ASSUME NEW data \in Seq(Item), RespondJson(h, data)  PROVE Listed'
  BY <1>3, AnswerListed DEF RespondJson
<1>4. QED
  BY <1>1, <1>2, <1>3

LEMMA CallListed ==
  ASSUME NEW h \in Slots, Typed, Listed, NEW m, NEW label, NEW f, NEW w \in WorkSet,
         TodoFits(label, w), Call(h, m, label, f, w)
  PROVE  Listed'
<1>1. CASE ~Available(h, m)
  BY <1>1, AnswersListed DEF Call
<1>2. CASE Available(h, m)
  <2>1. /\ pc'[h] = label /\ \A g \in Slots \ {h} : pc'[g] = pc[g]
        /\ work' \in [Slots -> WorkSet]
        /\ work'[h] = w /\ \A g \in Slots \ {h} : work'[g] = work[g]
    BY <1>2 DEF Call, Typed, HandlersTypeOK, Listed
  <2>2. failed' \in [Slots -> SUBSET Modules]
    BY <1>2 DEF Call, Listed
  <2>3. response'.status = 0 /\ response'.data \in Seq(Item)
    <3>1. response' = Silent
      BY <1>2 DEF Call
    <3>2. QED
      BY <3>1, SilentTyped
  <2>4. \A g \in Slots : TodoFits(pc'[g], work'[g])
    BY <2>1 DEF Listed
  <2>5. QED
    BY <2>1, <2>2, <2>3, <2>4 DEF Listed
<1>3. QED
  BY <1>1, <1>2

\* A call outside the loops
LEMMA PlainCallListed ==
  ASSUME NEW h \in Slots, Typed, Listed, NEW m, NEW label, NEW f,
         Call(h, m, label, f, work[h]),
         label \notin LoopLabels
  PROVE  Listed'
<1>1. TodoFits(label, work[h]) /\ work[h] \in WorkSet
  BY FitsOutside DEF Listed
<1>2. QED
  BY <1>1, CallListed

LEMMA LaunchListed ==
  ASSUME NEW h \in Slots, Typed, Listed, NEW req, Launch(h, req)
  PROVE  Listed'
<1>1. pc'[h] \in {"idle", "ddl", "orphans"} /\ \A g \in Slots \ {h} : pc'[g] = pc[g]
  BY DEF Launch, Typed, HandlersTypeOK
<1>2. work' = work /\ failed' = failed
  BY DEF Launch
<1>3. response'.status \in {0, 500} /\ response'.data \in Seq(Item)
  BY NoWorkTyped DEF Launch, Silent
<1>4. \A g \in Slots : TodoFits(pc'[g], work'[g])
  <2>1. pc'[h] \notin LoopLabels
    BY <1>1 DEF LoopLabels
  <2>2. QED
    BY <1>1, <1>2, <2>1, FitsOutside DEF Listed
<1>5. QED
  BY <1>2, <1>3, <1>4 DEF Listed

LEMMA SettleListed ==
  ASSUME NEW h \in Slots, Typed, Listed, pc[h] \in {"ddl", "orphans"}, NEW left,
         NEW fail \in SUBSET Modules, Settle(h, left, fail)
  PROVE  Listed'
<1>1. pc'[h] \in {"idle", "ddl", "orphans"} /\ \A g \in Slots \ {h} : pc'[g] = pc[g]
  BY DEF Settle, Typed, HandlersTypeOK
<1>2. work' = work /\ failed' \in [Slots -> SUBSET Modules]
  BY DEF Settle, Listed
<1>3. response'.status \in {0, 200, 500} /\ response'.data \in Seq(Item)
  BY NoWorkTyped DEF Settle, Silent
<1>4. \A g \in Slots : TodoFits(pc'[g], work'[g])
  <2>1. pc'[h] \notin LoopLabels
    BY <1>1 DEF LoopLabels
  <2>2. QED
    BY <1>1, <1>2, <2>1, FitsOutside DEF Listed
<1>5. QED
  BY <1>2, <1>3, <1>4 DEF Listed

LEMMA HeadTail ==
  ASSUME NEW S, NEW s \in Seq(S), s # << >>
  PROVE  /\ Head(s) \in S /\ Tail(s) \in Seq(S) /\ 1 \in DOMAIN s /\ Head(s) = s[1]
         /\ \A k \in DOMAIN Tail(s) : k + 1 \in DOMAIN s /\ Tail(s)[k] = s[k + 1]
OBVIOUS

LEMMA WiderSeq ==
  ASSUME NEW S, NEW T, S \subseteq T, NEW s \in Seq(S)
  PROVE  s \in Seq(T)
OBVIOUS

\* What is made of each element of a list
LEMMA MadeOf ==
  ASSUME NEW S, NEW T, NEW ids \in Seq(T), NEW list,
         DOMAIN list = DOMAIN ids, list = [k \in DOMAIN ids |-> list[k]],
         \A k \in DOMAIN ids : list[k] \in S
  PROVE  list \in Seq(S)
<1>1. DOMAIN ids = 1 .. Len(ids) /\ Len(ids) \in Nat
  OBVIOUS
<1>2. list \in [1 .. Len(ids) -> S]
  BY <1>1
<1>3. QED
  BY <1>1, <1>2

LEMMA ItemsAreItems ==
  /\ [contact_id : Nat, favorite : BOOLEAN] \subseteq Item
  /\ [email : Text] \subseteq Item
  /\ [conversation_id : Nat, user_id : Nat] \subseteq Item
  /\ [senderid : Nat, msg : Message] \subseteq Item
  /\ [email : Text, username : Text] \subseteq Item
  /\ [email : Text, username : Text, favorite : BOOLEAN] \subseteq Item
  /\ [conversation_name : Text, conversation_id : Nat,
      creator_email : Text, users : SUBSET Text] \subseteq Item
  /\ [username : Text, message : Message] \subseteq Item
BY DEF Item

LEMMA OneItem == ASSUME NEW item \in Item  PROVE <<item>> \in Seq(Item)
OBVIOUS

LEMMA AccountListed ==
  ASSUME NEW h \in Slots, Typed, Listed, AccountStep(h)
  PROVE  Listed'
<1> USE DEF LoopLabels
<1>1. usrlst \in Seq(Account)
  BY DEF Typed, RowsTypeOK
<1>2. CASE RegisterEmail(h)
  BY <1>2, AnswersListed, PlainCallListed DEF RegisterEmail
<1>3. CASE RegisterUsername(h)
  BY <1>3, AnswersListed, PlainCallListed DEF RegisterUsername
<1>4. CASE RegisterAdd(h)
  BY <1>4, AnswersListed DEF RegisterAdd
<1>5. CASE LoginPassword(h)
  BY <1>5, AnswersListed, PlainCallListed DEF LoginPassword
<1>6. CASE LoginEmail(h)
  BY <1>6, PlainCallListed DEF LoginEmail
<1>7. CASE LoginByEmail(h)
  <2>1. ASSUME NEW i \in UsersWithEmail(Req(h).email)
        PROVE  <<[email |-> Req(h).email, username |-> usrlst[i].username]>> \in Seq(Item)
    <3>1. usrlst[i] \in Account /\ usrlst[i].email = Req(h).email
      BY <1>1, RowOf DEF UsersWithEmail
    <3>2. [email |-> Req(h).email, username |-> usrlst[i].username] \in Item
      BY <3>1 DEF Account, Item
    <3>3. QED
      BY <3>2, OneItem
  <2>2. QED
    BY <1>7, <2>1, AnswersListed DEF LoginByEmail
<1>8. CASE LoginByUsername(h)
  <2>1. ASSUME NEW i \in UsersNamed(Req(h).username)
        PROVE  <<[email |-> usrlst[i].email, username |-> Req(h).username]>> \in Seq(Item)
    <3>1. usrlst[i] \in Account /\ usrlst[i].username = Req(h).username
      BY <1>1, RowOf DEF UsersNamed
    <3>2. [email |-> usrlst[i].email, username |-> Req(h).username] \in Item
      BY <3>1 DEF Account, Item
    <3>3. QED
      BY <3>2, OneItem
  <2>2. QED
    BY <1>8, <2>1, AnswersListed DEF LoginByUsername
<1>9. CASE ChangeUsername(h)
  BY <1>9, AnswersListed DEF ChangeUsername
<1>10. QED
  BY <1>2, <1>3, <1>4, <1>5, <1>6, <1>7, <1>8, <1>9 DEF AccountStep

LEMMA SchemaListed ==
  ASSUME NEW h \in Slots, Typed, Listed, SchemaStep(h)
  PROVE  Listed'
<1> USE DEF LoopLabels
<1>1. CASE CreateUsrlst(h)
  BY <1>1, PlainCallListed DEF CreateUsrlst
<1>2. CASE CreateBob(h)
  BY <1>2, PlainCallListed DEF CreateBob
<1>3. CASE CreateAddBob(h)
  BY <1>3, PlainCallListed DEF CreateAddBob
<1>4. CASE CreateJoe(h)
  BY <1>4, PlainCallListed, LaunchListed DEF CreateJoe
<1>5. CASE CreateAddJoe(h)
  BY <1>5, LaunchListed DEF CreateAddJoe
<1>6. ASSUME NEW m \in Modules, Migrate(h, m) \/ Rollback(h, m) \/ LaunchedError(h, m)
      PROVE  Listed'
  <2>1. failed[h] \in SUBSET Modules /\ failed[h] \cup {m} \in SUBSET Modules
    BY DEF Listed
  <2>2. pc[h] \in {"ddl", "orphans"}
    BY <1>6 DEF Migrate, Rollback, LaunchedError, Running
  <2>3. \E fail \in SUBSET Modules : Settle(h, calls[h] \ {m}, fail)
    BY <1>6, <2>1 DEF Migrate, Rollback, LaunchedError
  <2>4. QED
    BY <2>2, <2>3, SettleListed
<1>7. QED
  BY <1>1, <1>2, <1>3, <1>4, <1>5, <1>6 DEF SchemaStep

LEMMA ContactsHelperListed ==
  ASSUME NEW h \in Slots, Typed, Listed,
         NEW todo \in Seq([contact_id : Nat, favorite : BOOLEAN]),
         NEW out \in Seq(Item), ContactsHelper(h, todo, out)
  PROVE  Listed'
<1>1. todo \in Seq(Item)
  BY ItemsAreItems, WiderSeq
<1>2. PICK w : w = [work[h] EXCEPT !.todo = todo, !.out = out]
  OBVIOUS
<1>3. w \in WorkSet /\ w.todo = todo
  <2>1. PICK v \in WorkSet : v = work[h]
    BY DEF Listed
  <2>2. QED
    BY <1>1, <1>2, <2>1 DEF WorkSet
<1>4. todo # << >> => TodoFits("getContacts:row", w)
  BY <1>3 DEF TodoFits
<1>5. CASE todo = << >>
  BY <1>5, AnswersListed DEF ContactsHelper
<1>6. CASE todo # << >>
  <2>1. Call(h, "User", "getContacts:row", frame[h], w)
    BY <1>2, <1>6 DEF ContactsHelper
  <2>2. QED
    BY <1>3, <1>4, <1>6, <2>1, CallListed
<1>7. QED
  BY <1>5, <1>6

LEMMA ContactListTyped ==
  ASSUME Typed, NEW user,
         NEW ids, ids = ContactList(user, Len(contactslst))
  PROVE  /\ Lists(ids, {i \in DOMAIN contactslst : contactslst[i].userid = user},
                  Len(contactslst))
         /\ [k \in DOMAIN ids |-> [contact_id |-> contactslst[ids[k]].contactid,
                                   favorite |-> contactslst[ids[k]].favorite]]
              \in Seq([contact_id : Nat, favorite : BOOLEAN])
<1>1. /\ contactslst \in Seq(Contact) /\ Len(contactslst) \in Nat
      /\ DOMAIN contactslst = 1 .. Len(contactslst)
  BY DEF Typed, RowsTypeOK
<1>2. Lists(ids, {i \in DOMAIN contactslst : contactslst[i].userid = user},
            Len(contactslst))
  BY <1>1, ListingIsComplete DEF ContactList
<1> DEFINE list == [k \in DOMAIN ids |->
                      [contact_id |-> contactslst[ids[k]].contactid,
                       favorite |-> contactslst[ids[k]].favorite]]
<1>3. ASSUME NEW k \in DOMAIN ids
      PROVE  list[k] \in [contact_id : Nat, favorite : BOOLEAN]
  <2>1. contactslst[ids[k]] \in Contact
    BY <1>1, <1>2, RowOf DEF Lists
  <2>2. QED
    BY <2>1 DEF Contact
<1>4. /\ ids \in Seq(Nat) /\ DOMAIN list = DOMAIN ids
      /\ list = [k \in DOMAIN ids |-> list[k]]
  BY <1>2 DEF Lists
<1> HIDE DEF list
<1>5. list \in Seq([contact_id : Nat, favorite : BOOLEAN])
  BY <1>3, <1>4, MadeOf
<1>6. QED
  BY <1>2, <1>5 DEF list

LEMMA ContactListed ==
  ASSUME NEW h \in Slots, Typed, Listed, ContactStep(h)
  PROVE  Listed'
<1> USE DEF LoopLabels
<1>1. CASE PairUser(h)
  BY <1>1, AnswersListed, PlainCallListed DEF PairUser
<1>2. CASE PairContact(h)
  BY <1>2, AnswersListed, PlainCallListed DEF PairContact
<1>3. CASE PairExists(h)
  BY <1>3, AnswersListed, PlainCallListed DEF PairExists
<1>4. CASE AddContactInsert(h)
  BY <1>4, AnswersListed DEF AddContactInsert
<1>5. CASE FavoriteUpdate(h)
  BY <1>5, AnswersListed DEF FavoriteUpdate
<1>6. CASE GetContactsUser(h)
  BY <1>6, AnswersListed, PlainCallListed DEF GetContactsUser
<1>7. CASE GetContactsList(h)
  <2>1. PICK ids : ids = ContactList(frame[h].user, Len(contactslst))
    OBVIOUS
  <2>2. PICK todo \in Seq([contact_id : Nat, favorite : BOOLEAN]) :
          ContactsHelper(h, todo, << >>)
    BY <1>7, <2>1, ContactListTyped DEF GetContactsList
  <2>3. QED
    BY <2>2, NoWorkTyped, ContactsHelperListed
<1>8. CASE GetContactsRow(h)
  <2>1. work[h].todo \in Seq([contact_id : Nat, favorite : BOOLEAN])
        /\ work[h].todo # << >> /\ work[h].out \in Seq(Item)
    BY <1>8 DEF GetContactsRow, Reply, Listed, TodoFits, WorkSet
  <2>2. PICK contact \in [contact_id : Nat, favorite : BOOLEAN] :
          contact = Head(work[h].todo)
    BY <2>1, HeadTail
  <2>3. Tail(work[h].todo) \in Seq([contact_id : Nat, favorite : BOOLEAN])
    BY <2>1, HeadTail
  <2>4. CASE Fail(h, Req(h))
    BY <2>4, AnswersListed
  <2>5. ASSUME contact.contact_id \in DOMAIN usrlst
        PROVE  Append(work[h].out,
                    [email |-> usrlst[contact.contact_id].email,
                     username |-> usrlst[contact.contact_id].username,
                     favorite |-> contact.favorite]) \in Seq(Item)
    <3>1. usrlst[contact.contact_id] \in Account
      BY <2>5, RowOf DEF Typed, RowsTypeOK
    <3>2. [email |-> usrlst[contact.contact_id].email,
           username |-> usrlst[contact.contact_id].username,
           favorite |-> contact.favorite] \in Item
      BY <3>1 DEF Account, Item
    <3>3. QED
      BY <2>1, <3>2, AppendRow
  <2>6. QED
    BY <1>8, <2>2, <2>3, <2>4, <2>5, ContactsHelperListed DEF GetContactsRow
<1>9. QED
  BY <1>1, <1>2, <1>3, <1>4, <1>5, <1>6, <1>7, <1>8 DEF ContactStep

LEMMA GenUserConvosListed ==
  ASSUME NEW h \in Slots, Typed, Listed, NEW todo \in Seq([email : Text]),
         GenUserConvos(h, todo)
  PROVE  Listed'
<1>1. todo \in Seq(Item)
  BY ItemsAreItems, WiderSeq
<1>2. PICK w : w = [work[h] EXCEPT !.todo = todo]
  OBVIOUS
<1>3. w \in WorkSet /\ w.todo = todo
  <2>1. PICK v \in WorkSet : v = work[h]
    BY DEF Listed
  <2>2. QED
    BY <1>1, <1>2, <2>1 DEF WorkSet
<1>4. todo # << >> => TodoFits("makeConversation:contact", w)
  BY <1>3 DEF TodoFits
<1>5. CASE todo = << >>
  BY <1>5, AnswersListed DEF GenUserConvos
<1>6. CASE todo # << >>
  <2>1. Call(h, "User", "makeConversation:contact", frame[h], w)
    BY <1>2, <1>6 DEF GenUserConvos
  <2>2. QED
    BY <1>3, <1>4, <1>6, <2>1, CallListed
<1>7. QED
  BY <1>5, <1>6

LEMMA ConvoHelperListed ==
  ASSUME NEW h \in Slots, Typed, Listed,
         NEW todo \in Seq([conversation_id : Nat, user_id : Nat]),
         NEW out \in Seq(Item), ConvoHelper(h, todo, out)
  PROVE  Listed'
<1>1. todo \in Seq(Item)
  BY ItemsAreItems, WiderSeq
<1>2. PICK w \in WorkSet : w = [todo |-> todo, out |-> out, users |-> {}]
  BY <1>1 DEF WorkSet
<1>3. todo # << >> => TodoFits("getConversations:users", w)
  BY <1>2 DEF TodoFits
<1>4. CASE todo = << >>
  BY <1>4, AnswersListed DEF ConvoHelper
<1>5. CASE todo # << >>
  <2>1. Call(h, "UserConversation", "getConversations:users", frame[h], w)
    BY <1>2, <1>5 DEF ConvoHelper
  <2>2. QED
    BY <1>3, <1>5, <2>1, CallListed
<1>6. QED
  BY <1>4, <1>5

LEMMA MembershipListTyped ==
  ASSUME Typed, NEW user, NEW ids, ids = MembershipList(user, Len(userconvolst))
  PROVE  /\ Lists(ids, {i \in DOMAIN userconvolst : userconvolst[i].users_id = user},
                  Len(userconvolst))
         /\ [k \in DOMAIN ids |-> [conversation_id |-> userconvolst[ids[k]].conversation_id,
                                   user_id |-> userconvolst[ids[k]].users_id]]
              \in Seq([conversation_id : Nat, user_id : Nat])
<1>1. /\ userconvolst \in Seq(Membership) /\ Len(userconvolst) \in Nat
      /\ DOMAIN userconvolst = 1 .. Len(userconvolst)
  BY DEF Typed, RowsTypeOK
<1>2. Lists(ids, {i \in DOMAIN userconvolst : userconvolst[i].users_id = user},
            Len(userconvolst))
  BY <1>1, ListingIsComplete DEF MembershipList
<1> DEFINE list == [k \in DOMAIN ids |->
                      [conversation_id |-> userconvolst[ids[k]].conversation_id,
                       user_id |-> userconvolst[ids[k]].users_id]]
<1>3. ASSUME NEW k \in DOMAIN ids
      PROVE  list[k] \in [conversation_id : Nat, user_id : Nat]
  <2>1. userconvolst[ids[k]] \in Membership
    BY <1>1, <1>2, RowOf DEF Lists
  <2>2. QED
    BY <2>1 DEF Membership
<1>4. /\ ids \in Seq(Nat) /\ DOMAIN list = DOMAIN ids
      /\ list = [k \in DOMAIN ids |-> list[k]]
  BY <1>2 DEF Lists
<1> HIDE DEF list
<1>5. list \in Seq([conversation_id : Nat, user_id : Nat])
  BY <1>3, <1>4, MadeOf
<1>6. QED
  BY <1>2, <1>5 DEF list

LEMMA ConversationListed ==
  ASSUME NEW h \in Slots, Typed, Listed, ConversationStep(h)
  PROVE  Listed'
<1> USE DEF LoopLabels
<1>1. pc[h] \in {"makeConversation:contact", "makeConversation:check",
                 "makeConversation:member"} =>
        /\ work[h] \in WorkSet /\ work[h].todo \in Seq([email : Text])
        /\ work[h].todo # << >>
  <2>1. TodoFits(pc[h], work[h]) /\ work[h] \in WorkSet
    BY DEF Listed
  <2>2. QED
    BY <2>1 DEF TodoFits
<1>2. CASE MakeConversationCreator(h)
  BY <1>2, AnswersListed, PlainCallListed DEF MakeConversationCreator
<1>3. CASE MakeConversationInsert(h)
  BY <1>3, PlainCallListed DEF MakeConversationInsert
<1>4. CASE MakeConversationId(h)
  BY <1>4, AnswersListed, PlainCallListed DEF MakeConversationId
<1>5. CASE MakeConversationJoin(h)
  <2>1. Req(h) \in Requests /\ Req(h).op = "makeConversation"
    BY <1>5, Busy DEF MakeConversationJoin, Reply, Fits
  <2>2. Req(h).parses => Req(h).contacts \in Seq([email : Text])
    BY <2>1, RequestsAreTyped DEF RequestAssumption
  <2>3. QED
    BY <1>5, <2>2, AnswersListed, GenUserConvosListed DEF MakeConversationJoin
<1>6. CASE MakeConversationContact(h)
  <2>1. TodoFits("makeConversation:check", work[h])
    BY <1>1, <1>6 DEF MakeConversationContact, Reply, TodoFits
  <2>2. QED
    BY <1>1, <1>6, <2>1, AnswersListed, CallListed DEF MakeConversationContact, Reply
<1>7. CASE MakeConversationCheck(h)
  <2>1. TodoFits("makeConversation:member", work[h])
    BY <1>1, <1>7 DEF MakeConversationCheck, Reply, TodoFits
  <2>2. QED
    BY <1>1, <1>7, <2>1, AnswersListed, CallListed DEF MakeConversationCheck, Reply
<1>8. CASE MakeConversationMember(h)
  <2>1. Tail(work[h].todo) \in Seq([email : Text])
    BY <1>1, <1>8, HeadTail DEF MakeConversationMember, Reply
  <2>2. QED
    BY <1>8, <2>1, GenUserConvosListed DEF MakeConversationMember
<1>9. CASE GetConversationsUser(h)
  BY <1>9, AnswersListed, PlainCallListed DEF GetConversationsUser
<1>10. CASE GetConversationsList(h)
  <2>1. PICK ids : ids = MembershipList(frame[h].user, Len(userconvolst))
    OBVIOUS
  <2>2. PICK todo \in Seq([conversation_id : Nat, user_id : Nat]) :
          ConvoHelper(h, todo, << >>)
    BY <1>10, <2>1, MembershipListTyped DEF GetConversationsList
  <2>3. QED
    BY <2>2, NoWorkTyped, ConvoHelperListed
<1>11. pc[h] \in {"getConversations:users", "getConversations:row"} =>
         /\ work[h] \in WorkSet
         /\ work[h].todo \in Seq([conversation_id : Nat, user_id : Nat])
         /\ work[h].todo # << >>
  <2>1. TodoFits(pc[h], work[h]) /\ work[h] \in WorkSet
    BY DEF Listed
  <2>2. QED
    BY <2>1 DEF TodoFits
<1>12. CASE GetConversationsUsers(h)
  <2> DEFINE convo == Head(work[h].todo).conversation_id
             emails == {usrlst[i].email : i \in MembersOf(convo) \cap DOMAIN usrlst}
  <2>1. emails \subseteq Text
    <3>1. \A i \in DOMAIN usrlst : usrlst[i] \in Account
      BY RowOf DEF Typed, RowsTypeOK
    <3>2. QED
      BY <3>1 DEF Account
  <2>2. PICK w : w = [work[h] EXCEPT !.users = emails]
    OBVIOUS
  <2>3. Call(h, "Conversations", "getConversations:row", frame[h], w)
    BY <1>12, <2>2 DEF GetConversationsUsers
  <2> HIDE DEF emails
  <2>4. w \in WorkSet /\ TodoFits("getConversations:row", w)
    <3>1. PICK v \in WorkSet : /\ v = work[h] /\ v.todo # << >>
                               /\ v.todo \in Seq([conversation_id : Nat, user_id : Nat])
      BY <1>11, <1>12 DEF GetConversationsUsers, Reply
    <3>2. w \in WorkSet /\ w.todo = v.todo
      BY <2>1, <2>2, <3>1 DEF WorkSet
    <3>3. QED
      BY <3>1, <3>2 DEF TodoFits
  <2>5. QED
    BY <2>3, <2>4, CallListed
<1>13. CASE GetConversationsRow(h)
  <2>1. /\ work[h].todo \in Seq([conversation_id : Nat, user_id : Nat])
        /\ work[h].todo # << >> /\ work[h].out \in Seq(Item) /\ work[h].users \subseteq Text
    BY <1>11, <1>13 DEF GetConversationsRow, Reply, WorkSet
  <2>2. PICK convo \in Nat : convo = Head(work[h].todo).conversation_id
    <3>1. Head(work[h].todo) \in [conversation_id : Nat, user_id : Nat]
      BY <2>1, HeadTail
    <3>2. QED
      BY <3>1
  <2>3. Tail(work[h].todo) \in Seq([conversation_id : Nat, user_id : Nat])
    BY <2>1, HeadTail
  <2>4. CASE Fail(h, Req(h))
    BY <2>4, AnswersListed
  <2>5. ASSUME convo \in DOMAIN convolst
        PROVE  Append(work[h].out,
                    [conversation_name |-> convolst[convo].convo_name,
                     conversation_id |-> convo,
                     creator_email |-> convolst[convo].creator_name,
                     users |-> work[h].users]) \in Seq(Item)
    <3>1. convolst[convo] \in Conversation
      BY <2>5, RowOf DEF Typed, RowsTypeOK
    <3>2. [conversation_name |-> convolst[convo].convo_name,
           conversation_id |-> convo,
           creator_email |-> convolst[convo].creator_name,
           users |-> work[h].users] \in Item
      BY <2>1, <3>1, ItemsAreItems DEF Conversation
    <3>3. QED
      BY <2>1, <3>2, AppendRow
  <2>6. QED
    BY <1>13, <2>2, <2>3, <2>4, <2>5, ConvoHelperListed DEF GetConversationsRow
<1>14. QED
  BY <1>2, <1>3, <1>4, <1>5, <1>6, <1>7, <1>8, <1>9, <1>10, <1>12, <1>13
     DEF ConversationStep

LEMMA InterpretMsglistListed ==
  ASSUME NEW h \in Slots, Typed, Listed,
         NEW todo \in Seq([senderid : Nat, msg : Message]),
         NEW out \in Seq(Item), InterpretMsglist(h, todo, out)
  PROVE  Listed'
<1>1. todo \in Seq(Item)
  BY ItemsAreItems, WiderSeq
<1>2. PICK w : w = [work[h] EXCEPT !.todo = todo, !.out = out]
  OBVIOUS
<1>3. w \in WorkSet /\ w.todo = todo
  <2>1. PICK v \in WorkSet : v = work[h]
    BY DEF Listed
  <2>2. QED
    BY <1>1, <1>2, <2>1 DEF WorkSet
<1>4. todo # << >> => TodoFits("getMessages:row", w)
  BY <1>3 DEF TodoFits
<1>5. CASE todo = << >>
  BY <1>5, AnswersListed DEF InterpretMsglist
<1>6. CASE todo # << >>
  <2>1. Call(h, "User", "getMessages:row", frame[h], w)
    BY <1>2, <1>6 DEF InterpretMsglist
  <2>2. QED
    BY <1>3, <1>4, <1>6, <2>1, CallListed
<1>7. QED
  BY <1>5, <1>6

LEMMA MessageListTyped ==
  ASSUME Typed, NEW convo, NEW ids, ids = MessageList(convo, Len(msglst))
  PROVE  /\ Lists(ids, {i \in DOMAIN msglst : msglst[i].convoid = convo}, Len(msglst))
         /\ [k \in DOMAIN ids |-> [senderid |-> msglst[ids[k]].senderid,
                                   msg |-> msglst[ids[k]].msg]]
              \in Seq([senderid : Nat, msg : Message])
<1>1. /\ msglst \in Seq(StoredMessage) /\ Len(msglst) \in Nat
      /\ DOMAIN msglst = 1 .. Len(msglst)
  BY DEF Typed, RowsTypeOK
<1>2. Lists(ids, {i \in DOMAIN msglst : msglst[i].convoid = convo}, Len(msglst))
  BY <1>1, ListingIsComplete DEF MessageList
<1> DEFINE list == [k \in DOMAIN ids |-> [senderid |-> msglst[ids[k]].senderid,
                                          msg |-> msglst[ids[k]].msg]]
<1>3. ASSUME NEW k \in DOMAIN ids
      PROVE  list[k] \in [senderid : Nat, msg : Message]
  <2>1. msglst[ids[k]] \in StoredMessage
    BY <1>1, <1>2, RowOf DEF Lists
  <2>2. QED
    BY <2>1 DEF StoredMessage
<1>4. /\ ids \in Seq(Nat) /\ DOMAIN list = DOMAIN ids
      /\ list = [k \in DOMAIN ids |-> list[k]]
  BY <1>2 DEF Lists
<1> HIDE DEF list
<1>5. list \in Seq([senderid : Nat, msg : Message])
  BY <1>3, <1>4, MadeOf
<1>6. QED
  BY <1>2, <1>5 DEF list

LEMMA MessageListed ==
  ASSUME NEW h \in Slots, Typed, Listed, MessageStep(h)
  PROVE  Listed'
<1> USE DEF LoopLabels
<1>1. JoeTurn(h) => Listed'
  BY AnswersListed, PlainCallListed DEF JoeTurn
<1>2. CASE PostMessageSender(h)
  BY <1>2, AnswersListed, PlainCallListed DEF PostMessageSender
<1>3. CASE PostMessageUser(h)
  BY <1>1, <1>3, AnswersListed, PlainCallListed DEF PostMessageUser
<1>4. CASE PostMessageBob(h)
  BY <1>1, <1>4 DEF PostMessageBob
<1>5. CASE PostMessageJoe(h)
  BY <1>5, AnswersListed DEF PostMessageJoe
<1>6. CASE GetMessagesList(h)
  <2>1. PICK ids : ids = MessageList(Req(h).convo, Len(msglst))
    OBVIOUS
  <2>2. PICK todo \in Seq([senderid : Nat, msg : Message]) :
          InterpretMsglist(h, todo, << >>)
    BY <1>6, <2>1, MessageListTyped DEF GetMessagesList
  <2>3. QED
    BY <2>2, NoWorkTyped, InterpretMsglistListed
<1>7. CASE GetMessagesRow(h)
  <2>1. /\ work[h].todo \in Seq([senderid : Nat, msg : Message])
        /\ work[h].todo # << >> /\ work[h].out \in Seq(Item)
    <3>1. TodoFits("getMessages:row", work[h]) /\ work[h] \in WorkSet
      BY <1>7 DEF GetMessagesRow, Reply, Listed
    <3>2. QED
      BY <3>1 DEF TodoFits, WorkSet
  <2>2. PICK message \in [senderid : Nat, msg : Message] : message = Head(work[h].todo)
    BY <2>1, HeadTail
  <2>3. Tail(work[h].todo) \in Seq([senderid : Nat, msg : Message])
    BY <2>1, HeadTail
  <2>4. CASE Fail(h, Req(h))
    BY <2>4, AnswersListed
  <2>5. ASSUME message.senderid \in DOMAIN usrlst
        PROVE  Append(work[h].out, [username |-> usrlst[message.senderid].username,
                                    message |-> message.msg]) \in Seq(Item)
    <3>1. usrlst[message.senderid] \in Account
      BY <2>5, RowOf DEF Typed, RowsTypeOK
    <3>2. [username |-> usrlst[message.senderid].username,
           message |-> message.msg] \in Item
      BY <3>1, ItemsAreItems DEF Account
    <3>3. QED
      BY <2>1, <3>2, AppendRow
  <2>6. QED
    BY <1>7, <2>2, <2>3, <2>4, <2>5, InterpretMsglistListed DEF GetMessagesRow
<1>8. QED
  BY <1>2, <1>3, <1>4, <1>5, <1>6, <1>7 DEF MessageStep

LEMMA ReceiveListed ==
  ASSUME NEW h \in Slots, Typed, Listed, NEW req \in Requests, Receive(h, req)
  PROVE  Listed'
<1>1. CASE req.op = "close"
  BY <1>1, LaunchListed DEF Receive
<1>2. CASE req.op # "close"
  <2>1. req.op \in DOMAIN FirstCall
    BY <1>2, RequestsAreTyped DEF RequestAssumption
  <2>2. FirstCall[req.op][2] \notin LoopLabels
    BY <2>1 DEF FirstCall, LoopLabels
  <2>3. TodoFits(FirstCall[req.op][2], NoWork)
    BY <2>2, FitsOutside
  <2>4. QED
    BY <1>2, <2>3, NoWorkTyped, CallListed DEF Receive
<1>3. QED
  BY <1>1, <1>2

LEMMA NextListed == Typed /\ Listed /\ [Next]_vars => Listed'
<1> SUFFICES ASSUME Typed, Listed, [Next]_vars  PROVE Listed'
  OBVIOUS
<1>1. ASSUME NEW h \in Slots, Step(h)  PROVE Listed'
  BY <1>1, AnswersListed, AccountListed, SchemaListed, ContactListed,
     ConversationListed, MessageListed DEF Step, StatementError
<1>2. CASE Restart
  <2>1. work' \in [Slots -> WorkSet] /\ failed' \in [Slots -> SUBSET Modules]
    BY <1>2, NoWorkTyped DEF Restart
  <2>2. \A h \in Slots : TodoFits(pc'[h], work'[h])
    BY <1>2, FitsOutside DEF Restart, LoopLabels
  <2>3. response' = Silent
    BY <1>2 DEF Restart
  <2>4. response'.status \in {0, 200, 500} /\ response'.data \in Seq(Item)
    BY <2>3, SilentTyped
  <2>5. QED
    BY <2>1, <2>2, <2>4 DEF Listed
<1>3. CASE UNCHANGED vars
  BY <1>3 DEF vars, server, Listed
<1>4. QED
  BY <1>1, <1>2, <1>3, ReceiveListed DEF Next

LEMMA InitListed == Init => Listed
<1> SUFFICES ASSUME Init  PROVE Listed
  OBVIOUS
<1>1. work \in [Slots -> WorkSet] /\ failed \in [Slots -> SUBSET Modules]
  BY NoWorkTyped DEF Init
<1>2. \A h \in Slots : TodoFits(pc[h], work[h])
  BY FitsOutside DEF Init, LoopLabels
<1>3. response = Silent
  BY DEF Init
<1>4. response.status \in {0, 200, 500} /\ response.data \in Seq(Item)
  BY <1>3, SilentTyped
<1>5. QED
  BY <1>1, <1>2, <1>4 DEF Listed

LEMMA AlwaysListed == Spec => []Listed
BY InitListed, NextListed, AlwaysTyped, PTL DEF Spec

\* Everything the server keeps and answers has the type the code gives it:
\* no loop of a handler runs into an empty list or an item of another query.
THEOREM TypeCorrect == Spec => []TypeOK
<1>1. Typed /\ Listed => TypeOK
  BY DEF Typed, Listed, TypeOK, ListsTypeOK, WorkSet
<1>2. QED
  BY <1>1, AlwaysTyped, AlwaysListed, PTL
=============================================================================
