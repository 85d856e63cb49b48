----------------------------- MODULE Books_proof ------------------------------
(***************************************************************************)
(* Contacts, conversations and messages.                                   *)
(*                                                                         *)
(* No contact is in contactslst twice: between does_contact_exist and      *)
(* insert_contact, add_contact keeps waiting on Contacts' connection.      *)
(***************************************************************************)
EXTENDS WebChat_proof

\* What add_contact still knows when its insertion takes effect
ContactWindow(h) ==
  pc[h] = "addContact:insert" => /\ "Contacts" \in calls[h]
                                 /\ ~Known(h)

ContactInv == ContactUnique /\ \A h \in Slots : ContactWindow(h)

LEMMA QuietContacts ==
  ASSUME NEW h \in Slots, Typed, ContactInv, MoveOf(h),
         contactslst' = contactslst, pc'[h] # "addContact:insert"
  PROVE  ContactInv'
<1>1. ASSUME NEW g \in Slots \ {h}  PROVE ContactWindow(g)'
  BY DEF ContactInv, ContactWindow, Known, ContactRows, MoveOf
<1>2. QED
  BY <1>1 DEF ContactInv, ContactWindow, ContactUnique

\* A step of h over Contacts' connection that asks nothing more
LEMMA HolderContacts ==
  ASSUME NEW h \in Slots, Typed, ContactInv, MoveOf(h), "Contacts" \in calls[h],
         pc'[h] # "addContact:insert", ContactUnique'
  PROVE  ContactInv'
<1>1. ASSUME NEW g \in Slots \ {h}  PROVE ContactWindow(g)'
  <2>1. "Contacts" \notin calls[g]
    BY DEF Typed, Exclusive
  <2>2. QED
    BY <2>1 DEF ContactInv, ContactWindow, MoveOf
<1>2. QED
  BY <1>1 DEF ContactInv, ContactWindow

LEMMA ContactStepInv ==
  ASSUME NEW h \in Slots, Typed, ContactInv, ContactStep(h)
  PROVE  ContactInv'
<1>1. MoveOf(h) /\ contactslst \in Seq(Contact)
  BY ContactKeeps DEF Kept, Typed, RowsTypeOK
<1>2. CASE contactslst' = contactslst /\ pc'[h] # "addContact:insert"
  BY <1>1, <1>2, QuietContacts
<1>3. CASE PairExists(h) /\ pc'[h] = "addContact:insert"
  <2>1. ~Known(h) /\ Call(h, "Contacts", "addContact:insert", frame[h], work[h])
    BY <1>3, AnswersPc, CallPc DEF PairExists
  <2>2. "Contacts" \in Modules /\ frame[h] \in Frame
    BY <1>3, Busy DEF PairExists, Reply, Modules
  <2>3. calls'[h] = {"Contacts"} /\ frame'[h] = frame[h]
    BY <1>3, <2>1, <2>2, HandlersTyped, CallMoves DEF Typed
  <2>4. contactslst' = contactslst
    BY <1>3 DEF PairExists, db, rows
  <2>5. ContactWindow(h)'
    BY <2>1, <2>3, <2>4 DEF ContactWindow, Known, ContactRows
  <2>6. ASSUME NEW g \in Slots \ {h}  PROVE ContactWindow(g)'
    BY <1>1, <2>4 DEF ContactInv, ContactWindow, Known, ContactRows, MoveOf
  <2>7. QED
    BY <2>4, <2>5, <2>6 DEF ContactInv, ContactUnique
<1>4. CASE AddContactInsert(h)
  <2>1. ~Known(h) /\ "Contacts" \in calls[h]
    BY <1>4 DEF AddContactInsert, Reply, ContactInv, ContactWindow
  <2>2. /\ Len(contactslst) \in Nat /\ DOMAIN contactslst = 1 .. Len(contactslst)
        /\ DOMAIN contactslst' = 1 .. Len(contactslst) + 1
        /\ \A i \in 1 .. Len(contactslst) : contactslst'[i] = contactslst[i]
        /\ contactslst'[Len(contactslst) + 1].userid = frame[h].user
        /\ contactslst'[Len(contactslst) + 1].contactid = frame[h].contact
    BY <1>1, <1>4 DEF AddContactInsert
  <2>3. \A i \in DOMAIN contactslst : ~ /\ contactslst[i].userid = frame[h].user
                                        /\ contactslst[i].contactid = frame[h].contact
    BY <2>1 DEF Known, ContactRows
  <2>4. ContactUnique'
    BY <2>2, <2>3 DEF ContactInv, ContactUnique
  <2>5. QED
    BY <1>1, <1>4, <2>1, <2>4, AnswersPc, HolderContacts
       DEF AddContactInsert
<1>5. CASE FavoriteUpdate(h)
  <2>1. DOMAIN contactslst' = DOMAIN contactslst
    BY <1>5 DEF FavoriteUpdate
  <2>2. ASSUME NEW i \in DOMAIN contactslst
        PROVE  /\ contactslst'[i].userid = contactslst[i].userid
               /\ contactslst'[i].contactid = contactslst[i].contactid
    <3>1. contactslst[i] \in Contact
      BY <1>1, RowOf
    <3>2. QED
      BY <1>5, <3>1 DEF FavoriteUpdate, Contact
  <2>3. ContactUnique'
    BY <2>1, <2>2 DEF ContactInv, ContactUnique
  <2>4. QED
    BY <1>1, <1>5, <2>3, AnswersPc, HolderContacts
       DEF FavoriteUpdate, Reply
<1>6. PairUser(h) \/ PairContact(h) \/ GetContactsUser(h) \/ GetContactsList(h)
        \/ GetContactsRow(h) => /\ contactslst' = contactslst
                                /\ pc'[h] # "addContact:insert"
  <2>1. CASE PairUser(h)
    BY <2>1, AnswersPc, CallPc DEF PairUser, db, rows
  <2>2. CASE PairContact(h)
    BY <2>2, AnswersPc, CallPc DEF PairContact, db, rows
  <2>3. CASE GetContactsUser(h)
    BY <2>3, AnswersPc, CallPc DEF GetContactsUser, db, rows
  <2>4. CASE GetContactsList(h)
    BY <2>4, AnswersPc, CallPc
       DEF GetContactsList, ContactsHelper, db, rows
  <2>5. CASE GetContactsRow(h)
    BY <2>5, AnswersPc, CallPc
       DEF GetContactsRow, ContactsHelper, db, rows
  <2>6. QED
    BY <2>1, <2>2, <2>3, <2>4, <2>5
<1>7. PairExists(h) => contactslst' = contactslst
  BY DEF PairExists, db, rows
<1>8. QED
  BY <1>2, <1>3, <1>4, <1>5, <1>6, <1>7 DEF ContactStep

LEMMA SchemaStepContacts ==
  ASSUME NEW h \in Slots, Typed, ContactInv, SchemaStep(h)
  PROVE  ContactInv'
<1>1. MoveOf(h)
  BY SchemaKeeps DEF Kept
<1>2. CASE CreateUsrlst(h) \/ CreateBob(h) \/ CreateAddBob(h)
  <2>1. contactslst' = contactslst
    BY <1>2 DEF CreateUsrlst, CreateBob, CreateAddBob, OnlyUsrlst, db, rows
  <2>2. pc'[h] # "addContact:insert"
    BY <1>2, CallPc DEF CreateUsrlst, CreateBob, CreateAddBob
  <2>3. QED
    BY <1>1, <2>1, <2>2, QuietContacts
<1>3. CASE CreateJoe(h) \/ CreateAddJoe(h)
  <2>1. contactslst' = contactslst
    BY <1>3 DEF CreateJoe, CreateAddJoe, OnlyUsrlst, db, rows
  <2>2. pc'[h] # "addContact:insert"
    BY <1>3, Busy, CallPc, LaunchKeeps DEF CreateJoe, CreateAddJoe, Reply
  <2>3. QED
    BY <1>1, <2>1, <2>2, QuietContacts
<1>4. ASSUME NEW m \in Modules, Migrate(h, m) \/ LaunchedError(h, m)
      PROVE  ContactInv'
  BY <1>1, <1>4, SettleKeeps, QuietContacts
     DEF Migrate, LaunchedError, Running, db, rows
<1>5. ASSUME NEW m \in Modules, Rollback(h, m)
      PROVE  ContactInv'
  <2>1. pc'[h] # "addContact:insert"
    BY <1>5, SettleKeeps DEF Rollback, Running
  <2>2. CASE m = "Contacts"
    <3>1. contactslst' = << >>
      BY <1>5, <2>2 DEF Rollback
    <3>2. ContactUnique'
      BY <3>1 DEF ContactUnique
    <3>3. QED
      BY <1>1, <1>5, <2>1, <2>2, <3>2, HolderContacts DEF Rollback, Running
  <2>3. CASE m # "Contacts"
    BY <1>1, <1>5, <2>1, <2>3, QuietContacts DEF Rollback
  <2>4. QED
    BY <2>2, <2>3
<1>6. QED
  BY <1>2, <1>3, <1>4, <1>5 DEF SchemaStep

LEMMA NextContacts == Typed /\ ContactInv /\ [Next]_vars => ContactInv'
<1> SUFFICES ASSUME Typed, ContactInv, [Next]_vars  PROVE ContactInv'
  OBVIOUS
<1>1. ASSUME NEW h \in Slots, NEW req \in Requests, Receive(h, req)  PROVE ContactInv'
  BY <1>1, ReceiveKeeps, ReceiveLeads, QuietContacts DEF Kept
<1>2. ASSUME NEW h \in Slots, Step(h)  PROVE ContactInv'
  <2>1. MoveOf(h)
    BY <1>2, StepKeeps DEF Kept
  <2>2. CASE ContactStep(h) \/ SchemaStep(h)
    BY <2>2, ContactStepInv, SchemaStepContacts
  <2>3. CASE AccountStep(h)
    BY <2>1, <2>3, AccountLeads, QuietContacts
  <2>4. CASE ConversationStep(h)
    BY <2>1, <2>4, ConversationLeads, QuietContacts
  <2>5. CASE MessageStep(h)
    BY <2>1, <2>5, MessageLeads, QuietContacts
  <2>6. CASE StatementError(h)
    BY <2>1, <2>6, ErrorLeads, QuietContacts
  <2>7. QED
    BY <1>2, <2>2, <2>3, <2>4, <2>5, <2>6 DEF Step
<1>3. CASE Restart
  BY <1>3 DEF Restart, ContactInv, ContactWindow, ContactUnique, db, rows
<1>4. CASE UNCHANGED vars
  BY <1>4 DEF vars, db, rows, server, ContactInv, ContactWindow, ContactUnique,
              Known, ContactRows
<1>5. QED
  BY <1>1, <1>2, <1>3, <1>4 DEF Next

\* The rows of contactslst the server starts with
ContactsWellSeeded ==
  \A i, j \in DOMAIN InitContacts :
    /\ InitContacts[i].userid = InitContacts[j].userid
    /\ InitContacts[i].contactid = InitContacts[j].contactid
    => i = j

\* A user has another for contact at most once, for any requests, any number
\* of handlers, statement failures and restarts.
THEOREM ContactsAreUnique == ContactsWellSeeded => (Spec => []ContactUnique)
<1> SUFFICES ASSUME ContactsWellSeeded  PROVE Spec => []ContactUnique
  OBVIOUS
<1>1. Init => ContactInv
  BY DEF Init, ContactsWellSeeded, ContactInv, ContactUnique, ContactWindow
<1>2. ContactInv => ContactUnique
  BY DEF ContactInv
<1>3. QED
  BY <1>1, <1>2, AlwaysTyped, NextContacts, PTL DEF Spec
-----------------------------------------------------------------------------
(***************************************************************************)
(* The id make_conversation goes on with is the id of the conversation it  *)
(* inserted: from add_convo to get_id_from_convo_name, insert_convo never  *)
(* lets go of Conversations' connection.  No id that was ever stored or    *)
(* looked up loses its row, members are the creator and the contacts, and  *)
(* "Success" means all of those named.                                     *)
(***************************************************************************)
\* A conversation as h's request describes it
Mine(h) == [convo_name |-> Req(h).name, creator_name |-> Req(h).creator]

\* What insert_convo knows when it asks for the last id: the last
\* conversation is h's, and nobody has its id yet.
IdWindow(h) ==
  pc[h] = "makeConversation:id" =>
    /\ "Conversations" \in calls[h]
    /\ Len(convolst) > 0
    /\ convolst[Len(convolst)] = Mine(h)
    /\ \A g \in Slots : frame[g].convo # Len(convolst)

ConvoInv ==
  /\ LastIdIsMine
  /\ \A h \in Slots : IdWindow(h) /\ frame[h].convo <= Len(convolst)

\* h has no conversation's id that it did not have before.
KeepsConvo(h) ==
  \/ frame'[h].convo = 0
  \/ frame'[h].convo = frame[h].convo /\ Req(h)' = Req(h)
-----------------------------------------------------------------------------
LEMMA AnswerConvo ==
  ASSUME NEW h \in Slots, Typed, NEW req, NEW status, NEW text, NEW data,
         Answer(h, req, status, text, data)
  PROVE  KeepsConvo(h)
<1>1. frame'[h] = NoFrame
  BY DEF Answer, Typed, HandlersTypeOK
<1>2. QED
  BY <1>1 DEF KeepsConvo, NoFrame

\* The same of every form an answer takes
LEMMA AnswersConvo ==
  ASSUME NEW h \in Slots, Typed
  PROVE  /\ \A req : Fail(h, req) => KeepsConvo(h)
         /\ \A text : RespondText(h, text) => KeepsConvo(h)
         /\ \A data : RespondJson(h, data) => KeepsConvo(h)
BY AnswerConvo DEF Fail, RespondText, RespondJson

LEMMA CallConvo ==
  ASSUME NEW h \in Slots, Typed, NEW m, NEW label, NEW f, NEW w,
         Call(h, m, label, f, w),
         f.convo = 0 \/ (f.convo = frame[h].convo /\ f.req = Req(h))
  PROVE  KeepsConvo(h)
<1>1. CASE Available(h, m)
  BY <1>1 DEF Call, Typed, HandlersTypeOK, KeepsConvo, Req
<1>2. CASE ~Available(h, m)
  BY <1>2, AnswersConvo DEF Call
<1>3. QED
  BY <1>1, <1>2

\* A call that goes on with the handler's frame, or binds another id in it
LEMMA OnConvo ==
  ASSUME NEW h \in Slots, Typed, NEW m, NEW label, NEW w
  PROVE  /\ Call(h, m, label, frame[h], w) => KeepsConvo(h)
         /\ \A id : Call(h, m, label, [frame[h] EXCEPT !.user = id], w) => KeepsConvo(h)
         /\ \A id : Call(h, m, label, [frame[h] EXCEPT !.contact = id], w) => KeepsConvo(h)
<1>1. frame[h] \in Frame
  BY DEF Typed, HandlersTypeOK
<1>2. Call(h, m, label, frame[h], w) => KeepsConvo(h)
  BY CallConvo DEF Req
<1>3. ASSUME NEW id, Call(h, m, label, [frame[h] EXCEPT !.user = id], w)
      PROVE  KeepsConvo(h)
  <2>1. /\ [frame[h] EXCEPT !.user = id].convo = frame[h].convo
        /\ [frame[h] EXCEPT !.user = id].req = Req(h)
    BY <1>1 DEF Frame, Req
  <2>2. QED
    BY <1>3, <2>1, CallConvo
<1>4. ASSUME NEW id, Call(h, m, label, [frame[h] EXCEPT !.contact = id], w)
      PROVE  KeepsConvo(h)
  <2>1. /\ [frame[h] EXCEPT !.contact = id].convo = frame[h].convo
        /\ [frame[h] EXCEPT !.contact = id].req = Req(h)
    BY <1>1 DEF Frame, Req
  <2>2. QED
    BY <1>4, <2>1, CallConvo
<1>5. QED
  BY <1>2, <1>3, <1>4

LEMMA LaunchConvo ==
  ASSUME NEW h \in Slots, Typed, NEW req, Launch(h, req)
  PROVE  KeepsConvo(h)
BY DEF Launch, NoFrame, KeepsConvo, Typed, HandlersTypeOK

LEMMA SettleConvo ==
  ASSUME NEW h \in Slots, Typed, NEW left, NEW fail, Settle(h, left, fail)
  PROVE  KeepsConvo(h)
BY DEF Settle, NoFrame, KeepsConvo, Typed, HandlersTypeOK, Req
-----------------------------------------------------------------------------
LEMMA AccountConvo ==
  ASSUME NEW h \in Slots, Typed, AccountStep(h)
  PROVE  KeepsConvo(h)
<1> USE AnswersConvo, OnConvo
<1>1. CASE RegisterEmail(h)
  BY <1>1 DEF RegisterEmail
<1>2. CASE RegisterUsername(h)
  BY <1>2 DEF RegisterUsername
<1>3. CASE RegisterAdd(h)
  BY <1>3 DEF RegisterAdd
<1>4. CASE LoginPassword(h)
  BY <1>4 DEF LoginPassword
<1>5. CASE LoginEmail(h)
  BY <1>5 DEF LoginEmail
<1>6. CASE LoginByEmail(h)
  BY <1>6 DEF LoginByEmail
<1>7. CASE LoginByUsername(h)
  BY <1>7 DEF LoginByUsername
<1>8. CASE ChangeUsername(h)
  BY <1>8 DEF ChangeUsername
<1>9. QED
  BY <1>1, <1>2, <1>3, <1>4, <1>5, <1>6, <1>7, <1>8 DEF AccountStep

LEMMA SchemaConvo ==
  ASSUME NEW h \in Slots, Typed, SchemaStep(h)
  PROVE  KeepsConvo(h)
<1> USE OnConvo, LaunchConvo, SettleConvo
<1>1. CASE CreateUsrlst(h)
  BY <1>1 DEF CreateUsrlst
<1>2. CASE CreateBob(h)
  BY <1>2 DEF CreateBob
<1>3. CASE CreateAddBob(h)
  BY <1>3 DEF CreateAddBob
<1>4. CASE CreateJoe(h)
  BY <1>4 DEF CreateJoe
<1>5. CASE CreateAddJoe(h)
  BY <1>5 DEF CreateAddJoe
<1>6. ASSUME NEW m \in Modules, Migrate(h, m) \/ Rollback(h, m) \/ LaunchedError(h, m)
      PROVE  KeepsConvo(h)
  BY <1>6 DEF Migrate, Rollback, LaunchedError
<1>7. QED
  BY <1>1, <1>2, <1>3, <1>4, <1>5, <1>6 DEF SchemaStep

LEMMA ContactConvo ==
  ASSUME NEW h \in Slots, Typed, ContactStep(h)
  PROVE  KeepsConvo(h)
<1> USE AnswersConvo, OnConvo
<1>1. CASE PairUser(h)
  BY <1>1 DEF PairUser
<1>2. CASE PairContact(h)
  BY <1>2 DEF PairContact
<1>3. CASE PairExists(h)
  BY <1>3 DEF PairExists
<1>4. CASE AddContactInsert(h)
  BY <1>4 DEF AddContactInsert
<1>5. CASE FavoriteUpdate(h)
  BY <1>5 DEF FavoriteUpdate
<1>6. CASE GetContactsUser(h)
  BY <1>6 DEF GetContactsUser
<1>7. ASSUME NEW todo, NEW out, ContactsHelper(h, todo, out)  PROVE KeepsConvo(h)
  BY <1>7 DEF ContactsHelper
<1>8. CASE GetContactsList(h)
  BY <1>7, <1>8 DEF GetContactsList
<1>9. CASE GetContactsRow(h)
  BY <1>7, <1>9 DEF GetContactsRow
<1>10. QED
  BY <1>1, <1>2, <1>3, <1>4, <1>5, <1>6, <1>8, <1>9 DEF ContactStep

LEMMA MessageConvo ==
  ASSUME NEW h \in Slots, Typed, MessageStep(h)
  PROVE  KeepsConvo(h)
<1> USE AnswersConvo, OnConvo
<1>1. CASE PostMessageSender(h)
  BY <1>1 DEF PostMessageSender
<1>2. JoeTurn(h) => KeepsConvo(h)
  BY DEF JoeTurn
<1>3. CASE PostMessageUser(h)
  BY <1>2, <1>3 DEF PostMessageUser
<1>4. CASE PostMessageBob(h)
  BY <1>2, <1>4 DEF PostMessageBob
<1>5. CASE PostMessageJoe(h)
  BY <1>5 DEF PostMessageJoe
<1>6. ASSUME NEW todo, NEW out, InterpretMsglist(h, todo, out)  PROVE KeepsConvo(h)
  BY <1>6 DEF InterpretMsglist
<1>7. CASE GetMessagesList(h)
  BY <1>6, <1>7 DEF GetMessagesList
<1>8. CASE GetMessagesRow(h)
  BY <1>6, <1>8 DEF GetMessagesRow
<1>9. QED
  BY <1>1, <1>3, <1>4, <1>5, <1>7, <1>8 DEF MessageStep

\* The steps over convolst's rows that learn no id, and those that only read
LEMMA ConversationConvo ==
  ASSUME NEW h \in Slots, Typed, ConversationStep(h)
  PROVE  KeepsConvo(h) \/ MakeConversationId(h)
<1> USE AnswersConvo, OnConvo
<1>1. CASE MakeConversationCreator(h)
  BY <1>1 DEF MakeConversationCreator
<1>2. CASE MakeConversationInsert(h)
  BY <1>2 DEF MakeConversationInsert
<1>3. ASSUME NEW todo, GenUserConvos(h, todo)  PROVE KeepsConvo(h)
  BY <1>3 DEF GenUserConvos
<1>4. CASE MakeConversationJoin(h)
  BY <1>3, <1>4 DEF MakeConversationJoin
<1>5. CASE MakeConversationContact(h)
  BY <1>5 DEF MakeConversationContact
<1>6. CASE MakeConversationCheck(h)
  BY <1>6 DEF MakeConversationCheck
<1>7. CASE MakeConversationMember(h)
  BY <1>3, <1>7 DEF MakeConversationMember
<1>8. CASE GetConversationsUser(h)
  BY <1>8 DEF GetConversationsUser
<1>9. ASSUME NEW todo, NEW out, ConvoHelper(h, todo, out)  PROVE KeepsConvo(h)
  BY <1>9 DEF ConvoHelper
<1>10. CASE GetConversationsList(h)
  BY <1>9, <1>10 DEF GetConversationsList
<1>11. CASE GetConversationsUsers(h)
  BY <1>11 DEF GetConversationsUsers
<1>12. CASE GetConversationsRow(h)
  BY <1>9, <1>12 DEF GetConversationsRow
<1>13. QED
  BY <1>1, <1>2, <1>4, <1>5, <1>6, <1>7, <1>8, <1>10, <1>11, <1>12
     DEF ConversationStep
-----------------------------------------------------------------------------
LEMMA QuietConvos ==
  ASSUME NEW h \in Slots, Typed, ConvoInv, MoveOf(h), KeepsConvo(h),
         convolst' = convolst, pc'[h] # "makeConversation:id"
  PROVE  ConvoInv'
<1>1. /\ \A g \in Slots : frame[g] \in Frame /\ frame'[g] \in Frame
      /\ Len(convolst) \in Nat
  BY DEF Typed, HandlersTypeOK, RowsTypeOK, MoveOf, ServerTyped
<1>2. ASSUME NEW g \in Slots
      PROVE  \/ frame'[g].convo = 0
             \/ frame'[g].convo = frame[g].convo /\ Req(g)' = Req(g)
  BY DEF MoveOf, KeepsConvo, Req
<1>3. LastIdIsMine'
  BY <1>2 DEF ConvoInv, LastIdIsMine
<1>4. ASSUME NEW g \in Slots  PROVE frame'[g].convo <= Len(convolst')
  BY <1>1, <1>2, <1>4 DEF ConvoInv, Frame
<1>5. ASSUME NEW g \in Slots, pc'[g] = "makeConversation:id"
      PROVE  IdWindow(g)'
  <2>1. /\ g # h /\ pc[g] = "makeConversation:id" /\ calls'[g] = calls[g]
        /\ Req(g)' = Req(g)
    BY <1>5 DEF MoveOf, Req
  <2>2. IdWindow(g)
    BY DEF ConvoInv
  <2>3. \A k \in Slots : frame'[k].convo # Len(convolst)
    BY <1>2, <2>1, <2>2 DEF IdWindow
  <2>4. QED
    BY <2>1, <2>2, <2>3 DEF IdWindow, Mine
<1>6. QED
  BY <1>3, <1>4, <1>5 DEF ConvoInv, IdWindow

LEMMA InsertConvos ==
  ASSUME NEW h \in Slots, Typed, ConvoInv, MakeConversationInsert(h)
  PROVE  ConvoInv'
<1>1. /\ MoveOf(h) /\ convolst \in Seq(Conversation) /\ frame[h] \in Frame
      /\ "Conversations" \in Modules /\ "Conversations" \in calls[h]
  BY ConversationKeeps
     DEF ConversationStep, Kept, Typed, RowsTypeOK, HandlersTypeOK, Modules,
         MakeConversationInsert, Reply
<1>2. KeepsConvo(h)
  BY OnConvo DEF MakeConversationInsert
<1>3. /\ Len(convolst) \in Nat /\ Len(convolst') = Len(convolst) + 1
      /\ \A i \in 1 .. Len(convolst) : convolst'[i] = convolst[i]
      /\ convolst'[Len(convolst) + 1] = Mine(h)
  BY <1>1 DEF MakeConversationInsert, Mine
<1>4. \A g \in Slots : frame[g] \in Frame /\ frame'[g] \in Frame
  BY <1>1 DEF Typed, HandlersTypeOK, MoveOf, ServerTyped
<1>5. ASSUME NEW g \in Slots
      PROVE  /\ \/ frame'[g].convo = 0
                \/ frame'[g].convo = frame[g].convo /\ Req(g)' = Req(g)
             /\ frame'[g].convo \in Nat /\ frame[g].convo \in Nat
             /\ frame[g].convo <= Len(convolst)
  BY <1>1, <1>2, <1>4 DEF MoveOf, KeepsConvo, Req, Frame, ConvoInv
<1>6. LastIdIsMine'
  <2>1. ASSUME NEW g \in Slots, frame'[g].convo # 0
        PROVE  convolst'[frame'[g].convo] = convolst[frame'[g].convo]
    BY <1>3, <1>5, <2>1
  <2>2. QED
    BY <1>5, <2>1 DEF ConvoInv, LastIdIsMine
<1>7. \A g \in Slots : frame'[g].convo < Len(convolst')
  BY <1>3, <1>5
<1>8. ASSUME NEW g \in Slots, pc'[g] = "makeConversation:id"
      PROVE  IdWindow(g)'
  <2>1. CASE g = h
    <3>1. calls'[h] = {"Conversations"} /\ Req(h)' = Req(h)
      BY <1>1, <1>8, <2>1, HandlersTyped, CallMoves, ZenonT(60)
         DEF MakeConversationInsert, Typed, Req
    <3>2. Mine(h)' = Mine(h)
      BY <3>1 DEF Mine
    <3>3. QED
      BY <1>3, <1>7, <2>1, <3>1, <3>2 DEF IdWindow
  <2>2. CASE g # h
    BY <1>1, <1>8, <2>2 DEF MoveOf, Typed, Exclusive, ConvoInv, IdWindow
  <2>3. QED
    BY <2>1, <2>2
<1>9. QED
  BY <1>3, <1>5, <1>6, <1>7, <1>8 DEF ConvoInv, IdWindow

LEMMA IdConvos ==
  ASSUME NEW h \in Slots, Typed, ConvoInv, MakeConversationId(h)
  PROVE  ConvoInv'
<1>1. /\ MoveOf(h) /\ convolst \in Seq(Conversation) /\ convolst' = convolst
      /\ frame[h] \in Frame /\ pc[h] = "makeConversation:id"
      /\ "Conversations" \in calls[h] /\ "UserConversation" \in Modules
  BY ConversationKeeps
     DEF ConversationStep, Kept, Typed, RowsTypeOK, HandlersTypeOK, Modules,
         MakeConversationId, Reply, db, rows
<1>2. /\ Len(convolst) \in Nat /\ Len(convolst) > 0
      /\ convolst[Len(convolst)] = Mine(h)
      /\ \A g \in Slots : frame[g].convo # Len(convolst)
  BY <1>1 DEF ConvoInv, IdWindow
<1>3. DEFINE found == [frame[h] EXCEPT !.convo = Len(convolst)]
<1>4. /\ Call(h, "UserConversation", "makeConversation:join", found, work[h])
      /\ found \in Frame /\ found.convo = Len(convolst) /\ found.req = Req(h)
  BY <1>1, <1>2 DEF MakeConversationId, Frame, Req
<1> HIDE DEF found
<1>5. \/ pc'[h] = "idle" /\ frame'[h] = NoFrame
      \/ pc'[h] = "makeConversation:join" /\ frame'[h] = found
  BY <1>1, <1>4, HandlersTyped, CallMoves, ZenonT(60) DEF Typed
<1>6. CASE frame'[h] = NoFrame /\ pc'[h] = "idle"
  BY <1>1, <1>6, QuietConvos DEF KeepsConvo, NoFrame
<1>7. CASE frame'[h] = found /\ pc'[h] = "makeConversation:join"
  <2>1. /\ frame'[h].convo = Len(convolst) /\ Mine(h)' = Mine(h)
        /\ \A g \in Slots \ {h} : frame'[g] = frame[g]
    BY <1>1, <1>4, <1>7 DEF Mine, Req, MoveOf
  <2>2. LastIdIsMine'
    <3>1. ASSUME NEW g \in Slots, frame'[g].convo # 0,
                 frame'[g].req.op = "makeConversation"
          PROVE  convolst[frame'[g].convo] = Mine(g)'
      BY <1>2, <2>1, <3>1 DEF ConvoInv, LastIdIsMine, Mine, Req
    <3>2. ASSUME NEW g \in Slots, NEW k \in Slots,
                 frame'[g].convo = frame'[k].convo, frame'[k].convo # 0
          PROVE  g = k
      <4>1. \A a, b \in Slots :
              frame[a].convo = frame[b].convo /\ frame[b].convo # 0 => a = b
        BY DEF ConvoInv, LastIdIsMine
      <4>2. ASSUME NEW a \in Slots \ {h}  PROVE frame'[a].convo # Len(convolst)
        BY <1>2, <2>1
      <4>3. CASE g # h /\ k # h
        BY <2>1, <3>2, <4>1, <4>3
      <4>4. CASE g = h \/ k = h
        BY <2>1, <3>2, <4>2, <4>4
      <4>5. QED
        BY <4>3, <4>4
    <3>3. QED
      BY <1>1, <3>1, <3>2 DEF LastIdIsMine, Mine, Req
  <2>3. \A g \in Slots : frame'[g].convo <= Len(convolst')
    BY <1>1, <1>2, <2>1 DEF ConvoInv
  <2>4. ASSUME NEW g \in Slots  PROVE IdWindow(g)'
    BY <1>1, <1>7 DEF MoveOf, Typed, Exclusive, ConvoInv, IdWindow
  <2>5. QED
    BY <2>2, <2>3, <2>4 DEF ConvoInv
<1>8. QED
  BY <1>5, <1>6, <1>7

LEMMA ConversationStepConvos ==
  ASSUME NEW h \in Slots, Typed, ConvoInv, ConversationStep(h)
  PROVE  ConvoInv'
<1>1. CASE MakeConversationInsert(h)
  BY <1>1, InsertConvos
<1>2. CASE MakeConversationId(h)
  BY <1>2, IdConvos
<1>3. CASE ~MakeConversationInsert(h) /\ ~MakeConversationId(h)
  <2>1. MoveOf(h) /\ KeepsConvo(h)
    BY <1>3, ConversationKeeps, ConversationConvo DEF Kept
  <2>2. convolst' = convolst /\ pc'[h] # "makeConversation:id"
    <3> USE AnswersPc, CallPc DEF db, rows
    <3>1. CASE MakeConversationCreator(h)
      BY <3>1 DEF MakeConversationCreator
    <3>2. ASSUME NEW todo, GenUserConvos(h, todo)
          PROVE  pc'[h] # "makeConversation:id"
      BY <3>2 DEF GenUserConvos
    <3>3. CASE MakeConversationJoin(h)
      BY <3>2, <3>3 DEF MakeConversationJoin, OnlyUserconvolst
    <3>4. CASE MakeConversationContact(h)
      BY <3>4 DEF MakeConversationContact
    <3>5. CASE MakeConversationCheck(h)
      BY <3>5 DEF MakeConversationCheck
    <3>6. CASE MakeConversationMember(h)
      BY <3>2, <3>6 DEF MakeConversationMember, OnlyUserconvolst
    <3>7. CASE GetConversationsUser(h)
      BY <3>7 DEF GetConversationsUser
    <3>8. ASSUME NEW todo, NEW out, ConvoHelper(h, todo, out)
          PROVE  pc'[h] # "makeConversation:id"
      BY <3>8 DEF ConvoHelper
    <3>9. CASE GetConversationsList(h)
      BY <3>8, <3>9 DEF GetConversationsList
    <3>10. CASE GetConversationsUsers(h)
      BY <3>10 DEF GetConversationsUsers
    <3>11. CASE GetConversationsRow(h)
      BY <3>8, <3>11 DEF GetConversationsRow
    <3>12. QED
      BY <1>3, <3>1, <3>3, <3>4, <3>5, <3>6, <3>7, <3>9, <3>10, <3>11
         DEF ConversationStep
  <2>3. QED
    BY <2>1, <2>2, QuietConvos
<1>4. QED
  BY <1>1, <1>2, <1>3

LEMMA SchemaStepConvos ==
  ASSUME NEW h \in Slots, Standing, Typed, ConvoInv, SchemaStep(h)
  PROVE  ConvoInv'
<1>1. MoveOf(h) /\ KeepsConvo(h)
  BY SchemaKeeps, SchemaConvo DEF Kept
<1>2. CASE CreateUsrlst(h) \/ CreateBob(h) \/ CreateAddBob(h)
  <2>1. convolst' = convolst
    BY <1>2 DEF CreateUsrlst, CreateBob, CreateAddBob, OnlyUsrlst, db, rows
  <2>2. pc'[h] # "makeConversation:id"
    BY <1>2, CallPc DEF CreateUsrlst, CreateBob, CreateAddBob
  <2>3. QED
    BY <1>1, <2>1, <2>2, QuietConvos
<1>3. CASE CreateJoe(h) \/ CreateAddJoe(h)
  <2>1. convolst' = convolst
    BY <1>3 DEF CreateJoe, CreateAddJoe, OnlyUsrlst, db, rows
  <2>2. pc'[h] # "makeConversation:id"
    BY <1>3, Busy, CallPc, LaunchKeeps DEF CreateJoe, CreateAddJoe, Reply
  <2>3. QED
    BY <1>1, <2>1, <2>2, QuietConvos
<1>4. ASSUME NEW m \in Modules, Migrate(h, m) \/ LaunchedError(h, m)
      PROVE  ConvoInv'
  BY <1>1, <1>4, SettleKeeps, QuietConvos
     DEF Migrate, LaunchedError, Running, db, rows
<1>5. ASSUME NEW m \in Modules  PROVE ~Rollback(h, m)
  BY Busy DEF Standing, Rollback, Running
<1>6. QED
  BY <1>2, <1>3, <1>4, <1>5 DEF SchemaStep

LEMMA ReceiveConvo ==
  ASSUME NEW h \in Slots, Typed, NEW req \in Requests, Receive(h, req)
  PROVE  KeepsConvo(h)
<1>1. [NoFrame EXCEPT !.req = req].convo = 0
  BY DEF NoFrame
<1>2. QED
  BY <1>1, LaunchConvo, CallConvo DEF Receive

LEMMA NextConvos == Standing /\ Typed /\ ConvoInv /\ [Next]_vars => ConvoInv'
<1> SUFFICES ASSUME Standing, Typed, ConvoInv, [Next]_vars  PROVE ConvoInv'
  OBVIOUS
<1>1. ASSUME NEW h \in Slots, NEW req \in Requests, Receive(h, req)  PROVE ConvoInv'
  BY <1>1, ReceiveKeeps, ReceiveLeads, ReceiveConvo, QuietConvos DEF Kept
<1>2. ASSUME NEW h \in Slots, Step(h)  PROVE ConvoInv'
  <2>1. MoveOf(h)
    BY <1>2, StepKeeps DEF Kept
  <2>2. CASE ConversationStep(h) \/ SchemaStep(h)
    BY <2>2, ConversationStepConvos, SchemaStepConvos
  <2>3. CASE AccountStep(h)
    BY <2>1, <2>3, AccountLeads, AccountConvo, QuietConvos
  <2>4. CASE ContactStep(h)
    BY <2>1, <2>4, ContactLeads, ContactConvo, QuietConvos
  <2>5. CASE MessageStep(h)
    BY <2>1, <2>5, MessageLeads, MessageConvo, QuietConvos
  <2>6. CASE StatementError(h)
    BY <2>1, <2>6, ErrorLeads, AnswersConvo, QuietConvos DEF StatementError
  <2>7. QED
    BY <1>2, <2>2, <2>3, <2>4, <2>5, <2>6 DEF Step
<1>3. CASE Restart
  <2>1. \A h \in Slots : pc'[h] = "idle" /\ frame'[h].convo = 0
    BY <1>3 DEF Restart, NoFrame
  <2>2. convolst' = convolst /\ Len(convolst) \in Nat
    BY <1>3 DEF Restart, db, rows, Typed, RowsTypeOK
  <2>3. QED
    BY <2>1, <2>2 DEF ConvoInv, LastIdIsMine, IdWindow
<1>4. CASE UNCHANGED vars
  BY <1>4 DEF vars, db, rows, server, ConvoInv, LastIdIsMine, IdWindow, Mine, Req
<1>5. QED
  BY <1>1, <1>2, <1>3, <1>4 DEF Next

LEMMA AlwaysConvos == Standing => (Spec => []ConvoInv)
<1> SUFFICES ASSUME Standing  PROVE Spec => []ConvoInv
  OBVIOUS
<1>1. Init => ConvoInv
  BY DEF Init, NoFrame, ConvoInv, LastIdIsMine, IdWindow
<1>2. QED
  BY <1>1, AlwaysTyped, NextConvos, PTL DEF Spec

\* The id make_conversation continues with is the id of the conversation it
\* inserted, and no two handlers continue with the same one, for any number
\* of handlers, statement failures and restarts, while nobody drops the tables.
THEOREM LastIdsAreMine == Standing => (Spec => []LastIdIsMine)
<1> SUFFICES ASSUME Standing  PROVE Spec => []LastIdIsMine
  OBVIOUS
<1>1. ConvoInv => LastIdIsMine
  BY DEF ConvoInv
<1>2. Spec => []ConvoInv
  BY AlwaysConvos
<1>3. QED
  BY <1>1, <1>2, PTL
-----------------------------------------------------------------------------
(***************************************************************************)
(* The ids found in the tables, and those the handlers hold, are ids of    *)
(* rows.                                                                   *)
(***************************************************************************)
\* Where a handler holds the id of the user, of the contact and of the
\* conversation it is about.
WithUser == {"pair:contact", "pair:exists", "addContact:insert",
             "makeConversation:insert", "makeConversation:id",
             "makeConversation:join", "makeConversation:contact",
             "makeConversation:check", "makeConversation:member",
             "postMessage:user"}
WithContact == {"pair:exists", "addContact:insert",
                "makeConversation:check", "makeConversation:member"}
WithConvo == {"makeConversation:join", "makeConversation:contact",
              "makeConversation:check", "makeConversation:member"}

Refers(label, f, w) ==
  /\ label \in WithUser => f.user \in DOMAIN usrlst
  /\ label \in WithContact => f.contact \in DOMAIN usrlst
  /\ label \in WithConvo => f.convo \in DOMAIN convolst
  /\ label = "getContacts:row" =>
       \A k \in DOMAIN w.todo : w.todo[k].contact_id \in DOMAIN usrlst
  /\ label \in {"getConversations:users", "getConversations:row"} =>
       \A k \in DOMAIN w.todo : w.todo[k].conversation_id \in DOMAIN convolst
  /\ label = "getMessages:row" =>
       \A k \in DOMAIN w.todo : w.todo[k].senderid \in DOMAIN usrlst

Ref(h) == Refers(pc[h], frame[h], work[h])

RowsRefer ==
  /\ \A i \in DOMAIN contactslst : /\ contactslst[i].userid \in DOMAIN usrlst
                                   /\ contactslst[i].contactid \in DOMAIN usrlst
  /\ \A i \in DOMAIN userconvolst :
       /\ userconvolst[i].conversation_id \in DOMAIN convolst
       /\ userconvolst[i].users_id \in DOMAIN usrlst
  /\ \A i \in DOMAIN msglst : msglst[i].senderid \in DOMAIN usrlst

RefInv ==
  /\ RowsRefer
  /\ {BobId, JoeId} \subseteq DOMAIN usrlst
  /\ \A h \in Slots : Ref(h)

RefLabels == WithUser \cup {"getContacts:row", "getConversations:users",
                            "getConversations:row", "getMessages:row"}

LEMMA RefersStay ==
  ASSUME NEW label, NEW f, NEW w, Grow, Refers(label, f, w)
  PROVE  Refers(label, f, w)'
BY DEF Grow, Refers

\* Where a call leaves its handler
LEMMA CallSays ==
  ASSUME NEW h \in Slots, Typed, NEW m, NEW label, NEW f, NEW w,
         Call(h, m, label, f, w)
  PROVE  \/ pc'[h] = label /\ frame'[h] = f /\ work'[h] = w
         \/ pc'[h] = "idle"
BY DEF Call, Fail, Answer, Typed, HandlersTypeOK

LEMMA CallRefers ==
  ASSUME NEW h \in Slots, Typed, NEW m, NEW label, NEW f, NEW w,
         Call(h, m, label, f, w), Grow, Refers(label, f, w)
  PROVE  Ref(h)'
<1>1. Refers(label, f, w)'
  BY RefersStay
<1>2. CASE pc'[h] = label /\ frame'[h] = f /\ work'[h] = w
  BY <1>1, <1>2 DEF Ref
<1>3. CASE pc'[h] = "idle"
  BY <1>3 DEF Ref, Refers, WithUser, WithContact, WithConvo
<1>4. QED
  BY <1>2, <1>3, CallSays

LEMMA IdleRefers ==
  ASSUME NEW h \in Slots, pc'[h] \notin RefLabels
  PROVE  Ref(h)'
BY DEF Ref, Refers, RefLabels, WithUser, WithContact, WithConvo

\* Holding another id
LEMMA Held ==
  ASSUME NEW h \in Slots, Typed, NEW id
  PROVE  /\ [frame[h] EXCEPT !.user = id].user = id
         /\ [frame[h] EXCEPT !.contact = id].contact = id
         /\ [frame[h] EXCEPT !.contact = id].user = frame[h].user
         /\ [frame[h] EXCEPT !.contact = id].convo = frame[h].convo
         /\ [frame[h] EXCEPT !.convo = id].convo = id
         /\ [frame[h] EXCEPT !.convo = id].user = frame[h].user
         /\ [frame[h] EXCEPT !.user = id].req = Req(h)
         /\ [frame[h] EXCEPT !.contact = id].req = Req(h)
         /\ [frame[h] EXCEPT !.convo = id].req = Req(h)
<1>1. frame[h] \in Frame
  BY DEF Typed, HandlersTypeOK
<1>2. QED
  BY <1>1 DEF Frame, Req
-----------------------------------------------------------------------------
LEMMA ContactRefers ==
  ASSUME NEW h \in Slots, Typed, Listed, RefInv, ContactStep(h)
  PROVE  Ref(h)'
<1> USE DEF RefLabels, WithUser, WithContact, WithConvo
<1>1. Grow
  BY ContactsGrow
<1>2. Refers(pc[h], frame[h], work[h])
  BY DEF RefInv, Ref
<1>3. CASE PairUser(h)
  <2>1. ASSUME NEW id \in UsersWithEmail(Req(h).user)
        PROVE  Refers("pair:contact", [frame[h] EXCEPT !.user = id], work[h])
    BY Held DEF Refers, UsersWithEmail
  <2>2. QED
    BY <1>1, <1>3, <2>1, CallRefers, IdleRefers, AnswersPc DEF PairUser
<1>4. CASE PairContact(h)
  <2>1. ASSUME NEW id \in UsersWithEmail(Req(h).contact)
        PROVE  Refers("pair:exists", [frame[h] EXCEPT !.contact = id], work[h])
    BY <1>2, <1>4, Held DEF PairContact, Reply, Refers, UsersWithEmail
  <2>2. QED
    BY <1>1, <1>4, <2>1, CallRefers, IdleRefers, AnswersPc DEF PairContact
<1>5. CASE PairExists(h)
  <2>1. Refers("addContact:insert", frame[h], work[h])
    BY <1>2, <1>5 DEF PairExists, Reply, Refers
  <2>2. CASE Call(h, "Contacts", "addContact:insert", frame[h], work[h])
    BY <1>1, <2>1, <2>2, CallRefers
  <2>3. CASE ~Call(h, "Contacts", "addContact:insert", frame[h], work[h])
    <3>1. pc'[h] \notin RefLabels
      BY <1>5, <2>3, AnswersPc, CallPc DEF PairExists
    <3>2. QED
      BY <3>1, IdleRefers
  <2>4. QED
    BY <2>2, <2>3
<1>6. CASE AddContactInsert(h) \/ FavoriteUpdate(h) \/ GetContactsUser(h)
  <2>1. pc'[h] \notin RefLabels
    BY <1>6, AnswersPc, CallPc DEF AddContactInsert, FavoriteUpdate, GetContactsUser
  <2>2. QED
    BY <2>1, IdleRefers
<1>7. ASSUME NEW todo, NEW out, ContactsHelper(h, todo, out),
             \A k \in DOMAIN todo : todo[k].contact_id \in DOMAIN usrlst
      PROVE  Ref(h)'
  <2>1. CASE todo = << >>
    BY <1>7, <2>1, IdleRefers, AnswersPc DEF ContactsHelper
  <2>2. CASE todo # << >>
    <3>1. PICK w : w = [work[h] EXCEPT !.todo = todo, !.out = out]
      OBVIOUS
    <3>2. w.todo = todo
      <4>1. PICK v \in WorkSet : v = work[h]
        BY DEF Listed
      <4>2. QED
        BY <3>1, <4>1 DEF WorkSet
    <3>3. Call(h, "User", "getContacts:row", frame[h], w)
      BY <1>7, <2>2, <3>1 DEF ContactsHelper
    <3>4. Refers("getContacts:row", frame[h], w)
      BY <1>7, <3>2 DEF Refers
    <3>5. QED
      BY <1>1, <3>3, <3>4, CallRefers
  <2>3. QED
    BY <2>1, <2>2
<1>8. CASE GetContactsList(h)
  <2>1. PICK ids : ids = ContactList(frame[h].user, Len(contactslst))
    OBVIOUS
  <2>2. \A k \in DOMAIN ids : ids[k] \in DOMAIN contactslst
    BY <2>1, ContactListTyped DEF Lists
  <2>3. PICK todo : /\ todo = [k \in DOMAIN ids |->
                                 [contact_id |-> contactslst[ids[k]].contactid,
                                  favorite |-> contactslst[ids[k]].favorite]]
                    /\ ContactsHelper(h, todo, << >>)
    BY <1>8, <2>1 DEF GetContactsList
  <2>4. \A k \in DOMAIN todo : todo[k].contact_id \in DOMAIN usrlst
    BY <2>2, <2>3 DEF RefInv, RowsRefer
  <2>5. QED
    BY <1>7, <2>3, <2>4
<1>9. CASE GetContactsRow(h)
  <2>1. /\ work[h].todo \in Seq([contact_id : Nat, favorite : BOOLEAN])
        /\ work[h].todo # << >>
    BY <1>9 DEF GetContactsRow, Reply, Listed, TodoFits
  <2>2. \A k \in DOMAIN work[h].todo : work[h].todo[k].contact_id \in DOMAIN usrlst
    BY <1>2, <1>9 DEF GetContactsRow, Reply, Refers
  <2>3. PICK todo : todo = Tail(work[h].todo)
    OBVIOUS
  <2>4. \A k \in DOMAIN todo : todo[k].contact_id \in DOMAIN usrlst
    BY <2>1, <2>2, <2>3, HeadTail
  <2>5. CASE Fail(h, Req(h))
    BY <2>5, IdleRefers, AnswersPc
  <2>6. CASE \E out : ContactsHelper(h, todo, out)
    BY <1>7, <2>4, <2>6
  <2>7. QED
    BY <1>9, <2>3, <2>5, <2>6 DEF GetContactsRow
<1>10. QED
  BY <1>3, <1>4, <1>5, <1>6, <1>8, <1>9 DEF ContactStep

LEMMA ConversationRefers ==
  ASSUME NEW h \in Slots, Typed, Listed, RefInv, ConversationStep(h)
  PROVE  Ref(h)'
<1> USE DEF RefLabels, WithUser, WithContact, WithConvo
<1>1. Grow
  BY ConversationsGrow
<1>2. Refers(pc[h], frame[h], work[h])
  BY DEF RefInv, Ref
<1>3. CASE MakeConversationCreator(h)
  <2>1. ASSUME NEW id \in UsersWithEmail(Req(h).creator)
        PROVE  Refers("makeConversation:insert", [frame[h] EXCEPT !.user = id], work[h])
    BY Held DEF Refers, UsersWithEmail
  <2>2. QED
    BY <1>1, <1>3, <2>1, CallRefers, IdleRefers, AnswersPc DEF MakeConversationCreator
<1>4. CASE MakeConversationInsert(h)
  <2>1. Refers("makeConversation:id", frame[h], work[h])
    BY <1>2, <1>4 DEF MakeConversationInsert, Reply, Refers
  <2>2. QED
    BY <1>1, <1>4, <2>1, CallRefers DEF MakeConversationInsert
<1>5. CASE MakeConversationId(h)
  <2>1. ASSUME convolst # << >>
        PROVE  Refers("makeConversation:join", [frame[h] EXCEPT !.convo = Len(convolst)],
                      work[h])
    <3>1. Len(convolst) \in DOMAIN convolst
      BY <2>1 DEF Typed, RowsTypeOK
    <3>2. QED
      BY <1>2, <1>5, <3>1, Held DEF MakeConversationId, Reply, Refers
  <2>2. QED
    BY <1>1, <1>5, <2>1, CallRefers, IdleRefers, AnswersPc DEF MakeConversationId
<1>6. ASSUME NEW todo, GenUserConvos(h, todo),
             frame[h].user \in DOMAIN usrlst, frame[h].convo \in DOMAIN convolst
      PROVE  Ref(h)'
  <2>1. CASE todo = << >>
    BY <1>6, <2>1, IdleRefers, AnswersPc DEF GenUserConvos
  <2>2. CASE todo # << >>
    <3>1. PICK w : Call(h, "User", "makeConversation:contact", frame[h], w)
      BY <1>6, <2>2 DEF GenUserConvos
    <3>2. Refers("makeConversation:contact", frame[h], w)
      BY <1>6 DEF Refers
    <3>3. QED
      BY <1>1, <3>1, <3>2, CallRefers
  <2>3. QED
    BY <2>1, <2>2
<1>7. CASE MakeConversationJoin(h) \/ MakeConversationMember(h)
  <2>1. frame[h].user \in DOMAIN usrlst /\ frame[h].convo \in DOMAIN convolst
    BY <1>2, <1>7 DEF MakeConversationJoin, MakeConversationMember, Reply, Refers
  <2>2. CASE Fail(h, Req(h))
    BY <2>2, IdleRefers, AnswersPc
  <2>3. CASE \E todo : GenUserConvos(h, todo)
    BY <1>6, <2>1, <2>3
  <2>4. QED
    BY <1>7, <2>2, <2>3 DEF MakeConversationJoin, MakeConversationMember
<1>8. CASE MakeConversationContact(h)
  <2>1. ASSUME NEW id \in UsersWithEmail(Head(work[h].todo).email)
        PROVE  Refers("makeConversation:check", [frame[h] EXCEPT !.contact = id], work[h])
    BY <1>2, <1>8, Held DEF MakeConversationContact, Reply, Refers, UsersWithEmail
  <2>2. QED
    BY <1>1, <1>8, <2>1, CallRefers, IdleRefers, AnswersPc DEF MakeConversationContact
<1>9. CASE MakeConversationCheck(h)
  <2>1. Refers("makeConversation:member", frame[h], work[h])
    BY <1>2, <1>9 DEF MakeConversationCheck, Reply, Refers
  <2>2. QED
    BY <1>1, <1>9, <2>1, CallRefers, IdleRefers, AnswersPc DEF MakeConversationCheck
<1>10. CASE GetConversationsUser(h)
  <2>1. pc'[h] \notin RefLabels
    BY <1>10, AnswersPc, CallPc DEF GetConversationsUser
  <2>2. QED
    BY <2>1, IdleRefers
<1>11. ASSUME NEW todo, NEW out, ConvoHelper(h, todo, out),
              \A k \in DOMAIN todo : todo[k].conversation_id \in DOMAIN convolst
       PROVE  Ref(h)'
  <2>1. CASE todo = << >>
    BY <1>11, <2>1, IdleRefers, AnswersPc DEF ConvoHelper
  <2>2. CASE todo # << >>
    <3>1. PICK w : w = [todo |-> todo, out |-> out, users |-> {}]
      OBVIOUS
    <3>2. Call(h, "UserConversation", "getConversations:users", frame[h], w)
      BY <1>11, <2>2, <3>1 DEF ConvoHelper
    <3>3. Refers("getConversations:users", frame[h], w)
      BY <1>11, <3>1 DEF Refers
    <3>4. QED
      BY <1>1, <3>2, <3>3, CallRefers
  <2>3. QED
    BY <2>1, <2>2
<1>12. CASE GetConversationsList(h)
  <2>1. PICK ids : ids = MembershipList(frame[h].user, Len(userconvolst))
    OBVIOUS
  <2>2. \A k \in DOMAIN ids : ids[k] \in DOMAIN userconvolst
    BY <2>1, MembershipListTyped DEF Lists
  <2>3. PICK todo : /\ todo = [k \in DOMAIN ids |->
                          [conversation_id |-> userconvolst[ids[k]].conversation_id,
                           user_id |-> userconvolst[ids[k]].users_id]]
                    /\ ConvoHelper(h, todo, << >>)
    BY <1>12, <2>1 DEF GetConversationsList
  <2>4. \A k \in DOMAIN todo : todo[k].conversation_id \in DOMAIN convolst
    BY <2>2, <2>3 DEF RefInv, RowsRefer
  <2>5. QED
    BY <1>11, <2>3, <2>4
<1>13. CASE GetConversationsUsers(h)
  <2>1. \A k \in DOMAIN work[h].todo :
          work[h].todo[k].conversation_id \in DOMAIN convolst
    BY <1>2, <1>13 DEF GetConversationsUsers, Reply, Refers
  <2>2. PICK v \in WorkSet : v = work[h]
    BY DEF Listed
  <2>3. PICK emails, w : /\ w = [v EXCEPT !.users = emails]
                         /\ Call(h, "Conversations", "getConversations:row", frame[h], w)
    BY <1>13, <2>2 DEF GetConversationsUsers
  <2>4. w.todo = v.todo
    BY <2>2, <2>3 DEF WorkSet
  <2>5. Refers("getConversations:row", frame[h], w)
    BY <2>1, <2>2, <2>4 DEF Refers
  <2>6. QED
    BY <1>1, <2>3, <2>5, CallRefers
<1>14. CASE GetConversationsRow(h)
  <2>1. /\ work[h].todo \in Seq([conversation_id : Nat, user_id : Nat])
        /\ work[h].todo # << >>
    BY <1>14 DEF GetConversationsRow, Reply, Listed, TodoFits
  <2>2. \A k \in DOMAIN work[h].todo :
          work[h].todo[k].conversation_id \in DOMAIN convolst
    BY <1>2, <1>14 DEF GetConversationsRow, Reply, Refers
  <2>3. PICK todo : todo = Tail(work[h].todo)
    OBVIOUS
  <2>4. \A k \in DOMAIN todo : todo[k].conversation_id \in DOMAIN convolst
    BY <2>1, <2>2, <2>3, HeadTail
  <2>5. CASE Fail(h, Req(h))
    BY <2>5, IdleRefers, AnswersPc
  <2>6. CASE \E out : ConvoHelper(h, todo, out)
    BY <1>11, <2>4, <2>6
  <2>7. QED
    BY <1>14, <2>3, <2>5, <2>6 DEF GetConversationsRow
<1>15. QED
  BY <1>3, <1>4, <1>5, <1>7, <1>8, <1>9, <1>10, <1>12, <1>13, <1>14
     DEF ConversationStep

LEMMA MessageRefers ==
  ASSUME NEW h \in Slots, Typed, Listed, RefInv, MessageStep(h)
  PROVE  Ref(h)'
<1> USE DEF RefLabels, WithUser, WithContact, WithConvo
<1>1. Grow
  BY MessagesGrow
<1>2. Refers(pc[h], frame[h], work[h])
  BY DEF RefInv, Ref
<1>3. CASE PostMessageSender(h)
  <2>1. ASSUME NEW id \in UsersWithEmail(Req(h).sender)
        PROVE  Refers("postMessage:user", [frame[h] EXCEPT !.user = id], work[h])
    BY Held DEF Refers, UsersWithEmail
  <2>2. QED
    BY <1>1, <1>3, <2>1, CallRefers, IdleRefers, AnswersPc DEF PostMessageSender
<1>4. CASE PostMessageUser(h) \/ PostMessageBob(h) \/ PostMessageJoe(h)
  <2>1. JoeTurn(h) => pc'[h] \notin RefLabels
    BY AnswersPc, CallPc DEF JoeTurn
  <2>2. pc'[h] \notin RefLabels
    BY <1>4, <2>1, AnswersPc, CallPc DEF PostMessageUser, PostMessageBob, PostMessageJoe
  <2>3. QED
    BY <2>2, IdleRefers
<1>5. ASSUME NEW todo, NEW out, InterpretMsglist(h, todo, out),
             \A k \in DOMAIN todo : todo[k].senderid \in DOMAIN usrlst
      PROVE  Ref(h)'
  <2>1. CASE todo = << >>
    BY <1>5, <2>1, IdleRefers, AnswersPc DEF InterpretMsglist
  <2>2. CASE todo # << >>
    <3>1. PICK w : w = [work[h] EXCEPT !.todo = todo, !.out = out]
      OBVIOUS
    <3>2. w.todo = todo
      <4>1. PICK v \in WorkSet : v = work[h]
        BY DEF Listed
      <4>2. QED
        BY <3>1, <4>1 DEF WorkSet
    <3>3. Call(h, "User", "getMessages:row", frame[h], w)
      BY <1>5, <2>2, <3>1 DEF InterpretMsglist
    <3>4. Refers("getMessages:row", frame[h], w)
      BY <1>5, <3>2 DEF Refers
    <3>5. QED
      BY <1>1, <3>3, <3>4, CallRefers
  <2>3. QED
    BY <2>1, <2>2
<1>6. CASE GetMessagesList(h)
  <2>1. PICK ids : ids = MessageList(Req(h).convo, Len(msglst))
    OBVIOUS
  <2>2. \A k \in DOMAIN ids : ids[k] \in DOMAIN msglst
    BY <2>1, MessageListTyped DEF Lists
  <2>3. PICK todo : /\ todo = [k \in DOMAIN ids |->
                                 [senderid |-> msglst[ids[k]].senderid,
                                  msg |-> msglst[ids[k]].msg]]
                    /\ InterpretMsglist(h, todo, << >>)
    BY <1>6, <2>1 DEF GetMessagesList
  <2>4. \A k \in DOMAIN todo : todo[k].senderid \in DOMAIN usrlst
    BY <2>2, <2>3 DEF RefInv, RowsRefer
  <2>5. QED
    BY <1>5, <2>3, <2>4
<1>7. CASE GetMessagesRow(h)
  <2>1. work[h].todo \in Seq([senderid : Nat, msg : Message]) /\ work[h].todo # << >>
    BY <1>7 DEF GetMessagesRow, Reply, Listed, TodoFits
  <2>2. \A k \in DOMAIN work[h].todo : work[h].todo[k].senderid \in DOMAIN usrlst
    BY <1>2, <1>7 DEF GetMessagesRow, Reply, Refers
  <2>3. PICK todo : todo = Tail(work[h].todo)
    OBVIOUS
  <2>4. \A k \in DOMAIN todo : todo[k].senderid \in DOMAIN usrlst
    BY <2>1, <2>2, <2>3, HeadTail
  <2>5. CASE Fail(h, Req(h))
    BY <2>5, IdleRefers, AnswersPc
  <2>6. CASE \E out : InterpretMsglist(h, todo, out)
    BY <1>5, <2>4, <2>6
  <2>7. QED
    BY <1>7, <2>3, <2>5, <2>6 DEF GetMessagesRow
<1>8. QED
  BY <1>3, <1>4, <1>6, <1>7 DEF MessageStep
-----------------------------------------------------------------------------
\* One more row, or none: what holds of all rows holds of the new table's.
LEMMA EveryRow ==
  ASSUME NEW S, NEW table \in Seq(S), NEW row, NEW T, row \in T,
         \A i \in DOMAIN table : table[i] \in T
  PROVE  \A i \in DOMAIN Append(table, row) : Append(table, row)[i] \in T
OBVIOUS

\* The tables /create and /close do not insert into
LEMMA SchemaLeaves ==
  ASSUME NEW h \in Slots, Standing, Typed, SchemaStep(h)
  PROVE  UNCHANGED <<contactslst, convolst, userconvolst, msglst>>
BY NothingDropped
   DEF SchemaStep, CreateUsrlst, CreateBob, CreateAddBob, CreateJoe, CreateAddJoe,
       Migrate, LaunchedError, OnlyUsrlst, db, rows

LEMMA RowsStillRefer ==
  ASSUME NEW h \in Slots, Standing, Typed, RefInv, Grow, Step(h)
  PROVE  RowsRefer'
<1>1. Refers(pc[h], frame[h], work[h])
  BY DEF RefInv, Ref
<1>2. /\ DOMAIN usrlst \subseteq DOMAIN usrlst' /\ DOMAIN convolst \subseteq DOMAIN convolst'
      /\ contactslst \in Seq(Contact) /\ userconvolst \in Seq(Membership)
      /\ msglst \in Seq(StoredMessage)
  BY DEF Grow, Typed, RowsTypeOK
<1>3. ASSUME contactslst' = contactslst, userconvolst' = userconvolst, msglst' = msglst
      PROVE  RowsRefer'
  BY <1>2, <1>3 DEF RefInv, RowsRefer
<1>4. CASE AddContactInsert(h)
  <2> DEFINE row == [userid |-> frame[h].user, contactid |-> frame[h].contact,
                     favorite |-> FALSE]
             T == {r \in Contact \cup {row} :
                     r.userid \in DOMAIN usrlst /\ r.contactid \in DOMAIN usrlst}
  <2>1. frame[h].user \in DOMAIN usrlst /\ frame[h].contact \in DOMAIN usrlst
    BY <1>1, <1>4 DEF AddContactInsert, Reply, Refers, WithUser, WithContact
  <2>2. row \in T
    BY <2>1
  <2>3. \A i \in DOMAIN contactslst : contactslst[i] \in T
    BY <1>2, RowOf DEF RefInv, RowsRefer
  <2>4. /\ contactslst' = Append(contactslst, row)
        /\ userconvolst' = userconvolst /\ msglst' = msglst
    BY <1>4 DEF AddContactInsert, OnlyContactslst
  <2>5. \A i \in DOMAIN contactslst' : contactslst'[i] \in T
    <3> HIDE DEF row, T
    <3>1. QED
      BY <1>2, <2>2, <2>3, <2>4, EveryRow
  <2>6. QED
    BY <1>2, <2>4, <2>5 DEF RefInv, RowsRefer
<1>5. CASE FavoriteUpdate(h)
  <2>1. /\ DOMAIN contactslst' = DOMAIN contactslst
        /\ userconvolst' = userconvolst /\ msglst' = msglst
    BY <1>5 DEF FavoriteUpdate, OnlyContactslst
  <2>2. QED
    BY <1>2, <2>1 DEF Grow, RefInv, RowsRefer
<1>6. CASE \E convo \in DOMAIN convolst, user \in DOMAIN usrlst :
             /\ InsertMember(convo, user)
             /\ contactslst' = contactslst /\ msglst' = msglst
  <2>1. PICK convo \in DOMAIN convolst, user \in DOMAIN usrlst :
          /\ InsertMember(convo, user)
          /\ contactslst' = contactslst /\ msglst' = msglst
    BY <1>6
  <2> DEFINE row == [conversation_id |-> convo, users_id |-> user]
             T == {r \in Membership \cup {row} :
                     r.conversation_id \in DOMAIN convolst /\ r.users_id \in DOMAIN usrlst}
  <2>2. row \in T
    OBVIOUS
  <2>3. \A i \in DOMAIN userconvolst : userconvolst[i] \in T
    BY <1>2, RowOf DEF RefInv, RowsRefer
  <2>4. userconvolst' = Append(userconvolst, row)
    BY <2>1 DEF InsertMember
  <2>5. \A i \in DOMAIN userconvolst' : userconvolst'[i] \in T
    <3> HIDE DEF row, T
    <3>1. QED
      BY <1>2, <2>2, <2>3, <2>4, EveryRow
  <2>6. QED
    BY <1>2, <2>1, <2>5 DEF RefInv, RowsRefer
<1>7. CASE \E senderid \in DOMAIN usrlst : \E convoid, by, text :
             /\ AddMsg(senderid, convoid, by, text)
             /\ contactslst' = contactslst /\ userconvolst' = userconvolst
  <2>1. PICK senderid \in DOMAIN usrlst : \E convoid, by, text :
          /\ AddMsg(senderid, convoid, by, text)
          /\ contactslst' = contactslst /\ userconvolst' = userconvolst
    BY <1>7
  <2>2. PICK convoid, by, text :
          /\ AddMsg(senderid, convoid, by, text)
          /\ contactslst' = contactslst /\ userconvolst' = userconvolst
    BY <2>1
  <2> DEFINE row == [senderid |-> senderid, convoid |-> convoid,
                     msg |-> [by |-> by, text |-> text]]
             T == {r \in StoredMessage \cup {row} : r.senderid \in DOMAIN usrlst}
  <2>3. row \in T
    OBVIOUS
  <2>4. \A i \in DOMAIN msglst : msglst[i] \in T
    BY <1>2, RowOf DEF RefInv, RowsRefer
  <2>5. msglst' = Append(msglst, row)
    BY <2>2 DEF AddMsg
  <2>6. \A i \in DOMAIN msglst' : msglst'[i] \in T
    <3> HIDE DEF row, T
    <3>1. QED
      BY <1>2, <2>3, <2>4, <2>5, EveryRow
  <2>7. QED
    BY <1>2, <2>2, <2>6 DEF RefInv, RowsRefer
<1>8. CASE MakeConversationJoin(h) \/ MakeConversationMember(h)
  <2>1. /\ frame[h].user \in DOMAIN usrlst /\ frame[h].convo \in DOMAIN convolst
        /\ MakeConversationMember(h) => frame[h].contact \in DOMAIN usrlst
    BY <1>1, <1>8 DEF MakeConversationJoin, MakeConversationMember, Reply, Refers,
                      WithUser, WithContact, WithConvo
  <2>2. QED
    BY <1>6, <1>8, <2>1 DEF MakeConversationJoin, MakeConversationMember, OnlyUserconvolst
<1>9. CASE PostMessageUser(h) \/ PostMessageBob(h) \/ PostMessageJoe(h)
  <2>1. PostMessageUser(h) => frame[h].user \in DOMAIN usrlst
    BY <1>1 DEF PostMessageUser, Reply, Refers, WithUser
  <2>2. BobId \in DOMAIN usrlst /\ JoeId \in DOMAIN usrlst
    BY DEF RefInv
  <2>3. QED
    BY <1>7, <1>9, <2>1, <2>2 DEF PostMessageUser, PostMessageBob, PostMessageJoe,
                                  OnlyMsglst
<1>10. CASE AccountStep(h) \/ SchemaStep(h) \/ StatementError(h)
  BY <1>3, <1>10, AccountLeads, SchemaLeaves, ErrorLeads
<1>11. CASE ContactStep(h)
  <2>1. userconvolst' = userconvolst /\ msglst' = msglst
    BY <1>11, ContactLeads
  <2>2. AddContactInsert(h) \/ FavoriteUpdate(h) \/ contactslst' = contactslst
    BY <1>11 DEF ContactStep, PairUser, PairContact, PairExists, GetContactsUser,
                 GetContactsList, GetContactsRow, db, rows
  <2>3. QED
    BY <1>3, <1>4, <1>5, <2>1, <2>2
<1>12. CASE ConversationStep(h)
  <2>1. contactslst' = contactslst /\ msglst' = msglst
    BY <1>12, ConversationLeads
  <2>2. \/ MakeConversationJoin(h) \/ MakeConversationMember(h)
        \/ userconvolst' = userconvolst
    BY <1>12
       DEF ConversationStep, MakeConversationCreator, MakeConversationInsert,
           MakeConversationId, MakeConversationContact, MakeConversationCheck,
           GetConversationsUser, GetConversationsList, GetConversationsUsers,
           GetConversationsRow, OnlyConvolst, db, rows
  <2>3. QED
    BY <1>3, <1>8, <2>1, <2>2
<1>13. CASE MessageStep(h)
  <2>1. contactslst' = contactslst /\ userconvolst' = userconvolst
    BY <1>13, MessageLeads
  <2>2. PostMessageUser(h) \/ PostMessageBob(h) \/ PostMessageJoe(h) \/ msglst' = msglst
    BY <1>13 DEF MessageStep, PostMessageSender, GetMessagesList, GetMessagesRow, db, rows
  <2>3. QED
    BY <1>3, <1>9, <2>1, <2>2
<1>14. QED
  BY <1>10, <1>11, <1>12, <1>13 DEF Step

LEMMA StepRefers ==
  ASSUME NEW h \in Slots, Standing, Typed, Listed, RefInv, Step(h)
  PROVE  Ref(h)'
<1>1. CASE ContactStep(h) \/ ConversationStep(h) \/ MessageStep(h)
  BY <1>1, ContactRefers, ConversationRefers, MessageRefers
<1>2. CASE AccountStep(h) \/ SchemaStep(h) \/ StatementError(h)
  <2>1. pc'[h] \notin RefLabels
    BY <1>2, AccountLeads, SchemaLeads, ErrorLeads
       DEF RefLabels, WithUser, WithContact, WithConvo
  <2>2. QED
    BY <2>1, IdleRefers
<1>3. QED
  BY <1>1, <1>2 DEF Step

\* A move of h leaves the others as they are.
LEMMA OthersRefer ==
  ASSUME NEW h \in Slots, NEW g \in Slots \ {h}, Grow, RefInv, MoveOf(h)
  PROVE  Ref(g)'
<1>1. PICK label, f, w : label = pc[g] /\ f = frame[g] /\ w = work[g]
  OBVIOUS
<1>2. Refers(label, f, w)'
  BY <1>1, RefersStay DEF RefInv, Ref
<1>3. pc'[g] = label /\ frame'[g] = f /\ work'[g] = w
  BY <1>1 DEF MoveOf
<1>4. QED
  BY <1>2, <1>3 DEF Ref

LEMMA NextRefers ==
  Standing /\ Typed /\ Listed /\ RefInv /\ [Next]_vars => RefInv'
<1> SUFFICES ASSUME Standing, Typed, Listed, RefInv, [Next]_vars  PROVE RefInv'
  OBVIOUS
<1>1. Grow /\ {BobId, JoeId} \subseteq DOMAIN usrlst'
  BY NextGrows DEF Grow, RefInv
<1>2. ASSUME UNCHANGED db  PROVE RowsRefer'
  BY <1>2 DEF RefInv, RowsRefer, db, rows
<1>3. ASSUME NEW h \in Slots, NEW req \in Requests, Receive(h, req)  PROVE RefInv'
  <2>1. MoveOf(h) /\ pc'[h] \notin RefLabels /\ UNCHANGED db
    BY <1>3, ReceiveKeeps, ReceiveLeads
       DEF Kept, RefLabels, WithUser, WithContact, WithConvo, Receive
  <2>2. QED
    BY <1>1, <1>2, <2>1, IdleRefers, OthersRefer DEF RefInv
<1>4. ASSUME NEW h \in Slots, Step(h)  PROVE RefInv'
  <2>1. MoveOf(h)
    BY <1>4, StepKeeps DEF Kept
  <2>2. QED
    BY <1>1, <1>4, <2>1, RowsStillRefer, StepRefers, OthersRefer DEF RefInv
<1>5. CASE Restart
  <2>1. \A h \in Slots : pc'[h] \notin RefLabels
    BY <1>5 DEF Restart, RefLabels, WithUser, WithContact, WithConvo
  <2>2. UNCHANGED db
    BY <1>5 DEF Restart
  <2>3. QED
    BY <1>1, <1>2, <2>1, <2>2, IdleRefers DEF RefInv
<1>6. CASE UNCHANGED vars
  BY <1>6 DEF vars, db, rows, server, RefInv, RowsRefer, Ref, Refers
<1>7. QED
  BY <1>3, <1>4, <1>5, <1>6 DEF Next

\* What earlier runs of the server have left: contacts who are users, and the
\* bots at the ids post_message has for them.
Rooted ==
  /\ {BobId, JoeId} \subseteq DOMAIN InitUsers
  /\ \A i \in DOMAIN InitContacts : /\ InitContacts[i].userid \in DOMAIN InitUsers
                                    /\ InitContacts[i].contactid \in DOMAIN InitUsers

LEMMA AlwaysRefers == Standing /\ Rooted => (Spec => []RefInv)
<1> SUFFICES ASSUME Standing, Rooted  PROVE Spec => []RefInv
  OBVIOUS
<1>1. Init => RefInv
  <2> SUFFICES ASSUME Init  PROVE RefInv
    OBVIOUS
  <2>1. \A h \in Slots : Ref(h)
    BY DEF Init, Ref, Refers, WithUser, WithContact, WithConvo
  <2>2. \A i : i \notin DOMAIN << >>
    OBVIOUS
  <2>3. QED
    BY <2>1, <2>2 DEF Init, Rooted, RefInv, RowsRefer
<1>2. QED
  BY <1>1, AlwaysTyped, AlwaysListed, NextRefers, PTL DEF Spec

\* No list fails with "DNE": the row of another table that a handler is about
\* to look up exists, for any number of handlers, statement failures and
\* restarts, while nobody drops the tables.
THEOREM LookupsAlwaysFind == Standing /\ Rooted => (Spec => []LookupsFind)
<1> SUFFICES ASSUME Standing, Rooted  PROVE Spec => []LookupsFind
  OBVIOUS
<1>1. ASSUME Listed, RefInv  PROVE LookupsFind
  <2>1. ASSUME NEW h \in Slots, pc[h] = "getContacts:row"
        PROVE  Head(work[h].todo).contact_id \in DOMAIN usrlst
    <3>1. /\ work[h].todo \in Seq([contact_id : Nat, favorite : BOOLEAN])
          /\ work[h].todo # << >>
      BY <1>1, <2>1 DEF Listed, TodoFits
    <3>2. \A k \in DOMAIN work[h].todo : work[h].todo[k].contact_id \in DOMAIN usrlst
      BY <1>1, <2>1 DEF RefInv, Ref, Refers
    <3>3. QED
      BY <3>1, <3>2, HeadTail
  <2>2. ASSUME NEW h \in Slots, pc[h] = "getMessages:row"
        PROVE  Head(work[h].todo).senderid \in DOMAIN usrlst
    <3>1. work[h].todo \in Seq([senderid : Nat, msg : Message]) /\ work[h].todo # << >>
      BY <1>1, <2>2 DEF Listed, TodoFits
    <3>2. \A k \in DOMAIN work[h].todo : work[h].todo[k].senderid \in DOMAIN usrlst
      BY <1>1, <2>2 DEF RefInv, Ref, Refers
    <3>3. QED
      BY <3>1, <3>2, HeadTail
  <2>3. ASSUME NEW h \in Slots, pc[h] = "getConversations:row"
        PROVE  Head(work[h].todo).conversation_id \in DOMAIN convolst
    <3>1. /\ work[h].todo \in Seq([conversation_id : Nat, user_id : Nat])
          /\ work[h].todo # << >>
      BY <1>1, <2>3 DEF Listed, TodoFits
    <3>2. \A k \in DOMAIN work[h].todo :
            work[h].todo[k].conversation_id \in DOMAIN convolst
      BY <1>1, <2>3 DEF RefInv, Ref, Refers
    <3>3. QED
      BY <3>1, <3>2, HeadTail
  <2>4. QED
    BY <2>1, <2>2, <2>3 DEF LookupsFind
<1>2. Spec => []Listed /\ []RefInv
  BY AlwaysListed, AlwaysRefers
<1>3. QED
  BY <1>1, <1>2, PTL
-----------------------------------------------------------------------------
(***************************************************************************)
(* Whom /makeConversation brings into a conversation.                      *)
(***************************************************************************)
\* Where make_conversation has looked its creator up
Makes == {"makeConversation:insert", "makeConversation:id", "makeConversation:join",
          "makeConversation:contact", "makeConversation:check",
          "makeConversation:member"}

Brings(label, f) ==
  /\ label \in Makes => f.user \in UsersWithEmail(f.req.creator)
  /\ label = "makeConversation:member" => ContactRows(f.user, f.contact) # {}

Brought(h) == Brings(pc[h], frame[h])

BringInv == MembersAreContacts /\ \A h \in Slots : Brought(h)

\* Who has an email, and whom for contact, stays so.
LEMMA FoundStay ==
  ASSUME Grow
  PROVE  /\ \A email : UsersWithEmail(email) \subseteq UsersWithEmail(email)'
         /\ \A user, contact :
              ContactRows(user, contact) \subseteq ContactRows(user, contact)'
BY DEF Grow, UsersWithEmail, ContactRows

LEMMA BringsStay ==
  ASSUME NEW label, NEW f, Grow, Brings(label, f)
  PROVE  Brings(label, f)'
BY FoundStay DEF Brings

LEMMA CallBrings ==
  ASSUME NEW h \in Slots, Typed, NEW m, NEW label, NEW f, NEW w,
         Call(h, m, label, f, w), Grow, Brings(label, f)
  PROVE  Brought(h)'
<1>1. Brings(label, f)'
  BY BringsStay
<1>2. CASE pc'[h] = label /\ frame'[h] = f
  BY <1>1, <1>2 DEF Brought
<1>3. CASE pc'[h] = "idle"
  BY <1>3 DEF Brought, Brings, Makes
<1>4. QED
  BY <1>2, <1>3, CallSays

LEMMA IdleBrings ==
  ASSUME NEW h \in Slots, pc'[h] \notin Makes
  PROVE  Brought(h)'
BY DEF Brought, Brings, Makes

LEMMA ConversationBrings ==
  ASSUME NEW h \in Slots, Typed, BringInv, ConversationStep(h)
  PROVE  Brought(h)'
<1> USE DEF Makes
<1>1. Grow
  BY ConversationsGrow
<1>2. Brings(pc[h], frame[h]) /\ frame[h].req = Req(h)
  BY DEF BringInv, Brought, Req
<1>3. CASE MakeConversationCreator(h)
  <2>1. ASSUME NEW id \in UsersWithEmail(Req(h).creator)
        PROVE  Brings("makeConversation:insert", [frame[h] EXCEPT !.user = id])
    BY Held DEF Brings
  <2>2. QED
    BY <1>1, <1>3, <2>1, CallBrings, IdleBrings, AnswersPc DEF MakeConversationCreator
<1>4. CASE MakeConversationInsert(h)
  <2>1. Brings("makeConversation:id", frame[h])
    BY <1>2, <1>4 DEF MakeConversationInsert, Reply, Brings
  <2>2. QED
    BY <1>1, <1>4, <2>1, CallBrings DEF MakeConversationInsert
<1>5. CASE MakeConversationId(h)
  <2>1. Brings("makeConversation:join", [frame[h] EXCEPT !.convo = Len(convolst)])
    BY <1>2, <1>5, Held DEF MakeConversationId, Reply, Brings
  <2>2. QED
    BY <1>1, <1>5, <2>1, CallBrings, IdleBrings, AnswersPc DEF MakeConversationId
<1>6. ASSUME NEW todo, GenUserConvos(h, todo), pc[h] \in Makes  PROVE Brought(h)'
  <2>1. Brings("makeConversation:contact", frame[h])
    BY <1>2, <1>6 DEF Brings
  <2>2. QED
    BY <1>1, <1>6, <2>1, CallBrings, IdleBrings, AnswersPc DEF GenUserConvos
<1>7. CASE MakeConversationJoin(h) \/ MakeConversationMember(h)
  BY <1>6, <1>7, IdleBrings, AnswersPc
     DEF MakeConversationJoin, MakeConversationMember, Reply
<1>8. CASE MakeConversationContact(h)
  <2>1. ASSUME NEW id
        PROVE  Brings("makeConversation:check", [frame[h] EXCEPT !.contact = id])
    BY <1>2, <1>8, Held DEF MakeConversationContact, Reply, Brings
  <2>2. QED
    BY <1>1, <1>8, <2>1, CallBrings, IdleBrings, AnswersPc DEF MakeConversationContact
<1>9. CASE MakeConversationCheck(h)
  <2>1. ASSUME ContactRows(frame[h].user, frame[h].contact) # {}
        PROVE  Brings("makeConversation:member", frame[h])
    BY <1>2, <1>9, <2>1 DEF MakeConversationCheck, Reply, Brings
  <2>2. QED
    BY <1>1, <1>9, <2>1, CallBrings, IdleBrings, AnswersPc DEF MakeConversationCheck
<1>10. CASE GetConversationsUser(h) \/ GetConversationsList(h)
            \/ GetConversationsUsers(h) \/ GetConversationsRow(h)
  <2>1. ASSUME NEW todo, NEW out, ConvoHelper(h, todo, out)  PROVE pc'[h] \notin Makes
    BY <2>1, AnswersPc, CallPc DEF ConvoHelper
  <2>2. pc'[h] \notin Makes
    BY <1>10, <2>1, AnswersPc, CallPc
       DEF GetConversationsUser, GetConversationsList, GetConversationsUsers,
           GetConversationsRow
  <2>3. QED
    BY <2>2, IdleBrings
<1>11. QED
  BY <1>3, <1>4, <1>5, <1>7, <1>8, <1>9, <1>10 DEF ConversationStep

\* A membership is explained.
Explained(convo, user) ==
  \E creator \in UsersWithEmail(convolst[convo].creator_name) :
    user = creator \/ ContactRows(creator, user) # {}

LEMMA ExplainedStay ==
  ASSUME NEW convo \in DOMAIN convolst, NEW user, Grow, Explained(convo, user)
  PROVE  Explained(convo, user)'
<1>1. convolst'[convo] = convolst[convo]
  BY DEF Grow
<1>2. QED
  BY <1>1, FoundStay DEF Explained

\* Whoever make_conversation brings in is the creator or the creator's contact.
LEMMA BringsExplained ==
  ASSUME NEW h \in Slots, Typed, ConvoInv, RefInv, BringInv,
         pc[h] \in {"makeConversation:join", "makeConversation:member"}
  PROVE  /\ frame[h].convo \in DOMAIN convolst
         /\ Explained(frame[h].convo, frame[h].user)
         /\ pc[h] = "makeConversation:member" =>
              Explained(frame[h].convo, frame[h].contact)
<1>1. Req(h).op = "makeConversation" /\ frame[h].req = Req(h)
  BY Busy DEF Fits, Req
<1>2. frame[h].convo \in DOMAIN convolst /\ convolst \in Seq(Conversation)
  BY DEF RefInv, Ref, Refers, WithConvo, Typed, RowsTypeOK
<1>3. frame[h].convo # 0
  BY <1>2
<1>4. convolst[frame[h].convo].creator_name = Req(h).creator
  <2>1. convolst[frame[h].convo] = [convo_name |-> Req(h).name,
                                    creator_name |-> Req(h).creator]
    BY <1>1, <1>3 DEF ConvoInv, LastIdIsMine
  <2>2. QED
    BY <2>1
<1>5. /\ frame[h].user \in UsersWithEmail(Req(h).creator)
      /\ pc[h] = "makeConversation:member" =>
           ContactRows(frame[h].user, frame[h].contact) # {}
  BY <1>1 DEF BringInv, Brought, Brings, Makes
<1>6. QED
  BY <1>2, <1>4, <1>5 DEF Explained

\* How userconvolst grows
LEMMA Members ==
  ASSUME NEW h \in Slots, Typed, ConversationStep(h)
  PROVE  \/ userconvolst' = userconvolst
         \/ /\ pc[h] = "makeConversation:join" /\ convolst' = convolst
            /\ InsertMember(frame[h].convo, frame[h].user)
         \/ /\ pc[h] = "makeConversation:member" /\ convolst' = convolst
            /\ InsertMember(frame[h].convo, frame[h].contact)
BY DEF ConversationStep, MakeConversationCreator, MakeConversationInsert,
       MakeConversationId, MakeConversationJoin, MakeConversationContact,
       MakeConversationCheck, MakeConversationMember,
       GetConversationsUser, GetConversationsList, GetConversationsUsers,
       GetConversationsRow, OnlyConvolst, OnlyUserconvolst, Reply, db, rows

\* Only /makeConversation inserts into userconvolst.
LEMMA MembersElsewhere ==
  ASSUME NEW h \in Slots, Standing, Typed, Step(h), ~ConversationStep(h)
  PROVE  userconvolst' = userconvolst /\ convolst' = convolst /\ pc'[h] \notin Makes
BY AccountLeads, SchemaLeads, SchemaLeaves, ContactLeads, MessageLeads, ErrorLeads
   DEF Step, Makes

LEMMA StepMembers ==
  ASSUME NEW h \in Slots, Standing, Typed, ConvoInv, RefInv, BringInv, Step(h),
         Grow
  PROVE  MembersAreContacts'
<1>1. \A i \in DOMAIN userconvolst :
        /\ userconvolst[i].conversation_id \in DOMAIN convolst
        /\ Explained(userconvolst[i].conversation_id, userconvolst[i].users_id)
  BY DEF BringInv, MembersAreContacts, Explained, RefInv, RowsRefer
<1>2. ASSUME NEW i \in DOMAIN userconvolst
      PROVE  Explained(userconvolst[i].conversation_id, userconvolst[i].users_id)'
  <2>0. PICK user : user = userconvolst[i].users_id
    OBVIOUS
  <2>1. PICK convo \in DOMAIN convolst :
          convo = userconvolst[i].conversation_id /\ Explained(convo, user)
    BY <1>1, <2>0
  <2>2. Explained(convo, user)'
    BY <2>1, ExplainedStay
  <2>3. userconvolst'[i] = userconvolst[i]
    BY DEF Grow
  <2>4. QED
    BY <2>0, <2>1, <2>2, <2>3
<1>3. CASE userconvolst' = userconvolst
  BY <1>2, <1>3 DEF MembersAreContacts, Explained
<1>4. ASSUME NEW convo \in DOMAIN convolst, NEW user, Explained(convo, user),
             InsertMember(convo, user)
      PROVE  MembersAreContacts'
  <2>1. /\ userconvolst \in Seq(Membership)
        /\ userconvolst' = Append(userconvolst, [conversation_id |-> convo,
                                                 users_id |-> user])
    BY <1>4 DEF Typed, RowsTypeOK, InsertMember
  <2>2. \A i \in DOMAIN userconvolst' :
          \/ i \in DOMAIN userconvolst
          \/ userconvolst'[i] = [conversation_id |-> convo, users_id |-> user]
    BY <2>1
  <2>3. Explained(convo, user)'
    BY <1>4, ExplainedStay
  <2>4. \A i \in DOMAIN userconvolst' :
          Explained(userconvolst[i].conversation_id, userconvolst[i].users_id)'
    BY <1>2, <2>2, <2>3
  <2>5. QED
    BY <2>4 DEF MembersAreContacts, Explained
<1>5. CASE ConversationStep(h)
  BY <1>3, <1>4, <1>5, Members, BringsExplained
<1>6. CASE ~ConversationStep(h)
  BY <1>3, <1>6, MembersElsewhere
<1>7. QED
  BY <1>5, <1>6

LEMMA NextBrings ==
  Standing /\ Typed /\ ConvoInv /\ RefInv /\ BringInv /\ [Next]_vars => BringInv'
<1> SUFFICES ASSUME Standing, Typed, ConvoInv, RefInv, BringInv, [Next]_vars
             PROVE  BringInv'
  OBVIOUS
<1>1. Grow
  BY NextGrows
<1>2. ASSUME NEW h \in Slots, NEW g \in Slots \ {h}, MoveOf(h)  PROVE Brought(g)'
  <2>1. PICK label, f : label = pc[g] /\ f = frame[g]
    OBVIOUS
  <2>2. Brings(label, f)'
    BY <1>1, <2>1, BringsStay DEF BringInv, Brought
  <2>3. QED
    BY <1>2, <2>1, <2>2 DEF MoveOf, Brought
<1>3. ASSUME UNCHANGED db  PROVE MembersAreContacts'
  BY <1>3 DEF db, rows, BringInv, MembersAreContacts, UsersWithEmail, ContactRows
<1>4. ASSUME NEW h \in Slots, NEW req \in Requests, Receive(h, req)  PROVE BringInv'
  <2>1. MoveOf(h) /\ pc'[h] \notin Makes /\ UNCHANGED db
    BY <1>4, ReceiveKeeps, ReceiveLeads DEF Kept, Makes, Receive
  <2>2. QED
    BY <1>2, <1>3, <2>1, IdleBrings DEF BringInv
<1>5. ASSUME NEW h \in Slots, Step(h)  PROVE BringInv'
  <2>1. MoveOf(h)
    BY <1>5, StepKeeps DEF Kept
  <2>2. Brought(h)'
    BY <1>5, ConversationBrings, MembersElsewhere, IdleBrings
  <2>3. QED
    BY <1>1, <1>2, <1>5, <2>1, <2>2, StepMembers DEF BringInv
<1>6. CASE Restart
  <2>1. UNCHANGED db /\ \A h \in Slots : pc'[h] \notin Makes
    BY <1>6 DEF Restart, Makes
  <2>2. QED
    BY <1>3, <2>1, IdleBrings DEF BringInv
<1>7. CASE UNCHANGED vars
  <2>1. UNCHANGED db /\ \A h \in Slots : Brought(h)'
    BY <1>7 DEF vars, db, rows, server, BringInv, Brought, Brings, UsersWithEmail,
                ContactRows
  <2>2. QED
    BY <1>3, <2>1 DEF BringInv
<1>8. QED
  BY <1>4, <1>5, <1>6, <1>7 DEF Next

LEMMA AlwaysBrings == Standing /\ Rooted => (Spec => []BringInv)
<1> SUFFICES ASSUME Standing, Rooted  PROVE Spec => []BringInv
  OBVIOUS
<1>1. Init => BringInv
  <2>1. \A i : i \notin DOMAIN << >>
    OBVIOUS
  <2>2. QED
    BY <2>1 DEF Init, BringInv, MembersAreContacts, Brought, Brings, Makes
<1>2. Spec => []Typed /\ []ConvoInv /\ []RefInv
  BY AlwaysTyped, AlwaysConvos, AlwaysRefers
<1>3. QED
  BY <1>1, <1>2, NextBrings, PTL DEF Spec

\* The members of a conversation are its creator and contacts of its creator,
\* also while it is being made and however /addContact and the others run
\* beside it, as long as nobody drops the tables: make_conversation puts a
\* contact it has looked up under the id insert_convo took for its own.
THEOREM MembersAreKnown == Standing /\ Rooted => (Spec => []MembersAreContacts)
<1> SUFFICES ASSUME Standing, Rooted  PROVE Spec => []MembersAreContacts
  OBVIOUS
<1>1. BringInv => MembersAreContacts
  BY DEF BringInv
<1>2. Spec => []BringInv
  BY AlwaysBrings
<1>3. QED
  BY <1>1, <1>2, PTL
-----------------------------------------------------------------------------
(***************************************************************************)
(* What /makeConversation has brought about when it answers "Success".     *)
(***************************************************************************)
EmailsOf(ids) == {usrlst[i].email : i \in ids}
EmailsIn(list) == {list[k].email : k \in DOMAIN list}

\* Where the contacts are brought in one by one
Joins == {"makeConversation:contact", "makeConversation:check",
          "makeConversation:member"}

\* A conversation has no members until its creator joins; from then on those
\* who have joined and those still to be brought in are the ones asked for.
Party(label, f, w) ==
  /\ label = "makeConversation:id" => MembersOf(Len(convolst)) = {}
  /\ label = "makeConversation:join" => MembersOf(f.convo) = {}
  /\ label \in Joins =>
       EmailsOf(MembersOf(f.convo)) \cup EmailsIn(w.todo)
         = {f.req.creator} \cup EmailsIn(f.req.contacts)
  /\ label \in {"makeConversation:check", "makeConversation:member"} =>
       f.contact \in UsersWithEmail(Head(w.todo).email)

PartyOf(h) == Party(pc[h], frame[h], work[h])

PartyInv == \A h \in Slots : PartyOf(h)

LEMMA IdleParty ==
  ASSUME NEW h \in Slots, pc'[h] \notin Makes
  PROVE  PartyOf(h)'
BY DEF PartyOf, Party, Joins, Makes

LEMMA CallParty ==
  ASSUME NEW h \in Slots, Typed, NEW m, NEW label, NEW f, NEW w,
         Call(h, m, label, f, w), Party(label, f, w)'
  PROVE  PartyOf(h)'
<1>1. CASE pc'[h] = label /\ frame'[h] = f /\ work'[h] = w
  BY <1>1 DEF PartyOf
<1>2. CASE pc'[h] = "idle"
  BY <1>2, IdleParty DEF Makes
<1>3. QED
  BY <1>1, <1>2, CallSays

\* Whoever is a member is a user, and keeps the email.
LEMMA MembersKeepEmails ==
  ASSUME Grow, RefInv, NEW convo, MembersOf(convo)' = MembersOf(convo)
  PROVE  EmailsOf(MembersOf(convo))' = EmailsOf(MembersOf(convo))
<1>1. MembersOf(convo) \subseteq DOMAIN usrlst
  BY DEF MembersOf, RefInv, RowsRefer
<1>2. QED
  BY <1>1 DEF EmailsOf, Grow

\* As long as nobody joins the conversation.
LEMMA PartyStays ==
  ASSUME Grow, RefInv, NEW label, NEW f, NEW w, Party(label, f, w),
         label = "makeConversation:id" =>
           /\ Len(convolst') = Len(convolst)
           /\ MembersOf(Len(convolst))' = MembersOf(Len(convolst)),
         label \in Joins \cup {"makeConversation:join"} =>
           MembersOf(f.convo)' = MembersOf(f.convo)
  PROVE  Party(label, f, w)'
<1>1. label \in Joins =>
        EmailsOf(MembersOf(f.convo))' = EmailsOf(MembersOf(f.convo))
  BY MembersKeepEmails
<1>2. UsersWithEmail(Head(w.todo).email) \subseteq UsersWithEmail(Head(w.todo).email)'
  BY FoundStay
<1>3. QED
  BY <1>1, <1>2 DEF Party

LEMMA SameMembers ==
  ASSUME userconvolst' = userconvolst, NEW convo
  PROVE  MembersOf(convo)' = MembersOf(convo)
BY DEF MembersOf

\* Joining a conversation leaves the others alone.
LEMMA JoinMembers ==
  ASSUME userconvolst \in Seq(Membership), NEW convo, NEW user,
         InsertMember(convo, user)
  PROVE  /\ MembersOf(convo)' = MembersOf(convo) \cup {user}
         /\ \A other : other # convo => MembersOf(other)' = MembersOf(other)
<1>1. PICK row : row = [conversation_id |-> convo, users_id |-> user]
  OBVIOUS
<1>2. /\ row.conversation_id = convo /\ row.users_id = user
      /\ userconvolst' = Append(userconvolst, row)
  BY <1>1 DEF InsertMember
<1>3. /\ Len(userconvolst) \in Nat /\ DOMAIN userconvolst = 1 .. Len(userconvolst)
      /\ DOMAIN userconvolst' = DOMAIN userconvolst \cup {Len(userconvolst) + 1}
      /\ userconvolst'[Len(userconvolst) + 1] = row
      /\ \A i \in DOMAIN userconvolst : userconvolst'[i] = userconvolst[i]
  BY <1>2
<1>4. ASSUME NEW c
      PROVE  MembersOf(c)' = MembersOf(c) \cup (IF c = convo THEN {user} ELSE {})
  BY <1>2, <1>3 DEF MembersOf
<1>5. QED
  BY <1>4

\* Nobody has joined a conversation that does not exist yet.
LEMMA NoMembersYet ==
  ASSUME Typed, RefInv
  PROVE  MembersOf(Len(convolst) + 1) = {}
<1>1. Len(convolst) + 1 \notin DOMAIN convolst
  BY DEF Typed, RowsTypeOK
<1>2. QED
  BY <1>1 DEF MembersOf, RefInv, RowsRefer

\* The others' conversations are none of h's business.
LEMMA OthersParty ==
  ASSUME NEW h \in Slots, NEW g \in Slots \ {h}, Standing, Typed, Grow, ConvoInv,
         RefInv, PartyInv, MoveOf(h),
         UNCHANGED <<convolst, userconvolst>> \/ ConversationStep(h)
  PROVE  PartyOf(g)'
<1>1. PICK label, f, w : label = pc[g] /\ f = frame[g] /\ w = work[g]
  OBVIOUS
<1>2. /\ Party(label, f, w) /\ Refers(label, f, w)
      /\ convolst \in Seq(Conversation) /\ userconvolst \in Seq(Membership)
  BY <1>1 DEF PartyInv, PartyOf, RefInv, Ref, Typed, RowsTypeOK
<1>3. ASSUME label \in Joins \cup {"makeConversation:join"}
      PROVE  f.convo # 0 /\ f.convo # frame[h].convo
  <2>1. f.convo \in DOMAIN convolst
    BY <1>2, <1>3 DEF Refers, WithConvo, Joins
  <2>2. f.convo # 0
    BY <1>2, <2>1
  <2>3. QED
    BY <1>1, <2>2 DEF ConvoInv, LastIdIsMine
<1>4. ASSUME label = "makeConversation:id"
      PROVE  frame[h].convo # Len(convolst) /\ ~MakeConversationInsert(h)
  <2>1. IdWindow(g)
    BY DEF ConvoInv
  <2>2. "Conversations" \notin calls[h]
    BY <1>1, <1>4, <2>1 DEF IdWindow, Typed, Exclusive
  <2>3. QED
    BY <1>1, <1>4, <2>1, <2>2 DEF IdWindow, MakeConversationInsert, Reply
<1>5. label = "makeConversation:id" => convolst' = convolst
  BY <1>4 DEF ConversationStep, MakeConversationCreator, MakeConversationId,
              MakeConversationJoin, MakeConversationContact, MakeConversationCheck,
              MakeConversationMember, GetConversationsUser, GetConversationsList,
              GetConversationsUsers, GetConversationsRow, OnlyUserconvolst, db, rows
<1>6. ASSUME NEW c, c # frame[h].convo  PROVE MembersOf(c)' = MembersOf(c)
  BY <1>2, <1>6, Members, SameMembers, JoinMembers
<1>7. PICK n : n = Len(convolst)
  OBVIOUS
<1>8. label = "makeConversation:id" =>
        /\ Len(convolst') = Len(convolst)
        /\ MembersOf(Len(convolst))' = MembersOf(Len(convolst))
  BY <1>4, <1>5, <1>6, <1>7
<1>9. Party(label, f, w)'
  BY <1>2, <1>3, <1>6, <1>8, PartyStays
<1>10. pc'[g] = label /\ frame'[g] = f /\ work'[g] = w
  BY <1>1 DEF MoveOf
<1>11. QED
  BY <1>9, <1>10 DEF PartyOf
-----------------------------------------------------------------------------
LEMMA EmailsOfHeadTail ==
  ASSUME NEW list \in Seq([email : Text]), list # << >>
  PROVE  EmailsIn(list) = {Head(list).email} \cup EmailsIn(Tail(list))
<1>1. PICK tail : tail = Tail(list)
  OBVIOUS
<1>2. /\ Head(list) = list[1] /\ 1 \in DOMAIN list
      /\ \A k \in DOMAIN tail : k + 1 \in DOMAIN list /\ tail[k] = list[k + 1]
      /\ \A k \in DOMAIN list : k = 1 \/ (k - 1 \in DOMAIN tail /\ tail[k - 1] = list[k])
  BY <1>1
<1>3. ASSUME NEW e \in EmailsIn(list)  PROVE e \in {list[1].email} \cup EmailsIn(tail)
  <2>1. PICK k \in DOMAIN list : e = list[k].email
    BY DEF EmailsIn
  <2>2. CASE k = 1
    BY <2>1, <2>2
  <2>3. CASE k - 1 \in DOMAIN tail /\ tail[k - 1] = list[k]
    BY <2>1, <2>3 DEF EmailsIn
  <2>4. QED
    BY <1>2, <2>2, <2>3
<1>4. ASSUME NEW e \in {list[1].email} \cup EmailsIn(tail)  PROVE e \in EmailsIn(list)
  BY <1>2 DEF EmailsIn
<1>5. QED
  BY <1>1, <1>2, <1>3, <1>4

\* h inserts a member, and left are those it has yet to bring in.
Joining(h, left) ==
  \/ MakeConversationJoin(h) /\ left = Req(h).contacts
  \/ MakeConversationMember(h) /\ left = Tail(work[h].todo)

\* Who has joined after h's step, and who is left
LEMMA JoinParty ==
  ASSUME NEW h \in Slots, Typed, Listed, RefInv, BringInv, PartyInv,
         NEW left, Joining(h, left), NEW convo, convo = frame[h].convo
  PROVE  EmailsOf(MembersOf(convo))' \cup EmailsIn(left)
           = {Req(h).creator} \cup EmailsIn(Req(h).contacts)
<1>1. /\ usrlst' = usrlst /\ userconvolst \in Seq(Membership) /\ frame[h].req = Req(h)
  BY DEF Joining, MakeConversationJoin, MakeConversationMember, OnlyUserconvolst,
         Typed, RowsTypeOK, Req
<1>2. PICK user, contact : user = frame[h].user /\ contact = frame[h].contact
  OBVIOUS
<1>3. CASE MakeConversationJoin(h) /\ left = Req(h).contacts
  <2>1. /\ pc[h] = "makeConversation:join" /\ InsertMember(convo, user)
    BY <1>2, <1>3 DEF MakeConversationJoin, Reply
  <2>2. MembersOf(convo) = {} /\ usrlst[user].email = Req(h).creator
    BY <1>1, <1>2, <2>1
       DEF PartyInv, PartyOf, Party, BringInv, Brought, Brings, Makes, UsersWithEmail
  <2>3. MembersOf(convo)' = {user}
    BY <1>1, <2>1, <2>2, JoinMembers
  <2>4. EmailsOf(MembersOf(convo))' = {Req(h).creator}
    BY <1>1, <2>2, <2>3 DEF EmailsOf
  <2>5. left = Req(h).contacts
    BY <1>3
  <2>6. QED
    BY <2>4, <2>5
<1>4. CASE MakeConversationMember(h) /\ left = Tail(work[h].todo)
  <2>1. /\ pc[h] = "makeConversation:member" /\ InsertMember(convo, contact)
    BY <1>2, <1>4 DEF MakeConversationMember, Reply
  <2>2. work[h].todo \in Seq([email : Text]) /\ work[h].todo # << >>
    BY <2>1 DEF Listed, TodoFits
  <2>3. /\ EmailsOf(MembersOf(convo)) \cup EmailsIn(work[h].todo)
             = {Req(h).creator} \cup EmailsIn(Req(h).contacts)
        /\ usrlst[contact].email = Head(work[h].todo).email
    BY <1>1, <1>2, <2>1 DEF PartyInv, PartyOf, Party, Joins, UsersWithEmail
  <2>4. MembersOf(convo)' = MembersOf(convo) \cup {contact}
    BY <1>1, <2>1, JoinMembers
  <2>5. EmailsOf(MembersOf(convo))'
          = EmailsOf(MembersOf(convo)) \cup {Head(work[h].todo).email}
    BY <1>1, <2>3, <2>4 DEF EmailsOf
  <2>6. EmailsIn(work[h].todo) = {Head(work[h].todo).email} \cup EmailsIn(left)
    BY <1>4, <2>2, EmailsOfHeadTail
  <2>7. QED
    BY <2>3, <2>5, <2>6
<1>5. QED
  BY <1>3, <1>4 DEF Joining

LEMMA SameParty ==
  ASSUME UNCHANGED db, RefInv, NEW label, NEW f, NEW w, Party(label, f, w)
  PROVE  Party(label, f, w)'
<1>1. Grow /\ userconvolst' = userconvolst /\ convolst' = convolst
  BY DEF db, rows, Grow
<1>2. PICK n : n = Len(convolst)
  OBVIOUS
<1>3. MembersOf(Len(convolst))' = MembersOf(Len(convolst))
  BY <1>1, <1>2, SameMembers
<1>4. MembersOf(f.convo)' = MembersOf(f.convo)
  BY <1>1, SameMembers
<1>5. QED
  BY <1>1, <1>3, <1>4, PartyStays

LEMMA ConversationParty ==
  ASSUME NEW h \in Slots, Typed, Listed, RefInv, BringInv, PartyInv, ConversationStep(h)
  PROVE  PartyOf(h)'
<1> USE DEF Makes, Joins
<1>1. PICK f, w : f = frame[h] /\ w = work[h]
  OBVIOUS
<1>2. /\ Party(pc[h], f, w) /\ f.req = Req(h) /\ f \in Frame /\ w \in WorkSet
      /\ usrlst' = usrlst
  BY <1>1, ConversationLeads
     DEF PartyInv, PartyOf, Req, Typed, HandlersTypeOK, Listed
<1>3. CASE MakeConversationCreator(h)
  <2>1. ASSUME NEW g  PROVE Party("makeConversation:insert", g, w)'
    BY DEF Party
  <2>2. \A id : Call(h, "Conversations", "makeConversation:insert",
                     [f EXCEPT !.user = id], w) => PartyOf(h)'
    BY <2>1, CallParty
  <2>3. QED
    BY <1>1, <1>3, <2>2, IdleParty, AnswersPc DEF MakeConversationCreator
<1>4. CASE MakeConversationInsert(h)
  <2>1. /\ userconvolst' = userconvolst /\ convolst \in Seq(Conversation)
        /\ Len(convolst') = Len(convolst) + 1
    BY <1>4 DEF MakeConversationInsert, OnlyConvolst, Typed, RowsTypeOK
  <2>2. PICK n : n = Len(convolst) + 1
    OBVIOUS
  <2>3. MembersOf(n)' = {}
    BY <2>1, <2>2, SameMembers, NoMembersYet
  <2>4. MembersOf(Len(convolst))' = {}
    BY <2>1, <2>2, <2>3
  <2>5. Party("makeConversation:id", f, w)'
    BY <2>4 DEF Party
  <2>6. QED
    BY <1>1, <1>4, <2>5, CallParty DEF MakeConversationInsert
<1>5. CASE MakeConversationId(h)
  <2>1. MembersOf(Len(convolst)) = {} /\ userconvolst' = userconvolst
    BY <1>2, <1>5 DEF MakeConversationId, Reply, Party, db, rows
  <2>2. PICK g : g = [f EXCEPT !.convo = Len(convolst)]
    OBVIOUS
  <2>3. g.convo = Len(convolst)
    BY <1>2, <2>2 DEF Frame
  <2>4. MembersOf(g.convo) = {} /\ MembersOf(g.convo)' = MembersOf(g.convo)
    BY <2>1, <2>3, SameMembers
  <2>5. Party("makeConversation:join", g, w)'
    BY <2>4 DEF Party
  <2>6. QED
    BY <1>1, <1>5, <2>2, <2>5, CallParty, IdleParty, AnswersPc DEF MakeConversationId
<1>6. ASSUME NEW left, GenUserConvos(h, left),
             EmailsOf(MembersOf(f.convo))' \cup EmailsIn(left)
               = {f.req.creator} \cup EmailsIn(f.req.contacts)
      PROVE  PartyOf(h)'
  <2>1. PICK v : v = [w EXCEPT !.todo = left]
    OBVIOUS
  <2>2. v.todo = left
    BY <1>2, <2>1 DEF WorkSet
  <2>3. Party("makeConversation:contact", f, v)'
    BY <1>6, <2>2 DEF Party
  <2>4. QED
    BY <1>1, <1>6, <2>1, <2>3, CallParty, IdleParty, AnswersPc DEF GenUserConvos
<1>7. PICK convo, contacts, rest :
        convo = f.convo /\ contacts = f.req.contacts /\ rest = Tail(w.todo)
  OBVIOUS
<1>8. CASE MakeConversationJoin(h)
  <2>1. CASE GenUserConvos(h, Req(h).contacts)
    <3>1. contacts = Req(h).contacts /\ convo = frame[h].convo
      BY <1>1, <1>2, <1>7
    <3>2. Joining(h, contacts)
      BY <1>8, <3>1 DEF Joining
    <3>3. EmailsOf(MembersOf(convo))' \cup EmailsIn(contacts)
            = {Req(h).creator} \cup EmailsIn(Req(h).contacts)
      BY <3>1, <3>2, JoinParty
    <3>4. QED
      BY <1>2, <1>6, <1>7, <2>1, <3>1, <3>3
  <2>2. CASE Fail(h, Req(h))
    BY <2>2, IdleParty, AnswersPc
  <2>3. QED
    BY <1>8, <2>1, <2>2 DEF MakeConversationJoin
<1>9. CASE MakeConversationMember(h)
  <2>1. GenUserConvos(h, rest)
    BY <1>1, <1>7, <1>9 DEF MakeConversationMember
  <2>2. Joining(h, rest) /\ convo = frame[h].convo
    BY <1>1, <1>7, <1>9 DEF Joining
  <2>3. EmailsOf(MembersOf(convo))' \cup EmailsIn(rest)
          = {Req(h).creator} \cup EmailsIn(Req(h).contacts)
    BY <2>2, JoinParty
  <2>4. QED
    BY <1>2, <1>6, <1>7, <2>1, <2>3
<1>10. CASE MakeConversationContact(h)
  <2>1. ASSUME NEW id \in UsersWithEmail(Head(w.todo).email)
        PROVE  Party("makeConversation:check", [f EXCEPT !.contact = id], w)
    <3>1. PICK g : g = [f EXCEPT !.contact = id]
      OBVIOUS
    <3>2. g.contact = id /\ g.convo = f.convo /\ g.req = f.req
      BY <1>2, <3>1 DEF Frame
    <3>3. Party("makeConversation:check", g, w)
      BY <1>2, <1>10, <3>2 DEF MakeConversationContact, Reply, Party
    <3>4. QED
      BY <3>1, <3>3
  <2>2. UNCHANGED db
    BY <1>10 DEF MakeConversationContact
  <2>3. ASSUME NEW id \in UsersWithEmail(Head(w.todo).email)
        PROVE  Party("makeConversation:check", [f EXCEPT !.contact = id], w)'
    <3>1. PICK g : g = [f EXCEPT !.contact = id]
      OBVIOUS
    <3>2. Party("makeConversation:check", g, w)'
      BY <2>1, <2>2, <3>1, SameParty
    <3>3. QED
      BY <3>1, <3>2
  <2>4. QED
    BY <1>1, <1>10, <2>3, CallParty, IdleParty, AnswersPc DEF MakeConversationContact
<1>11. CASE MakeConversationCheck(h)
  <2>1. Party("makeConversation:member", f, w)
    BY <1>2, <1>11 DEF MakeConversationCheck, Reply, Party
  <2>2. Party("makeConversation:member", f, w)'
    BY <1>11, <2>1, SameParty DEF MakeConversationCheck
  <2>3. QED
    BY <1>1, <1>11, <2>2, CallParty, IdleParty, AnswersPc DEF MakeConversationCheck
<1>12. CASE GetConversationsUser(h) \/ GetConversationsList(h)
            \/ GetConversationsUsers(h) \/ GetConversationsRow(h)
  <2>1. ASSUME NEW todo, NEW out, ConvoHelper(h, todo, out)  PROVE pc'[h] \notin Makes
    BY <2>1, AnswersPc, CallPc DEF ConvoHelper
  <2>2. pc'[h] \notin Makes
    BY <1>12, <2>1, AnswersPc, CallPc
       DEF GetConversationsUser, GetConversationsList, GetConversationsUsers,
           GetConversationsRow
  <2>3. QED
    BY <2>2, IdleParty
<1>13. QED
  BY <1>3, <1>4, <1>5, <1>8, <1>9, <1>10, <1>11, <1>12 DEF ConversationStep

LEMMA NextParty ==
  Standing /\ Typed /\ Listed /\ ConvoInv /\ RefInv /\ BringInv /\ PartyInv /\ [Next]_vars
    => PartyInv'
<1> SUFFICES ASSUME Standing, Typed, Listed, ConvoInv, RefInv, BringInv, PartyInv,
                    [Next]_vars
             PROVE  PartyInv'
  OBVIOUS
<1>1. Grow
  BY NextGrows
<1>2. ASSUME NEW h \in Slots, NEW req \in Requests, Receive(h, req)  PROVE PartyInv'
  <2>1. MoveOf(h) /\ pc'[h] \notin Makes /\ UNCHANGED <<convolst, userconvolst>>
    BY <1>2, ReceiveKeeps, ReceiveLeads DEF Kept, Makes
  <2>2. QED
    BY <1>1, <2>1, IdleParty, OthersParty DEF PartyInv
<1>3. ASSUME NEW h \in Slots, Step(h)  PROVE PartyInv'
  <2>1. MoveOf(h)
    BY <1>3, StepKeeps DEF Kept
  <2>2. UNCHANGED <<convolst, userconvolst>> \/ ConversationStep(h)
    BY <1>3, MembersElsewhere
  <2>3. PartyOf(h)'
    BY <1>3, ConversationParty, MembersElsewhere, IdleParty
  <2>4. QED
    BY <1>1, <2>1, <2>2, <2>3, OthersParty DEF PartyInv
<1>4. CASE Restart
  <2>1. \A h \in Slots : pc'[h] \notin Makes
    BY <1>4 DEF Restart, Makes
  <2>2. QED
    BY <2>1, IdleParty DEF PartyInv
<1>5. CASE UNCHANGED vars
  <2>1. ASSUME NEW g \in Slots  PROVE PartyOf(g)'
    <3>1. PICK label, f, w : label = pc[g] /\ f = frame[g] /\ w = work[g]
      OBVIOUS
    <3>2. Party(label, f, w)'
      BY <1>5, <3>1, SameParty DEF PartyInv, PartyOf, vars
    <3>3. pc'[g] = label /\ frame'[g] = f /\ work'[g] = w
      BY <1>5, <3>1 DEF vars, server
    <3>4. QED
      BY <3>2, <3>3 DEF PartyOf
  <2>2. QED
    BY <2>1 DEF PartyInv
<1>6. QED
  BY <1>2, <1>3, <1>4, <1>5 DEF Next

LEMMA AlwaysParty == Standing /\ Rooted => (Spec => []PartyInv)
<1> SUFFICES ASSUME Standing, Rooted  PROVE Spec => []PartyInv
  OBVIOUS
<1>1. Init => PartyInv
  BY DEF Init, PartyInv, PartyOf, Party, Joins
<1>2. Spec => []Typed /\ []Listed /\ []ConvoInv /\ []RefInv /\ []BringInv
  BY AlwaysTyped, AlwaysListed, AlwaysConvos, AlwaysRefers, AlwaysBrings
<1>3. QED
  BY <1>1, <1>2, NextParty, PTL DEF Spec

\* The conversation a request has asked for is there.
Made(req) ==
  \E c \in DOMAIN convolst :
    /\ convolst[c] = [convo_name |-> req.name, creator_name |-> req.creator]
    /\ EmailsOf(MembersOf(c)) = {req.creator} \cup EmailsIn(req.contacts)

\* Of make_conversation's steps only the two that insert a member answer
\* "Success", when there is nobody left.
LEMMA SuccessIsLast ==
  ASSUME NEW h \in Slots, Typed, ConversationStep(h), Req(h).op = "makeConversation",
         pc[h] # "idle", response'.status = 200, response'.text = "Success"
  PROVE  \/ MakeConversationJoin(h) /\ Req(h).contacts = << >>
         \/ MakeConversationMember(h) /\ Tail(work[h].todo) = << >>
<1>1. pc[h] \notin {"getConversations:user", "getConversations:list",
                    "getConversations:users", "getConversations:row"}
  BY Waiting
<1>2. /\ \A req : ~Fail(h, req)
      /\ \A m, label, f, w : ~Call(h, m, label, f, w)
  BY AnswerSays, CallTells DEF Fail
<1>3. ~RespondText(h, "Failure")
  BY AnswerSays DEF RespondText
<1>4. ~ (\/ MakeConversationCreator(h) \/ MakeConversationInsert(h)
         \/ MakeConversationId(h) \/ MakeConversationContact(h)
         \/ MakeConversationCheck(h))
  <2>1. ~MakeConversationCreator(h)
    <3>1. MakeConversationCreator(h) =>
            \/ \E id : Call(h, "Conversations", "makeConversation:insert",
                           [frame[h] EXCEPT !.user = id], work[h])
            \/ Fail(h, Req(h))
      BY Zenon DEF MakeConversationCreator
    <3>2. \A f : ~Call(h, "Conversations", "makeConversation:insert", f, work[h])
      BY <1>2
    <3>3. ~Fail(h, Req(h))
      BY <1>2
    <3>4. QED
      BY <3>1, <3>2, <3>3
  <2>2. ~MakeConversationInsert(h) /\ ~MakeConversationId(h)
    BY <1>2 DEF MakeConversationInsert, MakeConversationId
  <2>3. ~MakeConversationContact(h)
    <3>1. MakeConversationContact(h) =>
            \/ \E id : Call(h, "Contacts", "makeConversation:check",
                           [frame[h] EXCEPT !.contact = id], work[h])
            \/ Fail(h, Req(h))
      BY Zenon DEF MakeConversationContact
    <3>2. \A f : ~Call(h, "Contacts", "makeConversation:check", f, work[h])
      BY <1>2
    <3>3. ~Fail(h, Req(h))
      BY <1>2
    <3>4. QED
      BY <3>1, <3>2, <3>3
  <2>4. ~MakeConversationCheck(h)
    BY <1>2, <1>3 DEF MakeConversationCheck
  <2>5. QED
    BY <2>1, <2>2, <2>3, <2>4
<1>5. MakeConversationJoin(h) \/ MakeConversationMember(h)
  BY <1>1, <1>4
     DEF ConversationStep, GetConversationsUser, GetConversationsList,
         GetConversationsUsers, GetConversationsRow, Reply
<1>6. QED
  BY <1>2, <1>5 DEF MakeConversationJoin, MakeConversationMember, GenUserConvos

LEMMA SuccessIsMade ==
  ASSUME NEW h \in Slots, Typed, Listed, ConvoInv, RefInv, BringInv, PartyInv,
         ConversationStep(h), pc[h] # "idle",
         NEW req, req = Req(h), req.op = "makeConversation",
         response'.status = 200, response'.text = "Success"
  PROVE  Made(req)'
<1>1. \/ MakeConversationJoin(h) /\ req.contacts = << >>
      \/ MakeConversationMember(h) /\ Tail(work[h].todo) = << >>
  BY SuccessIsLast
<1>2. PICK convo : convo = frame[h].convo
  OBVIOUS
<1>3. ASSUME NEW left, left = << >>  PROVE EmailsIn(left) = {}
  <2>1. DOMAIN left = {}
    BY <1>3
  <2>2. QED
    BY <2>1 DEF EmailsIn
<1>4. EmailsOf(MembersOf(convo))' = {req.creator} \cup EmailsIn(req.contacts)
  <2>1. PICK left : left = << >> /\ Joining(h, left)
    BY <1>1 DEF Joining
  <2>2. EmailsOf(MembersOf(convo))' \cup EmailsIn(left)
          = {Req(h).creator} \cup EmailsIn(Req(h).contacts)
    BY <1>2, <2>1, JoinParty
  <2>3. QED
    BY <1>3, <2>1, <2>2
<1>5. /\ convo \in DOMAIN convolst /\ convolst' = convolst
      /\ convolst \in Seq(Conversation)
  BY <1>1, <1>2, BringsExplained
     DEF MakeConversationJoin, MakeConversationMember, Reply, OnlyUserconvolst,
         Typed, RowsTypeOK
<1>6. convolst[convo] = [convo_name |-> req.name, creator_name |-> req.creator]
  <2>1. convo # 0
    BY <1>5
  <2>2. QED
    BY <1>2, <2>1 DEF ConvoInv, LastIdIsMine
<1>7. QED
  BY <1>4, <1>5, <1>6 DEF Made

LEMMA NextMakes ==
  /\ Typed /\ Listed /\ ConvoInv /\ RefInv /\ BringInv /\ PartyInv
  /\ MakeConversationOutcome /\ [Next]_vars
  => MakeConversationOutcome'
<1> SUFFICES ASSUME Typed, Listed, ConvoInv, RefInv, BringInv, PartyInv,
                    MakeConversationOutcome, [Next]_vars
             PROVE  MakeConversationOutcome'
  OBVIOUS
<1>1. CASE UNCHANGED vars
  BY <1>1 DEF vars, db, rows, server, MakeConversationOutcome, MembersOf
<1>2. ASSUME Next, response'.req.op = "makeConversation", response'.text = "Success"
      PROVE  MakeConversationOutcome'
  <2>1. Empty # "Success"
    BY Zenon DEF Empty
  <2>2. response'.status = 200
    BY <1>2, <2>1, NextTells
  <2>3. PICK h \in Slots : Step(h) /\ ~StatementError(h) /\ pc[h] # "idle"
                           /\ response'.req = Req(h)
    BY <1>2, <2>2, NextTells
  <2>4. ConversationStep(h)
    BY <1>2, <2>3, Waiting, StepsStart DEF Step
  <2>5. PICK req : req = response'.req
    OBVIOUS
  <2>6. Made(req)'
    BY <1>2, <2>2, <2>3, <2>4, <2>5, SuccessIsMade
  <2>7. ToSet([i \in DOMAIN req.contacts |-> req.contacts[i].email])
          = EmailsIn(req.contacts)
    BY DEF ToSet, EmailsIn
  <2>8. QED
    BY <2>5, <2>6, <2>7 DEF MakeConversationOutcome, Made, EmailsOf
<1>3. QED
  BY <1>1, <1>2 DEF MakeConversationOutcome

\* When /makeConversation answers "Success" there is a conversation of that
\* name and creator whose members are the creator and the contacts named, all
\* of them and no others, however many conversations are made at the same
\* time, while nobody drops the tables.
THEOREM SuccessMakesConversation ==
  Standing /\ Rooted => (Spec => []MakeConversationOutcome)
<1> SUFFICES ASSUME Standing, Rooted  PROVE Spec => []MakeConversationOutcome
  OBVIOUS
<1>1. Init => MakeConversationOutcome
  BY DEF Init, MakeConversationOutcome, Silent, NoRequest
<1>2. Spec => []Typed /\ []Listed /\ []ConvoInv /\ []RefInv /\ []BringInv /\ []PartyInv
  BY AlwaysTyped, AlwaysListed, AlwaysConvos, AlwaysRefers, AlwaysBrings, AlwaysParty
<1>3. QED
  BY <1>1, <1>2, NextMakes, PTL DEF Spec
-----------------------------------------------------------------------------
(***************************************************************************)
(* Messages.                                                               *)
(*                                                                         *)
(* A bot's reply directly follows what it replies to: from the insertion   *)
(* of the user's message to that of the last reply, post_message never     *)
(* lets go of Storage's connection.                                        *)
(***************************************************************************)
\* The log ends with the text of h's request, from one of the speakers.
Latest(h, speakers) ==
  LET n == Len(msglst) IN
  /\ n > 0
  /\ msglst[n].convoid = Req(h).convo
  /\ msglst[n].msg.text = Req(h).msg
  /\ msglst[n].msg.by \in speakers

\* What post_message still knows when a bot's reply is stored
ReplyWindow(h) ==
  /\ pc[h] \in {"postMessage:bob", "postMessage:joe"} => "Storage" \in calls[h]
  /\ pc[h] = "postMessage:bob" => Latest(h, {"user"})
  /\ pc[h] = "postMessage:joe" => Latest(h, {"user", "bob"})

MessageInv == BotReplyAdjacent /\ \A h \in Slots : ReplyWindow(h)

LEMMA QuietMessages ==
  ASSUME NEW h \in Slots, Typed, MessageInv, MoveOf(h), msglst' = msglst,
         pc'[h] \notin {"postMessage:bob", "postMessage:joe"}
  PROVE  MessageInv'
<1>1. ASSUME NEW g \in Slots \ {h}  PROVE ReplyWindow(g)'
  BY DEF MessageInv, ReplyWindow, Latest, Req, MoveOf
<1>2. QED
  BY <1>1 DEF MessageInv, ReplyWindow, BotReplyAdjacent

\* A step of h over Storage's connection
LEMMA HolderMessages ==
  ASSUME NEW h \in Slots, Typed, MessageInv, MoveOf(h), "Storage" \in calls[h],
         BotReplyAdjacent', ReplyWindow(h)'
  PROVE  MessageInv'
<1>1. ASSUME NEW g \in Slots \ {h}  PROVE ReplyWindow(g)'
  <2>1. "Storage" \notin calls[g]
    BY DEF Typed, Exclusive
  <2>2. QED
    BY <2>1 DEF MessageInv, ReplyWindow, MoveOf
<1>2. QED
  BY <1>1 DEF MessageInv

\* The log after add_msg of h's text
LEMMA AddMsgExtends ==
  ASSUME NEW h \in Slots, msglst \in Seq(StoredMessage), NEW senderid, NEW by,
         AddMsg(senderid, Req(h).convo, by, Req(h).msg)
  PROVE  /\ Len(msglst) \in Nat /\ Len(msglst') = Len(msglst) + 1
         /\ DOMAIN msglst = 1 .. Len(msglst)
         /\ DOMAIN msglst' = 1 .. Len(msglst) + 1
         /\ \A i \in 1 .. Len(msglst) : msglst'[i] = msglst[i]
         /\ msglst'[Len(msglst) + 1].convoid = Req(h).convo
         /\ msglst'[Len(msglst) + 1].msg.text = Req(h).msg
         /\ msglst'[Len(msglst) + 1].msg.by = by
BY DEF AddMsg

LEMMA AddMsgAdjacent ==
  ASSUME NEW h \in Slots, msglst \in Seq(StoredMessage), BotReplyAdjacent,
         NEW senderid, NEW by, AddMsg(senderid, Req(h).convo, by, Req(h).msg),
         \/ by = "user"
         \/ by = "bob" /\ Latest(h, {"user"})
         \/ by = "joe" /\ Latest(h, {"user", "bob"})
  PROVE  BotReplyAdjacent'
<1>0. /\ Len(msglst) \in Nat /\ DOMAIN msglst = 1 .. Len(msglst)
      /\ DOMAIN msglst' = 1 .. Len(msglst) + 1
      /\ \A i \in 1 .. Len(msglst) : msglst'[i] = msglst[i]
      /\ msglst'[Len(msglst) + 1].convoid = Req(h).convo
      /\ msglst'[Len(msglst) + 1].msg.text = Req(h).msg
      /\ msglst'[Len(msglst) + 1].msg.by = by
  BY AddMsgExtends
<1>1. ASSUME NEW i \in 1 .. Len(msglst), msglst'[i].msg.by # "user"
      PROVE  /\ i > 1
             /\ msglst'[i - 1].convoid = msglst'[i].convoid
             /\ msglst'[i - 1].msg.text = msglst'[i].msg.text
             /\ msglst'[i - 1].msg.by \in (IF msglst'[i].msg.by = "bob"
                                           THEN {"user"} ELSE {"user", "bob"})
  <2>1. msglst'[i] = msglst[i] /\ i \in DOMAIN msglst /\ i \in Nat
    BY <1>0
  <2>2. i > 1
    BY <1>1, <2>1 DEF BotReplyAdjacent
  <2>3. i - 1 \in 1 .. Len(msglst)
    BY <2>1, <2>2, <1>0
  <2>4. msglst'[i - 1] = msglst[i - 1]
    BY <2>3, <1>0
  <2>5. QED
    BY <1>1, <2>1, <2>2, <2>4 DEF BotReplyAdjacent
<1>2. DEFINE n == Len(msglst) + 1
<1>3. ASSUME msglst'[n].msg.by # "user"
      PROVE  /\ n > 1
             /\ msglst'[n - 1].convoid = msglst'[n].convoid
             /\ msglst'[n - 1].msg.text = msglst'[n].msg.text
             /\ msglst'[n - 1].msg.by \in (IF msglst'[n].msg.by = "bob"
                                           THEN {"user"} ELSE {"user", "bob"})
  <2>1. n - 1 = Len(msglst) /\ Len(msglst) \in Nat
    BY <1>0
  <2>2. msglst'[n].msg.by = by
    BY <1>0
  <2>3. Len(msglst) > 0
    BY <1>3, <2>2 DEF Latest
  <2>4. msglst'[n - 1] = msglst[Len(msglst)]
    BY <2>1, <2>3, <1>0
  <2>5. QED
    BY <1>3, <2>1, <2>2, <2>3, <2>4, <1>0 DEF Latest
<1>4. DOMAIN msglst' = (1 .. Len(msglst)) \cup {n}
  BY <1>0
<1>5. QED
  BY <1>1, <1>3, <1>4 DEF BotReplyAdjacent

\* A handler that has stored a message and goes on knows the log's end.
LEMMA LatestAfter ==
  ASSUME NEW h \in Slots, msglst \in Seq(StoredMessage), NEW senderid, NEW by,
         AddMsg(senderid, Req(h).convo, by, Req(h).msg), Req(h)' = Req(h),
         NEW speakers, by \in speakers
  PROVE  Latest(h, speakers)'
<1>1. /\ Len(msglst) \in Nat /\ Len(msglst') = Len(msglst) + 1
      /\ msglst'[Len(msglst) + 1].convoid = Req(h).convo
      /\ msglst'[Len(msglst) + 1].msg.text = Req(h).msg
      /\ msglst'[Len(msglst) + 1].msg.by = by
  BY AddMsgExtends
<1>2. QED
  BY <1>1 DEF Latest

\* Where a handler that has just stored a message may go
LEMMA Onward ==
  ASSUME NEW h \in Slots, Typed, pc[h] # "idle", NEW label,
         Call(h, "Storage", label, frame[h], work[h])
  PROVE  \/ pc'[h] = "idle"
         \/ pc'[h] = label /\ calls'[h] = {"Storage"} /\ Req(h)' = Req(h)
<1>1. "Storage" \in Modules /\ frame[h] \in Frame
  BY Busy DEF Modules
<1>2. QED
  BY <1>1, HandlersTyped, CallMoves DEF Typed, Req

LEMMA JoeOnward ==
  ASSUME NEW h \in Slots, Typed, pc[h] # "idle", JoeTurn(h)
  PROVE  \/ pc'[h] = "idle"
         \/ pc'[h] = "postMessage:joe" /\ calls'[h] = {"Storage"} /\ Req(h)' = Req(h)
<1>1. CASE Call(h, "Storage", "postMessage:joe", frame[h], work[h])
  BY <1>1, Onward
<1>2. CASE Fail(h, Req(h)) \/ RespondText(h, Empty)
  BY <1>2, AnswersPc
<1>3. QED
  BY <1>1, <1>2 DEF JoeTurn

LEMMA MessageStepInv ==
  ASSUME NEW h \in Slots, Typed, MessageInv, MessageStep(h)
  PROVE  MessageInv'
<1>1. MoveOf(h) /\ msglst \in Seq(StoredMessage) /\ BotReplyAdjacent /\ ReplyWindow(h)
  BY MessageKeeps DEF Kept, Typed, RowsTypeOK, MessageInv
<1>2. CASE PostMessageUser(h)
  <2>1. "Storage" \in calls[h] /\ pc[h] # "idle"
    BY <1>2 DEF PostMessageUser, Reply
  <2>2. AddMsg(frame[h].user, Req(h).convo, "user", Req(h).msg)
    BY <1>2 DEF PostMessageUser
  <2>3. BotReplyAdjacent'
    BY <1>1, <2>2, AddMsgAdjacent
  <2>4. \/ pc'[h] = "idle"
        \/ /\ pc'[h] \in {"postMessage:bob", "postMessage:joe"}
           /\ calls'[h] = {"Storage"} /\ Req(h)' = Req(h)
    BY <1>2, <2>1, AnswersPc, Onward, JoeOnward DEF PostMessageUser
  <2>5. ReplyWindow(h)'
    <3>1. pc'[h] # "idle" => Latest(h, {"user"})' /\ Latest(h, {"user", "bob"})'
      BY <1>1, <2>2, <2>4, LatestAfter
    <3>2. QED
      BY <2>4, <3>1 DEF ReplyWindow
  <2>6. QED
    BY <1>1, <2>1, <2>3, <2>5, HolderMessages
<1>3. CASE PostMessageBob(h)
  <2>1. "Storage" \in calls[h] /\ pc[h] # "idle" /\ Latest(h, {"user"})
    BY <1>1, <1>3 DEF PostMessageBob, Reply, ReplyWindow
  <2>2. AddMsg(BobId, Req(h).convo, "bob", Req(h).msg)
    BY <1>3 DEF PostMessageBob
  <2>3. BotReplyAdjacent'
    BY <1>1, <2>1, <2>2, AddMsgAdjacent
  <2>4. \/ pc'[h] = "idle"
        \/ /\ pc'[h] = "postMessage:joe"
           /\ calls'[h] = {"Storage"} /\ Req(h)' = Req(h)
    BY <1>3, <2>1, JoeOnward DEF PostMessageBob
  <2>5. ReplyWindow(h)'
    <3>1. pc'[h] # "idle" => Latest(h, {"user", "bob"})'
      BY <1>1, <2>2, <2>4, LatestAfter
    <3>2. QED
      BY <2>4, <3>1 DEF ReplyWindow
  <2>6. QED
    BY <1>1, <2>1, <2>3, <2>5, HolderMessages
<1>4. CASE PostMessageJoe(h)
  <2>1. "Storage" \in calls[h] /\ pc[h] # "idle" /\ Latest(h, {"user", "bob"})
    BY <1>1, <1>4 DEF PostMessageJoe, Reply, ReplyWindow
  <2>2. AddMsg(JoeId, Req(h).convo, "joe", Req(h).msg)
    BY <1>4 DEF PostMessageJoe
  <2>3. BotReplyAdjacent'
    BY <1>1, <2>1, <2>2, AddMsgAdjacent
  <2>4. pc'[h] = "idle"
    BY <1>4, AnswersPc DEF PostMessageJoe
  <2>5. ReplyWindow(h)'
    BY <2>4 DEF ReplyWindow
  <2>6. QED
    BY <1>1, <2>1, <2>3, <2>5, HolderMessages
<1>5. PostMessageSender(h) \/ GetMessagesList(h) \/ GetMessagesRow(h) =>
        /\ msglst' = msglst
        /\ pc'[h] \in {"idle", "postMessage:user", "getMessages:row"}
  <2>1. CASE PostMessageSender(h)
    BY <2>1, AnswersPc, CallPc DEF PostMessageSender, db, rows
  <2>2. CASE GetMessagesList(h)
    BY <2>2, AnswersPc, CallPc
       DEF GetMessagesList, InterpretMsglist, db, rows
  <2>3. CASE GetMessagesRow(h)
    <3>1. msglst' = msglst
      BY <2>3 DEF GetMessagesRow, db, rows
    <3>2. ASSUME NEW todo, NEW out, InterpretMsglist(h, todo, out)
          PROVE  pc'[h] \in {"idle", "getMessages:row"}
      BY <3>2, AnswersPc, CallPc DEF InterpretMsglist
    <3>3. Fail(h, Req(h)) => pc'[h] = "idle"
      BY AnswersPc
    <3>4. QED
      BY <2>3, <3>1, <3>2, <3>3 DEF GetMessagesRow
  <2>4. QED
    BY <2>1, <2>2, <2>3
<1>6. CASE PostMessageSender(h) \/ GetMessagesList(h) \/ GetMessagesRow(h)
  BY <1>1, <1>5, <1>6, QuietMessages
<1>7. QED
  BY <1>2, <1>3, <1>4, <1>6 DEF MessageStep

LEMMA SchemaStepMessages ==
  ASSUME NEW h \in Slots, Typed, MessageInv, SchemaStep(h)
  PROVE  MessageInv'
<1>1. MoveOf(h)
  BY SchemaKeeps DEF Kept
<1>2. CASE CreateUsrlst(h) \/ CreateBob(h) \/ CreateAddBob(h)
  <2>1. msglst' = msglst
    BY <1>2 DEF CreateUsrlst, CreateBob, CreateAddBob, OnlyUsrlst, db, rows
  <2>2. pc'[h] \notin {"postMessage:bob", "postMessage:joe"}
    BY <1>2, CallPc DEF CreateUsrlst, CreateBob, CreateAddBob
  <2>3. QED
    BY <1>1, <2>1, <2>2, QuietMessages
<1>3. CASE CreateJoe(h) \/ CreateAddJoe(h)
  <2>1. msglst' = msglst
    BY <1>3 DEF CreateJoe, CreateAddJoe, OnlyUsrlst, db, rows
  <2>2. pc'[h] \notin {"postMessage:bob", "postMessage:joe"}
    BY <1>3, Busy, CallPc, LaunchKeeps DEF CreateJoe, CreateAddJoe, Reply
  <2>3. QED
    BY <1>1, <2>1, <2>2, QuietMessages
<1>4. ASSUME NEW m \in Modules, Migrate(h, m) \/ LaunchedError(h, m)
      PROVE  MessageInv'
  BY <1>1, <1>4, SettleKeeps, QuietMessages
     DEF Migrate, LaunchedError, Running, db, rows
<1>5. ASSUME NEW m \in Modules, Rollback(h, m)
      PROVE  MessageInv'
  <2>1. pc'[h] \notin {"postMessage:bob", "postMessage:joe"}
    BY <1>5, SettleKeeps DEF Rollback, Running
  <2>2. CASE m = "Storage"
    <3>1. msglst' = << >>
      BY <1>5, <2>2 DEF Rollback
    <3>2. BotReplyAdjacent' /\ ReplyWindow(h)'
      BY <2>1, <3>1 DEF BotReplyAdjacent, ReplyWindow
    <3>3. QED
      BY <1>1, <1>5, <2>2, <3>2, HolderMessages DEF Rollback, Running
  <2>3. CASE m # "Storage"
    BY <1>1, <1>5, <2>1, <2>3, QuietMessages DEF Rollback
  <2>4. QED
    BY <2>2, <2>3
<1>6. QED
  BY <1>2, <1>3, <1>4, <1>5 DEF SchemaStep

LEMMA NextMessages == Typed /\ MessageInv /\ [Next]_vars => MessageInv'
<1> SUFFICES ASSUME Typed, MessageInv, [Next]_vars  PROVE MessageInv'
  OBVIOUS
<1>1. ASSUME NEW h \in Slots, NEW req \in Requests, Receive(h, req)  PROVE MessageInv'
  BY <1>1, ReceiveKeeps, ReceiveLeads, QuietMessages DEF Kept
<1>2. ASSUME NEW h \in Slots, Step(h)  PROVE MessageInv'
  <2>1. MoveOf(h)
    BY <1>2, StepKeeps DEF Kept
  <2>2. CASE MessageStep(h) \/ SchemaStep(h)
    BY <2>2, MessageStepInv, SchemaStepMessages
  <2>3. CASE AccountStep(h)
    BY <2>1, <2>3, AccountLeads, QuietMessages
  <2>4. CASE ContactStep(h)
    BY <2>1, <2>4, ContactLeads, QuietMessages
  <2>5. CASE ConversationStep(h)
    BY <2>1, <2>5, ConversationLeads, QuietMessages
  <2>6. CASE StatementError(h)
    BY <2>1, <2>6, ErrorLeads, QuietMessages
  <2>7. QED
    BY <1>2, <2>2, <2>3, <2>4, <2>5, <2>6 DEF Step
<1>3. CASE Restart
  BY <1>3 DEF Restart, MessageInv, ReplyWindow, BotReplyAdjacent, db, rows
<1>4. CASE UNCHANGED vars
  BY <1>4 DEF vars, db, rows, server, MessageInv, ReplyWindow, BotReplyAdjacent,
              Latest, Req
<1>5. QED
  BY <1>1, <1>2, <1>3, <1>4 DEF Next

\* A bot's message directly follows what it replies to, for any requests, any
\* number of handlers, statement failures, restarts and drops of the tables.
THEOREM RepliesAreAdjacent == Spec => []BotReplyAdjacent
<1>1. Init => MessageInv
  BY DEF Init, MessageInv, BotReplyAdjacent, ReplyWindow
<1>2. MessageInv => BotReplyAdjacent
  BY DEF MessageInv
<1>3. QED
  BY <1>1, <1>2, AlwaysTyped, NextMessages, PTL DEF Spec
-----------------------------------------------------------------------------
(***************************************************************************)
(* What /postMessage has stored when it answers OK.                        *)
(***************************************************************************)
\* The log ends with the text of req, told by each of by in turn, the first
\* of them the sender.
Told(req, by) ==
  LET last == Len(msglst) - Len(by) IN
  /\ last >= 0
  /\ \A k \in DOMAIN by : /\ msglst[last + k].msg = [by |-> by[k], text |-> req.msg]
                          /\ msglst[last + k].convoid = req.convo
  /\ msglst[last + 1].senderid \in UsersWithEmail(req.sender)

\* Who speaks before Joe, and who speaks at all
WithBob(req) == <<"user">> \o (IF req.bob THEN <<"bob">> ELSE << >>)
WithJoe(req) ==
  WithBob(req) \o (IF req.joe /\ req.msg \in JoeSpeaks THEN <<"joe">> ELSE << >>)

\* What post_message knows of the log when it stores the next message
PostWindow(h) ==
  /\ pc[h] = "postMessage:user" => frame[h].user \in UsersWithEmail(Req(h).sender)
  /\ pc[h] = "postMessage:bob" =>
       "Storage" \in calls[h] /\ Req(h).bob /\ Told(Req(h), <<"user">>)
  /\ pc[h] = "postMessage:joe" =>
       /\ "Storage" \in calls[h] /\ Req(h).joe /\ Req(h).msg \in JoeSpeaks
       /\ Told(Req(h), WithBob(Req(h)))

PostInv == \A h \in Slots : PostWindow(h)

LEMMA Appended ==
  ASSUME NEW S, NEW s \in Seq(S), NEW w \in S
  PROVE  /\ s \o <<w>> \in Seq(S) /\ Len(s \o <<w>>) = Len(s) + 1
         /\ DOMAIN (s \o <<w>>) = 1 .. Len(s) + 1
         /\ (s \o <<w>>)[Len(s) + 1] = w
         /\ \A k \in 1 .. Len(s) : (s \o <<w>>)[k] = s[k]
OBVIOUS

Speakers == {"user", "bob", "joe"}

LEMMA NothingAppended == ASSUME NEW S, NEW s \in Seq(S)  PROVE s \o << >> = s
OBVIOUS

LEMMA SpeakersTyped ==
  ASSUME NEW req
  PROVE  /\ <<"user">> \in Seq(Speakers)
         /\ WithBob(req) \in Seq(Speakers) /\ Len(WithBob(req)) >= 1
         /\ req.bob => WithBob(req) = <<"user">> \o <<"bob">>
         /\ ~req.bob => WithBob(req) = <<"user">>
         /\ req.joe /\ req.msg \in JoeSpeaks => WithJoe(req) = WithBob(req) \o <<"joe">>
         /\ ~(req.joe /\ req.msg \in JoeSpeaks) => WithJoe(req) = WithBob(req)
<1>1. <<"user">> \in Seq(Speakers) /\ Len(<<"user">>) = 1
  BY DEF Speakers
<1>2. \A s \in Seq(Speakers) : s \o << >> = s
  BY NothingAppended
<1>3. \A w \in Speakers : /\ <<"user">> \o <<w>> \in Seq(Speakers)
                          /\ Len(<<"user">> \o <<w>>) = Len(<<"user">>) + 1
  BY <1>1, Appended
<1>4. "bob" \in Speakers
  BY DEF Speakers
<1>5. /\ req.bob => WithBob(req) = <<"user">> \o <<"bob">>
      /\ ~req.bob => WithBob(req) = <<"user">>
  BY <1>1, <1>2 DEF WithBob
<1>6. WithBob(req) \in Seq(Speakers) /\ Len(WithBob(req)) >= 1
  <2>1. CASE ~req.bob
    <3>1. WithBob(req) = <<"user">>
      BY <1>5, <2>1
    <3>2. QED
      BY <3>1 DEF Speakers
  <2>2. CASE req.bob
    <3>1. /\ <<"user">> \o <<"bob">> \in Seq(Speakers)
          /\ Len(<<"user">> \o <<"bob">>) >= 1
      BY <1>1, <1>3, <1>4
    <3>2. WithBob(req) = <<"user">> \o <<"bob">>
      BY <1>5, <2>2
    <3>3. QED
      BY <3>1, <3>2, Zenon
  <2>3. QED
    BY <2>1, <2>2
<1>7. QED
  BY <1>1, <1>2, <1>5, <1>6 DEF WithJoe

\* The sender's message is stored.
LEMMA SenderTold ==
  ASSUME msglst \in Seq(StoredMessage), NEW req, NEW id \in UsersWithEmail(req.sender),
         AddMsg(id, req.convo, "user", req.msg), usrlst' = usrlst
  PROVE  Told(req, <<"user">>)'
<1>1. /\ Len(msglst') = Len(msglst) + 1 /\ Len(msglst) \in Nat
      /\ msglst'[Len(msglst) + 1] =
           [senderid |-> id, convoid |-> req.convo, msg |-> [by |-> "user", text |-> req.msg]]
  BY DEF AddMsg
<1>2. Len(<<"user">>) = 1 /\ DOMAIN <<"user">> = {1} /\ <<"user">>[1] = "user"
  OBVIOUS
<1>3. id \in UsersWithEmail(req.sender)'
  BY DEF UsersWithEmail
<1>4. Len(msglst') - 1 = Len(msglst)
  BY <1>1
<1>5. QED
  BY <1>1, <1>2, <1>3, <1>4 DEF Told

\* A bot's message is stored.
LEMMA BotTold ==
  ASSUME msglst \in Seq(StoredMessage), NEW req, NEW by \in Seq(Speakers), Len(by) >= 1,
         NEW w \in Speakers, NEW id, Told(req, by),
         AddMsg(id, req.convo, w, req.msg), usrlst' = usrlst
  PROVE  Told(req, by \o <<w>>)'
<1> DEFINE last == Len(msglst) - Len(by)
<1>1. /\ Len(msglst') = Len(msglst) + 1 /\ Len(msglst) \in Nat
      /\ msglst'[Len(msglst) + 1].convoid = req.convo
      /\ msglst'[Len(msglst) + 1].msg = [by |-> w, text |-> req.msg]
      /\ \A i \in 1 .. Len(msglst) : msglst'[i] = msglst[i]
  BY DEF AddMsg
<1>2. Len(by) \in Nat /\ DOMAIN by = 1 .. Len(by)
  OBVIOUS
<1>3. /\ Len(by \o <<w>>) = Len(by) + 1 /\ DOMAIN (by \o <<w>>) = 1 .. Len(by) + 1
      /\ (by \o <<w>>)[Len(by) + 1] = w
      /\ \A k \in 1 .. Len(by) : (by \o <<w>>)[k] = by[k]
  BY Appended
<1>4. last \in Nat /\ Len(msglst') - Len(by \o <<w>>) = last
  BY <1>1, <1>2, <1>3 DEF Told
<1>5. /\ msglst[last + 1].senderid \in UsersWithEmail(req.sender)
      /\ \A k \in 1 .. Len(by) : /\ msglst[last + k].msg = [by |-> by[k], text |-> req.msg]
                                 /\ msglst[last + k].convoid = req.convo
  BY <1>2 DEF Told
<1>6. ASSUME NEW k \in 1 .. Len(by) + 1
      PROVE  /\ msglst'[last + k].msg = [by |-> (by \o <<w>>)[k], text |-> req.msg]
             /\ msglst'[last + k].convoid = req.convo
  <2>1. CASE k = Len(by) + 1
    <3>1. last + k = Len(msglst) + 1
      BY <1>1, <1>2, <2>1
    <3>2. QED
      BY <1>1, <1>3, <2>1, <3>1
  <2>2. CASE k \in 1 .. Len(by)
    <3>1. last + k \in 1 .. Len(msglst)
      BY <1>1, <1>2, <1>4, <2>2
    <3>2. QED
      BY <1>1, <1>3, <1>5, <2>2, <3>1
  <2>3. QED
    BY <1>2, <2>1, <2>2
<1>7. msglst'[last + 1].senderid \in UsersWithEmail(req.sender)'
  <2>1. last + 1 \in 1 .. Len(msglst)
    BY <1>1, <1>2, <1>4
  <2>2. QED
    BY <1>1, <1>5, <2>1 DEF UsersWithEmail
<1> HIDE DEF last
<1>8. PICK all : all = by \o <<w>>
  OBVIOUS
<1>9. /\ Len(msglst') - Len(all) = last /\ last >= 0 /\ DOMAIN all = 1 .. Len(by) + 1
      /\ \A k \in 1 .. Len(by) + 1 :
           /\ msglst'[last + k].msg = [by |-> all[k], text |-> req.msg]
           /\ msglst'[last + k].convoid = req.convo
  BY <1>3, <1>4, <1>6, <1>8
<1>10. Told(req, all)'
  BY <1>7, <1>9 DEF Told
<1>11. QED
  BY <1>8, <1>10

\* What is told stays told as long as nobody else stores a message.
LEMMA StaysTold ==
  ASSUME Typed, Grow, msglst' = msglst, NEW req, NEW by, Told(req, by)
  PROVE  Told(req, by)'
<1>1. UsersWithEmail(req.sender) \subseteq UsersWithEmail(req.sender)'
  BY DEF Grow, UsersWithEmail
<1>2. QED
  BY <1>1 DEF Told

\* Messages are stored over Storage's connection.
LEMMA StoredOverStorage ==
  ASSUME NEW h \in Slots, Standing, Typed, Step(h), "Storage" \notin calls[h]
  PROVE  msglst' = msglst
<1>1. MessageStep(h) => msglst' = msglst
  BY DEF MessageStep, PostMessageSender, PostMessageUser, PostMessageBob,
         PostMessageJoe, GetMessagesList, GetMessagesRow, Reply, db, rows
<1>2. SchemaStep(h) => msglst' = msglst
  BY NothingDropped
     DEF SchemaStep, CreateUsrlst, CreateBob, CreateAddBob, CreateJoe, CreateAddJoe,
         Migrate, LaunchedError, OnlyUsrlst, db, rows
<1>3. QED
  BY <1>1, <1>2, AccountLeads, ContactLeads, ConversationLeads, ErrorLeads DEF Step

LEMMA OthersStayTold ==
  ASSUME NEW h \in Slots, Standing, Typed, PostInv, Next, MoveOf(h),
         Step(h) \/ msglst' = msglst, NEW g \in Slots \ {h}
  PROVE  PostWindow(g)'
<1>1. Grow
  BY NextGrows
<1>2. pc'[g] = pc[g] /\ calls'[g] = calls[g] /\ frame'[g] = frame[g]
  BY DEF MoveOf
<1>3. "Storage" \in calls[g] => msglst' = msglst
  BY StoredOverStorage DEF Typed, Exclusive
<1>4. PICK req : req = Req(g)
  OBVIOUS
<1>5. Req(g)' = req /\ PostWindow(g)
  BY <1>2, <1>4 DEF Req, PostInv
<1>6. frame[g].user \in UsersWithEmail(req.sender) =>
        (frame[g].user \in UsersWithEmail(req.sender))'
  BY <1>1, <1>2 DEF Grow, UsersWithEmail
<1>7. ASSUME NEW by, "Storage" \in calls[g], Told(req, by)
      PROVE  Told(req, by)'
  BY <1>1, <1>3, <1>7, StaysTold
<1>8. QED
  BY <1>2, <1>4, <1>5, <1>6, <1>7 DEF PostWindow

\* An answer of a message step, and what h knows if it goes on
PostStep(h) ==
  /\ PostWindow(h)'
  /\ response'.status = 200 /\ response'.req.op = "postMessage" =>
       Told(response.req, WithJoe(response.req))'

LEMMA JoeTurnTells ==
  ASSUME NEW h \in Slots, Typed, pc[h] # "idle", JoeTurn(h), NEW req, req = Req(h),
         Told(req, WithBob(req))'
  PROVE  PostStep(h)
<1>1. ASSUME Fail(h, Req(h))
      PROVE  PostStep(h)
  <2>1. response'.status = 500 /\ pc'[h] = "idle"
    BY <1>1, AnswersPc, AnswerSays DEF Fail
  <2>2. QED
    BY <2>1 DEF PostStep, PostWindow
<1>2. ASSUME req.joe, req.msg \in JoeSpeaks,
             Call(h, "Storage", "postMessage:joe", frame[h], work[h])
      PROVE  PostStep(h)
  <2>1. response'.status # 200
    BY <1>2, CallTells
  <2>2. \/ pc'[h] = "idle"
        \/ pc'[h] = "postMessage:joe" /\ calls'[h] = {"Storage"} /\ Req(h)' = req
    BY <1>2, Onward
  <2>3. QED
    BY <1>2, <2>1, <2>2 DEF PostStep, PostWindow
<1>3. ASSUME ~(req.joe /\ req.msg \in JoeSpeaks), RespondText(h, Empty)
      PROVE  PostStep(h)
  <2>1. response'.req = req /\ pc'[h] = "idle"
    BY <1>3, AnswersPc, AnswerSays DEF RespondText
  <2>2. WithJoe(req) = WithBob(req)
    BY <1>3, SpeakersTyped
  <2>3. Told(req, WithJoe(req))'
    BY <2>2
  <2>4. QED
    BY <2>1, <2>3 DEF PostStep, PostWindow
<1>4. QED
  BY <1>1, <1>2, <1>3 DEF JoeTurn

LEMMA MessageStepTells ==
  ASSUME NEW h \in Slots, Typed, PostInv, MessageStep(h)
  PROVE  PostStep(h)
<1>1. PICK req : req = Req(h)
  OBVIOUS
<1>2. msglst \in Seq(StoredMessage) /\ PostWindow(h) /\ pc[h] # "idle" /\ usrlst' = usrlst
  <2>1. pc[h] # "idle"
    BY StepsStart
  <2>2. QED
    BY <2>1, MessageLeads DEF Typed, RowsTypeOK, PostInv
<1>3. CASE PostMessageSender(h)
  <2>1. PICK id : \/ /\ id \in UsersWithEmail(req.sender)
                     /\ Call(h, "Storage", "postMessage:user",
                             [frame[h] EXCEPT !.user = id], work[h])
                  \/ Fail(h, req)
    BY <1>1, <1>3 DEF PostMessageSender
  <2>2. CASE Fail(h, req)
    <3>1. response'.status = 500 /\ pc'[h] = "idle"
      BY <2>2, AnswersPc, AnswerSays DEF Fail
    <3>2. QED
      BY <3>1 DEF PostStep, PostWindow
  <2>3. ASSUME id \in UsersWithEmail(req.sender),
               Call(h, "Storage", "postMessage:user",
                    [frame[h] EXCEPT !.user = id], work[h])
        PROVE  PostStep(h)
    <3>1. response'.status # 200
      BY <2>3, CallTells
    <3>2. PICK f \in Frame : f = [frame[h] EXCEPT !.user = id] /\ f.req = req /\ f.user = id
      <4>1. [frame[h] EXCEPT !.user = id] \in Frame
        BY <1>2, <2>3, Lookup
      <4>2. frame[h] \in Frame
        BY <1>2, Busy
      <4>3. QED
        BY <1>1, <4>1, <4>2 DEF Frame, Req
    <3>3. "Storage" \in Modules
      BY DEF Modules
    <3>4. Call(h, "Storage", "postMessage:user", f, work[h])
      BY <2>3, <3>2
    <3>5. \/ pc'[h] = "idle"
          \/ pc'[h] = "postMessage:user" /\ frame'[h] = f
      BY <3>3, <3>4, HandlersTyped, CallMoves DEF Typed
    <3>6. UsersWithEmail(req.sender)' = UsersWithEmail(req.sender)
      BY <1>2 DEF UsersWithEmail
    <3>7. QED
      BY <2>3, <3>1, <3>2, <3>5, <3>6 DEF PostStep, PostWindow, Req
  <2>4. QED
    BY <2>1, <2>2, <2>3
<1>4. CASE PostMessageUser(h)
  <2>1. Told(req, <<"user">>)'
    BY <1>1, <1>2, <1>4, SenderTold DEF PostMessageUser, Reply, PostWindow
  <2>2. ASSUME req.bob, Fail(h, req)
        PROVE  PostStep(h)
    <3>1. response'.status = 500 /\ pc'[h] = "idle"
      BY <2>2, AnswersPc, AnswerSays DEF Fail
    <3>2. QED
      BY <3>1 DEF PostStep, PostWindow
  <2>3. ASSUME req.bob, Call(h, "Storage", "postMessage:bob", frame[h], work[h])
        PROVE  PostStep(h)
    <3>1. response'.status # 200
      BY <2>3, CallTells
    <3>2. \/ pc'[h] = "idle"
          \/ pc'[h] = "postMessage:bob" /\ calls'[h] = {"Storage"} /\ Req(h)' = req
      BY <1>1, <1>2, <2>3, Onward
    <3>3. QED
      BY <2>1, <2>3, <3>1, <3>2 DEF PostStep, PostWindow
  <2>4. ASSUME ~req.bob, JoeTurn(h)
        PROVE  PostStep(h)
    <3>1. Told(req, WithBob(req))'
      BY <2>1, <2>4, SpeakersTyped
    <3>2. QED
      BY <1>1, <1>2, <2>4, <3>1, JoeTurnTells
  <2>5. QED
    BY <1>1, <1>4, <2>2, <2>3, <2>4 DEF PostMessageUser
<1>5. CASE PostMessageBob(h)
  <2>1. req.bob /\ Told(req, <<"user">>)
    BY <1>1, <1>2, <1>5 DEF PostMessageBob, Reply, PostWindow
  <2>2. <<"user">> \in Seq(Speakers) /\ Len(<<"user">>) >= 1 /\ "bob" \in Speakers
    BY DEF Speakers
  <2>3. Told(req, <<"user">> \o <<"bob">>)'
    BY <1>1, <1>2, <1>5, <2>1, <2>2, BotTold DEF PostMessageBob
  <2>4. WithBob(req) = <<"user">> \o <<"bob">>
    BY <2>1, SpeakersTyped
  <2>5. Told(req, WithBob(req))'
    BY <2>3, <2>4
  <2>6. QED
    BY <1>1, <1>2, <1>5, <2>5, JoeTurnTells DEF PostMessageBob
<1>6. CASE PostMessageJoe(h)
  <2>1. req.joe /\ req.msg \in JoeSpeaks /\ Told(req, WithBob(req))
    BY <1>1, <1>2, <1>6 DEF PostMessageJoe, Reply, PostWindow
  <2>2. "joe" \in Speakers
    BY DEF Speakers
  <2>3. Told(req, WithBob(req) \o <<"joe">>)'
    BY <1>1, <1>2, <1>6, <2>1, <2>2, SpeakersTyped, BotTold DEF PostMessageJoe
  <2>4. Told(req, WithJoe(req))'
    BY <2>1, <2>3, SpeakersTyped
  <2>5. response'.req = req /\ pc'[h] = "idle"
    BY <1>1, <1>6, AnswersPc, AnswerSays DEF PostMessageJoe, RespondText
  <2>6. QED
    BY <2>4, <2>5 DEF PostStep, PostWindow
<1>7. CASE GetMessagesList(h) \/ GetMessagesRow(h)
  <2>1. pc[h] \in {"getMessages:list", "getMessages:row"}
    BY <1>7 DEF GetMessagesList, GetMessagesRow, Reply
  <2>2. Req(h).op = "getMessages"
    BY <1>2, <2>1, Busy DEF Fits
  <2>3. response'.status = 200 => response'.req.op # "postMessage"
    BY <2>2, MessageTells DEF Tells
  <2>4. pc'[h] \in {"idle", "getMessages:row"}
    <3>1. ASSUME NEW todo, NEW out, InterpretMsglist(h, todo, out)
          PROVE  pc'[h] \in {"idle", "getMessages:row"}
      BY <3>1, AnswersPc, CallPc DEF InterpretMsglist
    <3>2. QED
      BY <1>7, <3>1, AnswersPc DEF GetMessagesList, GetMessagesRow
  <2>5. QED
    BY <2>3, <2>4 DEF PostStep, PostWindow
<1>8. QED
  BY <1>3, <1>4, <1>5, <1>6, <1>7 DEF MessageStep

LEMMA NextPosts ==
  Standing /\ Typed /\ PostInv /\ [Next]_vars => PostInv'
<1> SUFFICES ASSUME Standing, Typed, PostInv, [Next]_vars  PROVE PostInv'
  OBVIOUS
<1>1. ASSUME NEW h \in Slots, NEW req \in Requests, Receive(h, req)  PROVE PostInv'
  <2>1. MoveOf(h) /\ msglst' = msglst /\ Next
    BY <1>1, ReceiveKeeps, ReceiveLeads DEF Kept, Next
  <2>2. PostWindow(h)'
    BY <1>1, ReceiveLeads DEF PostWindow
  <2>3. QED
    BY <2>1, <2>2, OthersStayTold DEF PostInv
<1>2. ASSUME NEW h \in Slots, Step(h)  PROVE PostInv'
  <2>1. MoveOf(h) /\ Next
    BY <1>2, StepKeeps DEF Kept, Next
  <2>2. CASE MessageStep(h)
    <3>1. PostWindow(h)'
      BY <2>2, MessageStepTells DEF PostStep
    <3>2. QED
      BY <1>2, <2>1, <3>1, OthersStayTold DEF PostInv
  <2>3. CASE ~MessageStep(h)
    <3>1. pc'[h] \notin {"postMessage:user", "postMessage:bob", "postMessage:joe"}
      BY <1>2, <2>3, AccountLeads, SchemaLeads, ContactLeads, ConversationLeads,
         ErrorLeads DEF Step
    <3>2. PostWindow(h)'
      BY <3>1 DEF PostWindow
    <3>3. QED
      BY <1>2, <2>1, <3>2, OthersStayTold DEF PostInv
  <2>4. QED
    BY <2>2, <2>3
<1>3. CASE Restart
  BY <1>3 DEF Restart, PostInv, PostWindow
<1>4. CASE UNCHANGED vars
  <2>1. ASSUME NEW g \in Slots  PROVE PostWindow(g)'
    BY <1>4 DEF vars, db, rows, server, PostInv, PostWindow, Told, UsersWithEmail, Req
  <2>2. QED
    BY <2>1 DEF PostInv
<1>5. QED
  BY <1>1, <1>2, <1>3, <1>4 DEF Next

LEMMA NextTold ==
  Typed /\ PostInv /\ PostOutcome /\ [Next]_vars => PostOutcome'
<1> SUFFICES ASSUME Typed, PostInv, PostOutcome, [Next]_vars  PROVE PostOutcome'
  OBVIOUS
<1>1. CASE UNCHANGED vars
  BY <1>1 DEF vars, db, rows, server, PostOutcome
<1>2. ASSUME Next, response'.req.op = "postMessage", response'.status = 200
      PROVE  PostOutcome'
  <2>1. PICK h \in Slots : Step(h) /\ ~StatementError(h) /\ pc[h] # "idle"
                           /\ response'.req = Req(h)
    BY <1>2, NextTells
  <2>2. MessageStep(h)
    BY <1>2, <2>1, Waiting, StepsStart DEF Step
  <2>3. PICK req : req = response'.req
    OBVIOUS
  <2>4. Told(req, WithJoe(req))'
    BY <1>2, <2>2, <2>3, MessageStepTells DEF PostStep
  <2>5. \A i \in UsersWithEmail(req.sender)' : usrlst'[i].email = req.sender
    BY DEF UsersWithEmail
  <2>6. QED
    BY <2>3, <2>4, <2>5, ZenonT(60) DEF PostOutcome, Told, WithJoe, WithBob
<1>3. QED
  BY <1>1, <1>2 DEF PostOutcome

\* When /postMessage answers OK the log ends with the sender's message and
\* the replies of the bots it addressed, in this order, whatever other handlers
\* do meanwhile; the sender is the user the request names as long as nobody
\* drops usrlst.
THEOREM PostsAreTold == Standing => (Spec => []PostOutcome)
<1> SUFFICES ASSUME Standing  PROVE Spec => []PostOutcome
  OBVIOUS
<1>1. Init => PostInv /\ PostOutcome
  BY DEF Init, PostInv, PostWindow, PostOutcome, Silent
<1>2. Typed /\ PostInv /\ [Next]_vars => PostInv'
  BY NextPosts
<1>3. QED
  BY <1>1, <1>2, AlwaysTyped, NextTold, PTL DEF Spec
-----------------------------------------------------------------------------
(***************************************************************************)
(* Under which name /getMessages tells a bot's message.                    *)
(***************************************************************************)
\* What is stored as a bot's message carries the bot's id, and what is told
\* as one the bot's name.
Signed(list) ==
  \A k \in DOMAIN list :
    /\ list[k].msg.by = "bob" => list[k].senderid = BobId
    /\ list[k].msg.by = "joe" => list[k].senderid = JoeId

Attributed(data) ==
  \A k \in DOMAIN data :
    /\ data[k].message.by = "bob" => data[k].username = "Bob-bot"
    /\ data[k].message.by = "joe" => data[k].username = "Joe-bot"

\* The bots' rows keep their ids and names.
BotsSeated ==
  /\ {BobId, JoeId} \subseteq DOMAIN usrlst
  /\ usrlst[BobId].username = "Bob-bot" /\ usrlst[JoeId].username = "Joe-bot"
  /\ usrlst[BobId].email = InitUsers[BobId].email
  /\ usrlst[JoeId].email = InitUsers[JoeId].email

Telling(label, w) ==
  label = "getMessages:row" => Signed(w.todo) /\ Attributed(w.out)

AttributionInv ==
  /\ BotsSeated /\ Signed(msglst)
  /\ \A h \in Slots : Telling(pc[h], work[h])

\* Bob-bot is the first user and Joe-bot the second, and nobody renames them.
Seated ==
  /\ {BobId, JoeId} \subseteq DOMAIN InitUsers
  /\ InitUsers[BobId].username = "Bob-bot" /\ InitUsers[JoeId].username = "Joe-bot"
  /\ \A req \in Requests :
       req.op = "changeUsername" =>
         req.email \notin {InitUsers[BobId].email, InitUsers[JoeId].email}

LEMMA NextSeated ==
  ASSUME Standing, Seated, Typed, BotsSeated, [Next]_vars
  PROVE  BotsSeated'
<1>1. Grow /\ usrlst \in Seq(Account)
  BY NextGrows DEF Typed, RowsTypeOK
<1>2. ASSUME NEW i \in {BobId, JoeId}  PROVE usrlst'[i].username = usrlst[i].username
  <2>1. i \in DOMAIN usrlst /\ i \in DOMAIN usrlst'
    BY <1>1 DEF BotsSeated, Grow
  <2>2. ASSUME NEW email, NEW password, NEW username,
               AddUsr(email, password, username)
        PROVE  usrlst'[i] = usrlst[i]
    BY <1>1, <2>1, <2>2, AppendGrows DEF AddUsr
  <2>3. ASSUME NEW h \in Slots, RegisterAdd(h) \/ CreateAddBob(h) \/ CreateAddJoe(h)
        PROVE  usrlst'[i] = usrlst[i]
    BY <2>2, <2>3 DEF RegisterAdd, CreateAddBob, CreateAddJoe
  <2>4. ASSUME NEW h \in Slots, ChangeUsername(h)  PROVE usrlst'[i] = usrlst[i]
    <3>1. Req(h) \in Requests /\ Req(h).op = "changeUsername"
      BY <2>4, Busy DEF ChangeUsername, Reply, Fits
    <3>2. usrlst[i].email # Req(h).email
      BY <3>1 DEF Seated, BotsSeated
    <3>3. QED
      BY <2>1, <2>4, <3>2 DEF ChangeUsername
  <2>5. usrlst' # << >>
    <3>1. \A k : k \notin DOMAIN << >>
      OBVIOUS
    <3>2. QED
      BY <2>1, <3>1
  <2>6. QED
    BY <2>3, <2>4, <2>5, UsrlstChanges
<1>3. QED
  BY <1>1, <1>2 DEF BotsSeated, Grow

LEMMA StepSigned ==
  ASSUME NEW h \in Slots, Standing, Typed, Signed(msglst), Step(h)
  PROVE  Signed(msglst')
<1>1. msglst \in Seq(StoredMessage) /\ BobId # JoeId
  BY DEF Typed, RowsTypeOK, BobId, JoeId
<1>2. ASSUME NEW senderid, NEW convoid, NEW by, NEW text,
             AddMsg(senderid, convoid, by, text),
             by = "bob" => senderid = BobId, by = "joe" => senderid = JoeId
      PROVE  Signed(msglst')
  <2>1. PICK row : row = [senderid |-> senderid, convoid |-> convoid,
                          msg |-> [by |-> by, text |-> text]]
    OBVIOUS
  <2>2. row.msg.by = by /\ row.senderid = senderid /\ msglst' = Append(msglst, row)
    BY <1>2, <2>1 DEF AddMsg
  <2>3. /\ DOMAIN msglst' = DOMAIN msglst \cup {Len(msglst) + 1}
        /\ msglst'[Len(msglst) + 1] = row
        /\ \A i \in DOMAIN msglst : msglst'[i] = msglst[i]
    BY <1>1, <2>2
  <2>4. QED
    BY <1>2, <2>2, <2>3 DEF Signed
<1>3. CASE PostMessageUser(h) \/ PostMessageBob(h) \/ PostMessageJoe(h)
  BY <1>2, <1>3 DEF PostMessageUser, PostMessageBob, PostMessageJoe
<1>4. MessageStep(h) =>
        \/ PostMessageUser(h) \/ PostMessageBob(h) \/ PostMessageJoe(h)
        \/ msglst' = msglst
  BY DEF MessageStep, PostMessageSender, GetMessagesList, GetMessagesRow, db, rows
<1>5. ~MessageStep(h) => msglst' = msglst
  <2>1. SchemaStep(h) => msglst' = msglst
    BY NothingDropped
       DEF SchemaStep, CreateUsrlst, CreateBob, CreateAddBob, CreateJoe, CreateAddJoe,
           Migrate, LaunchedError, OnlyUsrlst, db, rows
  <2>2. QED
    BY <2>1, AccountLeads, ContactLeads, ConversationLeads, ErrorLeads DEF Step
<1>6. QED
  BY <1>3, <1>4, <1>5

\* Where a call leaves its handler, or the answer it gets
LEMMA InterpretTells ==
  ASSUME NEW h \in Slots, Typed, Listed, NEW todo, NEW out,
         InterpretMsglist(h, todo, out), Signed(todo), Attributed(out)
  PROVE  /\ Telling(pc'[h], work'[h])
         /\ Attributed(response'.data)
<1>1. CASE todo = << >>
  <2>1. pc'[h] = "idle" /\ response'.data = out
    BY <1>1, AnswersPc, AnswerSays DEF InterpretMsglist, RespondJson
  <2>2. QED
    BY <2>1 DEF Telling
<1>2. CASE todo # << >>
  <2>1. PICK w \in WorkSet : w = work[h]
    BY DEF Listed
  <2>2. PICK v : v = [w EXCEPT !.todo = todo, !.out = out]
    OBVIOUS
  <2>3. v.todo = todo /\ v.out = out
    BY <2>1, <2>2 DEF WorkSet
  <2>4. Call(h, "User", "getMessages:row", frame[h], v)
    BY <1>2, <2>1, <2>2 DEF InterpretMsglist
  <2>5. (pc'[h] = "getMessages:row" /\ work'[h] = v) \/ pc'[h] = "idle"
    BY <2>4, AnswersPc DEF Call, Typed, HandlersTypeOK
  <2>6. response'.data = << >>
    BY <2>4, CallTells DEF Tells
  <2>7. QED
    BY <2>3, <2>5, <2>6 DEF Telling, Attributed
<1>3. QED
  BY <1>1, <1>2

LEMMA MessageTelling ==
  ASSUME NEW h \in Slots, Typed, Listed, AttributionInv, MessageStep(h)
  PROVE  /\ Telling(pc'[h], work'[h])
         /\ pc[h] \in {"getMessages:list", "getMessages:row"} =>
              Attributed(response'.data)
<1>1. CASE GetMessagesList(h)
  <2>1. PICK ids : ids = MessageList(Req(h).convo, Len(msglst))
    OBVIOUS
  <2>2. \A k \in DOMAIN ids : ids[k] \in DOMAIN msglst
    BY <2>1, MessageListTyped DEF Lists
  <2>3. PICK todo : /\ todo = [k \in DOMAIN ids |->
                                 [senderid |-> msglst[ids[k]].senderid,
                                  msg |-> msglst[ids[k]].msg]]
                    /\ InterpretMsglist(h, todo, << >>)
    BY <1>1, <2>1 DEF GetMessagesList
  <2>4. Signed(todo)
    BY <2>2, <2>3 DEF AttributionInv, Signed
  <2>5. Attributed(<< >>)
    BY DEF Attributed
  <2>6. QED
    BY <2>3, <2>4, <2>5, InterpretTells
<1>2. CASE GetMessagesRow(h)
  <2>1. /\ work[h].todo \in Seq([senderid : Nat, msg : Message])
        /\ work[h].todo # << >> /\ work[h].out \in Seq(Item)
    <3>1. TodoFits("getMessages:row", work[h]) /\ work[h] \in WorkSet
      BY <1>2 DEF GetMessagesRow, Reply, Listed
    <3>2. QED
      BY <3>1 DEF TodoFits, WorkSet
  <2>2. Signed(work[h].todo) /\ Attributed(work[h].out)
    BY <1>2 DEF GetMessagesRow, Reply, AttributionInv, Telling
  <2>3. PICK message, rest, out :
          message = Head(work[h].todo) /\ rest = Tail(work[h].todo) /\ out = work[h].out
    OBVIOUS
  <2>4. /\ message.msg.by = "bob" => message.senderid = BobId
        /\ message.msg.by = "joe" => message.senderid = JoeId
        /\ Signed(rest)
    BY <2>1, <2>2, <2>3, HeadTail DEF Signed
  <2>5. CASE Fail(h, Req(h))
    <3>1. pc'[h] = "idle" /\ response'.data = << >>
      BY <2>5, AnswersPc, AnswerSays DEF Fail
    <3>2. QED
      BY <3>1 DEF Telling, Attributed
  <2>6. PICK item : item = [username |-> usrlst[message.senderid].username,
                            message |-> message.msg]
    OBVIOUS
  <2>7. Attributed(Append(out, item))
    <3>1. /\ item.message.by = "bob" => item.username = "Bob-bot"
          /\ item.message.by = "joe" => item.username = "Joe-bot"
      BY <2>4, <2>6 DEF AttributionInv, BotsSeated
    <3>2. out \in Seq(Item) /\ Attributed(out)
      BY <2>1, <2>2, <2>3
    <3>3. \A k \in DOMAIN Append(out, item) :
            (k \in DOMAIN out /\ Append(out, item)[k] = out[k]) \/ Append(out, item)[k] = item
      BY <3>2
    <3>4. QED
      BY <3>1, <3>2, <3>3 DEF Attributed
  <2>8. CASE InterpretMsglist(h, rest, Append(out, item))
    BY <2>4, <2>7, <2>8, InterpretTells
  <2>9. QED
    BY <1>2, <2>3, <2>5, <2>6, <2>8 DEF GetMessagesRow
<1>3. CASE PostMessageSender(h) \/ PostMessageUser(h) \/ PostMessageBob(h)
           \/ PostMessageJoe(h)
  <2>1. JoeTurn(h) => pc'[h] # "getMessages:row"
    BY AnswersPc, CallPc DEF JoeTurn
  <2>2. pc'[h] # "getMessages:row"
    BY <1>3, <2>1, AnswersPc, CallPc
       DEF PostMessageSender, PostMessageUser, PostMessageBob, PostMessageJoe
  <2>3. pc[h] \notin {"getMessages:list", "getMessages:row"}
    BY <1>3 DEF PostMessageSender, PostMessageUser, PostMessageBob, PostMessageJoe,
                Reply
  <2>4. QED
    BY <2>2, <2>3 DEF Telling
<1>4. QED
  BY <1>1, <1>2, <1>3 DEF MessageStep

LEMMA NextAttributed ==
  Standing /\ Seated /\ Typed /\ Listed /\ AttributionInv /\ PollAttribution /\ [Next]_vars
    => AttributionInv' /\ PollAttribution'
<1> SUFFICES ASSUME Standing, Seated, Typed, Listed, AttributionInv, PollAttribution,
                    [Next]_vars
             PROVE  AttributionInv' /\ PollAttribution'
  OBVIOUS
<1>1. BotsSeated'
  BY NextSeated DEF AttributionInv
<1>2. ASSUME NEW h \in Slots, MoveOf(h)
      PROVE  \A g \in Slots \ {h} : Telling(pc'[g], work'[g])
  BY <1>2 DEF MoveOf, AttributionInv
<1>3. ASSUME Restart \/ UNCHANGED vars  PROVE AttributionInv'
  <2>1. msglst' = msglst
    BY <1>3 DEF Restart, vars, db, rows
  <2>2. \A h \in Slots : Telling(pc'[h], work'[h])
    BY <1>3 DEF Restart, vars, server, AttributionInv, Telling
  <2>3. QED
    BY <1>1, <2>1, <2>2 DEF AttributionInv
<1>4. ASSUME NEW h \in Slots, NEW req \in Requests, Receive(h, req)
      PROVE  AttributionInv'
  <2>1. MoveOf(h) /\ msglst' = msglst /\ pc'[h] # "getMessages:row"
    BY <1>4, ReceiveKeeps, ReceiveLeads DEF Kept
  <2>2. QED
    BY <1>1, <1>2, <2>1 DEF AttributionInv, Telling
<1>5. ASSUME NEW h \in Slots, Step(h)  PROVE AttributionInv'
  <2>1. MoveOf(h)
    BY <1>5, StepKeeps DEF Kept
  <2>2. Signed(msglst')
    BY <1>5, StepSigned DEF AttributionInv
  <2>3. ~MessageStep(h) => pc'[h] # "getMessages:row"
    BY <1>5, AccountLeads, SchemaLeads, ContactLeads, ConversationLeads, ErrorLeads
       DEF Step
  <2>4. Telling(pc'[h], work'[h])
    BY <2>3, MessageTelling DEF Telling
  <2>5. QED
    BY <1>1, <1>2, <2>1, <2>2, <2>4 DEF AttributionInv
<1>6. AttributionInv'
  BY <1>3, <1>4, <1>5 DEF Next
<1>7. CASE UNCHANGED vars
  BY <1>6, <1>7 DEF vars, server, PollAttribution
<1>8. ASSUME Next, response'.req.op = "getMessages"  PROVE Attributed(response'.data)
  <2>1. CASE response'.status # 200
    BY <1>8, <2>1, NextTells DEF Attributed
  <2>2. CASE response'.status = 200
    <3>1. PICK h \in Slots : Step(h) /\ ~StatementError(h) /\ pc[h] # "idle"
                             /\ response'.req = Req(h)
      BY <1>8, <2>2, NextTells
    <3>2. pc[h] \in {"getMessages:list", "getMessages:row"}
      BY <1>8, <3>1, Waiting
    <3>3. MessageStep(h)
      BY <3>1, <3>2, StepsStart DEF Step
    <3>4. QED
      BY <3>2, <3>3, MessageTelling
  <2>3. QED
    BY <2>1, <2>2
<1>9. PollAttribution'
  BY <1>7, <1>8 DEF PollAttribution, Attributed
<1>10. QED
  BY <1>6, <1>9

\* A bot's message is told under the bot's name, for any number of handlers,
\* statement failures and restarts, as long as the bots are the first two
\* users, nobody renames them and nobody drops the tables.
THEOREM PollsAreAttributed == Standing /\ Seated => (Spec => []PollAttribution)
<1> SUFFICES ASSUME Standing, Seated  PROVE Spec => []PollAttribution
  OBVIOUS
<1>1. Init => AttributionInv /\ PollAttribution
  <2> SUFFICES ASSUME Init  PROVE AttributionInv /\ PollAttribution
    OBVIOUS
  <2>1. \A i : i \notin DOMAIN << >>
    OBVIOUS
  <2>2. BotsSeated /\ Signed(msglst)
    BY <2>1 DEF Init, Seated, BotsSeated, Signed
  <2>3. response.req.op # "getMessages"
    BY DEF Init, Silent, NoRequest
  <2>4. \A h \in Slots : Telling(pc[h], work[h])
    BY DEF Init, Telling
  <2>5. QED
    BY <2>2, <2>3, <2>4 DEF AttributionInv, PollAttribution
<1>2. QED
  BY <1>1, AlwaysTyped, AlwaysListed, NextAttributed, PTL DEF Spec
=============================================================================
