-------------------------- MODULE ConversationBook --------------------------
(***************************************************************************)
(* The handlers of /makeConversation and /getConversations, over convolst  *)
(* and userconvolst.                                                       *)
(***************************************************************************)
EXTENDS Server

\* UserConversation.insert_user_conversation
InsertMember(convo, user) ==
  userconvolst' = Append(userconvolst, [conversation_id |-> convo,
                                        users_id |-> user])

OnlyUserconvolst == UNCHANGED <<usrlst, contactslst, convolst, msglst, tables>>
OnlyConvolst == UNCHANGED <<usrlst, contactslst, userconvolst, msglst, tables>>

MakeConversationCreator(h) ==
  LET found == UsersWithEmail(Req(h).creator) IN
  /\ Reply(h, "makeConversation:creator", "User")
  /\ \/ \E id \in found :
          /\ found = {id}
          /\ Call(h, "Conversations", "makeConversation:insert",
                  [frame[h] EXCEPT !.user = id], work[h])
     \/ ~Single(found) /\ Fail(h, Req(h))
  /\ UNCHANGED db

\* Conversations.insert_convo, first statement
MakeConversationInsert(h) ==
  /\ Reply(h, "makeConversation:insert", "Conversations")
  /\ convolst' = Append(convolst, [convo_name |-> Req(h).name,
                                   creator_name |-> Req(h).creator])
  /\ Call(h, "Conversations", "makeConversation:id", frame[h], work[h])
  /\ OnlyConvolst

\* Mutant of MakeConversationId: the id is one too large.
MakeConversationIdNext(h) ==
  /\ Reply(h, "makeConversation:id", "Conversations")
  /\ Call(h, "UserConversation", "makeConversation:join",
          [frame[h] EXCEPT !.convo = Len(convolst) + 1], work[h])
  /\ UNCHANGED db

\* Conversations.insert_convo, second statement: the largest id is taken for
\* the new conversation's.
MakeConversationId(h) ==
  /\ Reply(h, "makeConversation:id", "Conversations")
  /\ \/ /\ convolst # << >>
        /\ Call(h, "UserConversation", "makeConversation:join",
                [frame[h] EXCEPT !.convo = Len(convolst)], work[h])
     \/ convolst = << >> /\ Fail(h, Req(h))
  /\ UNCHANGED db

\* Mutant of GenUserConvos: the last contact is left out.
GenUserConvosButLast(h, todo) ==
  \/ Len(todo) <= 1 /\ RespondText(h, "Success")
  \/ /\ Len(todo) > 1
     /\ Call(h, "User", "makeConversation:contact", frame[h],
             [work[h] EXCEPT !.todo = todo])

\* gen_user_convos on what is left of the contacts
GenUserConvos(h, todo) ==
  \/ todo = << >> /\ RespondText(h, "Success")
  \/ /\ todo # << >>
     /\ Call(h, "User", "makeConversation:contact", frame[h],
             [work[h] EXCEPT !.todo = todo])

\* Mutant of MakeConversationJoin: the creator does not join.
MakeConversationJoinNobody(h) ==
  /\ Reply(h, "makeConversation:join", "UserConversation")
  /\ \/ Req(h).parses /\ GenUserConvos(h, Req(h).contacts)
     \/ ~Req(h).parses /\ Fail(h, Req(h))
  /\ UNCHANGED db

\* The creator joins; only then are the contacts parsed.
MakeConversationJoin(h) ==
  /\ Reply(h, "makeConversation:join", "UserConversation")
  /\ InsertMember(frame[h].convo, frame[h].user)
  /\ \/ Req(h).parses /\ GenUserConvos(h, Req(h).contacts)
     \/ ~Req(h).parses /\ Fail(h, Req(h))
  /\ OnlyUserconvolst

\* gen_user_convos: the first contact's id
MakeConversationContact(h) ==
  LET found == UsersWithEmail(Head(work[h].todo).email) IN
  /\ Reply(h, "makeConversation:contact", "User")
  /\ \/ \E id \in found :
          /\ found = {id}
          /\ Call(h, "Contacts", "makeConversation:check",
                  [frame[h] EXCEPT !.contact = id], work[h])
     \/ ~Single(found) /\ Fail(h, Req(h))
  /\ UNCHANGED db

\* Mutant of MakeConversationCheck: anybody may be brought in.
MakeConversationUnchecked(h) ==
  /\ Reply(h, "makeConversation:check", "Contacts")
  /\ Call(h, "UserConversation", "makeConversation:member", frame[h], work[h])
  /\ UNCHANGED db

\* gen_user_convos: is it a contact of the creator?
MakeConversationCheck(h) ==
  LET known == ContactRows(frame[h].user, frame[h].contact) # {} IN
  /\ Reply(h, "makeConversation:check", "Contacts")
  /\ \/ /\ known
        /\ Call(h, "UserConversation", "makeConversation:member", frame[h], work[h])
     \/ ~known /\ RespondText(h, "Failure")
  /\ UNCHANGED db

MakeConversationMember(h) ==
  /\ Reply(h, "makeConversation:member", "UserConversation")
  /\ InsertMember(frame[h].convo, frame[h].contact)
  /\ GenUserConvos(h, Tail(work[h].todo))
  /\ OnlyUserconvolst
-----------------------------------------------------------------------------
GetConversationsUser(h) ==
  LET found == UsersWithEmail(Req(h).email) IN
  /\ Reply(h, "getConversations:user", "User")
  /\ \/ \E id \in found :
          /\ found = {id}
          /\ Call(h, "UserConversation", "getConversations:list",
                  [frame[h] EXCEPT !.user = id], work[h])
     \/ ~Single(found) /\ Fail(h, Req(h))
  /\ UNCHANGED db

\* convo_helper on what is left of the list
ConvoHelper(h, todo, out) ==
  \/ todo = << >> /\ RespondJson(h, out)
  \/ /\ todo # << >>
     /\ Call(h, "UserConversation", "getConversations:users", frame[h],
             [todo |-> todo, out |-> out, users |-> {}])

\* A user's memberships among the first n, as they are listed
MembershipList(user, n) ==
  LatestFirst({i \in 1 .. n : userconvolst[i].users_id = user}, n)

\* Mutant of GetConversationsList: a column is left out.
GetConversationsListShort(h) ==
  LET ids == MembershipList(frame[h].user, Len(userconvolst)) IN
  /\ Reply(h, "getConversations:list", "UserConversation")
  /\ ConvoHelper(h, [k \in DOMAIN ids |->
                       [conversation_id |-> userconvolst[ids[k]].conversation_id]],
                 << >>)
  /\ UNCHANGED db

\* UserConversation.read_conversations_given_user
GetConversationsList(h) ==
  LET ids == MembershipList(frame[h].user, Len(userconvolst)) IN
  /\ Reply(h, "getConversations:list", "UserConversation")
  /\ ConvoHelper(h, [k \in DOMAIN ids |->
                       [conversation_id |-> userconvolst[ids[k]].conversation_id,
                        user_id |-> userconvolst[ids[k]].users_id]], << >>)
  /\ UNCHANGED db

\* The rows of usrlst that are members of a conversation
MembersOf(convo) ==
  {userconvolst[i].users_id : i \in {j \in DOMAIN userconvolst :
                                       userconvolst[j].conversation_id = convo}}

\* convo_helper: UserConversation.get_users_from_conversationid, one query
\* over userconvolst and usrlst
GetConversationsUsers(h) ==
  LET convo == Head(work[h].todo).conversation_id IN
  /\ Reply(h, "getConversations:users", "UserConversation")
  /\ "User" \in tables
  /\ Call(h, "Conversations", "getConversations:row", frame[h],
          [work[h] EXCEPT !.users =
             {usrlst[i].email : i \in MembersOf(convo) \cap DOMAIN usrlst}])
  /\ UNCHANGED db

\* Mutant of GetConversationsRow: the loop does not advance.
GetConversationsRowAgain(h) ==
  /\ Reply(h, "getConversations:row", "Conversations")
  /\ ConvoHelper(h, work[h].todo, work[h].out)
  /\ UNCHANGED db

\* convo_helper: Conversations.read_conversation_given_id
GetConversationsRow(h) ==
  LET convo == Head(work[h].todo).conversation_id IN
  /\ Reply(h, "getConversations:row", "Conversations")
  /\ \/ /\ convo \in DOMAIN convolst
        /\ ConvoHelper(h, Tail(work[h].todo),
             Append(work[h].out,
                    [conversation_name |-> convolst[convo].convo_name,
                     conversation_id |-> convo,
                     creator_email |-> convolst[convo].creator_name,
                     users |-> work[h].users]))
     \/ convo \notin DOMAIN convolst /\ Fail(h, Req(h))
  /\ UNCHANGED db

ConversationStep(h) ==
  \/ MakeConversationCreator(h) \/ MakeConversationInsert(h)
  \/ MakeConversationId(h) \/ MakeConversationJoin(h)
  \/ MakeConversationContact(h) \/ MakeConversationCheck(h)
  \/ MakeConversationMember(h)
  \/ GetConversationsUser(h) \/ GetConversationsList(h)
  \/ GetConversationsUsers(h) \/ GetConversationsRow(h)
-----------------------------------------------------------------------------
\* The id make_conversation continues with is the id of the conversation it
\* inserted: between the INSERT and SELECT id ... ORDER BY id DESC LIMIT 1 of
\* insert_convo no other conversation is inserted.
LastIdIsMine ==
  \A h \in Slots :
    /\ Req(h).op = "makeConversation" /\ frame[h].convo # 0 =>
         convolst[frame[h].convo] = [convo_name |-> Req(h).name,
                                     creator_name |-> Req(h).creator]
    /\ \A g \in Slots : frame[g].convo = frame[h].convo /\ frame[h].convo # 0 => g = h

\* A conversation's members are its creator and contacts of its creator.
MembersAreContacts ==
  \A i \in DOMAIN userconvolst :
    LET convo == convolst[userconvolst[i].conversation_id]
        member == userconvolst[i].users_id
    IN  \E creator \in UsersWithEmail(convo.creator_name) :
          member = creator \/ ContactRows(creator, member) # {}

\* When /makeConversation answers "Success" there is a conversation of that
\* name and creator whose members are the creator and the contacts named,
\* all of them and no others.
MakeConversationOutcome ==
  response.req.op = "makeConversation" /\ response.text = "Success" =>
    \E c \in DOMAIN convolst :
      /\ convolst[c] = [convo_name |-> response.req.name,
                        creator_name |-> response.req.creator]
      /\ {usrlst[m].email : m \in MembersOf(c)} =
           {response.req.creator} \cup ToSet([i \in DOMAIN response.req.contacts |->
                                                response.req.contacts[i].email])

\* make_conversation's documentation has it answer "Success" for a
\* conversation that is added to convolst and fail otherwise: an answer
\* "Failure" leaves no new conversation behind.
FailureAddsNothing ==
  response.req.op = "makeConversation" /\ response.text = "Failure" =>
    ~ \E c \in DOMAIN convolst :
        convolst[c] = [convo_name |-> response.req.name,
                       creator_name |-> response.req.creator]
=============================================================================
