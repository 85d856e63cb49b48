----------------------------- MODULE MessageLog -----------------------------
(***************************************************************************)
(* The handlers of /postMessage and /getMessages, over msglst, and the two *)
(* bots that answer inside /postMessage.  The bots' wording is left out:   *)
(* a reply is known by the bot and by the message it replies to.           *)
(***************************************************************************)
EXTENDS Server

CONSTANTS
  BobRaises,   \* messages on which Bot.bob_bot_response raises,
  JoeRaises,   \* those on which Bot.joe_bot_response does,
  JoeSpeaks    \* and those Joe has an answer to

ASSUME BotAssumption ==
  BobRaises \subseteq Text /\ JoeRaises \subseteq Text /\ JoeSpeaks \subseteq Text

\* Mutant of BobId: the bots' ids are mistaken.
BobIdOfJoe == 2

\* The sender ids post_message gives the bots
BobId == 1
JoeId == 2

\* Storage.add_msg
AddMsg(senderid, convoid, by, text) ==
  msglst' = Append(msglst, [senderid |-> senderid, convoid |-> convoid,
                            msg |-> [by |-> by, text |-> text]])

OnlyMsglst == UNCHANGED <<usrlst, contactslst, convolst, userconvolst, tables>>

PostMessageSender(h) ==
  LET found == UsersWithEmail(Req(h).sender) IN
  /\ Reply(h, "postMessage:sender", "User")
  /\ \/ \E id \in found :
          /\ found = {id}
          /\ Call(h, "Storage", "postMessage:user",
                  [frame[h] EXCEPT !.user = id], work[h])
     \/ ~Single(found) /\ Fail(h, Req(h))
  /\ UNCHANGED db

\* Is it Joe's turn?  He computes his answer before it is stored.
JoeTurn(h) ==
  \/ Req(h).joe /\ Req(h).msg \in JoeRaises /\ Fail(h, Req(h))
  \/ /\ Req(h).joe /\ Req(h).msg \in JoeSpeaks \ JoeRaises
     /\ Call(h, "Storage", "postMessage:joe", frame[h], work[h])
  \/ /\ ~Req(h).joe \/ Req(h).msg \notin JoeSpeaks \cup JoeRaises
     /\ RespondText(h, Empty)

PostMessageUser(h) ==
  /\ Reply(h, "postMessage:user", "Storage")
  /\ AddMsg(frame[h].user, Req(h).convo, "user", Req(h).msg)
  /\ \/ Req(h).bob /\ Req(h).msg \in BobRaises /\ Fail(h, Req(h))
     \/ /\ Req(h).bob /\ Req(h).msg \notin BobRaises
        /\ Call(h, "Storage", "postMessage:bob", frame[h], work[h])
     \/ ~Req(h).bob /\ JoeTurn(h)
  /\ OnlyMsglst

\* Mutant of PostMessageBob: Joe is forgotten once Bob has spoken.
PostMessageBobLast(h) ==
  /\ Reply(h, "postMessage:bob", "Storage")
  /\ AddMsg(BobId, Req(h).convo, "bob", Req(h).msg)
  /\ RespondText(h, Empty)
  /\ OnlyMsglst

PostMessageBob(h) ==
  /\ Reply(h, "postMessage:bob", "Storage")
  /\ AddMsg(BobId, Req(h).convo, "bob", Req(h).msg)
  /\ JoeTurn(h)
  /\ OnlyMsglst

PostMessageJoe(h) ==
  /\ Reply(h, "postMessage:joe", "Storage")
  /\ AddMsg(JoeId, Req(h).convo, "joe", Req(h).msg)
  /\ RespondText(h, Empty)
  /\ OnlyMsglst
-----------------------------------------------------------------------------
\* interpret_msglist on what is left of the list
InterpretMsglist(h, todo, out) ==
  \/ todo = << >> /\ RespondJson(h, out)
  \/ /\ todo # << >>
     /\ Call(h, "User", "getMessages:row", frame[h],
             [work[h] EXCEPT !.todo = todo, !.out = out])

\* The messages of a conversation among the first n, as they are listed
MessageList(convo, n) ==
  LatestFirst({i \in 1 .. n : msglst[i].convoid = convo}, n)

\* Storage.read_conversation_msgs
GetMessagesList(h) ==
  LET ids == MessageList(Req(h).convo, Len(msglst)) IN
  /\ Reply(h, "getMessages:list", "Storage")
  /\ InterpretMsglist(h, [k \in DOMAIN ids |->
                            [senderid |-> msglst[ids[k]].senderid,
                             msg |-> msglst[ids[k]].msg]], << >>)
  /\ UNCHANGED db

\* Mutant of GetMessagesRow: the loop does not advance.
GetMessagesRowAgain(h) ==
  /\ Reply(h, "getMessages:row", "User")
  /\ InterpretMsglist(h, work[h].todo, work[h].out)
  /\ UNCHANGED db

\* Mutant of GetMessagesRow: the names come in the opposite order.
GetMessagesRowNamesLast(h) ==
  LET message == Head(work[h].todo)
      sender == work[h].todo[Len(work[h].todo)].senderid
  IN
  /\ Reply(h, "getMessages:row", "User")
  /\ \/ /\ sender \in DOMAIN usrlst
        /\ InterpretMsglist(h, Tail(work[h].todo),
             Append(work[h].out, [username |-> usrlst[sender].username,
                                  message |-> message.msg]))
     \/ sender \notin DOMAIN usrlst /\ Fail(h, Req(h))
  /\ UNCHANGED db

\* interpret_msglist: User.read_all_given_id of the first message's sender
GetMessagesRow(h) ==
  LET message == Head(work[h].todo) IN
  /\ Reply(h, "getMessages:row", "User")
  /\ \/ /\ message.senderid \in DOMAIN usrlst
        /\ InterpretMsglist(h, Tail(work[h].todo),
             Append(work[h].out,
                    [username |-> usrlst[message.senderid].username,
                     message |-> message.msg]))
     \/ message.senderid \notin DOMAIN usrlst /\ Fail(h, Req(h))
  /\ UNCHANGED db

MessageStep(h) ==
  \/ PostMessageSender(h) \/ PostMessageUser(h)
  \/ PostMessageBob(h) \/ PostMessageJoe(h)
  \/ GetMessagesList(h) \/ GetMessagesRow(h)
-----------------------------------------------------------------------------
\* A bot's message directly follows, in msglst, what it replies to, in the
\* same conversation: no message another user posts at the same time comes
\* between, though each is stored by a call of its own.
BotReplyAdjacent ==
  \A i \in DOMAIN msglst :
    msglst[i].msg.by # "user" =>
      /\ i > 1
      /\ msglst[i - 1].convoid = msglst[i].convoid
      /\ msglst[i - 1].msg.text = msglst[i].msg.text
      /\ msglst[i - 1].msg.by \in (IF msglst[i].msg.by = "bob" THEN {"user"}
                                                           ELSE {"user", "bob"})

\* When /postMessage answers OK the log ends with the sender's message and
\* the replies of the bots it addressed, in this order.
PostOutcome ==
  response.req.op = "postMessage" /\ response.status = 200 =>
    LET req == response.req
        by == <<"user">> \o (IF req.bob THEN <<"bob">> ELSE << >>)
                \o (IF req.joe /\ req.msg \in JoeSpeaks THEN <<"joe">> ELSE << >>)
        last == Len(msglst) - Len(by)
    IN  /\ last >= 0
        /\ \A k \in DOMAIN by :
             /\ msglst[last + k].msg = [by |-> by[k], text |-> req.msg]
             /\ msglst[last + k].convoid = req.convo
        /\ usrlst[msglst[last + 1].senderid].email = req.sender

\* A bot's message is told under the bot's name: post_message's literal sender
\* ids 1 and 2 are the bots' ids.
PollAttribution ==
  response.req.op = "getMessages" =>
    \A i \in DOMAIN response.data :
      LET by == response.data[i].message.by
          name == response.data[i].username
      IN  /\ by = "bob" => name = "Bob-bot"
          /\ by = "joe" => name = "Joe-bot"
=============================================================================
