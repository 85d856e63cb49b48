------------------------------ MODULE ChatView ------------------------------
(***************************************************************************)
(* Chat.vue: the list of a conversation's messages, refreshed by a request *)
(* every 100 milliseconds, and the box a message is typed in.  A request   *)
(* is sent without waiting for the answer to the one before, so that       *)
(* several are under way and are answered in any order.  The timer is      *)
(* never cleared: each view that was ever opened goes on polling, for the  *)
(* conversation it was opened on (the computed convoID of a component is   *)
(* stopped with it, at the value it had).                                  *)
(*                                                                         *)
(* The server is what AtomicChat makes of it: a list is the conversation   *)
(* at one moment, and a post that is not answered OK may be stored all the *)
(* same.  An answer lost on the way counts as a refusal.                   *)
(***************************************************************************)
EXTENDS Naturals, Sequences, SequencesExt

CONSTANTS
  Convos,      \* the conversations
  Texts,       \* what this user types
  Other,       \* what the others and the bots say
  MaxViews,    \* bound: the views ever opened
  MaxLog,      \* bound: the messages of a conversation
  Polls,       \* bound: the requests for messages under way,
  Posts,       \* and the posts
  Patient      \* does the user wait for a post's answer before typing on,
               \* leaving, or submitting again?

ASSUME PatientAssumption == Patient \in BOOLEAN
ASSUME TextAssumption == "" \notin Texts /\ MaxViews \in Nat /\ MaxLog \in Nat

VARIABLES
  log,      \* of the server: each conversation's messages, oldest first
  view,     \* the views opened so far; the last one may still be mounted
  poll,     \* the requests for messages under way,
  post,     \* and the posts
  owed      \* the texts submitted, in which conversation, and not yet stored
            \* (watched for SubmittedIsKept only)

vars == <<log, view, poll, post, owed>>

NoPoll == [view |-> 0, stage |-> "none", list |-> << >>]
NoPost == [view |-> 0, stage |-> "none", text |-> ""]

Init ==
  /\ log = [c \in Convos |-> << >>]
  /\ view = << >>
  /\ poll = [p \in Polls |-> NoPoll]
  /\ post = [q \in Posts |-> NoPost]
  /\ owed = {}
-----------------------------------------------------------------------------
Mounted(v) == v \in DOMAIN view /\ view[v].mounted
UnderWay(v) == {q \in Posts : post[q].view = v}
Owed(v, text) == [convo |-> view[v].convo, text |-> text]

\* What the user takes back himself: the text in the box, if it is not on its
\* way to the server.
TakenBack(v) ==
  {Owed(v, view[v].box)} \ {Owed(v, post[q].text) : q \in UnderWay(v)}

\* getMessages
GetMessages(v) ==
  \E p \in Polls :
    /\ poll[p] = NoPoll
    /\ poll' = [poll EXCEPT ![p] = [view |-> v, stage |-> "sent", list |-> << >>]]

\* convoClick of Conversations.vue, then mounted
Open(c) ==
  /\ \A v \in DOMAIN view : ~Mounted(v)
  /\ Len(view) < MaxViews
  /\ view' = Append(view, [convo |-> c, mounted |-> TRUE, shown |-> << >>, box |-> ""])
  /\ GetMessages(Len(view'))
  /\ UNCHANGED <<log, post, owed>>

Leave(v) ==
  /\ Mounted(v)
  /\ Patient => UnderWay(v) = {}
  /\ view' = [view EXCEPT ![v].mounted = FALSE]
  /\ owed' = owed \ TakenBack(v)
  /\ UNCHANGED <<log, poll, post>>

\* The timer of a view ever opened
Tick(v) ==
  /\ v \in DOMAIN view
  /\ GetMessages(v)
  /\ UNCHANGED <<log, view, post, owed>>
-----------------------------------------------------------------------------
Say(c, text) ==
  /\ Len(log[c]) < MaxLog
  /\ log' = [log EXCEPT ![c] = Append(@, text)]

OtherPosts(c) == Say(c, Other) /\ UNCHANGED <<view, poll, post, owed>>

\* Mutant of AnswerPoll: the conversation is the one open by now.
AnswerPollOfNow(p) ==
  /\ poll[p].stage = "sent"
  /\ poll' = [poll EXCEPT ![p].stage = "answered",
                ![p].list = Reverse(log[Last(view).convo])]
  /\ UNCHANGED <<log, view, post, owed>>

\* /getMessages, newest first
AnswerPoll(p) ==
  /\ poll[p].stage = "sent"
  /\ poll' = [poll EXCEPT ![p].stage = "answered",
                ![p].list = Reverse(log[view[poll[p].view].convo])]
  /\ UNCHANGED <<log, view, post, owed>>

\* A rejection is not caught, and changes nothing.
RefusePoll(p) ==
  /\ poll[p].stage = "sent"
  /\ poll' = [poll EXCEPT ![p] = NoPoll]
  /\ UNCHANGED <<log, view, post, owed>>

\* Mutant of DeliverPoll: only a view without messages takes them.
DeliverPollOnce(p) ==
  /\ poll[p].stage = "answered"
  /\ view' = [view EXCEPT ![poll[p].view].shown =
                IF @ = << >> THEN Reverse(poll[p].list) ELSE @]
  /\ poll' = [poll EXCEPT ![p] = NoPoll]
  /\ UNCHANGED <<log, post, owed>>

\* getMessages goes on: whatever comes last is shown.
DeliverPoll(p) ==
  /\ poll[p].stage = "answered"
  /\ view' = [view EXCEPT ![poll[p].view].shown = Reverse(poll[p].list)]
  /\ poll' = [poll EXCEPT ![p] = NoPoll]
  /\ UNCHANGED <<log, post, owed>>
-----------------------------------------------------------------------------
\* The user types over what is in the box, or clears it.
Edit(v, text) ==
  /\ Mounted(v) /\ text # view[v].box
  /\ Patient => UnderWay(v) = {}
  /\ view' = [view EXCEPT ![v].box = text]
  /\ owed' = owed \ TakenBack(v)
  /\ UNCHANGED <<log, poll, post>>

\* Mutant of Submit: the box is cleared at once.
SubmitAndClear(v, q) ==
  /\ Mounted(v) /\ view[v].box # "" /\ post[q] = NoPost
  /\ Patient => UnderWay(v) = {}
  /\ post' = [post EXCEPT ![q] = [view |-> v, stage |-> "sent", text |-> view[v].box]]
  /\ view' = [view EXCEPT ![v].box = ""]
  /\ owed' = owed \cup {Owed(v, view[v].box)}
  /\ UNCHANGED <<log, poll>>

\* postMessage, by the button or by Enter; the box keeps the text.
Submit(v, q) ==
  /\ Mounted(v) /\ view[v].box # "" /\ post[q] = NoPost
  /\ Patient => UnderWay(v) = {}
  /\ post' = [post EXCEPT ![q] = [view |-> v, stage |-> "sent", text |-> view[v].box]]
  /\ owed' = owed \cup {Owed(v, view[v].box)}
  /\ UNCHANGED <<log, view, poll>>

Store(q) ==
  LET v == post[q].view IN
  /\ Say(view[v].convo, post[q].text)
  /\ owed' = owed \ {Owed(v, post[q].text)}

\* /postMessage: done; stored, but not answered OK; refused
AnswerPost(q) ==
  /\ post[q].stage = "sent"
  /\ \/ Store(q) /\ post' = [post EXCEPT ![q].stage = "stored"]
     \/ Store(q) /\ post' = [post EXCEPT ![q].stage = "refused"]
     \/ UNCHANGED <<log, owed>> /\ post' = [post EXCEPT ![q].stage = "refused"]
  /\ UNCHANGED <<view, poll>>

\* postMessage goes on: the box is cleared, whatever is in it by now.
DeliverPost(q) ==
  /\ \/ /\ post[q].stage = "stored"
        /\ view' = [view EXCEPT ![post[q].view].box = ""]
        /\ GetMessages(post[q].view)
     \/ post[q].stage = "refused" /\ UNCHANGED <<view, poll>>
  /\ post' = [post EXCEPT ![q] = NoPost]
  /\ UNCHANGED <<log, owed>>
-----------------------------------------------------------------------------
Next ==
  \/ \E c \in Convos : Open(c) \/ OtherPosts(c)
  \/ \E v \in 1 .. MaxViews :
       \/ Leave(v) \/ Tick(v)
       \/ \E text \in Texts \cup {""} : Edit(v, text)
       \/ \E q \in Posts : Submit(v, q)
  \/ \E p \in Polls : AnswerPoll(p) \/ RefusePoll(p) \/ DeliverPoll(p)
  \/ \E q \in Posts : AnswerPost(q) \/ DeliverPost(q)

\* Timers fire, requests are answered or fail, answers arrive.
Spec ==
  Init /\ [][Next]_vars
    /\ \A v \in 1 .. MaxViews : WF_vars(Tick(v))
    /\ \A p \in Polls : /\ WF_vars(AnswerPoll(p) \/ RefusePoll(p))
                        /\ WF_vars(DeliverPoll(p))
-----------------------------------------------------------------------------
\* Every view shows its own conversation as it was at some moment, whatever
\* answers of its own and of views left long ago are delivered in whatever
\* order.
ShownBelongs ==
  \A v \in DOMAIN view : IsPrefix(view[v].shown, log[view[v].convo])

\* Although a late answer may put an older list in place of a newer one, a
\* view that stays open and is refreshed again and again shows all of its
\* conversation in the end, and for good, once nobody says anything more.
Refreshed(v) ==
  \E p \in Polls : poll[p].view = v /\ DeliverPoll(p)
Converges ==
  \A v \in 1 .. MaxViews :
    <>[]Mounted(v) /\ []<><<Refreshed(v)>>_vars =>
      <>[](Mounted(v) /\ view[v].shown = log[view[v].convo])

\* A message submitted is stored, or on its way, or still in the box to be
\* submitted again, unless the user takes it back: postMessage clears the box
\* only when the answer is OK.
SubmittedIsKept ==
  \A o \in owed :
    \/ \E q \in Posts : post[q] # NoPost /\ Owed(post[q].view, post[q].text) = o
    \/ \E v \in DOMAIN view : Mounted(v) /\ Owed(v, view[v].box) = o
=============================================================================
