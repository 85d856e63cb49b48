---------------------------- MODULE ChatView_proof ----------------------------
(***************************************************************************)
(* Every view shows its own conversation of some moment, and a patient     *)
(* user loses no message, for any number of views, conversations, polls    *)
(* and posts, and conversations and texts of any length.                   *)
(***************************************************************************)
EXTENDS ChatView, TLAPS

Boxes == Texts \cup {""}
Said == Boxes \cup {Other}
View == [convo : Convos, mounted : BOOLEAN, shown : Seq(Said), box : Boxes]
Poll == [view : Nat, stage : {"none", "sent", "answered"}, list : Seq(Said)]
Submission == [view : Nat, stage : {"none", "sent", "stored", "refused"}, text : Boxes]

Typed ==
  /\ log \in [Convos -> Seq(Said)]
  /\ view \in Seq(View)
  /\ poll \in [Polls -> Poll]
  /\ post \in [Posts -> Submission]
  /\ \A p \in Polls : poll[p].stage # "none" => poll[p].view \in DOMAIN view
  /\ \A q \in Posts : post[q].stage # "none" => post[q].view \in DOMAIN view

\* Answers under way are the conversation, latest first, of some moment too.
ListsBelong ==
  \A p \in Polls : poll[p].stage = "answered" =>
    IsPrefix(Reverse(poll[p].list), log[view[poll[p].view].convo])

Belong == Typed /\ ShownBelongs /\ ListsBelong
-----------------------------------------------------------------------------
LEMMA ReverseTwice ==
  ASSUME NEW S, NEW s \in Seq(S)
  PROVE  Reverse(s) \in Seq(S) /\ Reverse(Reverse(s)) = s
BY DEF Reverse

LEMMA PrefixOfItself ==
  ASSUME NEW S, NEW s \in Seq(S)
  PROVE  IsPrefix(s, s)
BY DEF IsPrefix

LEMMA PrefixGrows ==
  ASSUME NEW S, NEW s \in Seq(S), NEW t \in Seq(S), NEW e \in S, IsPrefix(s, t)
  PROVE  IsPrefix(s, Append(t, e))
<1>1. Len(s) <= Len(t) /\ SubSeq(s, 1, Len(s)) = SubSeq(t, 1, Len(s))
  BY DEF IsPrefix
<1>2. SubSeq(Append(t, e), 1, Len(s)) = SubSeq(t, 1, Len(s))
  BY <1>1
<1>3. QED
  BY <1>1, <1>2 DEF IsPrefix

LEMMA NothingIsPrefix ==
  ASSUME NEW S, NEW t \in Seq(S)
  PROVE  IsPrefix(<< >>, t)
BY DEF IsPrefix

LEMMA BelongInit ==
  ASSUME Init
  PROVE  Belong
<1>1. << >> \in Seq(Said) /\ << >> \in Seq(View) /\ "" \in Boxes
  BY DEF Boxes
<1>2. NoPoll \in Poll /\ NoPoll.stage = "none"
  BY <1>1 DEF NoPoll, Poll
<1>3. NoPost \in Submission /\ NoPost.stage = "none"
  BY <1>1 DEF NoPost, Submission
<1>4. Typed
  BY <1>1, <1>2, <1>3 DEF Init, Typed
<1>5. ShownBelongs /\ ListsBelong
  BY <1>2 DEF Init, ShownBelongs, ListsBelong
<1>6. QED
  BY <1>4, <1>5 DEF Belong
-----------------------------------------------------------------------------
\* Views keep their conversation, and conversations only grow.
ViewsStay ==
  \A v \in DOMAIN view : v \in DOMAIN view' /\ view'[v].convo = view[v].convo
LogGrows ==
  \A c \in Convos : \/ log'[c] = log[c]
                    \/ \E e \in Said : log'[c] = Append(log[c], e)

LEMMA StillPrefix ==
  ASSUME Typed, LogGrows, NEW c \in Convos, NEW s \in Seq(Said), IsPrefix(s, log[c])
  PROVE  IsPrefix(s, log'[c])
BY PrefixGrows, ZenonT(60) DEF Typed, LogGrows

\* A request for messages is one more request of the view.
LEMMA PollTyped ==
  ASSUME Typed, NEW v \in Nat, GetMessages(v), ViewsStay, v \in DOMAIN view'
  PROVE  /\ poll' \in [Polls -> Poll]
         /\ \A p \in Polls : poll'[p].stage # "none" => poll'[p].view \in DOMAIN view'
         /\ \A p \in Polls : poll'[p].stage = "answered" => poll'[p] = poll[p]
<1>1. PICK p \in Polls :
        poll' = [poll EXCEPT ![p] = [view |-> v, stage |-> "sent", list |-> << >>]]
  BY DEF GetMessages
<1>2. [view |-> v, stage |-> "sent", list |-> << >>] \in Poll
  BY DEF Poll
<1>3. poll' \in [Polls -> Poll]
  BY <1>1, <1>2 DEF Typed
<1>4. QED
  BY <1>1, <1>2, <1>3 DEF Typed, ViewsStay

\* What a step does to the view changed by it
LEMMA ViewsTyped ==
  ASSUME Typed, NEW v \in DOMAIN view, NEW w \in View,
         w.convo = view[v].convo, view' = [view EXCEPT ![v] = w]
  PROVE  view' \in Seq(View) /\ DOMAIN view' = DOMAIN view /\ ViewsStay
BY DEF Typed, ViewsStay

LEMMA SayTyped ==
  ASSUME Typed, NEW c \in Convos, NEW e \in Said, Say(c, e)
  PROVE  log' \in [Convos -> Seq(Said)] /\ LogGrows
BY DEF Typed, Say, LogGrows
-----------------------------------------------------------------------------
\* Steps that leave the posts and the server alone
LEMMA OpenTyped ==
  ASSUME Typed, NEW c \in Convos, Open(c)
  PROVE  Typed' /\ ViewsStay /\ LogGrows
<1>1. [convo |-> c, mounted |-> TRUE, shown |-> << >>, box |-> ""] \in View
  BY DEF View, Boxes
<1>2. view' \in Seq(View) /\ Len(view') = Len(view) + 1 /\ ViewsStay
  <2>1. PICK w \in View : view' = Append(view, w)
    BY <1>1 DEF Open
  <2>2. QED
    BY <2>1 DEF Typed, ViewsStay
<1>3. Len(view') \in DOMAIN view' /\ Len(view') \in Nat
  BY <1>2 DEF Typed
<1>4. /\ poll' \in [Polls -> Poll]
      /\ \A p \in Polls : poll'[p].stage # "none" => poll'[p].view \in DOMAIN view'
  BY <1>2, <1>3, PollTyped DEF Open
<1>5. QED
  BY <1>2, <1>4 DEF Typed, Open, ViewsStay, LogGrows

LEMMA LeaveTyped ==
  ASSUME Typed, NEW v, Leave(v)
  PROVE  Typed' /\ ViewsStay /\ LogGrows
<1> DEFINE w == [view[v] EXCEPT !.mounted = FALSE]
<1>1. v \in DOMAIN view /\ view[v] \in View
  BY DEF Leave, Mounted, Typed
<1>2. w \in View /\ w.convo = view[v].convo
  BY <1>1 DEF View
<1>3. view' = [view EXCEPT ![v] = w]
  BY <1>1 DEF Leave
<1>4. QED
  BY <1>1, <1>2, <1>3, ViewsTyped DEF Typed, Leave, LogGrows

LEMMA EditTyped ==
  ASSUME Typed, NEW v, NEW text \in Boxes, Edit(v, text)
  PROVE  Typed' /\ ViewsStay /\ LogGrows
<1> DEFINE w == [view[v] EXCEPT !.box = text]
<1>1. v \in DOMAIN view /\ view[v] \in View
  BY DEF Edit, Mounted, Typed
<1>2. w \in View /\ w.convo = view[v].convo
  BY <1>1 DEF View
<1>3. view' = [view EXCEPT ![v] = w]
  BY <1>1 DEF Edit
<1>4. QED
  BY <1>1, <1>2, <1>3, ViewsTyped DEF Typed, Edit, LogGrows

LEMMA TickTyped ==
  ASSUME Typed, NEW v, Tick(v)
  PROVE  Typed' /\ ViewsStay /\ LogGrows
<1>1. v \in DOMAIN view' /\ v \in Nat /\ ViewsStay
  BY DEF Tick, Typed, ViewsStay
<1>2. QED
  BY <1>1, PollTyped DEF Tick, Typed, LogGrows
-----------------------------------------------------------------------------
\* Steps of the requests for messages
LEMMA AnswerPollTyped ==
  ASSUME Typed, NEW p \in Polls, AnswerPoll(p)
  PROVE  /\ Typed' /\ ViewsStay /\ LogGrows
         /\ poll'[p].list = Reverse(log[view[poll[p].view].convo])
         /\ \A r \in Polls : poll'[r].view = poll[r].view
         /\ \A r \in Polls \ {p} : poll'[r] = poll[r]
<1> DEFINE c == view[poll[p].view].convo
<1>1. poll[p] \in Poll /\ poll[p].view \in DOMAIN view /\ c \in Convos
  <2>1. poll[p] \in Poll /\ poll[p].stage = "sent"
    BY DEF AnswerPoll, Typed
  <2>2. view[poll[p].view] \in View /\ poll[p].view \in DOMAIN view
    BY <2>1 DEF Typed
  <2>3. QED
    BY <2>1, <2>2 DEF View
<1>2. Reverse(log[c]) \in Seq(Said)
  BY <1>1, ReverseTwice DEF Typed
<1>3. PICK a : a = [view |-> poll[p].view, stage |-> "answered", list |-> Reverse(log[c])]
  OBVIOUS
<1>4. a \in Poll
  BY <1>1, <1>2, <1>3 DEF Poll
<1>5. poll' = [poll EXCEPT ![p] = a]
  <2>1. DOMAIN poll' = Polls /\ \A r \in Polls \ {p} : poll'[r] = poll[r]
    BY DEF AnswerPoll, Typed
  <2>2. poll'[p] = a
    BY <1>1, <1>3 DEF AnswerPoll, Typed, Poll
  <2>3. QED
    BY <1>1, <1>3, <1>4, <2>1, <2>2 DEF AnswerPoll, Typed
<1>6. a.view = poll[p].view /\ a.list = Reverse(log[c])
  BY <1>3
<1>7. /\ poll' \in [Polls -> Poll] /\ poll'[p] = a
      /\ \A r \in Polls \ {p} : poll'[r] = poll[r]
  BY <1>4, <1>5 DEF Typed
<1>8. Typed' /\ ViewsStay /\ LogGrows
  BY <1>1, <1>6, <1>7 DEF AnswerPoll, Typed, ViewsStay, LogGrows
<1>9. QED
  BY <1>6, <1>7, <1>8

LEMMA RefusePollTyped ==
  ASSUME Typed, NEW p \in Polls, RefusePoll(p)
  PROVE  Typed' /\ ViewsStay /\ LogGrows
<1>1. NoPoll \in Poll /\ NoPoll.stage = "none"
  BY DEF NoPoll, Poll
<1>2. QED
  BY <1>1 DEF RefusePoll, Typed, ViewsStay, LogGrows

LEMMA DeliverPollTyped ==
  ASSUME Typed, NEW p \in Polls, DeliverPoll(p)
  PROVE  /\ Typed' /\ ViewsStay /\ LogGrows
         /\ poll[p].view \in DOMAIN view
         /\ view'[poll[p].view].shown = Reverse(poll[p].list)
         /\ \A v \in DOMAIN view \ {poll[p].view} : view'[v] = view[v]
         /\ \A r \in Polls \ {p} : poll'[r] = poll[r]
         /\ poll'[p].stage = "none"
<1> DEFINE v == poll[p].view
           w == [view[v] EXCEPT !.shown = Reverse(poll[p].list)]
<1>1. poll[p] \in Poll /\ v \in DOMAIN view /\ view[v] \in View
  BY DEF DeliverPoll, Typed
<1>2. Reverse(poll[p].list) \in Seq(Said)
  BY <1>1, ReverseTwice DEF Poll
<1>3. w \in View /\ w.convo = view[v].convo /\ w.shown = Reverse(poll[p].list)
  BY <1>1, <1>2 DEF View
<1>4. view' = [view EXCEPT ![v] = w]
  BY <1>1 DEF DeliverPoll
<1>5. NoPoll \in Poll /\ NoPoll.stage = "none"
  BY DEF NoPoll, Poll
<1>6. view' \in Seq(View) /\ DOMAIN view' = DOMAIN view /\ ViewsStay
  BY <1>1, <1>3, <1>4, ViewsTyped
<1>7. QED
  BY <1>1, <1>3, <1>4, <1>5, <1>6 DEF DeliverPoll, Typed, LogGrows
-----------------------------------------------------------------------------
\* Steps of the posts
LEMMA SubmitTyped ==
  ASSUME Typed, NEW v, NEW q \in Posts, Submit(v, q)
  PROVE  Typed' /\ ViewsStay /\ LogGrows
<1>1. v \in DOMAIN view /\ v \in Nat /\ view[v] \in View
  <2>1. Mounted(v)
    BY DEF Submit
  <2>2. QED
    BY <2>1 DEF Mounted, Typed
<1>2. [view |-> v, stage |-> "sent", text |-> view[v].box] \in Submission
  BY <1>1 DEF Submission, View
<1>3. QED
  BY <1>1, <1>2 DEF Submit, Typed, ViewsStay, LogGrows

LEMMA AnswerPostTyped ==
  ASSUME Typed, NEW q \in Posts, AnswerPost(q)
  PROVE  Typed' /\ ViewsStay /\ LogGrows
<1>1. post[q] \in Submission /\ post[q].view \in DOMAIN view
  BY DEF AnswerPost, Typed
<1>2. view[post[q].view] \in View /\ post[q].text \in Said
  BY <1>1 DEF Typed, Submission, Said
<1>3. log' \in [Convos -> Seq(Said)] /\ LogGrows
  <2>1. CASE Store(q)
    BY <1>2, <2>1, SayTyped DEF Store, View
  <2>2. CASE ~Store(q)
    BY <2>2 DEF AnswerPost, Typed, LogGrows
  <2>3. QED
    BY <2>1, <2>2
<1>4. \E stage \in {"stored", "refused"} :
        post' = [post EXCEPT ![q] = [view |-> post[q].view, stage |-> stage,
                                     text |-> post[q].text]]
  BY <1>1 DEF AnswerPost, Typed, Submission
<1>5. QED
  BY <1>1, <1>3, <1>4 DEF AnswerPost, Typed, ViewsStay, Submission

LEMMA DeliverPostTyped ==
  ASSUME Typed, NEW q \in Posts, DeliverPost(q)
  PROVE  Typed' /\ ViewsStay /\ LogGrows
<1> DEFINE v == post[q].view
           w == [view[v] EXCEPT !.box = ""]
<1>1. NoPost \in Submission /\ NoPost.stage = "none"
  BY DEF NoPost, Submission, Boxes
<1>2. CASE post[q].stage = "stored"
  <2>1. v \in DOMAIN view /\ v \in Nat /\ view[v] \in View
    BY <1>2 DEF Typed, Submission
  <2>2. w \in View /\ w.convo = view[v].convo
    BY <2>1 DEF View, Boxes
  <2>3. view' = [view EXCEPT ![v] = w]
    BY <1>2, <2>1 DEF DeliverPost
  <2>4. view' \in Seq(View) /\ DOMAIN view' = DOMAIN view /\ ViewsStay
    BY <2>1, <2>2, <2>3, ViewsTyped
  <2>5. /\ poll' \in [Polls -> Poll]
        /\ \A p \in Polls : poll'[p].stage # "none" => poll'[p].view \in DOMAIN view'
    BY <1>2, <2>1, <2>4, PollTyped DEF DeliverPost
  <2>6. QED
    BY <1>1, <2>4, <2>5 DEF DeliverPost, Typed, LogGrows
<1>3. CASE post[q].stage # "stored"
  BY <1>1, <1>3 DEF DeliverPost, Typed, ViewsStay, LogGrows
<1>4. QED
  BY <1>2, <1>3
-----------------------------------------------------------------------------
\* What is shown and what is under way stays part of its conversation.
LEMMA BelongStays ==
  ASSUME Belong, Typed', ViewsStay, LogGrows,
         \A v \in DOMAIN view' : \/ v \in DOMAIN view /\ view'[v].shown = view[v].shown
                                 \/ IsPrefix(view'[v].shown, log'[view'[v].convo]),
         \A p \in Polls : \/ poll'[p] = poll[p]
                          \/ poll'[p].stage # "answered"
                          \/ IsPrefix(Reverse(poll'[p].list), log'[view'[poll'[p].view].convo])
  PROVE  Belong'
<1>1. ASSUME NEW v \in DOMAIN view'
      PROVE  IsPrefix(view'[v].shown, log'[view'[v].convo])
  <2>1. CASE v \in DOMAIN view /\ view'[v].shown = view[v].shown
    <3>1. view[v] \in View /\ view'[v].convo = view[v].convo
      BY <2>1 DEF Belong, Typed, ViewsStay
    <3>2. view[v].shown \in Seq(Said) /\ view[v].convo \in Convos
      BY <3>1 DEF View
    <3>3. IsPrefix(view[v].shown, log[view[v].convo])
      BY <2>1 DEF Belong, ShownBelongs
    <3>4. QED
      BY <2>1, <3>1, <3>2, <3>3, StillPrefix DEF Belong
  <2>2. QED
    BY <2>1
<1>2. ASSUME NEW p \in Polls, poll'[p].stage = "answered"
      PROVE  IsPrefix(Reverse(poll'[p].list), log'[view'[poll'[p].view].convo])
  <2>1. CASE poll'[p] = poll[p]
    <3> DEFINE v == poll[p].view
    <3>1. v \in DOMAIN view /\ poll[p] \in Poll /\ poll[p].stage = "answered"
      BY <1>2, <2>1 DEF Belong, Typed
    <3>2. view[v] \in View /\ view'[v].convo = view[v].convo
      BY <3>1 DEF Belong, Typed, ViewsStay
    <3>3. Reverse(poll[p].list) \in Seq(Said) /\ view[v].convo \in Convos
      BY <3>1, <3>2, ReverseTwice DEF View, Poll
    <3>4. IsPrefix(Reverse(poll[p].list), log[view[v].convo])
      BY <3>1 DEF Belong, ListsBelong
    <3>5. QED
      BY <2>1, <3>2, <3>3, <3>4, StillPrefix DEF Belong
  <2>2. QED
    BY <1>2, <2>1
<1>3. QED
  BY <1>1, <1>2 DEF Belong, ShownBelongs, ListsBelong

\* A step that changes neither what is shown nor what is answered
LEMMA BelongUntouched ==
  ASSUME Belong, Typed', ViewsStay, LogGrows,
         \A v \in DOMAIN view' : v \in DOMAIN view /\ view'[v].shown = view[v].shown,
         \A p \in Polls : poll'[p] = poll[p] \/ poll'[p].stage # "answered"
  PROVE  Belong'
BY BelongStays

LEMMA GetMessagesAnswersNone ==
  ASSUME Typed, NEW v, GetMessages(v)
  PROVE  \A p \in Polls : poll'[p] = poll[p] \/ poll'[p].stage # "answered"
BY DEF GetMessages, Typed

LEMMA BelongNext ==
  ASSUME Belong, [Next]_vars
  PROVE  Belong'
<1> USE DEF Belong
<1>1. ASSUME NEW c \in Convos, Open(c)  PROVE Belong'
  <2>1. Typed' /\ ViewsStay /\ LogGrows
    BY <1>1, OpenTyped
  <2>2. \A p \in Polls : poll'[p] = poll[p] \/ poll'[p].stage # "answered"
    BY <1>1, GetMessagesAnswersNone DEF Open
  <2>3. ASSUME NEW v \in DOMAIN view'
        PROVE  \/ v \in DOMAIN view /\ view'[v].shown = view[v].shown
               \/ IsPrefix(view'[v].shown, log'[view'[v].convo])
    <3>0. [convo |-> c, mounted |-> TRUE, shown |-> << >>, box |-> ""] \in View
      BY <1>1 DEF View, Boxes
    <3>1. PICK w \in View : /\ w.shown = << >> /\ w.convo = c
                            /\ view' = Append(view, w)
      BY <1>1, <3>0 DEF Open
    <3>2. view \in Seq(View) /\ v \in 1 .. Len(view) + 1
      BY <3>1, <2>3 DEF Typed
    <3>3. CASE v = Len(view) + 1
      <4>1. view'[v] = w
        BY <3>1, <3>2, <3>3
      <4>2. log'[c] \in Seq(Said)
        BY <2>1 DEF Typed
      <4>3. QED
        BY <3>1, <4>1, <4>2, NothingIsPrefix
    <3>4. CASE v # Len(view) + 1
      BY <3>1, <3>2, <3>4
    <3>5. QED
      BY <3>3, <3>4
  <2>4. QED
    BY <2>1, <2>2, <2>3, BelongStays
<1>2. ASSUME NEW c \in Convos, OtherPosts(c)  PROVE Belong'
  <2>1. log' \in [Convos -> Seq(Said)] /\ LogGrows
    BY <1>2, SayTyped DEF OtherPosts, Said
  <2>2. Typed' /\ ViewsStay
    BY <1>2, <2>1 DEF OtherPosts, Typed, ViewsStay
  <2>3. QED
    BY <1>2, <2>1, <2>2, BelongUntouched DEF OtherPosts
<1>3. ASSUME NEW v, Leave(v)  PROVE Belong'
  <2>1. \A u \in DOMAIN view' : u \in DOMAIN view /\ view'[u].shown = view[u].shown
    BY <1>3 DEF Leave, Typed, View
  <2>2. QED
    BY <1>3, <2>1, LeaveTyped, BelongUntouched DEF Leave
<1>4. ASSUME NEW v, Tick(v)  PROVE Belong'
  BY <1>4, TickTyped, GetMessagesAnswersNone, BelongUntouched DEF Tick
<1>5. ASSUME NEW v, NEW text \in Boxes, Edit(v, text)  PROVE Belong'
  <2>1. \A u \in DOMAIN view' : u \in DOMAIN view /\ view'[u].shown = view[u].shown
    BY <1>5 DEF Edit, Typed, View
  <2>2. QED
    BY <1>5, <2>1, EditTyped, BelongUntouched DEF Edit
<1>6. ASSUME NEW v, NEW q \in Posts, Submit(v, q)  PROVE Belong'
  BY <1>6, SubmitTyped, BelongUntouched DEF Submit
<1>7. ASSUME NEW p \in Polls, AnswerPoll(p)  PROVE Belong'
  <2> DEFINE c == view[poll[p].view].convo
  <2>1. /\ Typed' /\ ViewsStay /\ LogGrows
        /\ poll'[p].list = Reverse(log[c]) /\ poll'[p].view = poll[p].view
        /\ \A r \in Polls \ {p} : poll'[r] = poll[r]
    BY <1>7, AnswerPollTyped
  <2>2. view' = view /\ log' = log
    BY <1>7 DEF AnswerPoll
  <2>3. view[poll[p].view] \in View
    BY <1>7 DEF AnswerPoll, Typed
  <2>4. log[c] \in Seq(Said)
    BY <2>3 DEF Typed, View
  <2>5. IsPrefix(Reverse(poll'[p].list), log'[view'[poll'[p].view].convo])
    BY <2>1, <2>2, <2>4, ReverseTwice, PrefixOfItself
  <2>6. QED
    BY <2>1, <2>2, <2>5, BelongStays
<1>8. ASSUME NEW p \in Polls, RefusePoll(p)  PROVE Belong'
  <2>1. \A r \in Polls : poll'[r] = poll[r] \/ poll'[r].stage # "answered"
    BY <1>8 DEF RefusePoll, Typed, NoPoll
  <2>2. QED
    BY <1>8, <2>1, RefusePollTyped, BelongUntouched DEF RefusePoll
<1>9. ASSUME NEW p \in Polls, DeliverPoll(p)  PROVE Belong'
  <2> DEFINE v == poll[p].view
  <2>1. /\ Typed' /\ ViewsStay /\ LogGrows /\ v \in DOMAIN view
        /\ view'[v].shown = Reverse(poll[p].list)
        /\ \A u \in DOMAIN view \ {v} : view'[u] = view[u]
        /\ \A r \in Polls \ {p} : poll'[r] = poll[r]
        /\ poll'[p].stage = "none"
    BY <1>9, DeliverPollTyped
  <2>2. log' = log /\ DOMAIN view' = DOMAIN view
    BY <1>9 DEF DeliverPoll, Typed
  <2>3. IsPrefix(view'[v].shown, log'[view'[v].convo])
    BY <1>9, <2>1, <2>2 DEF DeliverPoll, ListsBelong, ViewsStay
  <2>4. QED
    BY <2>1, <2>2, <2>3, BelongStays
<1>10. ASSUME NEW q \in Posts, AnswerPost(q)  PROVE Belong'
  BY <1>10, AnswerPostTyped, BelongUntouched DEF AnswerPost
<1>11. ASSUME NEW q \in Posts, DeliverPost(q)  PROVE Belong'
  <2>1. \A u \in DOMAIN view' : u \in DOMAIN view /\ view'[u].shown = view[u].shown
    <3>1. ASSUME NEW v, view' = [view EXCEPT ![v].box = ""], NEW u \in DOMAIN view'
          PROVE  u \in DOMAIN view /\ view'[u].shown = view[u].shown
      <4>0. u \in DOMAIN view
        BY <3>1
      <4>1. view[u] \in View
        BY <4>0 DEF Typed
      <4>2. QED
        BY <3>1, <4>0, <4>1 DEF View
    <3>2. CASE view' = view
      BY <3>2
    <3>3. QED
      BY <1>11, <3>1, <3>2 DEF DeliverPost
  <2>2. \A p \in Polls : poll'[p] = poll[p] \/ poll'[p].stage # "answered"
    BY <1>11, GetMessagesAnswersNone DEF DeliverPost
  <2>3. QED
    BY <1>11, <2>1, <2>2, DeliverPostTyped, BelongUntouched
<1>12. CASE UNCHANGED vars
  BY <1>12 DEF vars, Typed, ShownBelongs, ListsBelong
<1>13. QED
  BY <1>1, <1>2, <1>3, <1>4, <1>5, <1>6, <1>7, <1>8, <1>9, <1>10, <1>11, <1>12
  DEF Next, Boxes

\* Whatever views were opened and left, and in whatever order the answers to
\* their requests come, every view shows its own conversation as it was at
\* some moment.
THEOREM ViewsShowTheirOwn == Spec => []ShownBelongs
<1>1. Init => Belong
  BY BelongInit
<1>2. Belong /\ [Next]_vars => Belong'
  BY BelongNext
<1>3. Belong => ShownBelongs
  BY DEF Belong
<1>4. QED
  BY <1>1, <1>2, <1>3, PTL DEF Spec
-----------------------------------------------------------------------------
\* For a patient user: one view is mounted at the most, one post under way at
\* the most, of that view, whose box still has its text; and what is stored
\* is not owed.
OneMounted == \A v, w \in DOMAIN view : view[v].mounted /\ view[w].mounted => v = w
OnePost ==
  /\ \A q \in Posts : post[q].stage = "none" => post[q] = NoPost
  /\ \A q, r \in Posts : post[q] # NoPost /\ post[r] # NoPost => q = r
  /\ \A q \in Posts : post[q] # NoPost =>
       /\ Mounted(post[q].view)
       /\ view[post[q].view].box = post[q].text
StoredIsSettled ==
  \A q \in Posts : post[q].stage = "stored" => Owed(post[q].view, post[q].text) \notin owed

Kept == Typed /\ OneMounted /\ OnePost /\ StoredIsSettled /\ SubmittedIsKept

LEMMA NoPostIsNone == NoPost.stage = "none"
BY DEF NoPost

LEMMA KeptInit ==
  ASSUME Init
  PROVE  Kept
<1>1. Typed
  BY BelongInit DEF Belong
<1>2. DOMAIN view = {} /\ owed = {} /\ \A q \in Posts : post[q] = NoPost
  BY DEF Init
<1>3. NoPost.stage = "none"
  BY DEF NoPost
<1>4. QED
  BY <1>1, <1>2, <1>3 DEF Kept, OneMounted, OnePost, StoredIsSettled, SubmittedIsKept

\* Without a post of the mounted view there is none.
LEMMA NothingUnderWay ==
  ASSUME Kept, NEW v, Mounted(v), UnderWay(v) = {}
  PROVE  \A q \in Posts : post[q] = NoPost
BY DEF Kept, OneMounted, OnePost, Mounted, UnderWay

\* A step that changes no post, no box and nothing mounted
LEMMA KeptUntouched ==
  ASSUME Kept, Typed', UNCHANGED <<post, owed>>,
         DOMAIN view' = DOMAIN view,
         \A v \in DOMAIN view : /\ view'[v].convo = view[v].convo
                                /\ view'[v].mounted = view[v].mounted
                                /\ view'[v].box = view[v].box
  PROVE  Kept'
<1>1. OneMounted'
  BY DEF Kept, OneMounted
<1>2. OnePost' /\ StoredIsSettled'
  BY DEF Kept, Typed, OnePost, StoredIsSettled, Mounted, Owed, NoPost
<1>3. SubmittedIsKept'
  BY DEF Kept, Typed, OnePost, SubmittedIsKept, Mounted, Owed
<1>4. QED
  BY <1>1, <1>2, <1>3 DEF Kept

\* The box of a view is all that it owes, if nothing is under way.
LEMMA OwedIsInBox ==
  ASSUME Kept, \A q \in Posts : post[q] = NoPost, NEW o \in owed
  PROVE  \E v \in DOMAIN view : Mounted(v) /\ Owed(v, view[v].box) = o
BY DEF Kept, SubmittedIsKept

\* An answer to a post settles what it stored, and nothing else.
LEMMA AnswerPostKept ==
  ASSUME Kept, NEW q \in Posts, AnswerPost(q)
  PROVE  Kept'
<1> DEFINE mine == Owed(post[q].view, post[q].text)
<1>1. Typed'
  BY AnswerPostTyped DEF Kept
<1>2. PICK stage \in {"stored", "refused"} :
        /\ post' = [post EXCEPT ![q].stage = stage]
        /\ owed' = owed \ {mine} \/ (owed' = owed /\ stage = "refused")
  BY DEF AnswerPost, Store
<1>3. view' = view /\ post[q] \in Submission /\ post[q].stage = "sent"
  BY DEF AnswerPost, Kept, Typed
<1>4. /\ post'[q].view = post[q].view /\ post'[q].text = post[q].text
      /\ post'[q].stage = stage /\ \A r \in Posts \ {q} : post'[r] = post[r]
  BY <1>2, <1>3 DEF Kept, Typed, Submission
<1>5. \A r \in Posts : post'[r] # NoPost <=> post[r] # NoPost
  BY <1>2, <1>3, <1>4, NoPostIsNone
<1>6. OneMounted'
  BY <1>3 DEF Kept, OneMounted
<1>7. OnePost'
  BY <1>3, <1>4, <1>5 DEF Kept, OnePost, Mounted
<1>8. StoredIsSettled'
  BY <1>2, <1>3, <1>4 DEF Kept, StoredIsSettled, Owed
<1>9. ASSUME NEW o \in owed'
      PROVE  (\/ \E r \in Posts : post[r] # NoPost /\ Owed(post[r].view, post[r].text) = o
              \/ \E w \in DOMAIN view : Mounted(w) /\ Owed(w, view[w].box) = o)'
  <2>1. \/ \E r \in Posts : post[r] # NoPost /\ Owed(post[r].view, post[r].text) = o
        \/ \E w \in DOMAIN view : Mounted(w) /\ Owed(w, view[w].box) = o
    BY <1>2, <1>9 DEF Kept, SubmittedIsKept
  <2>2. QED
    BY <1>3, <1>4, <1>5, <2>1 DEF Owed, Mounted
<1>10. SubmittedIsKept'
  BY <1>9 DEF SubmittedIsKept
<1>11. QED
  BY <1>1, <1>6, <1>7, <1>8, <1>10 DEF Kept

\* When the box is cleared, or a refusal is heard, the post was the only one:
\* it owes nothing, or what it owes is in the box.
LEMMA DeliverPostKept ==
  ASSUME Kept, NEW q \in Posts, DeliverPost(q)
  PROVE  Kept'
<1> DEFINE v == post[q].view
<1>1. Typed'
  BY DeliverPostTyped DEF Kept
<1>2. /\ post[q] # NoPost /\ Mounted(v) /\ view[v].box = post[q].text
      /\ \A r \in Posts \ {q} : post[r] = NoPost
  BY NoPostIsNone DEF Kept, OnePost, DeliverPost
<1>3. v \in DOMAIN view /\ view[v] \in View /\ view[v].mounted
  BY <1>2 DEF Mounted, Kept, Typed
<1>4. owed' = owed /\ \A r \in Posts : post'[r] = NoPost
  BY <1>2 DEF DeliverPost, Kept, Typed
<1>5. /\ DOMAIN view' = DOMAIN view
      /\ \A w \in DOMAIN view : /\ view'[w].convo = view[w].convo
                                /\ view'[w].mounted = view[w].mounted
  <2>1. CASE view' = view
    BY <2>1
  <2>2. CASE view' = [view EXCEPT ![v].box = ""]
    BY <1>3, <2>2 DEF View
  <2>3. QED
    BY <2>1, <2>2 DEF DeliverPost
<1>6. OneMounted'
  BY <1>5 DEF Kept, OneMounted
<1>7. OnePost' /\ StoredIsSettled'
  BY <1>4, NoPostIsNone DEF OnePost, StoredIsSettled
<1>8. ASSUME NEW o \in owed  PROVE o = Owed(v, post[q].text)
  BY <1>2, <1>3 DEF Kept, SubmittedIsKept, OneMounted, Mounted
<1>9. SubmittedIsKept'
  <2>1. CASE post[q].stage = "stored"
    BY <1>4, <1>8, <2>1 DEF Kept, StoredIsSettled, SubmittedIsKept
  <2>2. CASE post[q].stage # "stored"
    <3>1. view' = view
      BY <2>2 DEF DeliverPost
    <3>2. QED
      BY <1>2, <1>3, <1>4, <1>8, <3>1 DEF SubmittedIsKept, Mounted, Owed
  <2>3. QED
    BY <2>1, <2>2
<1>10. QED
  BY <1>1, <1>6, <1>7, <1>9 DEF Kept

LEMMA KeptNext ==
  ASSUME Patient, Kept, [Next]_vars
  PROVE  Kept'
<1>1. ASSUME NEW c \in Convos, Open(c)  PROVE Kept'
  <2>1. Typed'
    BY <1>1, OpenTyped DEF Kept
  <2>2. \A q \in Posts : post[q] = NoPost
    BY <1>1 DEF Open, Kept, OnePost, Mounted
  <2>3. owed = {}
    BY <1>1, <2>2, OwedIsInBox DEF Open
  <2>4. /\ DOMAIN view' = DOMAIN view \cup {Len(view) + 1}
        /\ \A v \in DOMAIN view : view'[v] = view[v] /\ ~view[v].mounted
    <3>1. [convo |-> c, mounted |-> TRUE, shown |-> << >>, box |-> ""] \in View
      BY <1>1 DEF View, Boxes
    <3>2. PICK w \in View : view' = Append(view, w)
      BY <1>1, <3>1 DEF Open
    <3>3. view \in Seq(View) /\ \A v \in DOMAIN view : ~view[v].mounted
      BY <1>1 DEF Kept, Typed, Open, Mounted
    <3>4. QED
      BY <3>2, <3>3
  <2>5. OneMounted'
    BY <2>4 DEF OneMounted
  <2>6. post' = post /\ owed' = {}
    BY <1>1, <2>3 DEF Open
  <2>7. OnePost' /\ StoredIsSettled' /\ SubmittedIsKept'
    BY <2>2, <2>6 DEF OnePost, StoredIsSettled, SubmittedIsKept, NoPost
  <2>8. QED
    BY <2>1, <2>5, <2>7 DEF Kept
<1>2. ASSUME NEW c \in Convos, OtherPosts(c)  PROVE Kept'
  <2>1. log' \in [Convos -> Seq(Said)]
    BY <1>2, SayTyped DEF OtherPosts, Said, Kept
  <2>2. Typed'
    BY <1>2, <2>1 DEF OtherPosts, Typed, Kept
  <2>3. QED
    BY <1>2, <2>2, KeptUntouched DEF OtherPosts
<1>3. ASSUME NEW v, Leave(v)  PROVE Kept'
  <2>1. Typed' /\ v \in DOMAIN view /\ view[v].mounted
    BY <1>3, LeaveTyped DEF Kept, Leave, Mounted
  <2>2. UnderWay(v) = {} /\ \A q \in Posts : post[q] = NoPost
    BY <1>3, NothingUnderWay DEF Leave
  <2>3. owed' = {}
    <3>1. TakenBack(v) = {Owed(v, view[v].box)}
      BY <2>2 DEF TakenBack
    <3>2. \A o \in owed : o = Owed(v, view[v].box)
      BY <2>1, <2>2, OwedIsInBox DEF Kept, OneMounted, Mounted
    <3>3. QED
      BY <1>3, <3>1, <3>2 DEF Leave
  <2>4. view' = [view EXCEPT ![v].mounted = FALSE] /\ post' = post
    BY <1>3 DEF Leave
  <2>5. OneMounted'
    <3>1. DOMAIN view' = DOMAIN view /\ \A w \in DOMAIN view \ {v} : view'[w] = view[w]
      BY <2>4
    <3>2. \A w \in DOMAIN view : ~view'[w].mounted
      <4>1. view[v] \in View
        BY <2>1 DEF Kept, Typed
      <4>2. ~view'[v].mounted
        BY <2>1, <2>4, <4>1 DEF View
      <4>3. QED
        BY <2>1, <3>1, <4>2 DEF Kept, OneMounted
    <3>3. QED
      BY <3>1, <3>2 DEF OneMounted
  <2>6. OnePost' /\ StoredIsSettled' /\ SubmittedIsKept'
    BY <2>2, <2>3, <2>4 DEF OnePost, StoredIsSettled, SubmittedIsKept, NoPost
  <2>7. QED
    BY <2>1, <2>5, <2>6 DEF Kept
<1>4. ASSUME NEW v, Tick(v)  PROVE Kept'
  BY <1>4, TickTyped, KeptUntouched DEF Tick, Kept
<1>5. ASSUME NEW v, NEW text \in Boxes, Edit(v, text)  PROVE Kept'
  <2>1. Typed' /\ v \in DOMAIN view /\ view[v].mounted
    BY <1>5, EditTyped DEF Kept, Edit, Mounted
  <2>2. UnderWay(v) = {} /\ \A q \in Posts : post[q] = NoPost
    BY <1>5, NothingUnderWay DEF Edit
  <2>3. owed' = {}
    <3>1. TakenBack(v) = {Owed(v, view[v].box)}
      BY <2>2 DEF TakenBack
    <3>2. \A o \in owed : o = Owed(v, view[v].box)
      BY <2>1, <2>2, OwedIsInBox DEF Kept, OneMounted, Mounted
    <3>3. QED
      BY <1>5, <3>1, <3>2 DEF Edit
  <2>4. view' = [view EXCEPT ![v].box = text] /\ post' = post
    BY <1>5 DEF Edit
  <2>5. OneMounted'
    <3>1. DOMAIN view' = DOMAIN view /\ \A w \in DOMAIN view \ {v} : view'[w] = view[w]
      BY <2>4
    <3>2. view[v] \in View
      BY <2>1 DEF Kept, Typed
    <3>3. view'[v].mounted = view[v].mounted
      BY <2>1, <2>4, <3>2 DEF View
    <3>4. QED
      BY <3>1, <3>3 DEF Kept, OneMounted
  <2>6. OnePost' /\ StoredIsSettled' /\ SubmittedIsKept'
    BY <2>2, <2>3, <2>4 DEF OnePost, StoredIsSettled, SubmittedIsKept, NoPost
  <2>7. QED
    BY <2>1, <2>5, <2>6 DEF Kept
<1>6. ASSUME NEW v, NEW q \in Posts, Submit(v, q)  PROVE Kept'
  <2>1. Typed' /\ Mounted(v) /\ v \in DOMAIN view /\ v \in Nat
    <3>1. Mounted(v)
      BY <1>6 DEF Submit
    <3>2. QED
      BY <1>6, <3>1, SubmitTyped DEF Kept, Mounted, Typed
  <2>2. \A r \in Posts : post[r] = NoPost
    BY <1>6, <2>1, NothingUnderWay DEF Submit
  <2>3. PICK s : s = [view |-> v, stage |-> "sent", text |-> view[v].box]
    OBVIOUS
  <2>4. post' = [post EXCEPT ![q] = s] /\ view' = view /\ owed' = owed \cup {Owed(v, view[v].box)}
    BY <1>6, <2>3 DEF Submit
  <2>5. s # NoPost /\ s.view = v /\ s.stage = "sent" /\ s.text = view[v].box
    BY <2>3 DEF NoPost
  <2>6. post'[q] = s /\ \A r \in Posts \ {q} : post'[r] = NoPost
    BY <2>2, <2>4 DEF Kept, Typed
  <2>7. OneMounted'
    BY <2>4 DEF Kept, OneMounted
  <2>8. OnePost' /\ StoredIsSettled'
    BY <2>1, <2>4, <2>5, <2>6, NoPostIsNone DEF OnePost, StoredIsSettled, Mounted
  <2>9. ASSUME NEW o \in owed'
        PROVE  (\/ \E r \in Posts : post[r] # NoPost /\ Owed(post[r].view, post[r].text) = o
                \/ \E w \in DOMAIN view : Mounted(w) /\ Owed(w, view[w].box) = o)'
    <3>1. CASE o = Owed(v, view[v].box)
      BY <2>4, <2>5, <2>6, <3>1 DEF Owed
    <3>2. CASE o \in owed
      BY <2>2, <2>4, <3>2, OwedIsInBox DEF Mounted, Owed
    <3>3. QED
      BY <2>4, <2>9, <3>1, <3>2
  <2>10. SubmittedIsKept'
    BY <2>9 DEF SubmittedIsKept
  <2>11. QED
    BY <2>1, <2>7, <2>8, <2>10 DEF Kept
<1>7. ASSUME NEW p \in Polls, AnswerPoll(p)  PROVE Kept'
  BY <1>7, AnswerPollTyped, KeptUntouched DEF AnswerPoll, Kept
<1>8. ASSUME NEW p \in Polls, RefusePoll(p)  PROVE Kept'
  BY <1>8, RefusePollTyped, KeptUntouched DEF RefusePoll, Kept
<1>9. ASSUME NEW p \in Polls, DeliverPoll(p)  PROVE Kept'
  <2> DEFINE v == poll[p].view
  <2>1. Typed' /\ v \in DOMAIN view /\ view[v] \in View
    BY <1>9, DeliverPollTyped DEF Kept, Typed
  <2>2. \A w \in DOMAIN view : /\ view'[w].convo = view[w].convo
                               /\ view'[w].mounted = view[w].mounted
                               /\ view'[w].box = view[w].box
    BY <1>9, <2>1 DEF DeliverPoll, View
  <2>3. DOMAIN view' = DOMAIN view /\ UNCHANGED <<post, owed>>
    BY <1>9 DEF DeliverPoll
  <2>4. QED
    BY <2>1, <2>2, <2>3, KeptUntouched
<1>10. ASSUME NEW q \in Posts, AnswerPost(q)  PROVE Kept'
  BY <1>10, AnswerPostKept
<1>11. ASSUME NEW q \in Posts, DeliverPost(q)  PROVE Kept'
  BY <1>11, DeliverPostKept
<1>12. CASE UNCHANGED vars
  <2>1. Typed'
    BY <1>12 DEF vars, Typed, Kept
  <2>2. QED
    BY <1>12, <2>1, KeptUntouched DEF vars
<1>13. QED
  BY <1>1, <1>2, <1>3, <1>4, <1>5, <1>6, <1>7, <1>8, <1>9, <1>10, <1>11, <1>12
  DEF Next, Boxes

\* A user who waits for the answer to each message loses none: it is stored,
\* on its way, or in the box to be sent again.
THEOREM PatienceLosesNothing == Patient => (Spec => []SubmittedIsKept)
<1> SUFFICES ASSUME Patient  PROVE Spec => []SubmittedIsKept
  OBVIOUS
<1>1. Init => Kept
  BY KeptInit
<1>2. Kept /\ [Next]_vars => Kept'
  BY KeptNext
<1>3. Kept => SubmittedIsKept
  BY DEF Kept
<1>4. QED
  BY <1>1, <1>2, <1>3, PTL DEF Spec
=============================================================================
