-------------------------- MODULE WebChatRefinement --------------------------
(***************************************************************************)
(* The backend, as long as nobody sends /close, does what AtomicChat       *)
(* promises.  Accounts and contacts map row by row.  A conversation exists *)
(* for the clients once it has a member.  A message a handler has stored   *)
(* but not yet followed by the bots' replies is not yet in the log: the    *)
(* handler keeps Storage's connection, so that nobody can read it.         *)
(***************************************************************************)
EXTENDS WebChat

EmailOf(id) == usrlst[id].email

Book ==
  [i \in DOMAIN contactslst |->
     [user |-> EmailOf(contactslst[i].userid),
      contact |-> EmailOf(contactslst[i].contactid),
      favorite |-> contactslst[i].favorite]]

Rooms ==
  [id \in {userconvolst[i].conversation_id : i \in DOMAIN userconvolst} |->
     [name |-> convolst[id].convo_name, creator |-> convolst[id].creator_name]]

Joined ==
  [i \in DOMAIN userconvolst |-> [room |-> userconvolst[i].conversation_id,
                                  email |-> EmailOf(userconvolst[i].users_id)]]

\* The rows of msglst whose handler has a bot's reply to add
Unfinished ==
  Cardinality({h \in Slots : pc[h] \in {"postMessage:bob", "postMessage:joe"}})
  + Cardinality({h \in Slots : pc[h] = "postMessage:joe" /\ Req(h).bob})

Log ==
  [i \in 1 .. Len(msglst) - Unfinished |->
     [sender |-> EmailOf(msglst[i].senderid), convo |-> msglst[i].convoid,
      by |-> msglst[i].msg.by, text |-> msglst[i].msg.text]]

Atomic == INSTANCE AtomicChat WITH
  JoeMinds <- JoeSpeaks \cup JoeRaises,
  users <- usrlst, book <- Book, rooms <- Rooms, joined <- Joined,
  log <- Log, told <- response

\* Whatever handlers are interleaved, refused, fail or die with the server, a
\* request happened entirely, with an answer every field of which is true at
\* the moment it is given, or not at all: the names and flags in the lists of
\* contacts and messages, looked up row by row, are all of that one moment.
\* Only members come one by one, only replies may be missing, and only the
\* list of conversations may be old, with members among those there are.
IsAtomic == Atomic!Spec
=============================================================================
