------------------------------- MODULE Schema -------------------------------
(***************************************************************************)
(* The handlers of /create and /close.                                     *)
(*                                                                         *)
(* bind_functions fun1 fun2 receives two promises, that is, two statements *)
(* already under way: OCaml evaluates a call's arguments first, the last   *)
(* one first.  The nested bind_functions therefore launch all their        *)
(* statements at once, innermost first, and wait for them from the outside *)
(* in.  A busy connection raises in the middle of the launch; what was     *)
(* launched before it completes without anybody waiting, and so do the     *)
(* statements after the first one that fails.                              *)
(***************************************************************************)
EXTENDS Accounts

\* Mutants of Chain: Contacts is forgotten; usrlst is dropped first.
ChainWithoutContacts(op) ==
  IF op = "create"
  THEN <<"Storage", "Conversations", "UserConversation">>
  ELSE <<"User", "Storage", "Conversations", "UserConversation">>
ChainUsersFirst(op) ==
  IF op = "create"
  THEN <<"Storage", "Contacts", "Conversations", "UserConversation">>
  ELSE <<"Storage", "Contacts", "Conversations", "UserConversation", "User">>

\* The order in which the statements are awaited; they are launched in the
\* opposite order.
Chain(op) ==
  IF op = "create"
  THEN <<"Storage", "Contacts", "Conversations", "UserConversation">>
  ELSE <<"User", "Storage", "Contacts", "Conversations", "UserConversation">>

\* The statements launched: all those after the last busy connection.
Launched(h, op) ==
  {Chain(op)[k] : k \in {n \in DOMAIN Chain(op) :
     \A l \in n .. Len(Chain(op)) : Available(h, Chain(op)[l])}}

Launch(h, req) ==
  LET launched == Launched(h, req.op)
      whole == launched = {Chain(req.op)[k] : k \in DOMAIN Chain(req.op)}
  IN
  /\ pc' = [pc EXCEPT ![h] = IF whole THEN "ddl"
                             ELSE IF launched # {} THEN "orphans" ELSE "idle"]
  /\ calls' = [calls EXCEPT ![h] = launched]
  /\ frame' = [frame EXCEPT ![h] =
                 IF launched = {} THEN NoFrame ELSE [NoFrame EXCEPT !.req = req]]
  /\ response' = IF whole THEN Silent
                 ELSE [Silent EXCEPT !.req = req, !.status = 500]
  /\ UNCHANGED <<failed, work>>
-----------------------------------------------------------------------------
\* create_db: User.migrate
CreateUsrlst(h) ==
  /\ pc[h] = "create:table"
  /\ tables' = tables \cup {"User"}
  /\ Call(h, "User", "create:bob", frame[h], work[h])
  /\ UNCHANGED rows

\* Mutant of CreateBob: where there is a Bob-bot there is a Joe-bot.
CreateBobAlone(h) ==
  /\ Reply(h, "create:bob", "User")
  /\ \/ UsersNamed("Bob-bot") # {} /\ Launch(h, Req(h))
     \/ /\ UsersNamed("Bob-bot") = {}
        /\ Call(h, "User", "create:addBob", frame[h], work[h])
  /\ UNCHANGED db

\* create_db: is there a Bob-bot?
CreateBob(h) ==
  /\ Reply(h, "create:bob", "User")
  /\ Call(h, "User", IF UsersNamed("Bob-bot") # {} THEN "create:joe"
                                                   ELSE "create:addBob",
          frame[h], work[h])
  /\ UNCHANGED db

CreateAddBob(h) ==
  /\ Reply(h, "create:addBob", "User")
  /\ AddUsr("bob", "Bob Bot", "Bob-bot")
  /\ Call(h, "User", "create:joe", frame[h], work[h])
  /\ OnlyUsrlst

\* create_db: is there a Joe-bot?
CreateJoe(h) ==
  /\ Reply(h, "create:joe", "User")
  /\ \/ UsersNamed("Joe-bot") # {} /\ Launch(h, Req(h))
     \/ /\ UsersNamed("Joe-bot") = {}
        /\ Call(h, "User", "create:addJoe", frame[h], work[h])
  /\ UNCHANGED db

CreateAddJoe(h) ==
  /\ Reply(h, "create:addJoe", "User")
  /\ AddUsr("joe", "Joe Bot", "Joe-bot")
  /\ Launch(h, Req(h))
  /\ OnlyUsrlst
-----------------------------------------------------------------------------
\* A launched statement is over, with the statements of fail having failed.
\* The chain answers as soon as its first failure is known, or when all of
\* it succeeded; the handler's place is free when no statement is left.
Settle(h, left, fail) ==
  LET chain == Chain(Req(h).op)
      rejected == \E k \in DOMAIN chain :
                    /\ chain[k] \in fail
                    /\ \A l \in 1 .. k - 1 : chain[l] \notin left \cup fail
      answered == pc[h] = "ddl" /\ (rejected \/ left \cup fail = {})
  IN
  /\ response' = IF answered
                 THEN [Silent EXCEPT !.req = Req(h),
                                     !.status = IF rejected THEN 500 ELSE 200]
                 ELSE Silent
  /\ pc' = [pc EXCEPT ![h] = IF left = {} THEN "idle"
                             ELSE IF answered THEN "orphans" ELSE @]
  /\ calls' = [calls EXCEPT ![h] = left]
  /\ failed' = [failed EXCEPT ![h] = IF left = {} THEN {} ELSE fail]
  /\ frame' = [frame EXCEPT ![h] = IF left = {} THEN NoFrame ELSE @]
  /\ UNCHANGED work

Running(h, op, m) == pc[h] \in {"ddl", "orphans"} /\ Req(h).op = op /\ m \in calls[h]

\* Mutant of Migrate: the statement is never over.
MigrateForever(h, m) ==
  /\ Running(h, "create", m)
  /\ tables' = tables \cup {m}
  /\ Settle(h, calls[h], failed[h])
  /\ UNCHANGED rows

\* CREATE TABLE IF NOT EXISTS, by migrate of the module m
Migrate(h, m) ==
  /\ Running(h, "create", m)
  /\ tables' = tables \cup {m}
  /\ Settle(h, calls[h] \ {m}, failed[h])
  /\ UNCHANGED rows

\* DROP TABLE, by rollback of the module m
Rollback(h, m) ==
  /\ Running(h, "close", m)
  /\ m \in tables
  /\ tables' = tables \ {m}
  /\ usrlst' = IF m = "User" THEN << >> ELSE usrlst
  /\ contactslst' = IF m = "Contacts" THEN << >> ELSE contactslst
  /\ convolst' = IF m = "Conversations" THEN << >> ELSE convolst
  /\ userconvolst' = IF m = "UserConversation" THEN << >> ELSE userconvolst
  /\ msglst' = IF m = "Storage" THEN << >> ELSE msglst
  /\ Settle(h, calls[h] \ {m}, failed[h])

\* The statement fails: nothing to drop, or a reason of the database's own.
LaunchedError(h, m) ==
  /\ \/ Running(h, "close", m) /\ (Faults \/ m \notin tables)
     \/ Running(h, "create", m) /\ Faults
  /\ Settle(h, calls[h] \ {m}, failed[h] \cup {m})
  /\ UNCHANGED db

SchemaStep(h) ==
  \/ CreateUsrlst(h) \/ CreateBob(h) \/ CreateAddBob(h)
  \/ CreateJoe(h) \/ CreateAddJoe(h)
  \/ \E m \in Modules : Migrate(h, m) \/ Rollback(h, m) \/ LaunchedError(h, m)
-----------------------------------------------------------------------------
\* The ids 1 and 2, which post_message hard-codes for the senders of the bots'
\* messages, are never an ordinary user's: create_db inserts the two bots
\* before any registration can find the table.  (Without database faults and
\* restarts, and as long as nobody renames a bot.)
BotIds ==
  \A i \in DOMAIN usrlst :
    /\ i = 1 => usrlst[i].email = "bob"
    /\ i = 2 => usrlst[i].email = "joe"

\* When /create answers OK every table exists and both bots have an account,
\* even if several /create are under way: bind_functions has awaited each of
\* the statements it launched.  (Without /close.)
CreateOutcome ==
  response.req.op = "create" /\ response.status = 200 =>
    /\ tables = Modules
    /\ UsersNamed("Bob-bot") # {} /\ UsersNamed("Joe-bot") # {}

\* When /close answers OK no table is left, whatever handlers were under way.
\* (Without /create.)
CloseOutcome ==
  response.req.op = "close" /\ response.status = 200 => tables = {}

\* usrlst, which the other tables' ids refer to, is dropped last or not at
\* all: close_db launches its statement last, so that a /close that stops at
\* a busy connection spares it.  Once the handlers are done, no table is left
\* without it.  (Without database faults and restarts.)
NoOrphanTables ==
  (\A h \in Slots : pc[h] = "idle") /\ "User" \notin tables => tables = {}
=============================================================================
