------------------------------ MODULE Accounts ------------------------------
(***************************************************************************)
(* The handlers of /register, /login and /changeUsername, over usrlst.     *)
(***************************************************************************)
EXTENDS Server

OnlyUsrlst == UNCHANGED <<contactslst, convolst, userconvolst, msglst, tables>>

\* User.add_usr
AddUsr(email, password, username) ==
  usrlst' = Append(usrlst, [email |-> email, password |-> password,
                            username |-> username])
-----------------------------------------------------------------------------
\* Mutant of RegisterEmail: any email will do.
RegisterEmailUnasked(h) ==
  /\ Reply(h, "register:email", "User")
  /\ Call(h, "User", "register:username", frame[h], work[h])
  /\ UNCHANGED db

\* register_user: is the email taken?
RegisterEmail(h) ==
  /\ Reply(h, "register:email", "User")
  /\ \/ /\ UsersWithEmail(Req(h).email) # {}
        /\ RespondText(h, "Email taken")
     \/ /\ UsersWithEmail(Req(h).email) = {}
        /\ Call(h, "User", "register:username", frame[h], work[h])
  /\ UNCHANGED db

\* Mutant of RegisterUsername: any username will do.
RegisterUsernameUnasked(h) ==
  /\ Reply(h, "register:username", "User")
  /\ Call(h, "User", "register:add", frame[h], work[h])
  /\ UNCHANGED db

\* register_user: is the username taken?
RegisterUsername(h) ==
  /\ Reply(h, "register:username", "User")
  /\ \/ /\ UsersNamed(Req(h).username) # {}
        /\ RespondText(h, "Username taken")
     \/ /\ UsersNamed(Req(h).username) = {}
        /\ Call(h, "User", "register:add", frame[h], work[h])
  /\ UNCHANGED db

RegisterAdd(h) ==
  /\ Reply(h, "register:add", "User")
  /\ AddUsr(Req(h).email, Req(h).password, Req(h).username)
  /\ RespondText(h, "Success")
  /\ OnlyUsrlst
-----------------------------------------------------------------------------
\* Mutant of LoginPassword: the parentheses around the OR are missing.
LoginPasswordOrEmail(h) ==
  /\ Reply(h, "login:password", "User")
  /\ LET matching ==
           UsersWithEmail(Req(h).email) \cup
           {i \in UsersNamed(Req(h).username) : usrlst[i].password = Req(h).password}
     IN  \/ matching = {} /\ RespondText(h, "No User")
         \/ matching # {} /\ Call(h, "User", "login:email", frame[h], work[h])
  /\ UNCHANGED db

\* login_user: does somebody with this email or this username have the
\* password?
LoginPassword(h) ==
  /\ Reply(h, "login:password", "User")
  /\ LET matching ==
           {i \in UsersWithEmail(Req(h).email) \cup UsersNamed(Req(h).username) :
              usrlst[i].password = Req(h).password}
     IN  \/ matching = {} /\ RespondText(h, "No User")
         \/ matching # {} /\ Call(h, "User", "login:email", frame[h], work[h])
  /\ UNCHANGED db

\* login_user: which of the two did the user type?
LoginEmail(h) ==
  /\ Reply(h, "login:email", "User")
  /\ Call(h, "User",
          IF UsersWithEmail(Req(h).email) # {} THEN "login:byEmail"
                                               ELSE "login:byUsername",
          frame[h], work[h])
  /\ UNCHANGED db

\* login_user: the email's username.
LoginByEmail(h) ==
  LET found == UsersWithEmail(Req(h).email) IN
  /\ Reply(h, "login:byEmail", "User")
  /\ \/ \E i \in found :
          /\ found = {i}
          /\ RespondJson(h, <<[email |-> Req(h).email,
                               username |-> usrlst[i].username]>>)
     \/ ~Single(found) /\ Fail(h, Req(h))
  /\ UNCHANGED db

\* login_user: the username's email.
LoginByUsername(h) ==
  LET found == UsersNamed(Req(h).username) IN
  /\ Reply(h, "login:byUsername", "User")
  /\ \/ \E i \in found :
          /\ found = {i}
          /\ RespondJson(h, <<[email |-> usrlst[i].email,
                               username |-> Req(h).username]>>)
     \/ ~Single(found) /\ Fail(h, Req(h))
  /\ UNCHANGED db

\* change_username: one UPDATE; whether the name is taken is not asked.
ChangeUsername(h) ==
  /\ Reply(h, "changeUsername:update", "User")
  /\ usrlst' = [i \in DOMAIN usrlst |->
                  IF usrlst[i].email = Req(h).email
                  THEN [usrlst[i] EXCEPT !.username = Req(h).username]
                  ELSE usrlst[i]]
  /\ RespondText(h, Empty)
  /\ OnlyUsrlst

AccountStep(h) ==
  \/ RegisterEmail(h) \/ RegisterUsername(h) \/ RegisterAdd(h)
  \/ LoginPassword(h) \/ LoginEmail(h)
  \/ LoginByEmail(h) \/ LoginByUsername(h)
  \/ ChangeUsername(h)
-----------------------------------------------------------------------------
\* No two accounts share an email, whatever registrations, renamings and
\* creations of the bots are interleaved: register_user's email_exists and
\* add_usr are statements of different calls, and usrlst has no UNIQUE column.
EmailUnique ==
  \A i, j \in DOMAIN usrlst : usrlst[i].email = usrlst[j].email => i = j

\* An account never enters usrlst under a username somebody holds: the
\* question username_exists of register_user and of create_db is still
\* answered rightly when add_usr takes effect.
UsernameFresh ==
  [][\A i \in DOMAIN usrlst' \ DOMAIN usrlst, j \in DOMAIN usrlst :
       usrlst'[i].username # usrlst[j].username]_vars

\* What /register answers is true when it is sent: "Success" of an account
\* that is the email's only one, "Username taken" of a username in use whose
\* email is still free, "Email taken" of an email in use.
RegisterOutcome ==
  response.req.op = "register" =>
    LET req == response.req IN
    /\ response.text = "Success" =>
         \E i \in UsersWithEmail(req.email) :
           /\ UsersWithEmail(req.email) = {i}
           /\ usrlst[i].username = req.username
           /\ usrlst[i].password = req.password
    /\ response.text = "Email taken" => UsersWithEmail(req.email) # {}
    /\ response.text = "Username taken" =>
         /\ UsersWithEmail(req.email) = {}
         /\ UsersNamed(req.username) # {}

\* login_user's documentation has two answers, "No User" and the user's
\* email and username: a login that nothing disturbs is one of them.
LoginDecides ==
  response.req.op = "login" => response.status = 200
=============================================================================
