---------------------------- MODULE ContactBook ----------------------------
(***************************************************************************)
(* The handlers of /addContact, /makeFavorite, /removeFavorite and         *)
(* /getContacts, over contactslst.  The first three begin alike: the ids   *)
(* of the two emails, then whether the one user has the other for contact. *)
(***************************************************************************)
EXTENDS Server

OnlyContactslst == UNCHANGED <<usrlst, convolst, userconvolst, msglst, tables>>

\* User.id_from_email of the first email
PairUser(h) ==
  LET found == UsersWithEmail(Req(h).user) IN
  /\ Reply(h, "pair:user", "User")
  /\ \/ \E id \in found :
          /\ found = {id}
          /\ Call(h, "User", "pair:contact", [frame[h] EXCEPT !.user = id], work[h])
     \/ ~Single(found) /\ Fail(h, Req(h))
  /\ UNCHANGED db

\* User.id_from_email of the second
PairContact(h) ==
  LET found == UsersWithEmail(Req(h).contact) IN
  /\ Reply(h, "pair:contact", "User")
  /\ \/ \E id \in found :
          /\ found = {id}
          /\ Call(h, "Contacts", "pair:exists",
                  [frame[h] EXCEPT !.contact = id], work[h])
     \/ ~Single(found) /\ Fail(h, Req(h))
  /\ UNCHANGED db

Known(h) == ContactRows(frame[h].user, frame[h].contact) # {}

\* Mutant of PairExists: add_contact does not ask.
PairExistsForFavorites(h) ==
  /\ Reply(h, "pair:exists", "Contacts")
  /\ \/ /\ Req(h).op = "addContact"
        /\ Call(h, "Contacts", "addContact:insert", frame[h], work[h])
     \/ /\ Req(h).op # "addContact" /\ Known(h)
        /\ Call(h, "Contacts", "favorite:update", frame[h], work[h])
     \/ /\ Req(h).op # "addContact" /\ ~Known(h)
        /\ Fail(h, Req(h))
  /\ UNCHANGED db

\* Contacts.does_contact_exist: add_contact wants a new contact, the other
\* two an existing one.
PairExists(h) ==
  /\ Reply(h, "pair:exists", "Contacts")
  /\ \/ /\ Req(h).op = "addContact" /\ Known(h)
        /\ RespondText(h, "Contact already exists")
     \/ /\ Req(h).op = "addContact" /\ ~Known(h)
        /\ Call(h, "Contacts", "addContact:insert", frame[h], work[h])
     \/ /\ Req(h).op # "addContact" /\ Known(h)
        /\ Call(h, "Contacts", "favorite:update", frame[h], work[h])
     \/ /\ Req(h).op # "addContact" /\ ~Known(h)
        /\ Fail(h, Req(h))
  /\ UNCHANGED db

\* Contacts.insert_contact
AddContactInsert(h) ==
  /\ Reply(h, "addContact:insert", "Contacts")
  /\ contactslst' = Append(contactslst, [userid |-> frame[h].user,
                      contactid |-> frame[h].contact, favorite |-> FALSE])
  /\ RespondText(h, "Success")
  /\ OnlyContactslst

\* Contacts.update_make_favorite and update_remove_favorite
FavoriteUpdate(h) ==
  LET wanted == Req(h).op = "makeFavorite" IN
  /\ Reply(h, "favorite:update", "Contacts")
  /\ contactslst' = [i \in DOMAIN contactslst |->
       IF i \in ContactRows(frame[h].user, frame[h].contact)
       THEN [contactslst[i] EXCEPT !.favorite = wanted]
       ELSE contactslst[i]]
  /\ RespondText(h, "Success")
  /\ OnlyContactslst
-----------------------------------------------------------------------------
GetContactsUser(h) ==
  LET found == UsersWithEmail(Req(h).email) IN
  /\ Reply(h, "getContacts:user", "User")
  /\ \/ \E id \in found :
          /\ found = {id}
          /\ Call(h, "Contacts", "getContacts:list",
                  [frame[h] EXCEPT !.user = id], work[h])
     \/ ~Single(found) /\ Fail(h, Req(h))
  /\ UNCHANGED db

\* contacts_helper on what is left of the list
ContactsHelper(h, todo, out) ==
  \/ todo = << >> /\ RespondJson(h, out)
  \/ /\ todo # << >>
     /\ Call(h, "User", "getContacts:row", frame[h],
             [work[h] EXCEPT !.todo = todo, !.out = out])

\* The contacts of a user among the first n, as they are listed
ContactList(user, n) ==
  LatestFirst({i \in 1 .. n : contactslst[i].userid = user}, n)

\* Contacts.read_contacts_given_userid
GetContactsList(h) ==
  LET ids == ContactList(frame[h].user, Len(contactslst)) IN
  /\ Reply(h, "getContacts:list", "Contacts")
  /\ ContactsHelper(h, [k \in DOMAIN ids |->
                          [contact_id |-> contactslst[ids[k]].contactid,
                           favorite |-> contactslst[ids[k]].favorite]], << >>)
  /\ UNCHANGED db

\* Mutant of GetContactsRow: the loop does not advance.
GetContactsRowAgain(h) ==
  /\ Reply(h, "getContacts:row", "User")
  /\ ContactsHelper(h, work[h].todo, work[h].out)
  /\ UNCHANGED db

\* contacts_helper: User.read_all_given_id of the first contact left
GetContactsRow(h) ==
  LET contact == Head(work[h].todo) IN
  /\ Reply(h, "getContacts:row", "User")
  /\ \/ /\ contact.contact_id \in DOMAIN usrlst
        /\ ContactsHelper(h, Tail(work[h].todo),
             Append(work[h].out,
                    [email |-> usrlst[contact.contact_id].email,
                     username |-> usrlst[contact.contact_id].username,
                     favorite |-> contact.favorite]))
     \/ contact.contact_id \notin DOMAIN usrlst /\ Fail(h, Req(h))
  /\ UNCHANGED db

ContactStep(h) ==
  \/ PairUser(h) \/ PairContact(h) \/ PairExists(h)
  \/ AddContactInsert(h) \/ FavoriteUpdate(h)
  \/ GetContactsUser(h) \/ GetContactsList(h) \/ GetContactsRow(h)
-----------------------------------------------------------------------------
\* A user has another for contact at most once, however often and however
\* concurrently the contact is added: add_contact asks does_contact_exist
\* and inserts in two calls, and contactslst has no UNIQUE constraint.
ContactUnique ==
  \A i, j \in DOMAIN contactslst :
    /\ contactslst[i].userid = contactslst[j].userid
    /\ contactslst[i].contactid = contactslst[j].contactid
    => i = j
=============================================================================
