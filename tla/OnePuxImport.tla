------------------------------- MODULE OnePuxImport -------------------------------
(***************************************************************************)
(* What the import page makes of a 1Password export                        *)
(* (apps/web/src/lib/import/onepassword.ts).  An entry is its category,    *)
(* whether it is in the trash, and the sequence of its fields, section     *)
(* after section; the mappers go by this order.  A field is where it       *)
(* stands, its id, its title, its kind and the shape of its value.  A      *)
(* mapped item is its type and the positions of the fields whose values    *)
(* are in it.  Names, tags, notes, dates and the parts of an address are   *)
(* left out.                                                               *)
(***************************************************************************)
EXTENDS Naturals

\* place: "login" for details.loginFields (the id is its designation),
\* "details" for details.password, "section" for a field of a section.
\* shape: "text", "month" for a text of two parts around a slash, "address",
\* "sshKey", or "none" for what is empty or not known.
Field(place, id, title, kind, shape) ==
    [place |-> place, id |-> id, title |-> title, kind |-> kind, shape |-> shape]

\* stringValue knows the plain shapes; a structured value is empty to it.
StringValue(f) == f.shape \in {"text", "month"}

\* The loops return at the first match, or overwrite what an earlier one found.
First(S) == {i \in S : \A j \in S : i <= j}
Last(S)  == {i \in S : \A j \in S : j <= i}

\* a || b
OrElse(S, T) == IF S # {} THEN S ELSE T

InSections(e) == {i \in DOMAIN e.fields : e.fields[i].place = "section"}

Texts(e, S) == {i \in S : StringValue(e.fields[i])}

\* The first field that matches decides, also when its value is empty.
FindFieldById(e, id) ==
    Texts(e, First({i \in InSections(e) : e.fields[i].id = id}))

FindFieldByTitle(e, titles) ==
    Texts(e, First({i \in InSections(e) : e.fields[i].title \in titles}))

\* The loops over every field of every section.
SectionTexts(e, but) ==
    {i \in Texts(e, InSections(e)) : e.fields[i].id \notin but}

\* loginFields.find
Designated(e, id) ==
    First({i \in DOMAIN e.fields : e.fields[i].place = "login" /\ e.fields[i].id = id})

DetailsPassword(e) == {i \in DOMAIN e.fields : e.fields[i].place = "details"}

\* The one-time password is among the section's texts.
MapLogin(e) ==
    [type |-> "login",
     kept |-> Designated(e, "username") \cup Designated(e, "password")
              \cup SectionTexts(e, {"username", "password"})]

\* An expiry date that does not split in two is dropped.
MapCreditCard(e) ==
    LET expiry == OrElse(FindFieldById(e, "expiry"),
                         FindFieldByTitle(e, {"expiry date", "expiration"}))
    IN [type |-> "card",
        kept |-> OrElse(FindFieldById(e, "ccnum"),
                        FindFieldByTitle(e, {"card number", "number"}))
                 \cup OrElse(FindFieldById(e, "cardholder"),
                             FindFieldByTitle(e, {"cardholder name", "name on card"}))
                 \cup {i \in expiry : e.fields[i].shape = "month"}
                 \cup OrElse(FindFieldById(e, "cvv"),
                             FindFieldByTitle(e, {"cvv", "cvc", "security code"}))]

MapSecureNote(e) == [type |-> "note", kept |-> SectionTexts(e, {})]

\* The address is the one structured value that is taken apart; each one
\* overwrites the one before.
MapIdentity(e) ==
    [type |-> "identity",
     kept |-> OrElse(FindFieldById(e, "firstname"),
                     FindFieldByTitle(e, {"first name", "firstname"}))
              \cup OrElse(FindFieldById(e, "lastname"),
                          FindFieldByTitle(e, {"last name", "lastname"}))
              \cup OrElse(FindFieldById(e, "email"),
                          OrElse(FindFieldById(e, "defEmailNew"),
                                 FindFieldByTitle(e, {"email"})))
              \cup OrElse(FindFieldById(e, "defphone"),
                          OrElse(FindFieldById(e, "cellphone"),
                                 FindFieldByTitle(e, {"phone", "mobile", "cell phone"})))
              \cup Last({i \in InSections(e) : /\ e.fields[i].kind = "address"
                                               /\ e.fields[i].shape = "address"})]

\* Each key overwrites the one before, whatever its kind.
MapSshKey(e) ==
    [type |-> "ssh_key",
     kept |-> FindFieldById(e, "passphrase")
              \cup Last({i \in InSections(e) : e.fields[i].shape = "sshKey"})]

MapPassword(e) ==
    [type |-> "login", kept |-> DetailsPassword(e) \cup SectionTexts(e, {})]

Connection == {"hostname", "port", "database", "username", "password", "database_type"}

\* Connection fields go to the URL, the user name, the password and the notes,
\* the others to custom fields.
MapDatabase(e) ==
    [type |-> "login",
     kept |-> (UNION {FindFieldById(e, id) : id \in Connection})
              \cup SectionTexts(e, Connection)]

MapGenericToNote(e) ==
    [type |-> "note", kept |-> SectionTexts(e, {}) \cup DetailsPassword(e)]

\* Mutant: a category without a mapper of its own becomes an empty note.
KnownCategories(e) ==
    IF e.category = "login" THEN MapLogin(e) ELSE [type |-> "note", kept |-> {}]

MapItemByCategory(e) ==
    CASE e.category = "login"    -> MapLogin(e)
      [] e.category = "password" -> MapPassword(e)
      [] e.category = "card"     -> MapCreditCard(e)
      [] e.category = "note"     -> MapSecureNote(e)
      [] e.category = "identity" -> MapIdentity(e)
      [] e.category = "database" -> MapDatabase(e)
      [] e.category = "ssh_key"  -> MapSshKey(e)
      [] OTHER                   -> MapGenericToNote(e)

\* mapItem and parseOnePux: an entry in the trash is skipped, every other one
\* is mapped.
ParseOnePux(file) ==
    {[entry |-> e, item |-> MapItemByCategory(e)] :
        e \in {f \in file : ~f.trashed}}

Skipped(file) == {e \in file : e.trashed}

=============================================================================
