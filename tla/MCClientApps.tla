------------------------------- MODULE MCClientApps -------------------------------
(***************************************************************************)
(* Model-checking instance of ClientApps: an account with one item, a      *)
(* device, a link with one or two views, and two exports.                  *)
(***************************************************************************)
EXTENDS ClientApps

Section(id) == Field("section", id, "", "text", "text")
Titled(id, title, shape) == Field("section", id, title, "text", shape)

Entry(category, fields) ==
    [category |-> category, trashed |-> FALSE, fields |-> fields]

\* Entries of each category, with a text the mapper does not name, fields that
\* share an id, a title to fall back to, and two addresses and two keys.
EveryCategory ==
    {Entry("login", <<Field("login", "username", "", "", "text"),
                      Field("login", "username", "", "", "text"), Section("pin")>>),
     Entry("password", <<Field("details", "password", "", "", "text"), Section("pin")>>),
     Entry("other", <<Section("pin"), Field("details", "password", "", "", "text")>>),
     Entry("note", <<Section("pin"), Section("pin")>>),
     Entry("database", <<Section("hostname"), Section("pin"), Section("hostname"),
                         Titled("port", "", "none"), Section("port")>>),
     Entry("card", <<Section("ccnum"), Section("ccnum"), Titled("x", "expiration", "month"),
                     Titled("y", "cvc", "text"), Section("pin")>>),
     Entry("identity", <<Field("section", "home", "", "address", "address"),
                         Field("section", "work", "", "address", "address"),
                         Section("email"), Section("defEmailNew")>>),
     Entry("ssh_key", <<Field("section", "key", "", "", "sshKey"), Section("passphrase"),
                        Field("section", "key", "", "", "sshKey")>>)}

Trashed == [category |-> "note", trashed |-> TRUE, fields |-> <<>>]

TwoExports == {{e, Trashed} : e \in EveryCategory}
              \cup {{Entry("note", <<>>), Entry("login", <<Section("pin")>>), Trashed}}

\* One client in depth, or both side by side.
Together == {[desktop |-> 3, web |-> 0], [desktop |-> 0, web |-> 4],
             [desktop |-> 1, web |-> 2]}

=============================================================================
