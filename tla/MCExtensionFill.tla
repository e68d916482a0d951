---------------------------- MODULE MCExtensionFill -----------------------------
(***************************************************************************)
(* Model-checking instance of ExtensionFill: a login saved for a domain    *)
(* and for a site below a hosting domain whose every subdomain is another  *)
(* site; the tab shows a subdomain, the http page of that domain, or the   *)
(* hosting domain itself.                                                  *)
(***************************************************************************)
EXTENDS ExtensionFill

Suffixes1 == {<<"com">>, <<"io">>, <<"io", "pages">>}

At(scheme, host, port) == [scheme |-> scheme, host |-> host, port |-> port]

SavedUrls == [i \in Item |-> {At("https", <<"com", "bank">>, 0),
                              At("http", <<"io", "pages", "mine">>, 0)}]

Origins == {At("https", <<"com", "bank", "login">>, 0),
            At("http", <<"com", "bank">>, 0),
            At("https", <<"io", "pages">>, 0)}

\* What the proof that FillsBelong holds for every instance assumes.
ASSUME InstanceSuffixes == SuffixesApart

=============================================================================
