------------------------------ MODULE MCIdentity ------------------------------
(* A few labels that make every domain form, and every combination of one   *)
(* email, name, website, site and pair of lists over them.                  *)
EXTENDS IdentityGates

L(form, key) == [form |-> form, key |-> key]
MCLabels ==
  [l \in {"www", "acme", "ac-me", "mail", "gmail", "shop", "com", "ru", "c", "int", "xn--int", "_x"} |->
     IF l = "ac-me" THEN L("plain", "acme")
     ELSE IF l = "c" THEN L("short", "c")
     ELSE IF l = "int" THEN L("intl", "")
     ELSE IF l = "_x" THEN L("bad", "")
     ELSE IF l = "xn--int" THEN L("plain", "xnint")
     ELSE L("plain", l)]
MCPuny == [l \in {"int"} |-> "xn--int"]

Acme == <<"acme", "com">>
MailRu == <<"mail", "ru">>

\* The Node defaults hold a mailbox provider the Python ones do not.
MCPyFree == {<<"gmail", "com">>}
MCNodeFree == MCPyFree \cup {MailRu}

Emails == { None, Acme, <<"gmail", "com">>, MailRu, <<"www", "acme", "com">>, <<"shop", "acme", "com">>,
            <<"ac-me", "com">>, <<"acme", "c">>, <<"com">>, <<"_x", "com">>,
            <<"int", "com">> }

N(text, folded, key, slug) ==
  [text |-> text, folded |-> folded, key |-> key, nodeSlug |-> slug]
CompanyNames == { None, N("Acme", "acme", "acme", TRUE), N("Gmail", "gmail", "gmail", TRUE),
                  N("Mail", "mail", "mail", TRUE),
                  N("!!!", "!!!", "", FALSE), N("Company", "company", "company", TRUE) }

W(shape, host) == [shape |-> shape, host |-> host]
Websites == { None, W("blank", <<"acme">>), W("plain", Acme), W("plain", MailRu),
              W("plain", <<"www", "acme", "com">>), W("plain", <<"shop", "acme", "com">>),
              W("plain", <<"acme", "c">>), W("plain", <<"int", "com">>), W("plain", <<"com">>),
              W("leading", Acme), W("foreign", Acme), W("port", Acme), W("unparsable", Acme) }

Sites == { None, [name |-> "Acme", domain |-> Acme], [name |-> "Acme", domain |-> MailRu],
           [name |-> "!!!", domain |-> <<"www", "acme", "com">>] }

MCInputs ==
  [ email : Emails, name : CompanyNames, website : Websites, site : Sites,
    free : {None, {}, {Acme}}, generic : {None, {"acme"}} ]
===============================================================================
