------------------------------ MODULE MCAccess ------------------------------
\* One password user and one of the provider, who is allowed by a group before
\* the reload and by nothing after it; the reload changes the password too.  The
\* team's page is for both.  Of the configs whose routes are asked, the first is
\* open to everybody but for one of two pages with one name, a list is on both of
\* these, and a widget in a group in a split column has an api-id; the second asks
\* everybody to log in, and a page without a slug stands for the home page; the
\* third gives one api-id twice and is never served.
EXTENDS Access, PageSlugs, TLC

CONSTANTS pat, ola, c1, c2, staff, v1, v2, v3, v4, v5, milk, bills

MCGroupsOf == ola :> {staff}

MCPages == "open" :> [users |-> {}, groups |-> {}]
           @@ "team" :> [users |-> {pat}, groups |-> {staff}]

MCFirstConfig == [cred |-> pat :> c1, users |-> {}, groups |-> {staff}]

MCConfigs == {MCFirstConfig, [cred |-> pat :> c2, users |-> {pat}, groups |-> {}]}

Page(slug, users, groups, ws) ==
    [slug |-> Slug(slug), users |-> users, groups |-> groups, widgets |-> ws]

Open == [pages |-> <<Page("home", {}, {}, {v1}), Page("news", {}, {}, {v4}),
                     Page("news", {pat}, {staff}, {v5})>>,
         order |-> <<v1, v2, v3, v4, v5>>,
         inside |-> v1 :> {v2} @@ v2 :> {v3},
         apiId |-> v3 :> "a" @@ v5 :> "b",
         list |-> v3 :> milk @@ v4 :> bills @@ v5 :> bills,
         auth |-> "open", allowed |-> {}, enforce |-> TRUE, token |-> FALSE]

Closed == [Open EXCEPT
    !.pages = <<Page("news", {}, {staff}, {v5}), Page("home", {}, {}, {v4}),
                Page("", {pat}, {}, {v1})>>,
    !.order = <<v5, v4, v1, v2, v3>>,
    !.auth = "required", !.token = TRUE,
    !.allowed = {Slug("home"), Slug("news")}]

Doubled == [Closed EXCEPT !.apiId = v3 :> "a" @@ v5 :> "a"]

MCSettings == <<Open, Closed, Doubled>>

MCReserved == {Slug("login"), Slug("logout"), Slug("callback")}

MCSymmetry == Permutations(Tabs) \union Permutations(Addresses) \union Permutations(Checks)
              \union Permutations(Browsers)
=============================================================================
