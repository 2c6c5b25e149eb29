----------------------------- MODULE PageRoutes -----------------------------
(***************************************************************************)
(* What a request is answered with (newApplication, the page, widget, todo *)
(* list, SSE and API handlers).  The application that a reload builds      *)
(* finds pages by slug, widgets by the number they got when they were      *)
(* parsed or by their api-id, and lists by their name; every handler looks *)
(* its page up on the way of its own and checks rights on it.  A browser   *)
(* goes on asking for what the page it has open was built with, whichever  *)
(* application answers.                                                    *)
(***************************************************************************)
EXTENDS PageSlugs

CONSTANTS
    Users, GroupsOfUser,    \* everybody who can log in, and their groups
    Nobody,             \* nil
    None,               \* no page to go back to
    Browsers,
    Settings,           \* the configs, by number; the program starts with the first
    Reserved,           \* reservedPageSlugs
    MaxSwaps            \* bound on reloads

VARIABLES
    site,       \* [c, first, gen]: number of the config, ids used before, application
    who,        \* browser -> its user
    screen,     \* browser -> the page it has open: [c, gen, page, first, links]
    goal,       \* browser -> what it was sent to the login page for: [slug, gen, page]
    streams,    \* browser -> the users its SSE clients connected with
    replies     \* what was answered last: [how, by, want, got]

routeVars == <<site, who, screen, goal, streams, replies>>

Home == Slug("")
NoPage == [gen |-> None]

--------------------------------------------------------------------------------
\* A config: pages, a sequence of [slug, users, groups, widgets]; order, all
\* widgets as they are parsed; inside, what a group or a split column holds; apiId
\* and list, of those widgets that have one; auth, "none", "open" (require-auth:
\* false) or "required"; and of the API: allowed, enforce and token.

Config == Settings[site.c]
PagesOf(c) == DOMAIN Settings[c].pages
SlugsOf(c) == SlugsFor([i \in PagesOf(c) |-> Settings[c].pages[i].slug])

Restricted(c, i) == Settings[c].pages[i].users /= {} \/ Settings[c].pages[i].groups /= {}

\* A group may stand in a split column, and nothing deeper.
Within(c, ws) ==
    LET held == [w \in DOMAIN Settings[c].inside |-> Settings[c].inside[w]]
        Below(some) == some \union UNION {held[w] : w \in some \intersect DOMAIN held}
    IN Below(Below(ws))

Widgets(c, i) == Within(c, Settings[c].pages[i].widgets)

Sequence(s) == s \in Seq({s[i] : i \in DOMAIN s})

\* As the parser makes them: every widget is parsed once, and is on a page.
SettingsAssumption ==
    /\ 1 \in DOMAIN Settings /\ Settings[1].pages /= << >>
    /\ \A c \in DOMAIN Settings :
          LET s == Settings[c]
          IN /\ Sequence(s.pages) /\ Sequence(s.order)
             /\ \A i \in PagesOf(c) : Sequence(s.pages[i].slug)
             /\ \A j, k \in DOMAIN s.order : s.order[j] = s.order[k] => j = k
             /\ \A k \in DOMAIN s.order : \E i \in PagesOf(c) : s.order[k] \in Widgets(c, i)
             /\ \A w \in DOMAIN s.apiId : w \notin Nat

\* isConfigStateValid, the API's slugs and the slugs nobody may take.
Serviceable(c) ==
    LET s == Settings[c]
        named == DOMAIN s.apiId
    IN /\ s.pages /= << >>
       /\ \A i \in PagesOf(c) : Restricted(c, i) => s.auth /= "none"
       /\ \A v, w \in named : v /= w => s.apiId[v] /= s.apiId[w]
       /\ \A i \in PagesOf(c) : s.pages[i].slug \notin Reserved
       /\ s.allowed \subseteq {SlugsOf(c)[i] : i \in PagesOf(c)} \union {Home}

--------------------------------------------------------------------------------
\* What newApplication makes of the config.

\* slugToPage: the empty slug is the first page's, unless a page has that slug.
SlugToPage(slug) ==
    LET found == {i \in PagesOf(site.c) : SlugsOf(site.c)[i] = slug}
    IN IF found = {} /\ slug = Home THEN {1} ELSE found

Id(w) == site.first + CHOOSE k \in DOMAIN Config.order : Config.order[k] = w

WidgetById(id) == {w \in {Config.order[k] : k \in DOMAIN Config.order} : Id(w) = id}

\* A mutant: what a group holds is not registered.
OnTopOnly(w) == {i \in PagesOf(site.c) : w \in Config.pages[i].widgets}

WidgetToPage(w) == {i \in PagesOf(site.c) : w \in Widgets(site.c, i)}

WidgetByApiId(id) == {w \in DOMAIN Config.apiId : Config.apiId[w] = id}

ListsOn(i) == {Config.list[w] : w \in Widgets(site.c, i) \intersect DOMAIN Config.list}

\* todoListIDToPage: the last page with the list.
ListToPage(l) ==
    LET on == {i \in PagesOf(site.c) : l \in ListsOn(i)}
    IN {i \in on : \A j \in on : j <= i}

--------------------------------------------------------------------------------
\* Rights.

RequiresAuth == Config.auth = "required"

User(b) == IF Config.auth = "none" THEN Nobody ELSE who[b]

AllowedOnPage(u, i) ==
    \/ ~Restricted(site.c, i)
    \/ u \in Config.pages[i].users
    \/ Config.pages[i].groups \intersect GroupsOfUser[u] /= {}

CanAccess(u, i) ==
    IF Restricted(site.c, i) THEN u /= Nobody /\ AllowedOnPage(u, i)
    ELSE ~RequiresAuth \/ u /= Nobody

IsAuthorized(u) == ~RequiresAuth \/ u /= Nobody

Accessible(u) == {i \in PagesOf(site.c) :
                     IF u = Nobody THEN ~Restricted(site.c, i) ELSE AllowedOnPage(u, i)}

Exposed(i) == Config.allowed = {} \/ SlugsOf(site.c)[i] \in Config.allowed

ApiCanRead(u, i) ==
    \/ ~Restricted(site.c, i)
    \/ ~Config.enforce
    \/ u /= Nobody /\ AllowedOnPage(u, i)

ApiReads(u, i) == Exposed(i) /\ ApiCanRead(u, i)

\* A session or a password, or else the token, if there is one.
ApiAuthenticated(u, hasToken) == u /= Nobody \/ ~Config.token \/ hasToken

--------------------------------------------------------------------------------

RoutesInit ==
    /\ site = [c |-> 1, first |-> 0, gen |-> 0]
    /\ who = [b \in Browsers |-> Nobody]
    /\ screen = [b \in Browsers |-> NoPage]
    /\ goal = [b \in Browsers |-> None]
    /\ streams = [b \in Browsers |-> {}]
    /\ replies = {}

\* want is what the browser or the caller means by the address it asks for.
Reply(how, u, want, got) == replies' = {[how |-> how, by |-> u, want |-> want, got |-> got]}

Fresh(b) == screen[b].gen = site.gen

Opened(u, i) ==
    [c |-> site.c, gen |-> site.gen, first |-> site.first, page |-> i,
     links |-> Accessible(u)]

\* handlePageRequest of a slug, for a browser that is u's by now.
OpenSlug(b, u, slug, want) ==
    LET found == SlugToPage(slug)
        shown == {i \in found : CanAccess(u, i)}
    IN /\ Reply("page", u, want, shown)
       /\ screen' = [screen EXCEPT ![b] = IF shown = {} THEN NoPage
                                          ELSE Opened(u, CHOOSE i \in shown : TRUE)]
       /\ goal' = [goal EXCEPT ![b] = IF found /= {} /\ shown = {} /\ u = Nobody 
                                       THEN [slug |-> slug, gen |-> site.gen, page |-> want] ELSE @]

\* Whoever has no slug of its own: the home page is the first one.
HomePages == LET blank == {i \in PagesOf(site.c) : SlugsOf(site.c)[i] = Home}
             IN IF blank = {} THEN {1} ELSE blank

OpenHome(b) ==
    /\ OpenSlug(b, User(b), Home, HomePages)
    /\ UNCHANGED <<site, who, streams>>

\* A link in the navigation.  One of an earlier application names whatever page
\* has the slug now.
Follow(b, i) ==
    /\ screen[b] /= NoPage /\ i \in screen[b].links
    /\ LET slug == SlugsOf(screen[b].c)[i]
       IN OpenSlug(b, User(b), slug, IF Fresh(b) THEN {i} ELSE SlugToPage(slug))
    /\ UNCHANGED <<site, who, streams>>

\* handlePageContentRequest, which the script of the open page sends.
PageContent(b) ==
    /\ screen[b] /= NoPage
    /\ LET slug  == SlugsOf(screen[b].c)[screen[b].page]
           found == SlugToPage(slug)
       IN Reply("content", User(b), IF Fresh(b) THEN {screen[b].page} ELSE found,
                {i \in found : CanAccess(User(b), i)})
    /\ UNCHANGED <<site, who, screen, goal, streams>>

--------------------------------------------------------------------------------

\* The numbers of the widgets on the open page.
IdsOn(b) ==
    LET order == Settings[screen[b].c].order
    IN {screen[b].first + k : k \in {n \in DOMAIN order :
                                        order[n] \in Widgets(screen[b].c, screen[b].page)}}

WidgetMeant(b, id) == IF Fresh(b) THEN {Config.order[id - site.first]} ELSE {}

\* handleWidgetContentRequest and handleWidgetActionRequest: no number is ever
\* given twice, so that a page of an earlier application gets nothing.
ServedWidget(u, id) ==
    IF ~IsAuthorized(u) THEN {}
    ELSE {w \in WidgetById(id) : \E i \in WidgetToPage(w) : CanAccess(u, i)}

WidgetContent(b, id) ==
    /\ screen[b] /= NoPage /\ id \in IdsOn(b)
    /\ Reply("widget", User(b), WidgetMeant(b, id), ServedWidget(User(b), id))
    /\ UNCHANGED <<site, who, screen, goal, streams>>

WidgetAction(b, id) ==
    /\ screen[b] /= NoPage /\ id \in IdsOn(b)
    /\ Reply("action", User(b), WidgetMeant(b, id), ServedWidget(User(b), id))
    /\ UNCHANGED <<site, who, screen, goal, streams>>

\* authorizeTodoRequest, of a list on the open page.
TodoList(b, l) ==
    /\ Fresh(b) /\ l \in ListsOn(screen[b].page)
    /\ Reply("list", User(b), {l},
             IF \E i \in ListToPage(l) : CanAccess(User(b), i) THEN {l} ELSE {})
    /\ UNCHANGED <<site, who, screen, goal, streams>>

--------------------------------------------------------------------------------
\* The API, for a caller that knows a user's password, or none, and the token or
\* not.

ApiReply(u, hasToken, want, got) ==
    /\ Config.auth = "none" => u = Nobody
    /\ Reply(IF ApiAuthenticated(u, hasToken) THEN "api" ELSE "refused", u, want,
             IF ApiAuthenticated(u, hasToken) THEN got ELSE {})
    /\ UNCHANGED <<site, who, screen, goal, streams>>

ApiPages(u, hasToken) ==
    ApiReply(u, hasToken, PagesOf(site.c), {i \in PagesOf(site.c) : ApiReads(u, i)})

ApiPage(u, hasToken, i) ==
    ApiReply(u, hasToken, {i}, {j \in SlugToPage(SlugsOf(site.c)[i]) : ApiReads(u, j)})

ApiWidget(u, hasToken, id) ==
    LET found == WidgetByApiId(id)
    IN ApiReply(u, hasToken, found, {w \in found : \E i \in WidgetToPage(w) : ApiReads(u, i)})

--------------------------------------------------------------------------------
\* SSE: a client keeps the user it connected with.

Connect(b) ==
    /\ screen[b] /= NoPage /\ User(b) \notin streams[b] /\ IsAuthorized(User(b))
    /\ streams' = [streams EXCEPT ![b] = @ \union {User(b)}]
    /\ UNCHANGED <<site, who, screen, goal, replies>>

\* authRecheck: whether the browser is logged in, not as whom.
Recheck(b, u) ==
    /\ u \in streams[b] /\ RequiresAuth /\ User(b) = Nobody
    /\ streams' = [streams EXCEPT ![b] = @ \ {u}]
    /\ UNCHANGED <<site, who, screen, goal, replies>>

\* sseBroadcastWidgetUpdate
Push(w) ==
    LET clients == UNION {streams[b] : b \in Browsers}
    IN /\ clients /= {}
       /\ replies' = {[how |-> "push", by |-> u, want |-> {w},
                       got |-> IF \E i \in WidgetToPage(w) : CanAccess(u, i) THEN {w} ELSE {}] :
                          u \in clients}
       /\ UNCHANGED <<site, who, screen, goal, streams>>

--------------------------------------------------------------------------------

\* The answer to a login, at the provider or with a password, goes on to the page
\* that the browser was sent away from.
LogsIn(b, u) ==
    /\ Config.auth /= "none" /\ who[b] = Nobody
    /\ who' = [who EXCEPT ![b] = u]
    /\ LET slug  == IF goal[b] = None THEN Home ELSE goal[b].slug
           meant == IF goal[b] = None THEN HomePages
                    ELSE IF goal[b].gen = site.gen THEN goal[b].page ELSE SlugToPage(slug)
           shown == {i \in SlugToPage(slug) : CanAccess(u, i)}
       IN /\ Reply("page", u, meant, shown)
          /\ screen' = [screen EXCEPT ![b] = IF shown = {} THEN NoPage
                                             ELSE Opened(u, CHOOSE i \in shown : TRUE)]
    /\ goal' = [goal EXCEPT ![b] = None]
    /\ UNCHANGED <<site, streams>>

LogsOut(b) ==
    /\ who[b] /= Nobody
    /\ who' = [who EXCEPT ![b] = Nobody]
    /\ screen' = [screen EXCEPT ![b] = NoPage]
    /\ UNCHANGED <<site, goal, streams, replies>>

\* The new application is served once the old one is closed, with its streams.
Swap(c) ==
    /\ site.gen < MaxSwaps /\ c /= site.c /\ Serviceable(c)
    /\ site' = [c |-> c, gen |-> site.gen + 1, first |-> site.first + Len(Config.order)]
    /\ streams' = [b \in Browsers |-> {}]
    /\ replies' = {}
    /\ UNCHANGED <<who, screen, goal>>

RoutesNext ==
    \/ \E b \in Browsers :
          \/ OpenHome(b) \/ PageContent(b) \/ Connect(b) \/ LogsOut(b)
          \/ \E i \in IF screen[b] = NoPage THEN {} ELSE screen[b].links : Follow(b, i)
          \/ \E id \in IF screen[b] = NoPage THEN {} ELSE IdsOn(b) :
                WidgetContent(b, id) \/ WidgetAction(b, id)
          \/ \E l \in {Config.list[w] : w \in DOMAIN Config.list} : TodoList(b, l)
          \/ \E u \in streams[b] : Recheck(b, u)
          \/ \E u \in Users : LogsIn(b, u)
    \/ \E u \in Users \union {Nobody}, hasToken \in BOOLEAN :
          \/ ApiPages(u, hasToken)
          \/ \E i \in PagesOf(site.c) : ApiPage(u, hasToken, i)
          \/ \E w \in DOMAIN Config.apiId : ApiWidget(u, hasToken, Config.apiId[w])
    \/ \E k \in DOMAIN Config.order : Push(Config.order[k])
    \/ \E c \in DOMAIN Settings : Swap(c)

RoutesSpec == RoutesInit /\ [][RoutesNext]_routeVars

--------------------------------------------------------------------------------

\* Who may have what, as the config says it.
MayRead(u, i) == /\ Restricted(site.c, i) \/ RequiresAuth => u /= Nobody
                 /\ Restricted(site.c, i) =>
                       \/ u \in Config.pages[i].users
                       \/ Config.pages[i].groups \intersect GroupsOfUser[u] /= {}

PagesWith(how, x) ==
    CASE how \in {"page", "content"} -> {x}
      [] how = "list" -> {i \in PagesOf(site.c) : x \in ListsOn(i)}
      [] OTHER -> {i \in PagesOf(site.c) : x \in Widgets(site.c, i)}

\* Whatever the address, the way the handler takes from it to a page, and the
\* application that made the page the browser has open, an answer is what the
\* browser meant, all of it for those who may read the pages it is on, and
\* nothing for those who may read none; the API lists exactly the pages that it
\* serves, and a widget exactly where it serves the page.
AnswersAreDeserved ==
    \A r \in replies :
        /\ r.got \subseteq r.want
        /\ r.how = "refused" => Config.token
        /\ r.how = "api" => \A x \in r.want :
               LET on == IF x \in PagesOf(site.c) THEN {x} ELSE PagesWith("widget", x)
               IN x \in r.got <=>
                      \E i \in on :
                          /\ Exposed(i)
                          /\ Restricted(site.c, i) /\ Config.enforce => MayRead(r.by, i)
        /\ r.how \notin {"api", "refused"} => \A x \in r.want :
               /\ x \in r.got => \E i \in PagesWith(r.how, x) : MayRead(r.by, i)
               /\ (\A i \in PagesWith(r.how, x) : MayRead(r.by, i)) => x \in r.got
=============================================================================
