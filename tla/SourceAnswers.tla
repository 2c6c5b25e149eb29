---------------------------- MODULE SourceAnswers ---------------------------
(***************************************************************************)
(* What the widgets that fetch have in common: a widget asks its sources   *)
(* in one round, gets an answer or a failure from each, and makes of them  *)
(* new content and an error.  A source has versions; content is which      *)
(* version of each source it shows.  Some keep something between rounds: a *)
(* cache, a list, a token.                                                 *)
(***************************************************************************)
EXTENDS Naturals, FiniteSets

CONSTANTS
    Sources,
    First           \* the one that is asked first, where that makes a difference

\* Where the first one lists the others, a list with content names some.
ASSUME SourcesAssumption == First \in Sources /\ Sources /= {First}

VARIABLES
    now,        \* source -> its version
    widget      \* [kind, shown, kept, token, error, notice]

Parts == Sources \ {First}

\* Answers are functions of the sources: "ok", "plain" (content
\* that is not kept), "none" (there is nothing; "emptied": and that is kept),
\* "unchanged", or a failure: "missing" (a list that is not there), "refused" (a
\* filter that is not taken), "denied" (a session that ended) or "down" (all others).
Failures == {"missing", "refused", "denied", "down"}

Failing(got) == {s \in DOMAIN got : got[s] \in Failures}
Giving(got) == {s \in DOMAIN got : got[s] \in {"ok", "plain"}}

Blank == [s \in Sources |-> 0]
Newest(S) == [s \in Sources |-> IF s \in S THEN now[s] ELSE 0]
Over(S, f, g) == [s \in Sources |-> IF s \in S THEN f[s] ELSE g[s]]

\* errNoContent when all failed, errPartialContent when some did.
AllOrSome(failed, all) ==
    IF failed = all THEN "no content" ELSE IF failed /= {} THEN "partial" ELSE "nil"

Strictly(failed) == IF failed = {} THEN "nil" ELSE "error"

\* A round that leaves what the widget keeps as it is.
Result(err, shown) == [err |-> err, shown |-> shown, kept |-> widget.kept, token |-> widget.token]

OnlyFirst(got) == Result(Strictly(Failing(got) \intersect {First}), Newest(Giving(got) \intersect {First}))

\* One that gives nothing counts as one that fails.
Useful(got) == Result(AllOrSome(Sources \ Giving(got), Sources), Newest(Giving(got)))

\* canContinueUpdateAfterHandlingErr, and what update does after it; "early" is
\* an error that passes it by.
Continues(err) == err \in {"nil", "partial"}

Settled(r) ==
    [widget EXCEPT !.shown = IF Continues(r.err) THEN r.shown ELSE @,
                   !.kept = r.kept, !.token = r.token,
                   !.error = ~Continues(r.err),
                   !.notice = IF r.err = "early" THEN @ ELSE r.err = "partial"]

\* The widgets that put in what they got before they look at the error.
Replaced(r) == [Settled(r) EXCEPT !.shown = r.shown]

-----------------------------------------------------------------------------
\* What the widgets read out of one reply: for each request a widget makes an
\* operator from the reply to the answer.  The same reply means different things
\* to them: a 404, an empty list or a 200 whose body says it failed is an answer
\* here and a failure there.

\* No reply; 304, 400, 401, 403, 404, 409; any other status; or a 200 that cannot
\* be decoded, whose content says it failed, that holds nothing, or content.
Replies ==
    {"nothing", "unmodified", "refused", "denied", "forbidden", "missing", "conflict", "broken",
     "garbled", "rejected", "empty", "content"}

\* decodeJsonFromRequest takes whatever decodes.
Decodes(r) == r \in {"content", "empty", "rejected"}

JsonAnswer(r) ==
    CASE r = "content" -> "ok" [] r \in {"empty", "rejected"} -> "none" [] OTHER -> "down"

\* Where a decoded reply without content is an error.
Needed(r) == IF r = "content" THEN "ok" ELSE "down"

\* Where only one that says so is.
Accepted(r) == IF r = "rejected" THEN "down" ELSE JsonAnswer(r)

----------------------------------------------------------------------------
\* A feed that sends a validator is kept.
RssAnswer(r, validator) ==
    CASE r = "unmodified" -> "unchanged"
      [] r = "content" -> IF validator THEN "ok" ELSE "plain"
      [] r = "empty" -> IF validator THEN "emptied" ELSE "none"
      [] OTHER -> "down"

\* The list of a channel's videos without the shorts is not there for all.
VideoAnswer(r, shorts) == IF r = "missing" /\ ~shorts THEN "missing" ELSE JsonAnswer(r)

\* Where a list is asked for it has to hold something.
GithubAnswer(r, prereleases) == IF prereleases THEN Needed(r) ELSE JsonAnswer(r)
DockerHubAnswer(r, tagged) == IF tagged THEN JsonAnswer(r) ELSE Needed(r)
GitlabAnswer(r) == JsonAnswer(r)
CodebergAnswer(r) == JsonAnswer(r)

LatestRelease(r, flag) ==
    {CodebergAnswer(r), GithubAnswer(r, flag), GitlabAnswer(r), DockerHubAnswer(r, flag)}

HackerNewsIds(r) == JsonAnswer(r)

LobstersAnswer(r) == Needed(r)

\* One operation of a batch; nobody of that name is an answer.
TwitchChannel(r) == Accepted(r)
TwitchDirectories(r) == Needed(r)

\* Posts that are all pinned are no posts, and no error.
PostsAnswer(r, pinned) == IF r = "content" /\ pinned THEN "none" ELSE Needed(r)
RssPostsAnswer(r) == Needed(r)
AppLogin(r) == IF Decodes(r) THEN "ok" ELSE "down"
\* The challenge, then what comes of solving it.
GuestLogin(page, solved) == IF page = "content" /\ solved = "content" THEN "ok" ELSE "down"

----------------------------------------------------------------------------
\* Whatever a site replies, it replied.
MonitorAnswer(r) == IF r = "nothing" THEN "down" ELSE "ok"

RemoteServerAnswer(r) == Needed(r)

\* Text that is no metric is read as nothing.
NodeExporterAnswer(r) ==
    CASE r = "refused" -> "refused"
      [] r = "content" -> "ok"
      [] r \in {"garbled", "rejected", "empty"} -> "none"
      [] OTHER -> "down"

Pihole6Login(r) == IF r = "content" THEN "ok" ELSE "down"

\* Whether a session still holds; only a 401 says that it does not.
Pihole6Check(r) ==
    CASE Decodes(r) \/ r = "garbled" -> "ok" [] r = "denied" -> "denied" [] OTHER -> "down"

PrometheusAnswer(r) == Accepted(r)

\* What of a media server's sessions is shown.
NavidromeAnswer(r, item) ==
    IF Accepted(r) = "ok" /\ ((~item.playing /\ ~item.paused) \/ item.over) THEN "none" ELSE Accepted(r)

PlexAnswer(r, item) ==
    IF JsonAnswer(r) = "ok" /\ ~item.playing /\ ~item.paused THEN "none" ELSE JsonAnswer(r)

JellyfinSessions(item) == item.something /\ (item.playing \/ item.paused)

JellyfinAnswer(r, item) ==
    IF JsonAnswer(r) = "ok" /\ ~JellyfinSessions(item) THEN "none" ELSE JsonAnswer(r)

EmbyAnswer(r, item) ==
    IF JsonAnswer(r) = "ok" /\ (~item.seekable \/ ~JellyfinSessions(item)) THEN "none" ELSE JsonAnswer(r)

PlayingAnswer(server, r, item) ==
    CASE server = "plex" -> PlexAnswer(r, item)
      [] server = "jellyfin" -> JellyfinAnswer(r, item)
      [] server = "emby" -> EmbyAnswer(r, item)
      [] server = "navidrome" -> NavidromeAnswer(r, item)

----------------------------------------------------------------------------
\* 204, or 200 and "Ok.".
QbLogin(r) == IF r \in {"content", "empty"} THEN "ok" ELSE "down"

QbInfo(r) == IF r \in {"denied", "forbidden"} THEN "denied" ELSE JsonAnswer(r)

\* An error in the reply is a session that ended when its code is 1.
DelugeRPC(r, code) ==
    IF r \in {"denied", "forbidden"} \/ (r = "rejected" /\ code = 1) THEN "denied" ELSE Accepted(r)

DelugeLogin(r) == IF DelugeRPC(r, 1) = "ok" THEN "ok" ELSE "down"

\* Connected, or there is a daemon and it can be connected to.
DelugeConnect(connected, hosts, connect) ==
    \/ connected = "content"
    \/ connected = "empty" /\ hosts = "content" /\ Accepted(connect) /= "down"

\* A 409 with a new session in its header; a second one is a failure.
TransmissionRPC(r, header) == IF r = "conflict" /\ header THEN "conflict" ELSE Accepted(r)

----------------------------------------------------------------------------
\* Identity and libraries of a Plex server; the identity may fail.  Users, then
\* views of the others; a server without users fails.
PlexSections(identity, sections) == JsonAnswer(sections)
JellyfinViews(users, views) == IF users /= "content" THEN "down" ELSE JsonAnswer(views)
LatestFrom(r) == JsonAnswer(r)

LatestServer(server, first, second) ==
    IF server = "plex" THEN PlexSections(first, second) ELSE JellyfinViews(first, second)

PlaceAnswer(r) == Needed(r)

\* An extension's reply is shown whatever its status is.
ExtensionAnswer(r) == CASE r = "nothing" -> "down" [] r = "content" -> "ok" [] OTHER -> "none"

\* A body that is JSON is handed to the template whatever its status is.
CustomAnswer(r, json) ==
    CASE r = "nothing" \/ ~json -> "down" [] r = "content" -> "ok" [] OTHER -> "none"

HomeAssistantAnswer(r) == JsonAnswer(r)
=============================================================================
