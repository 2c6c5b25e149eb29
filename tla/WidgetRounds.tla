----------------------------- MODULE WidgetRounds ---------------------------
(***************************************************************************)
(* A widget that fetches, round after round, while its sources change, fail*)
(* and come back.  The kind of the widget says which sources it asks, which*)
(* it asks again, and what it makes of the answers; widget.go says what    *)
(* error and notice come of that.  Rounds of one widget never overlap: the *)
(* page's lock is held during each.                                        *)
(***************************************************************************)
EXTENDS SourceRounds

CONSTANT
    MaxVersion      \* of a source; one changes in a behaviour

VARIABLES
    last        \* what came back in the last round, or NoRound

roundVars == <<now, widget, last>>

NoRound == [none |-> TRUE]
AllWell == [s \in Sources |-> "ok"]

Kinds ==
    {"rss", "videos", "releases", "repository", "hacker news", "lobsters", "twitch channels",
     "twitch games", "reddit", "reddit app", "monitor", "server stats", "change detection",
     "docker containers", "all", "containers", "images", "adguard", "pihole 5", "pihole 6",
     "open pihole 6", "blocky", "playing", "qbittorrent", "deluge", "transmission", "latest media",
     "latest of all", "markets", "weather", "extension", "custom api", "home assistant"}

TorrentClients == {"qbittorrent", "deluge", "transmission"}
MediaServers == {"plex", "jellyfin", "emby", "navidrome"}
MediaSessions == [playing: BOOLEAN, paused: BOOLEAN, over: BOOLEAN, seekable: BOOLEAN, something: BOOLEAN]

\* The first answer of a source is read out of some reply.
FirstAnswers ==
    [kind \in Kinds |->
        CASE kind = "rss" -> {RssAnswer(r, v) : r \in Replies, v \in BOOLEAN}
          [] kind = "videos" -> {VideoAnswer(r, shorts) : r \in Replies, shorts \in BOOLEAN}
          [] kind = "releases" -> UNION {LatestRelease(r, flag) : r \in Replies, flag \in BOOLEAN}
          [] kind = "hacker news" -> {HackerNewsIds(r) : r \in Replies}
          [] kind = "lobsters" -> {LobstersAnswer(r) : r \in Replies}
          [] kind = "twitch channels" -> {TwitchChannel(r) : r \in Replies}
          [] kind = "twitch games" -> {TwitchDirectories(r) : r \in Replies}
          [] kind \in {"reddit", "reddit app"} -> {PostsAnswer(r, pinned) : r \in Replies, pinned \in BOOLEAN}
          [] kind = "monitor" -> {MonitorAnswer(r) : r \in Replies}
          [] kind = "server stats" -> {RemoteServerAnswer(r) : r \in Replies} \union {NodeExporterAnswer(r) : r \in Replies}
          [] kind = "blocky" -> {PrometheusAnswer(r) : r \in Replies}
          [] kind = "playing" ->
                {PlayingAnswer(server, r, item) : server \in MediaServers, r \in Replies, item \in MediaSessions}
          [] kind = "qbittorrent" -> {QbInfo(r) : r \in Replies}
          [] kind = "deluge" -> {DelugeRPC(r, code) : r \in Replies, code \in {1, 2}}
          [] kind = "transmission" -> {TransmissionRPC(r, header) : r \in Replies, header \in BOOLEAN}
          [] kind \in {"latest media", "latest of all"} ->
                {LatestServer(server, r, q) : server \in {"plex", "jellyfin"}, r, q \in Replies}
          [] kind = "weather" -> {PlaceAnswer(r) : r \in Replies}
          [] kind = "extension" -> {ExtensionAnswer(r) : r \in Replies}
          [] kind = "custom api" -> {CustomAnswer(r, json) : r \in Replies, json \in BOOLEAN}
          [] kind = "home assistant" -> {HomeAssistantAnswer(r) : r \in Replies}
          [] OTHER -> {JsonAnswer(r) : r \in Replies}]

\* An answer is "unchanged" only when nothing changed since the one kept.
Truthful(got) == \A s \in Sources : got[s] = "unchanged" => widget.kept[s] = now[s]

AskFirst ==
    {"lobsters", "twitch games", "reddit", "reddit app", "docker containers", "adguard", "pihole 5",
     "extension"}

AlikeIn(kind) ==
    CASE kind = "weather" -> Parts [] kind = "home assistant" -> Sources [] OTHER -> {}

\* What was asked for in one request fails as one.
FirstRounds(kind) ==
    {got \in [Sources -> FirstAnswers[kind]] :
        /\ Truthful(got)
        /\ kind \in AskFirst => \A s \in Parts : got[s] = "ok"
        /\ AlikeIn(kind) \intersect Failing(got) \in {{}, AlikeIn(kind)}}

\* Whether there is more to ask a source after its first answer, or instead.
AsksMore(kind, s, answer) ==
    CASE kind = "transmission" -> answer = "conflict"
      [] kind \in {"qbittorrent", "deluge"} -> answer = "denied"
      [] kind = "videos" -> answer = "missing"
      [] kind = "server stats" -> answer = "refused"
      [] kind \in {"latest media", "latest of all"} -> answer = "ok"
      [] kind = "reddit" -> s = First
      [] OTHER -> FALSE

\* That it is refused again is a failure like any other.
AnyFailure(answer) == IF answer \in Failures \union {"conflict"} THEN "down" ELSE answer

MoreAnswers ==
    [kind \in Kinds |->
        CASE kind = "reddit" -> {RssPostsAnswer(r) : r \in Replies}
          [] kind \in {"latest media", "latest of all"} -> {LatestFrom(r) : r \in Replies}
          [] OTHER -> {AnyFailure(answer) : answer \in FirstAnswers[kind]}]

\* The session check of a Pi-hole tells good sessions from others.
Checks ==
    {Pihole6Check(r) : r \in Replies} \ (IF widget.token = "good" THEN {"denied"} ELSE {"ok"})

Again(kind, got) ==
    IF kind = "pihole 6" THEN {[AllWell EXCEPT ![First] = answer] : answer \in Checks}
    ELSE {more \in [Sources -> MoreAnswers[kind] \union {"ok"}] :
             \A s \in Sources : more[s] /= "ok" => AsksMore(kind, s, got[s])}

LogsIn == {"qbittorrent", "deluge", "reddit", "reddit app", "pihole 6"}

\* What comes of a login, and of the template of a custom API.
Logins ==
    [kind \in Kinds |->
        CASE kind = "qbittorrent" -> {QbLogin(r) : r \in Replies}
          [] kind = "deluge" ->
                {IF DelugeConnect(c, h, d) THEN DelugeLogin(r) ELSE "down" : r, c, h, d \in Replies}
          [] kind = "reddit" -> {GuestLogin(r, q) : r, q \in Replies}
          [] kind = "reddit app" -> {AppLogin(r) : r \in Replies}
          [] kind = "pihole 6" -> {Pihole6Login(r) : r \in Replies}
          [] kind = "custom api" -> {"ok", "broken"}
          [] OTHER -> {"ok"}]

Outcome(kind, got, again, login) ==
    CASE kind = "rss" -> Rss(got)
      [] kind = "videos" -> Videos(got, again)
      [] kind = "releases" -> Releases(got)
      [] kind = "repository" -> Repository(got)
      [] kind = "hacker news" -> HackerNews(got)
      [] kind = "lobsters" -> Lobsters(got)
      [] kind = "twitch channels" -> TwitchChannels(got)
      [] kind = "twitch games" -> TwitchGames(got)
      [] kind = "reddit" -> Reddit(got, again, login)
      [] kind = "reddit app" -> RedditApp(got, login)
      [] kind = "monitor" -> Monitor(got)
      [] kind = "server stats" -> ServerStats(got, again)
      [] kind = "change detection" -> ChangeDetection(got)
      [] kind = "docker containers" -> DockerContainers(got)
      [] kind \in {"all", "containers", "images"} -> DockerController(kind, got)
      [] kind = "adguard" -> Adguard(got)
      [] kind = "pihole 5" -> WithToken(got)
      [] kind = "pihole 6" -> Pihole(got, again, login)
      [] kind = "open pihole 6" -> OpenPihole(got)
      [] kind = "blocky" -> Blocky(got)
      [] kind = "playing" -> Playing(got)
      [] kind \in TorrentClients -> Torrents(kind, got, again, login)
      [] kind = "latest media" -> LatestMedia(got, again)
      [] kind = "latest of all" -> LatestOfAll(got, again)
      [] kind = "markets" -> Markets(got)
      [] kind = "weather" -> Weather(got)
      [] kind = "extension" -> Extension(got)
      [] kind = "custom api" -> CustomApi(got, login)
      [] kind = "home assistant" -> HomeAssistant(got)

Replacing == TorrentClients \union {"playing", "latest media", "latest of all", "extension"}

----------------------------------------------------------------------------
RoundsInit ==
    /\ now = [s \in Sources |-> 1]
    /\ widget \in [kind: Kinds, shown: {Blank}, kept: {Blank}, token: {"none", "good"},
                   error: {FALSE}, notice: {FALSE}]
    /\ widget.token = "good" => widget.kind \in {"pihole 5"}
    /\ last = NoRound

\* A source has something new.
Change(s) ==
    /\ now[s] < MaxVersion /\ \A x \in Sources \ {s} : now[x] = 1
    /\ now' = [now EXCEPT ![s] = @ + 1]
    /\ last' = NoRound
    /\ UNCHANGED widget

\* A session or a token ends.
Age ==
    /\ widget.kind \in LogsIn /\ widget.token = "good"
    /\ widget' = [widget EXCEPT !.token = "stale"]
    /\ last' = NoRound
    /\ UNCHANGED now

Round(got, again, login) ==
    LET r == Outcome(widget.kind, got, again, login)
    IN /\ widget' = IF widget.kind \in Replacing THEN Replaced(r) ELSE Settled(r)
       /\ last' = [got |-> got, again |-> again, login |-> login]
       /\ UNCHANGED now

\* A toggle waits for no round and shows the entity as it is then.
Toggle(s) ==
    /\ widget.kind = "home assistant" /\ widget.shown[s] /= 0
    /\ now[s] < MaxVersion /\ \A x \in Sources \ {s} : now[x] = 1
    /\ now' = [now EXCEPT ![s] = @ + 1]
    /\ widget' = [widget EXCEPT !.shown[s] = now'[s]]
    /\ last' = NoRound

RoundsNext ==
    \/ \E s \in Sources : Change(s) \/ Toggle(s)
    \/ Age
    \/ \E got \in FirstRounds(widget.kind), login \in Logins[widget.kind] :
            \E again \in Again(widget.kind, got) : Round(got, again, login)

RoundsSpec == RoundsInit /\ [][RoundsNext]_roundVars

----------------------------------------------------------------------------
\* What a widget of a kind shows, and the kinds that show a failure as such or
\* leave it out.
Shows(kind) ==
    CASE kind \in {"lobsters", "twitch games", "reddit", "reddit app", "docker containers", "containers",
                   "adguard", "pihole 5", "extension"} -> {First}
      [] kind \in {"change detection", "images", "weather"} -> Parts
      [] OTHER -> Sources

ShowsFailures == {"monitor", "server stats", "latest media"}

SaidNone(s) == {"none", "emptied"} \intersect {last.got[s], last.again[s]} /= {}

\* A widget without an error and a notice shows what its sources had when it
\* asked: whatever failed, was asked again, was kept from an earlier round or
\* needed a login, nothing it shows is older, and nothing is left out but what
\* had nothing to give.
CleanIsCurrent ==
    last /= NoRound /\ ~widget.error /\ ~widget.notice =>
        \A s \in Shows(widget.kind) :
            \/ widget.shown[s] = now[s]
            \/ widget.shown[s] = 0 /\ (SaidNone(s) \/ SaidNone(First) \/ widget.kind \in ShowsFailures)

\* A refusal the widget knows what to do about.
Remedied(s) ==
    CASE widget.kind = "transmission" -> last.got[s] = "conflict"
      [] widget.kind \in {"qbittorrent", "deluge"} -> last.got[s] = "denied"
      [] widget.kind = "videos" -> last.got[s] = "missing"
      [] widget.kind = "server stats" -> last.got[s] = "refused"
      [] OTHER -> FALSE

Answered(s) ==
    \/ /\ last.got[s] \in {"ok", "plain", "unchanged"}
       /\ widget.kind = "latest of all" => last.again[s] = "ok"
    \/ Remedied(s) /\ last.again[s] = "ok"

\* Once every source answers and every login is accepted, one round is enough to
\* get rid of an error or a notice, whatever sessions, tokens and lists the
\* rounds before have left behind.
RecoversAtOnce ==
    (/\ last /= NoRound
     /\ \A s \in Sources : Answered(s)
     /\ last.login = "ok"
     /\ widget.kind = "pihole 6" => last.again[First] /= "down"
     /\ widget.kind = "pihole 5" => widget.token = "good")
    => ~widget.error /\ ~widget.notice
=============================================================================
