---------------------------- MODULE SourceRounds ---------------------------
(***************************************************************************)
(* What each kind of widget makes of a round: first those for feeds,       *)
(* forums, releases and streams, then those for servers, services, media   *)
(* and markets.                                                            *)
(***************************************************************************)
EXTENDS SourceAnswers

\* Feeds, the new items of each once; a feed that sent a validator is kept, and
\* "unchanged" stands for what is kept.
\* The mutant: what is unchanged is left out.
RssItemsSent(got) == Newest(Giving(got))

RssItems(got) ==
    Over({s \in Sources : got[s] = "unchanged"}, widget.kept, Newest(Giving(got)))

RssKept(got) ==
    Over({s \in Sources : got[s] = "ok"}, now,
         Over({s \in Sources : got[s] = "emptied"}, Blank, widget.kept))

Rss(got) ==
    [err |-> AllOrSome(Failing(got), Sources), shown |-> RssItems(got),
     kept |-> RssKept(got), token |-> widget.token]

\* Channels; one whose uploads are not there is asked for all it has, and one
\* that fails shows what it showed last.
ChannelAnswers(got, again) == [s \in Sources |-> IF got[s] = "missing" THEN again[s] ELSE got[s]]

ChannelVideos(last) == Over(Failing(last), widget.kept, Newest(Giving(last)))

Videos(got, again) ==
    LET last   == ChannelAnswers(got, again)
        videos == ChannelVideos(last)
    IN [err |-> IF videos = Blank THEN "no content"
                ELSE IF Failing(last) /= {} THEN "partial" ELSE "nil",
        shown |-> videos, kept |-> videos, token |-> widget.token]

Releases(got) == Result(AllOrSome(Failing(got), Sources), Newest(Giving(got)))

\* Details first; pull requests, issues and commits may be missing.
Repository(got) ==
    IF First \in Failing(got) THEN Result("no content", Blank)
    ELSE Result(IF Failing(got) = {} THEN "nil" ELSE "partial", Newest(Giving(got)))

\* The ids of the posts, then each post.
HackerNews(got) ==
    LET posts == Parts \ Failing(got)     \* one that holds nothing is a post
    IN IF got[First] /= "ok" \/ posts = {} THEN Result("no content", Blank)
       ELSE Result(IF posts /= Parts THEN "partial" ELSE "nil", Newest(Giving(got)))

Lobsters(got) ==
    IF got[First] = "ok" THEN Result("nil", Newest({First})) ELSE Result("no content", Blank)

\* In batches: a batch fails as one, and an operation in it by itself.
TwitchChannels(got) ==
    Result(AllOrSome(Failing(got), Sources), Newest(Giving(got)))

TwitchGames(got) == OnlyFirst(got)

\* The API with a guest token, which is kept when it cannot be renewed, and the
\* feed when that gives nothing.
GuestToken(login) ==
    IF widget.token /= "good" /\ login = "ok" THEN "good" ELSE widget.token

Reddit(got, again, login) ==
    LET token == GuestToken(login)
        api   == token /= "none" /\ First \notin Failing(got)
    IN [err |-> IF api \/ again[First] = "ok" THEN "nil" ELSE "error",
        shown |-> Newest(Giving(IF api THEN got ELSE again) \intersect {First}),
        kept |-> widget.kept, token |-> token]

\* The API with an app's token, which is renewed before it ends.
RedditApp(got, login) ==
    LET token == IF widget.token = "good" \/ login = "ok" THEN "good" ELSE widget.token
    IN [err |-> IF token = "good" /\ First \notin Failing(got) THEN "nil" ELSE "error",
        shown |-> Newest(Giving(got) \intersect {First}), kept |-> widget.kept, token |-> token]

--------------------------------------------------------------------------------

\* A site or server that fails is shown as one that does.  A node exporter that
\* refuses the filter is asked without one from then on.
Monitor(got) == Result("nil", Newest(Giving(got)))

Refuses(got) == {s \in Sources : got[s] = "refused" /\ widget.kept[s] = 0}

ServerStats(got, again) ==
    LET last == Over(Refuses(got), again, got)
    IN [err |-> "nil", shown |-> Newest(Giving(last)),
        kept |-> [s \in Sources |-> IF s \in Refuses(got) THEN 1 ELSE widget.kept[s]],
        token |-> widget.token]

\* The list of watches, asked for until it holds one, then each watch.
Watches(got) ==
    [Result(AllOrSome(Failing(got) \intersect Parts, Parts), Newest(Giving(got) \intersect Parts))
        EXCEPT !.kept = [widget.kept EXCEPT ![First] = 1]]

ChangeDetection(got) ==
    IF widget.kept[First] = 1 \/ got[First] = "ok" THEN Watches(got)
    ELSE Result(Strictly(Failing(got) \intersect {First}), Blank)

DockerContainers(got) == OnlyFirst(got)

\* Containers, then images; the one that is not shown may fail.
DockerController(what, got) ==
    LET asked == (IF what = "images" THEN {} ELSE {First}) \union (IF what = "containers" THEN {} ELSE Parts)
    IN Result(Strictly(Failing(got) \intersect asked), Newest(Giving(got) \intersect asked))

Adguard(got) == OnlyFirst(got)

\* Pi-hole 5 and Technitium.
WithToken(got) == IF widget.token = "none" THEN Result("error", Blank) ELSE OnlyFirst(got)

\* The summary first, the graph and the lists after it; a graph of the wrong length
\* is one that fails.
Summary(got) ==
    IF First \in Failing(got) THEN Result("error", Blank)
    ELSE Result(IF Failing(got) = {} THEN "nil" ELSE "partial", Newest(Giving(got)))

Blocky(got) == Summary(got)

\* Pi-hole 6 needs a session: the one the widget has when a check (in again) says
\* it is good, or a new one.  It is kept when nothing failed.
InSession(again, login) ==
    IF widget.token = "none" THEN login = "ok"
    ELSE again[First] = "ok" \/ (again[First] = "denied" /\ login = "ok")

\* Without a password it needs none.
OpenPihole(got) == Summary(got)

Pihole(got, again, login) ==
    IF ~InSession(again, login) THEN Result("error", Blank)
    ELSE LET r == Summary(got) IN [r EXCEPT !.token = IF r.err = "nil" THEN "good" ELSE @]

Playing(got) == Result(AllOrSome(Failing(got), Sources), Newest(Giving(got)))

\* qBittorrent and Deluge log in when they are told to, and Transmission has the
\* session in the answer that asks for it; then they ask again, once.
\* The mutant: they do not.
TorrentAnswerOnce(client, first, again, login) == first

TorrentAnswer(client, first, again, login) ==
    CASE client = "transmission" /\ first = "conflict" -> again
      [] client /= "transmission" /\ first = "denied" -> IF login = "ok" THEN again ELSE "down"
      [] OTHER -> first

Torrents(client, got, again, login) ==
    Playing([s \in Sources |-> TorrentAnswer(client, got[s], again[s], login)])

\* A server has libraries; one of them that fails is left out.  A Jellyfin or an
\* Emby whose libraries are not chosen is asked for all it has.
LatestMedia(got, again) ==
    Result(AllOrSome(Failing(got), Sources), Newest(Giving(got) \intersect Giving(again)))

LatestOfAll(got, again) ==
    LatestMedia([s \in Sources |-> IF got[s] = "ok" THEN again[s] ELSE got[s]], again)

Markets(got) == Useful(got)

\* The place, until it is found, then the weather there.
Weather(got) ==
    LET found == widget.kept[First] = 1 \/ got[First] = "ok"
        there == Failing(got) \intersect Parts = {}
    IN IF ~found THEN Result("early", Blank)
       ELSE [Result(IF there THEN "nil" ELSE "no content", Newest(Parts))
                EXCEPT !.kept = [widget.kept EXCEPT ![First] = 1]]

\* An extension that fails is replaced by an empty one.
Extension(got) ==
    IF First \in Failing(got) THEN Result("no content", Blank) ELSE Result("nil", Newest({First}))

\* The request and the ones beside it: any that fails fails all, and so does a
\* template that cannot be executed.
CustomApi(got, template) ==
    Result(IF template = "ok" THEN Strictly(Failing(got)) ELSE "error", Newest(Giving(got)))

\* All states in one request; an entity that is not among them has none.
HomeAssistant(got) == Result(Strictly(Failing(got)), Newest(Giving(got)))
=============================================================================
