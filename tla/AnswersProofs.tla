--------------------------- MODULE AnswersProofs ---------------------------
(***************************************************************************)
(* Nothing gets into an answer beside the rules, for any requests, any     *)
(* databases to start with, any number of crashes and any bound of a       *)
(* search; and the queries agree with each other.                          *)
(***************************************************************************)
EXTENDS RulesProofs, FiniteSetTheorems, SequenceTheorems

-----------------------------------------------------------------------------
(***************************************************************************)
(* What one query finds is allowed, at that moment.                        *)
(***************************************************************************)
\* The tracks of a set a viewer sees, by the predicate or by their rules.
LEMMA SeenAreAllowed ==
  ASSUME NEW v, NEW ts, ts \subseteq DOMAIN tracks
  PROVE  /\ {t \in ts : Visible(v, t)} = {t \in ts : May(v, t)}
         /\ HasVisibleTrack(v, ts) <=> {t \in ts : May(v, t)} # {}
<1>1. \A t \in ts : Visible(v, t) <=> May(v, t)
  BY MostSpecificRuleDecides DEF VisibilityIsMostSpecific
<1> QED BY <1>1 DEF HasVisibleTrack

\* A finite set is counted by zero exactly when it is empty.
LEMMA Counting ==
  ASSUME NEW S, IsFiniteSet(S)
  PROVE  /\ Cardinality(S) \in Nat
         /\ Cardinality(S) = 0 <=> S = {}
         /\ Cardinality(S) > 0 <=> S # {}
<1>1. Cardinality(S) \in Nat /\ (Cardinality(S) = 0 <=> S = {})
  BY FS_CardinalityType, FS_EmptySet
<1> QED BY <1>1

\* Tracks behind the clause are allowed.
LEMMA TracksAllowed ==
  ASSUME NEW v, NEW ts, ts \subseteq DOMAIN tracks,
         NEW i \in {TrackItem(t) : t \in {x \in ts : Visible(v, x)}}
  PROVE  Allowed(v, i)
<1>1. PICK t \in ts : Visible(v, t) /\ i = TrackItem(t)
  OBVIOUS
<1>2. May(v, t)
  BY <1>1, SeenAreAllowed
<1>3. i[1] = "track" /\ i[2] = t
  BY <1>1 DEF TrackItem
<1> QED BY <1>2, <1>3 DEF Allowed

\* So are albums behind HAVING, with their count of songs.
LEMMA AlbumsAllowed ==
  ASSUME IsFiniteSet(DOMAIN tracks), NEW v, NEW as, NEW i \in AlbumsVisible(v, as)
  PROVE  Allowed(v, i)
<1>1. PICK a : AlbumVisibleHaving(v, a) /\ i = <<"album", a, SongCount(v, a)>>
  BY DEF AlbumsVisible
<1> DEFINE seen == {t \in TracksOn(a) : May(v, t)}
<1>2. TracksOn(a) \subseteq DOMAIN tracks /\ IsFiniteSet(TracksOn(a)) /\ IsFiniteSet(seen)
  BY FS_Subset DEF TracksOn
<1>3. SongCount(v, a) = Cardinality(seen)
  BY <1>2, SeenAreAllowed DEF SongCount
<1> HIDE DEF seen
<1>4. seen # {} \/ TracksOn(a) = {}
  BY <1>1, <1>2, <1>3, Counting DEF AlbumVisibleHaving
<1>5. i[1] = "album" /\ i[2] = a /\ i[3] = Cardinality(seen)
  BY <1>1, <1>3
<1> QED BY <1>4, <1>5 DEF Allowed, seen

\* So are artists behind EXISTS, with their count of albums.
LEMMA ArtistsAllowed ==
  ASSUME NEW v, NEW rs, NEW i \in ArtistsVisible(v, rs)
  PROVE  Allowed(v, i)
<1>1. PICK r : ArtistVisible(v, r) /\ i = <<"artist", r, AlbumCount(v, r)>>
  BY DEF ArtistsVisible
<1>2. \A a : HasVisibleTrack(v, TracksOn(a)) <=> {t \in TracksOn(a) : May(v, t)} # {}
  BY SeenAreAllowed DEF TracksOn
<1>3. HasVisibleTrack(v, TracksBy(r)) <=> {t \in TracksBy(r) : May(v, t)} # {}
  BY SeenAreAllowed DEF TracksBy
<1>4. AlbumCount(v, r) = Cardinality({a \in AlbumsBy(r) : {t \in TracksOn(a) : May(v, t)} # {}})
  BY <1>2 DEF AlbumCount
<1>5. i[1] = "artist" /\ i[2] = r /\ i[3] = AlbumCount(v, r)
  BY <1>1
<1> QED BY <1>1, <1>3, <1>4, <1>5 DEF Allowed, ArtistVisible

\* So are genres, counted over visible tracks.
LEMMA GenresAllowed ==
  ASSUME IsFiniteSet(DOMAIN tracks), NEW v, NEW i \in ListGenresVisible(v)
  PROVE  Allowed(v, i)
<1>1. PICK g \in {Genre(t) : t \in SeenTracks(v)} : i = GenreItem(g, SeenTracks(v))
  BY DEF ListGenresVisible, GenresOf
<1>2. SeenTracks(v) = {t \in DOMAIN tracks : May(v, t)}
  BY SeenAreAllowed DEF SeenTracks
<1> DEFINE of == {t \in SeenTracks(v) : Genre(t) = g}
<1>3. of # {} /\ IsFiniteSet(of)
  BY <1>1, FS_Subset DEF SeenTracks
<1>4. i[1] = "genre" /\ i[2] = g /\ i[3] = Cardinality(of)
  BY <1>1 DEF GenreItem
<1>5. Cardinality(of) > 0
  BY <1>3, Counting
<1> QED BY <1>2, <1>4, <1>5 DEF Allowed

\* A cover is shown for a visible track.
LEMMA CoverAllowed ==
  ASSUME NEW v, NEW k, CoverKeyVisible(v, k)
  PROVE  Allowed(v, <<"cover", k>>)
<1>1. CASE \E a \in DOMAIN albums : albums[a].cover = k /\ HasVisibleTrack(v, TracksOn(a))
  <2>1. PICK a \in DOMAIN albums : albums[a].cover = k /\ HasVisibleTrack(v, TracksOn(a))
    BY <1>1
  <2>2. PICK t \in {t \in TracksOn(a) : May(v, t)} : TRUE
    BY <2>1, SeenAreAllowed DEF TracksOn
  <2> QED BY <2>1, <2>2 DEF Allowed, TracksOn
<1>2. CASE \E r \in DOMAIN artists : artists[r].cover = k /\ HasVisibleTrack(v, TracksBy(r))
  <2>1. PICK r \in DOMAIN artists : artists[r].cover = k /\ HasVisibleTrack(v, TracksBy(r))
    BY <1>2
  <2>2. PICK t \in {t \in TracksBy(r) : May(v, t)} : TRUE
    BY <2>1, SeenAreAllowed DEF TracksBy
  <2> QED BY <2>1, <2>2 DEF Allowed, TracksBy
<1> QED BY <1>1, <1>2 DEF CoverKeyVisible

\* The gate before a file is read.
LEMMA StreamAllowed ==
  ASSUME NEW v, NEW t, CanAccessTrack(v, t)
  PROVE  Allowed(v, <<"stream", t>>)
  BY MostSpecificRuleDecides DEF CanAccessTrack, VisibilityIsMostSpecific, Allowed

\* The queries that find by themselves, and those that follow another.
Followers == {"source", "title", "object"}
Filtered == {"song", "foundTrack", "album", "foundAlbum", "artist", "foundArtist", "albumTracks",
  "artistAlbums", "artists", "albums", "tracks", "genres", "starredArtists", "starredAlbums",
  "starredTracks", "gate", "cover"}

\* Whatever a query finds for a viewer, the rules of that moment allow.
LEMMA FindsAllowed ==
  ASSUME IsFiniteSet(DOMAIN tracks), NEW r, NEW v, NEW q, q[1] \in Filtered, NEW i \in Finds(r, v, q)
  PROVE  Allowed(v, i)
<1>1. CASE q[1] \in {"song", "foundTrack"}
  <2>1. Finds(r, v, q) = GetTrackVisible(v, q[2])
    BY <1>1 DEF Finds
  <2> QED BY <2>1, TracksAllowed DEF GetTrackVisible
<1>2. CASE q[1] = "albumTracks"
  <2>1. Finds(r, v, q) = AlbumTracksVisible(v, q[2])
    BY <1>2 DEF Finds
  <2> QED BY <2>1, TracksAllowed DEF AlbumTracksVisible, TracksOn
<1>3. CASE q[1] \in {"tracks", "starredTracks"}
  <2>1. Finds(r, v, q) \subseteq {TrackItem(t) : t \in {x \in DOMAIN tracks : Visible(v, x)}}
    BY <1>3 DEF Finds, ListTracksVisible, ListStarredTracksVisible, SeenTracks
  <2> QED BY <2>1, TracksAllowed
<1>4. CASE q[1] \in {"album", "foundAlbum", "artistAlbums", "albums", "starredAlbums"}
  <2>1. \E as : Finds(r, v, q) = AlbumsVisible(v, as)
    BY <1>4 DEF Finds, GetAlbumVisible, ArtistAlbumsVisible, ListAlbumsVisible, ListStarredAlbumsVisible
  <2> QED BY <2>1, AlbumsAllowed
<1>5. CASE q[1] \in {"artist", "foundArtist", "artists", "starredArtists"}
  <2>1. \E rs : Finds(r, v, q) = ArtistsVisible(v, rs)
    BY <1>5 DEF Finds, GetArtistVisible, ListArtistsVisible, ListStarredArtistsVisible
  <2> QED BY <2>1, ArtistsAllowed
<1>6. CASE q[1] = "genres"
  <2>1. Finds(r, v, q) = ListGenresVisible(v)
    BY <1>6 DEF Finds
  <2> QED BY <2>1, GenresAllowed
<1>7. CASE q[1] = "gate"
  <2>1. Finds(r, v, q) = IF CanAccessTrack(v, q[2]) THEN {<<"stream", q[2]>>} ELSE {}
    BY <1>7 DEF Finds
  <2> QED BY <2>1, StreamAllowed
<1>8. CASE q[1] = "cover"
  <2>1. Finds(r, v, q) = IF CoverKeyVisible(v, q[2]) THEN {<<"cover", q[2]>>} ELSE {}
    BY <1>8 DEF Finds
  <2> QED BY <2>1, CoverAllowed
<1> QED BY <1>1, <1>2, <1>3, <1>4, <1>5, <1>6, <1>7, <1>8 DEF Filtered

-----------------------------------------------------------------------------
(***************************************************************************)
(* The queries a reader has left.                                          *)
(***************************************************************************)
\* A query of S stands for itself, or follows one whose item is in G.
Cleared(S, G) ==
  \A q \in S :
    /\ q[1] \in Filtered \cup Followers \cup Searches \cup {"albumIds"}
    /\ q[1] \in {"source", "title"} => <<"stream", q[2]>> \in G
    /\ q[1] = "object" => <<"cover", q[2]>> \in G

\* What the queries of S put into the answer before it can go on.
Opens(S) ==
  {<<"stream", q[2]>> : q \in {x \in S : x[1] = "gate"}}
  \cup {<<"cover", q[2]>> : q \in {x \in S : x[1] = "cover"}}

\* What was permitted stays permitted when more is.
LEMMA ClearedForMore ==
  ASSUME NEW S, NEW G, NEW H, Cleared(S, G), G \subseteq H
  PROVE  Cleared(S, H)
  BY DEF Cleared

\* A query that stands for itself, and one whose permission was asked for.
LEMMA FirstQuery ==
  ASSUME NEW tag \in Filtered \cup Searches \cup {"albumIds"}, NEW x, NEW G
  PROVE  Cleared({<<tag, x>>}, G)
<1>1. tag \notin Followers
  BY DEF Filtered, Searches, Followers
<1> QED BY <1>1 DEF Cleared, Followers

\* The queries that follow a gate.
LEMMA NextQuery ==
  ASSUME NEW x
  PROVE  /\ Cleared({<<"source", x>>}, Opens({<<"gate", x>>}))
         /\ Cleared({<<"title", x>>}, Opens({<<"gate", x>>}))
         /\ Cleared({<<"object", x>>}, Opens({<<"cover", x>>}))
<1>1. <<"stream", x>> \in Opens({<<"gate", x>>})
  <2> DEFINE q == <<"gate", x>>
  <2>1. q \in {q} /\ q[1] = "gate" /\ <<"stream", x>> = <<"stream", q[2]>>
    OBVIOUS
  <2> QED BY <2>1 DEF Opens
<1>2. <<"cover", x>> \in Opens({<<"cover", x>>})
  <2> DEFINE q == <<"cover", x>>
  <2>1. q \in {q} /\ q[1] = "cover" /\ <<"cover", x>> = <<"cover", q[2]>>
    OBVIOUS
  <2> QED BY <2>1 DEF Opens
<1> QED BY <1>1, <1>2 DEF Cleared, Followers

\* A plan asks for a permission before it uses it.
Planned(s) ==
  /\ s # << >> /\ \E T : s \in Seq(T)
  /\ Cleared(Head(s), {})
  /\ \A i \in 1..Len(Tail(s)) : Cleared(Tail(s)[i], Opens(Head(s)))

\* Plans of up to three stages.
LEMMA ShortPlans ==
  ASSUME NEW a, NEW b, NEW c, Cleared(a, {})
  PROVE  /\ Planned(<<a>>)
         /\ Cleared(b, Opens(a)) => Planned(<<a, b>>)
         /\ Cleared(b, Opens(a)) /\ Cleared(c, Opens(a)) => Planned(<<a, b, c>>)
<1>1. Planned(<<a>>)
  <2>1. <<a>> # << >> /\ <<a>> \in Seq({a}) /\ Head(<<a>>) = a /\ Tail(<<a>>) = << >> /\ Len(<< >>) = 0
    OBVIOUS
  <2>2. 1..0 = {}
    OBVIOUS
  <2> QED BY <2>1, <2>2 DEF Planned
<1>2. ASSUME Cleared(b, Opens(a)) PROVE Planned(<<a, b>>)
  <2>1. /\ <<a, b>> # << >> /\ <<a, b>> \in Seq({a, b}) /\ Head(<<a, b>>) = a /\ Tail(<<a, b>>) = <<b>>
        /\ Len(<<b>>) = 1 /\ <<b>>[1] = b
    OBVIOUS
  <2>2. \A i \in 1..1 : i = 1
    OBVIOUS
  <2> QED BY <1>2, <2>1, <2>2 DEF Planned
<1>3. ASSUME Cleared(b, Opens(a)), Cleared(c, Opens(a)) PROVE Planned(<<a, b, c>>)
  <2>1. /\ <<a, b, c>> # << >> /\ <<a, b, c>> \in Seq({a, b, c}) /\ Head(<<a, b, c>>) = a
        /\ Tail(<<a, b, c>>) = <<b, c>> /\ Len(<<b, c>>) = 2 /\ <<b, c>>[1] = b /\ <<b, c>>[2] = c
    OBVIOUS
  <2>2. \A i \in 1..2 : i = 1 \/ i = 2
    OBVIOUS
  <2> QED BY <1>3, <2>1, <2>2 DEF Planned
<1> QED BY <1>1, <1>2, <1>3

\* Every plan of an endpoint asks before it reads.
LEMMA PlansAreCleared ==
  ASSUME NEW r, r.op \in ReadOps
  PROVE  Planned(Stages(r))
<1>1. CASE r.op = "getSong"
  <2>1. Stages(r) = << {<<"song", r.id>>} >>
    BY <1>1 DEF Stages, GetSong
  <2> QED BY <2>1, ShortPlans, FirstQuery DEF Filtered
<1>2. CASE r.op = "getArtists" \/ r.op = "getIndexes"
  <2>1. Stages(r) = << {<<"artists", 0>>} >>
    BY <1>2 DEF Stages, GetArtists, GetIndexes
  <2> QED BY <2>1, ShortPlans, FirstQuery DEF Filtered
<1>3. CASE r.op = "getGenres"
  <2>1. Stages(r) = << {<<"genres", 0>>} >>
    BY <1>3 DEF Stages, GetGenres
  <2> QED BY <2>1, ShortPlans, FirstQuery DEF Filtered
<1>4. CASE r.op = "getAlbumList2"
  <2>1. Stages(r) = << {<<"albumIds", 0>>} >>
    BY <1>4 DEF Stages, GetAlbumList2
  <2> QED BY <2>1, ShortPlans, FirstQuery
<1>5. CASE r.op = "getStarred2"
  <2>1. Stages(r) = << {<<"starredArtists", 0>>, <<"starredAlbums", 0>>, <<"starredTracks", 0>>} >>
    BY <1>5 DEF Stages, GetStarred2
  <2>2. Cleared({<<"starredArtists", 0>>, <<"starredAlbums", 0>>, <<"starredTracks", 0>>}, {})
    BY DEF Cleared, Filtered
  <2> QED BY <2>1, <2>2, ShortPlans
<1>6. CASE r.op = "getAlbum"
  <2>1. Stages(r) = << {<<"album", r.id>>}, {<<"albumTracks", r.id>>} >>
    BY <1>6 DEF Stages, AlbumPage
  <2> QED BY <2>1, ShortPlans, FirstQuery DEF Filtered
<1>7. CASE r.op = "getArtist"
  <2>1. Stages(r) = << {<<"artist", r.id>>}, {<<"artistAlbums", r.id>>} >>
    BY <1>7 DEF Stages, ArtistPage
  <2> QED BY <2>1, ShortPlans, FirstQuery DEF Filtered
<1>8. CASE r.op = "getCoverArt"
  <2>1. Stages(r) = << {<<"cover", r.key>>}, {<<"object", r.key>>} >>
    BY <1>8 DEF Stages, GetCoverArt
  <2> QED BY <2>1, ShortPlans, FirstQuery, NextQuery DEF Filtered
<1>9. CASE r.op = "stream" \/ r.op = "download"
  <2>1. Stages(r) = << {<<"gate", r.id>>}, {<<"source", r.id>>} >>
    BY <1>9 DEF Stages, StreamSource, Download, GateTrack
  <2> QED BY <2>1, ShortPlans, FirstQuery, NextQuery DEF Filtered
<1>10. CASE r.op = "getLyrics"
  <2>1. Stages(r) = << {<<"gate", r.id>>}, {<<"source", r.id>>}, {<<"title", r.id>>} >>
    BY <1>10 DEF Stages, GetLyrics, GateTrack
  <2> DEFINE gate == {<<"gate", r.id>>}
             source == {<<"source", r.id>>}
             title == {<<"title", r.id>>}
  <2>2. Cleared(gate, {}) /\ Cleared(source, Opens(gate)) /\ Cleared(title, Opens(gate))
    BY FirstQuery, NextQuery DEF Filtered
  <2>3. Stages(r) = <<gate, source, title>>
    BY <2>1
  <2> HIDE DEF gate, source, title
  <2> QED BY <2>2, <2>3, ShortPlans
<1>11. CASE r.op = "search3" /\ r.all
  <2>1. Stages(r) = << {<<"artists", 0>>}, {<<"albums", 0>>}, {<<"tracks", 0>>} >>
    BY <1>11 DEF Stages, Search3
  <2> QED BY <2>1, ShortPlans, FirstQuery DEF Filtered
<1>12. CASE r.op = "search3" /\ ~r.all
  <2>1. Stages(r) = << {<<"findArtists", 0>>}, {<<"findAlbums", 0>>}, {<<"findTracks", 0>>} >>
    BY <1>12 DEF Stages, Search3
  <2> QED BY <2>1, ShortPlans, FirstQuery DEF Searches
<1> QED BY <1>1, <1>2, <1>3, <1>4, <1>5, <1>6, <1>7, <1>8, <1>9, <1>10, <1>11, <1>12 DEF ReadOps

-----------------------------------------------------------------------------
(***************************************************************************)
(* What a reader holds: a standing its user had, and cleared queries.      *)
(***************************************************************************)
Ready(t) ==
  /\ \E T : task[t].later \in Seq(T)
  /\ Cleared(task[t].todo, task[t].got)
  /\ \A i \in 1..Len(task[t].later) :
       Cleared(task[t].later[i], task[t].got \cup Opens(task[t].todo))

\* The view and the bypass of t are those of some moments since it reads.
HoldsStanding(t) ==
  /\ task[t].pc \in Reading => Standing(t) \in held[t]
  /\ task[t].pc \in {"viewerAdmin", "query"} => \E h \in held[t] : h[1] = task[t].view
  /\ task[t].pc = "query" => \E h \in held[t] : h[2] = task[t].bypass

Reader(t) == HoldsStanding(t) /\ (task[t].pc = "query" => Ready(t))

ReadersAreReady ==
  /\ Shape /\ IsFiniteSet(DOMAIN tracks)
  /\ \A t \in Tasks : Reader(t)

\* How the queries that are left go on, and what becomes of the answer.
LEMMA Continuing ==
  ASSUME Handlers, NEW t \in Tasks, NEW todo, NEW found, Continue(t, todo, found)
  PROVE  /\ task'[t].pc = task[t].pc /\ task'[t].me = task[t].me
         /\ task'[t].view = task[t].view /\ task'[t].bypass = task[t].bypass
         /\ task'[t].got = task[t].got \cup found
         /\ todo = {} /\ task[t].later # << >> =>
              task'[t].todo = Head(task[t].later) /\ task'[t].later = Tail(task[t].later)
         /\ ~(todo = {} /\ task[t].later # << >>) =>
              task'[t].todo = todo /\ task'[t].later = task[t].later
<1> IsHandler(task[t])
  BY DEF Handlers
<1> DEFINE next == todo = {} /\ task[t].later # << >>
           stage == IF next THEN Head(task[t].later) ELSE todo
           later == IF next THEN Tail(task[t].later) ELSE task[t].later
           h == EditItems(task[t], stage, later, task[t].got \cup found)
<1>1. task' = [task EXCEPT ![t] = h]
  <2>1. task' = [task EXCEPT ![t].todo = stage, ![t].later = IF next THEN Tail(@) ELSE @,
                             ![t].got = @ \cup found]
    BY DEF Continue
  <2> HIDE DEF next, stage
  <2>2. task' = [task EXCEPT ![t].todo = stage, ![t].later = later, ![t].got = task[t].got \cup found]
    BY <2>1
  <2> QED BY <2>2 DEF EditItems
<1>2. /\ IsHandler(h) /\ h.req = task[t].req /\ h.me = task[t].me /\ h.known = task[t].known
      /\ h.pc = task[t].pc /\ h.got = task[t].got \cup found /\ h.view = task[t].view
      /\ h.bypass = task[t].bypass /\ h.todo = stage /\ h.later = later
  <2> HIDE DEF stage, later
  <2> QED BY ItemsEdited
<1>3. task'[t] = h
  BY <1>1 DEF Handlers
<1> HIDE DEF h
<1> QED BY <1>2, <1>3

\* What a query leaves to be asked, and what it adds to the answer.
Asks(t, q, new, found) ==
  /\ q \in task[t].todo
  /\ Continue(t, (task[t].todo \ {q}) \cup new, found)
  /\ \/ /\ q[1] \in Searches \cup {"albumIds"} /\ found = {}
        /\ \A x \in new : x[1] \in {"foundTrack", "foundAlbum", "foundArtist"}
     \/ /\ q[1] \notin Searches \cup {"albumIds"} /\ new = {}
        /\ found = Finds(Req(t), Viewer(t), q)
        /\ q[1] \in Required => found # {}

\* One query is asked, and what it finds is added.
LEMMA Asking ==
  ASSUME NEW t \in Tasks, Query(t)
  PROVE  Reply(t, "notFound") \/ \E q, new, found : Asks(t, q, new, found)
<1>1. PICK q \in task[t].todo :
        LET rest == task[t].todo \ {q}
            found == Finds(Req(t), Viewer(t), q)
        IN  \/ /\ q[1] = "albumIds"
               /\ Continue(t, rest \cup {<<"foundAlbum", a>> :
                     a \in AlbumIdsForList(Viewer(t), Req(t).kind, Req(t).genre)}, {})
            \/ /\ q[1] \in Searches
               /\ \E ids \in SearchIds(Rows3[q[1]], 3 * SearchCount) :
                    Continue(t, rest \cup {<<Found3[q[1]], i>> : i \in ids}, {})
            \/ /\ q[1] \notin Searches \cup {"albumIds"}
               /\ q[1] \in Required => found # {}
               /\ Continue(t, rest, found)
            \/ /\ q[1] \in Required \cup {"title"} /\ found = {}
               /\ Reply(t, "notFound")
  BY DEF Query
<1>2. ASSUME NEW ids, q[1] = "albumIds",
             Continue(t, (task[t].todo \ {q}) \cup {<<"foundAlbum", a>> : a \in ids}, {})
      PROVE  \E new, found : Asks(t, q, new, found)
  <2>1. \A x \in {<<"foundAlbum", a>> : a \in ids} : x[1] = "foundAlbum"
    OBVIOUS
  <2>2. Asks(t, q, {<<"foundAlbum", a>> : a \in ids}, {})
    BY <1>2, <2>1 DEF Asks
  <2> QED BY <2>2
<1>3. ASSUME q[1] \in Searches, NEW ids,
             Continue(t, (task[t].todo \ {q}) \cup {<<Found3[q[1]], i>> : i \in ids}, {})
      PROVE  \E new, found : Asks(t, q, new, found)
  <2>1. Found3[q[1]] \in {"foundTrack", "foundAlbum", "foundArtist"}
    BY <1>3 DEF Found3, Searches
  <2>2. \A x \in {<<Found3[q[1]], i>> : i \in ids} : x[1] = Found3[q[1]]
    OBVIOUS
  <2>3. Asks(t, q, {<<Found3[q[1]], i>> : i \in ids}, {})
    BY <1>3, <2>1, <2>2 DEF Asks
  <2> QED BY <2>3
<1>4. ASSUME NEW found, found = Finds(Req(t), Viewer(t), q), q[1] \notin Searches \cup {"albumIds"},
             q[1] \in Required => found # {}, Continue(t, task[t].todo \ {q}, found)
      PROVE  Asks(t, q, {}, found)
  <2>1. (task[t].todo \ {q}) \cup {} = task[t].todo \ {q}
    OBVIOUS
  <2> QED BY <1>4, <2>1 DEF Asks
<1> QED BY <1>1, <1>2, <1>3, <1>4

\* A follower finds what the answer has already.
LEMMA FollowersAddNothing ==
  ASSUME NEW t \in Tasks, Ready(t), NEW q \in task[t].todo, q[1] \in Followers
  PROVE  Finds(Req(t), Viewer(t), q) \subseteq task[t].got
<1>1. CASE q[1] \in {"source", "title"}
  <2>1. Finds(Req(t), Viewer(t), q) = {<<"stream", x>> : x \in {q[2]} \cap DOMAIN tracks}
    BY <1>1 DEF Finds
  <2>2. <<"stream", q[2]>> \in task[t].got
    BY <1>1 DEF Ready, Cleared
  <2> QED BY <2>1, <2>2
<1>2. CASE q[1] = "object"
  <2>1. Finds(Req(t), Viewer(t), q) = {<<"cover", x>> : x \in {q[2]} \cap covers}
    BY <1>2 DEF Finds
  <2>2. <<"cover", q[2]>> \in task[t].got
    BY <1>2 DEF Ready, Cleared
  <2> QED BY <2>1, <2>2
<1> QED BY <1>1, <1>2 DEF Followers

\* What stays open after a query, and what it found, opens as much as before.
LEMMA OpenStays ==
  ASSUME NEW t \in Tasks, NEW q, NEW new, NEW found, Asks(t, q, new, found)
  PROVE  Opens(task[t].todo) \subseteq Opens((task[t].todo \ {q}) \cup new) \cup found
<1> DEFINE rest == (task[t].todo \ {q}) \cup new
<1>1. ASSUME NEW x \in task[t].todo, x[1] = "gate", <<"stream", x[2]>> \notin found
      PROVE  x \in rest
  <2>1. CASE x = q
    <3>1. q[1] \notin Searches \cup {"albumIds"} /\ q[1] \in Required
      BY <1>1, <2>1 DEF Searches, Required
    <3>2. found = Finds(Req(t), Viewer(t), q) /\ found # {}
      BY <3>1 DEF Asks
    <3>3. Finds(Req(t), Viewer(t), q) = IF CanAccessTrack(Viewer(t), q[2]) THEN {<<"stream", q[2]>>} ELSE {}
      BY <1>1, <2>1 DEF Finds
    <3> QED BY <1>1, <2>1, <3>2, <3>3
  <2> QED BY <2>1
<1>2. ASSUME NEW x \in task[t].todo, x[1] = "cover", <<"cover", x[2]>> \notin found
      PROVE  x \in rest
  <2>1. CASE x = q
    <3>1. q[1] \notin Searches \cup {"albumIds"} /\ q[1] \in Required
      BY <1>2, <2>1 DEF Searches, Required
    <3>2. found = Finds(Req(t), Viewer(t), q) /\ found # {}
      BY <3>1 DEF Asks
    <3>3. Finds(Req(t), Viewer(t), q) = IF CoverKeyVisible(Viewer(t), q[2]) THEN {<<"cover", q[2]>>} ELSE {}
      BY <1>2, <2>1 DEF Finds
    <3> QED BY <1>2, <2>1, <3>2, <3>3
  <2> QED BY <2>1
<1> HIDE DEF rest
<1>3. Opens(task[t].todo) \subseteq Opens(rest) \cup found
  BY <1>1, <1>2 DEF Opens
<1> QED BY <1>3 DEF rest

\* After a query the rest is as ready as it was.
LEMMA ReadyStays ==
  ASSUME Handlers, NEW t \in Tasks, Ready(t), NEW q, NEW new, NEW found, Asks(t, q, new, found)
  PROVE  Ready(t)'
<1> DEFINE rest == (task[t].todo \ {q}) \cup new
           got == task[t].got \cup found
           later == task[t].later
<1>1. Continue(t, rest, found)
  BY DEF Asks
<1>2. Opens(task[t].todo) \subseteq Opens(rest) \cup found
  BY OpenStays
<1>3. Cleared(rest, got)
  <2>1. Cleared(task[t].todo \ {q}, got)
    BY DEF Ready, Cleared
  <2>2. Cleared(new, got)
    BY DEF Asks, Cleared, Filtered, Followers
  <2> QED BY <2>1, <2>2 DEF Cleared
<1>4. \A i \in 1..Len(later) : Cleared(later[i], got \cup Opens(rest))
  <2>1. task[t].got \cup Opens(task[t].todo) \subseteq got \cup Opens(rest)
    BY <1>2
  <2> HIDE DEF got, rest
  <2> QED BY <2>1, ClearedForMore DEF Ready
<1>5. PICK T : later \in Seq(T)
  BY DEF Ready
<1> HIDE DEF rest, got, later
<1>6. CASE rest = {} /\ later # << >>
  <2>1. task'[t].todo = Head(later) /\ task'[t].later = Tail(later) /\ task'[t].got = got
    BY <1>1, <1>6, Continuing DEF later, got
  <2>2. Opens(rest) = {}
    BY <1>6 DEF Opens
  <2>3. /\ Len(later) \in Nat /\ Len(later) # 0 /\ Head(later) = later[1] /\ Tail(later) \in Seq(T)
        /\ Len(Tail(later)) = Len(later) - 1
        /\ \A i \in 1..Len(Tail(later)) : Tail(later)[i] = later[i + 1]
    BY <1>5, <1>6, HeadTailProperties, LenProperties, EmptySeq
  <2>4. Cleared(Head(later), got)
    BY <1>4, <2>2, <2>3
  <2>5. \A i \in 1..Len(Tail(later)) : Cleared(Tail(later)[i], got \cup Opens(Head(later)))
    <3>1. \A i \in 1..Len(Tail(later)) : i + 1 \in 1..Len(later)
      BY <2>3
    <3>2. \A i \in 1..Len(Tail(later)) : Cleared(Tail(later)[i], got \cup Opens(rest))
      BY <1>4, <2>3, <3>1
    <3>3. got \cup Opens(rest) \subseteq got \cup Opens(Head(later))
      BY <2>2
    <3> QED BY <3>2, <3>3, ClearedForMore
  <2> QED BY <2>1, <2>3, <2>4, <2>5 DEF Ready
<1>7. CASE ~(rest = {} /\ later # << >>)
  <2>1. task'[t].todo = rest /\ task'[t].later = later /\ task'[t].got = got
    BY <1>1, <1>7, Continuing DEF later, got
  <2> QED BY <1>3, <1>4, <1>5, <2>1 DEF Ready
<1> QED BY <1>6, <1>7

-----------------------------------------------------------------------------
(***************************************************************************)
(* The invariant.                                                          *)
(***************************************************************************)
\* Only scans write tracks, one at a time.
LEMMA TracksStayFinite ==
  ASSUME IsFiniteSet(DOMAIN tracks), [Next]_vars
  PROVE  IsFiniteSet(DOMAIN tracks)'
<1>1. CASE UNCHANGED tracks
  BY <1>1
<1>2. ASSUME NEW t \in Tasks, UpsertTrack(t)
      PROVE  IsFiniteSet(DOMAIN tracks)'
  <2>1. PICK id : DOMAIN tracks' = DOMAIN tracks \cup {id}
    BY <1>2 DEF UpsertTrack, With
  <2> QED BY <2>1, FS_AddElement
<1>3. ASSUME NEW t \in Tasks, Vanish(t)
      PROVE  IsFiniteSet(DOMAIN tracks)'
  <2>1. DOMAIN tracks' \subseteq DOMAIN tracks
    BY <1>3 DEF Vanish
  <2> QED BY <2>1, FS_Subset
<1>4. CASE UNCHANGED vars \/ Crash
  BY <1>1, <1>4 DEF vars, index, catalog, Crash
<1>5. ASSUME NEW t \in Tasks, Step(t)
      PROVE  IsFiniteSet(DOMAIN tracks)'
  <2>1. CASE Authenticate(t)
    BY <1>1, <2>1 DEF Authenticate, Arrive, ReadPassword, ReadUser, LoadUser, LoadRoles, OnlyTask,
       index, catalog
  <2>2. CASE CreateUser(t)
    BY <1>1, <2>2 DEF CreateUser, ListUsers, InsertUser, FindRole, MakeRole, AssignBuiltin,
       GetCreated, SetNewEmail, UndoCreate, OnlyTask, index, catalog
  <2>3. CASE ManageUser(t)
    BY <1>1, <2>3 DEF ManageUser, FindUser, GetUser, SetEmail, SetPassword, FindAdminRole,
       SetAdmin, DeleteUser, ChangePassword, OnlyTask, index, catalog
  <2>4. CASE ManageRole(t)
    BY <1>1, <2>4 DEF ManageRole, CreateRole, ReadBuiltin, DeleteRole, CheckUser, CheckRole,
       Assignment, OnlyTask, index, catalog
  <2>5. CASE ManageRule(t)
    BY <1>1, <2>5 DEF ManageRule, CheckScope, SetRule, GetRule, DeleteRule, OnlyTask, index, catalog
  <2>6. CASE Annotate(t) \/ SetCoverArt(t) \/ UpdateTags(t) \/ Abort(t)
    BY <1>1, <2>6 DEF Annotate, SetCoverArt, PutCover, UpdateCover, UndoCover, UpdateTags,
       CheckTrack, SetOverride, Abort, OnlyTask, OnlyCovers, index, catalog
  <2>7. CASE StoreCover(t) \/ UpsertArtist(t) \/ UpsertAlbum(t) \/ SetAlbumCover(t)
    BY <1>1, <2>7 DEF StoreCover, UpsertArtist, UpsertAlbum, SetAlbumCover, OnlyCovers, index, catalog
  <2>8. CASE Read(t)
    BY <1>1, <2>8 DEF Read, HasCover, ViewerRoles, ViewerAdmin, Query, Respond, OnlyTask, index, catalog
  <2> QED BY <1>2, <1>3, <1>5, <2>1, <2>2, <2>3, <2>4, <2>5, <2>6, <2>7, <2>8 DEF Step, Scan
<1> QED BY <1>4, <1>5 DEF Next

\* Who reads keeps what was remembered of it, and the present is added.
LEMMA HeldGrows ==
  ASSUME held' = Standings
  PROVE  \A t \in Tasks : task'[t].pc \in Reading =>
           held[t] \subseteq held'[t] /\ Standing(t)' \in held'[t]
  BY DEF Standings

\* Every step remembers.
LEMMA StepsRemember ==
  ASSUME NEW t \in Tasks, Step(t)
  PROVE  held' = Standings
  BY DEF Step, Authenticate, Arrive, ReadPassword, ReadUser, LoadUser, LoadRoles,
    CreateUser, ListUsers, InsertUser, FindRole, MakeRole, AssignBuiltin, GetCreated, SetNewEmail,
    UndoCreate, ManageUser, FindUser, GetUser, SetEmail, SetPassword, FindAdminRole, SetAdmin,
    DeleteUser, ChangePassword, ManageRole, CreateRole, ReadBuiltin, DeleteRole, CheckUser,
    CheckRole, Assignment, ManageRule, CheckScope, SetRule, GetRule, DeleteRule, Annotate,
    SetCoverArt, PutCover, UpdateCover, UndoCover, UpdateTags, CheckTrack, SetOverride,
    Scan, StoreCover, UpsertArtist, UpsertAlbum, SetAlbumCover, UpsertTrack, Vanish,
    Read, HasCover, ViewerRoles, ViewerAdmin, Query, Respond, Abort,
    OnlyTask, OnlyIndex, OnlyCovers, Recorded

\* A reader that does not move stays one.
LEMMA ReaderStays ==
  ASSUME NEW t \in Tasks, Reader(t), held' = Standings, task'[t] = task[t]
  PROVE  Reader(t)'
<1>1. Ready(t) => Ready(t)'
  BY DEF Ready
<1>2. task'[t].pc \in Reading => held[t] \subseteq held'[t] /\ Standing(t)' \in held'[t]
  BY HeldGrows
<1> QED BY <1>1, <1>2 DEF Reader, HoldsStanding, Reading

\* Nobody comes to read but by the steps of a reader, or at the first of them.
LEMMA OthersDoNotRead ==
  ASSUME Shape, NEW t \in Tasks, Step(t), ~Read(t)
  PROVE  task'[t].pc \notin {"viewerAdmin", "query"}
<1>1. CASE Authenticate(t)
  <2>1. CASE Arrive(t)
    BY <2>1, Arriving
  <2>2. CASE ~Arrive(t)
    BY <1>1, <2>2, DoorLands DEF Authenticate, Enters, Firsts
  <2> QED BY <2>1, <2>2
<1>2. CASE CreateUser(t)
  BY <1>2, CreateUserLands DEF Lands
<1>3. CASE ManageUser(t)
  BY <1>3, ManageUserLands DEF Lands
<1>4. CASE ManageRole(t) \/ ManageRule(t)
  BY <1>4, ManageRoleLands, ManageRuleLands DEF Lands
<1>5. CASE Annotate(t) \/ SetCoverArt(t) \/ UpdateTags(t) \/ Scan(t)
  BY <1>5, AnnotateLands, SetCoverArtLands, UpdateTagsLands, ScanLands DEF Lands
<1>6. CASE Abort(t)
  BY <1>6, Replying DEF Abort, Shape
<1> QED BY <1>1, <1>2, <1>3, <1>4, <1>5, <1>6 DEF Step

\* A reader that goes on stays ready.
LEMMA ReadKeepsReaders ==
  ASSUME ReadersAreReady, NEW t \in Tasks, Read(t), held' = Standings
  PROVE  Reader(t)'
<1> Handlers /\ IsHandler(task[t]) /\ Reader(t)
  BY DEF ReadersAreReady, Shape, Handlers
<1>1. task'[t].pc \in Reading => held[t] \subseteq held'[t] /\ Standing(t)' \in held'[t]
  BY HeldGrows
<1>2. CASE \E a : Reply(t, a)
  BY <1>2, Replying DEF Reader, HoldsStanding, Reading
<1>3. CASE HasCover(t)
  BY <1>1, <1>2, <1>3, Going DEF HasCover, Moves, Reader, HoldsStanding
<1>4. CASE ViewerRoles(t)
  <2> DEFINE h == EditView(task[t], "viewerAdmin", RolesOf(task[t].me))
  <2>1. task' = [task EXCEPT ![t] = h] /\ task[t].pc = "viewerRoles"
    BY <1>4 DEF ViewerRoles, EditView, At
  <2>2. h.pc = "viewerAdmin" /\ h.view = RolesOf(task[t].me)
    BY ViewEdited
  <2>3. task'[t] = h
    BY <2>1 DEF Handlers
  <2> HIDE DEF h
  <2>4. task'[t].pc = "viewerAdmin" /\ task'[t].view = Standing(t)[1] /\ Standing(t) \in held[t]
    BY <2>1, <2>2, <2>3 DEF Reader, HoldsStanding, Reading, Standing
  <2> QED BY <1>1, <2>4 DEF Reader, HoldsStanding, Reading
<1>5. CASE ViewerAdmin(t)
  <2> DEFINE s == Stages(Req(t))
             first == Head(s)
             rest == Tail(s)
             h == EditQueries(task[t], "query", IsAdmin(task[t].me), first, rest)
  <2>1. task' = [task EXCEPT ![t] = h] /\ task[t].pc = "viewerAdmin"
    BY <1>5 DEF ViewerAdmin, EditQueries, At
  <2>2. h.pc = "query" /\ h.view = task[t].view /\ h.bypass = IsAdmin(task[t].me)
          /\ h.todo = first /\ h.later = rest
    <3> HIDE DEF first, rest
    <3> QED BY QueriesEdited
  <2>3. task'[t] = h
    BY <2>1 DEF Handlers
  <2> HIDE DEF h
  <2>4. Planned(s)
    BY <2>1, PlansAreCleared DEF ReadersAreReady, Shape, Readers, Op
  <2> HIDE DEF s
  <2>5. Ready(t)'
    <3>1. PICK T : s \in Seq(T) /\ s # << >>
      BY <2>4 DEF Planned
    <3>2. Tail(s) \in Seq(T)
      BY <3>1, HeadTailProperties
    <3>3. \A i \in 1..Len(Tail(s)) : Cleared(Tail(s)[i], task'[t].got \cup Opens(Head(s)))
      <4>1. Opens(Head(s)) \subseteq task'[t].got \cup Opens(Head(s))
        OBVIOUS
      <4> QED BY <2>4, <4>1, ClearedForMore DEF Planned
    <3>4. Cleared(Head(s), task'[t].got)
      <4>1. {} \subseteq task'[t].got
        OBVIOUS
      <4> QED BY <2>4, <4>1, ClearedForMore DEF Planned
    <3> QED BY <2>2, <2>3, <3>2, <3>3, <3>4 DEF Ready
  <2>6. /\ task'[t].pc = "query" /\ task'[t].view = task[t].view
        /\ task'[t].bypass = Standing(t)[2] /\ Standing(t) \in held[t]
    BY <2>1, <2>2, <2>3 DEF Reader, HoldsStanding, Reading, Standing
  <2> QED BY <1>1, <2>1, <2>5, <2>6 DEF Reader, HoldsStanding, Reading
<1>6. CASE Query(t)
  <2>1. task[t].pc = "query"
    BY <1>6 DEF Query, At
  <2>2. ASSUME NEW q, NEW new, NEW found, Asks(t, q, new, found)
        PROVE  Reader(t)'
    <3>1. Ready(t)'
      BY <2>1, <2>2, ReadyStays DEF Reader
    <3>2. task'[t].pc = "query" /\ task'[t].view = task[t].view /\ task'[t].bypass = task[t].bypass
      BY <2>1, <2>2, Continuing DEF Asks
    <3> QED BY <1>1, <2>1, <3>1, <3>2 DEF Reader, HoldsStanding, Reading
  <2> QED BY <1>2, <1>6, <2>2, Asking
<1> QED BY <1>2, <1>3, <1>4, <1>5, <1>6 DEF Read, Respond

\* Every step keeps all readers ready.
LEMMA ReadersStayReady ==
  ASSUME ReadersAreReady, [Next]_vars
  PROVE  ReadersAreReady'
<1>1. IsFiniteSet(DOMAIN tracks)'
  BY TracksStayFinite DEF ReadersAreReady
<1>2. CASE UNCHANGED vars
  <2>1. Shape'
    BY <1>2 DEF ReadersAreReady, Shape, Handlers, vars, history, Op, Req
  <2>2. \A t \in Tasks : Ready(t) <=> Ready(t)'
    BY <1>2 DEF Ready, vars
  <2>3. \A t \in Tasks : Standing(t)' = Standing(t)
    BY <1>2 DEF Standing, RolesOf, IsAdmin, vars, index, accounts
  <2> QED BY <1>1, <1>2, <2>1, <2>2, <2>3 DEF ReadersAreReady, Reader, HoldsStanding, vars, history
<1>3. CASE Crash
  <2>1. Shape' /\ \A x \in Tasks : task'[x] = task[x] \/ task'[x].pc \in {"done", "listUsers"}
    BY <1>3, CrashLands DEF ReadersAreReady
  <2>2. held' = Standings
    BY <1>3 DEF Crash
  <2>3. ASSUME NEW x \in Tasks PROVE Reader(x)'
    <3>1. CASE task'[x] = task[x]
      BY <2>2, <3>1, ReaderStays DEF ReadersAreReady
    <3>2. CASE task'[x].pc \in {"done", "listUsers"}
      BY <3>2 DEF Reader, HoldsStanding, Reading
    <3> QED BY <2>1, <3>1, <3>2
  <2> QED BY <1>1, <2>1, <2>3 DEF ReadersAreReady
<1>4. ASSUME NEW t \in Tasks, Step(t)
      PROVE  ReadersAreReady'
  <2>1. held' = Standings
    BY <1>4, StepsRemember
  <2>2. Shape' /\ \A x \in Tasks \ {t} : task'[x] = task[x]
    BY <1>4, StepsLand, Arriving DEF ReadersAreReady
  <2>3. Reader(t)'
    <3>1. CASE Read(t)
      BY <2>1, <3>1, ReadKeepsReaders
    <3>2. CASE ~Read(t)
      <4>1. task'[t].pc \notin {"viewerAdmin", "query"}
        BY <1>4, <3>2, OthersDoNotRead DEF ReadersAreReady
      <4> QED BY <2>1, <4>1, HeldGrows DEF Reader, HoldsStanding
    <3> QED BY <3>1, <3>2
  <2>4. \A x \in Tasks \ {t} : Reader(x)'
    BY <2>1, <2>2, ReaderStays DEF ReadersAreReady
  <2> QED BY <1>1, <2>2, <2>3, <2>4 DEF ReadersAreReady
<1> QED BY <1>2, <1>3, <1>4 DEF Next

\* Whatever enters an answer was allowed by the rules of that moment to a user
\* with the roles and the standing its user has had since the request reads,
\* however users, roles, rules and the library changed between its queries.
THEOREM Answered == Spec => AnswersAreAllowed
<1> DEFINE A == \A t \in Task : \A i \in task'[t].got \ task[t].got : \E h1, h2 \in held[t] :
                  Allowed([user |-> task[t].me, roles |-> h1[1], admin |-> h2[2]], i)
<1>1. Init => ReadersAreReady
  <2> SUFFICES ASSUME Init PROVE ReadersAreReady
    OBVIOUS
  <2>1. IsFiniteSet(DOMAIN tracks)
    BY StartsAssumption DEF Init
  <2> QED BY <2>1, Beginning DEF ReadersAreReady, Reader, HoldsStanding, Reading
<1>2. ReadersAreReady /\ [Next]_vars => ReadersAreReady'
  BY ReadersStayReady
<1>3. ReadersAreReady /\ [Next]_vars => [A]_vars
  <2> SUFFICES ASSUME ReadersAreReady, Next,
                      NEW t \in Task, NEW i \in task'[t].got \ task[t].got
               PROVE  \E h1, h2 \in held[t] :
                        Allowed([user |-> task[t].me, roles |-> h1[1], admin |-> h2[2]], i)
    OBVIOUS
  <2>1. t \in Tasks
    BY DEF Tasks
  <2>2. ~Crash
    BY CrashLands DEF ReadersAreReady
  <2>3. PICK x \in Tasks : Step(x)
    BY <2>2 DEF Next
  <2>4. x = t
    BY <2>1, <2>3, StepsLand, Arriving DEF ReadersAreReady
  <2>5. Query(t)
    BY <2>3, <2>4, StepsLand, Arriving DEF ReadersAreReady
  <2>6. ~Reply(t, "notFound")
    BY <2>1, Replying DEF ReadersAreReady, Shape
  <2>7. PICK q, new, found : Asks(t, q, new, found)
    BY <2>1, <2>5, <2>6, Asking
  <2>8. i \in found
    BY <2>1, <2>7, Continuing DEF Asks, ReadersAreReady, Shape
  <2>9. Ready(t) /\ task[t].pc = "query"
    BY <2>1, <2>5 DEF ReadersAreReady, Reader, Query, At
  <2>10. /\ q \in task[t].todo /\ q[1] \notin Searches \cup {"albumIds"}
         /\ i \in Finds(Req(t), Viewer(t), q)
    BY <2>7, <2>8 DEF Asks
  <2>11. q[1] \in Filtered \cup Followers
    BY <2>9, <2>10 DEF Ready, Cleared
  <2>12. q[1] \notin Followers
    BY <2>1, <2>9, <2>10, FollowersAddNothing
  <2>13. Allowed(Viewer(t), i)
    BY <2>10, <2>11, <2>12, FindsAllowed DEF ReadersAreReady
  <2>14. PICK h1 \in held[t], h2 \in held[t] : h1[1] = task[t].view /\ h2[2] = task[t].bypass
    BY <2>1, <2>9 DEF ReadersAreReady, Reader, HoldsStanding
  <2>15. Viewer(t) = [user |-> task[t].me, roles |-> h1[1], admin |-> h2[2]]
    BY <2>14 DEF Viewer
  <2> QED BY <2>13, <2>15
<1> QED BY <1>1, <1>2, <1>3, PTL DEF Spec, AnswersAreAllowed

-----------------------------------------------------------------------------
(***************************************************************************)
(* The queries tell a user one story.                                      *)
(***************************************************************************)
\* Sets whose members correspond one to one are counted alike.
LEMMA SameCount ==
  ASSUME NEW S, IsFiniteSet(S), NEW T, NEW f \in [S -> T],
         \A x, y \in S : f[x] = f[y] => x = y,
         \A z \in T : \E x \in S : f[x] = z
  PROVE  Cardinality(T) = Cardinality(S)
<1>1. f \in Bijection(S, T)
  BY DEF Bijection, Injection, Surjection, IsInjective
<1>2. ExistsBijection(S, T)
  BY <1>1 DEF ExistsBijection
<1> QED BY <1>2, FS_Bijection

\* The rows of the library are finitely many.
FewRows == IsFiniteSet(DOMAIN tracks) /\ IsFiniteSet(DOMAIN albums)

\* Ids behind a counter are finitely many.
LEMMA IssuedAreFew ==
  ASSUME IssuedIds
  PROVE  FewRows
<1>1. last.tracks \in Int /\ last.albums \in Int
  BY DEF IssuedIds, Tables
<1>2. \A n \in Int : IsFiniteSet(1..n)
  BY FS_Interval
<1> QED BY <1>1, <1>2, FS_Subset DEF IssuedIds, FewRows

\* HAVING counts what EXISTS finds: an album is kept by one when the other
\* keeps it, and has songs when a track of it is visible.
LEMMA HavingIsExists ==
  ASSUME FewRows, NEW v, NEW a
  PROVE  /\ SongCount(v, a) > 0 <=> HasVisibleTrack(v, TracksOn(a))
         /\ AlbumVisibleHaving(v, a) <=> AlbumVisible(v, a)
<1>1. IsFiniteSet(TracksOn(a)) /\ IsFiniteSet({t \in TracksOn(a) : Visible(v, t)})
  BY FS_Subset DEF FewRows, TracksOn
<1>2. SongCount(v, a) > 0 <=> HasVisibleTrack(v, TracksOn(a))
  BY <1>1, Counting DEF SongCount, HasVisibleTrack
<1>3. Cardinality(TracksOn(a)) = 0 <=> TracksOn(a) = {}
  BY <1>1, Counting
<1> QED BY <1>2, <1>3 DEF AlbumVisibleHaving, AlbumVisible

\* What the lists of albums and of artists hold.
LEMMA ListedIds ==
  ASSUME FewRows, NEW v
  PROVE  /\ {i[2] : i \in ListAlbumsVisible(v)} = {a \in DOMAIN albums : AlbumVisible(v, a)}
         /\ {i[2] : i \in ListArtistsVisible(v)} = {r \in DOMAIN artists : ArtistVisible(v, r)}
<1>1. ListAlbumsVisible(v) =
        {<<"album", a, SongCount(v, a)>> : a \in {x \in DOMAIN albums : AlbumVisible(v, x)}}
  BY HavingIsExists DEF ListAlbumsVisible, AlbumsVisible
<1>2. ListArtistsVisible(v) =
        {<<"artist", r, AlbumCount(v, r)>> : r \in {x \in DOMAIN artists : ArtistVisible(v, x)}}
  BY DEF ListArtistsVisible, ArtistsVisible
<1> DEFINE A == {a \in DOMAIN albums : AlbumVisible(v, a)}
           R == {r \in DOMAIN artists : ArtistVisible(v, r)}
<1>3. {i[2] : i \in ListAlbumsVisible(v)} = A
  <2> HIDE DEF A
  <2>1. \A a : <<"album", a, SongCount(v, a)>>[2] = a
    OBVIOUS
  <2>2. \A i \in ListAlbumsVisible(v) : i[2] \in A
    BY <1>1, <2>1 DEF A
  <2>3. \A a \in A : \E i \in ListAlbumsVisible(v) : a = i[2]
    BY <1>1, <2>1 DEF A
  <2> QED BY <2>2, <2>3
<1>4. {i[2] : i \in ListArtistsVisible(v)} = R
  <2> HIDE DEF R
  <2>1. \A r : <<"artist", r, AlbumCount(v, r)>>[2] = r
    OBVIOUS
  <2>2. \A i \in ListArtistsVisible(v) : i[2] \in R
    BY <1>2, <2>1 DEF R
  <2>3. \A r \in R : \E i \in ListArtistsVisible(v) : r = i[2]
    BY <1>2, <2>1 DEF R
  <2> QED BY <2>2, <2>3
<1> QED BY <1>3, <1>4

\* The page of an album holds as many songs as the list says.
LEMMA PagesHaveTheSongs ==
  ASSUME FewRows, NEW v, NEW i \in ListAlbumsVisible(v)
  PROVE  i[3] = Cardinality(AlbumTracksVisible(v, i[2]))
<1>1. PICK a \in DOMAIN albums : i = <<"album", a, SongCount(v, a)>>
  BY DEF ListAlbumsVisible, AlbumsVisible
<1> DEFINE S == {t \in TracksOn(a) : Visible(v, t)}
           T == AlbumTracksVisible(v, a)
           f == [t \in S |-> TrackItem(t)]
<1>2. IsFiniteSet(S)
  BY FS_Subset DEF FewRows, TracksOn
<1>3. T = {TrackItem(t) : t \in S}
  BY DEF AlbumTracksVisible
<1>4. f \in [S -> T] /\ \A z \in T : \E x \in S : f[x] = z
  BY <1>3
<1>5. \A x, y \in S : f[x] = f[y] => x = y
  BY DEF TrackItem
<1>6. Cardinality(T) = Cardinality(S)
  <2> HIDE DEF S, T, f
  <2> QED BY <1>2, <1>4, <1>5, SameCount
<1>7. i[2] = a /\ i[3] = Cardinality(S)
  BY <1>1 DEF SongCount
<1> QED BY <1>6, <1>7

\* The page of an artist holds as many albums with songs as the list says.
LEMMA PagesHaveTheAlbums ==
  ASSUME FewRows, NEW v, NEW i \in ListArtistsVisible(v)
  PROVE  i[3] = Cardinality({a \in ArtistAlbumsVisible(v, i[2]) : a[3] > 0})
<1>1. PICK r \in DOMAIN artists : i = <<"artist", r, AlbumCount(v, r)>>
  BY DEF ListArtistsVisible, ArtistsVisible
<1> DEFINE S == {a \in AlbumsBy(r) : HasVisibleTrack(v, TracksOn(a))}
           T == {a \in ArtistAlbumsVisible(v, r) : a[3] > 0}
           f == [a \in S |-> <<"album", a, SongCount(v, a)>>]
<1>2. IsFiniteSet(S)
  BY FS_Subset DEF FewRows, AlbumsBy
<1>3. S = {a \in AlbumsBy(r) : SongCount(v, a) > 0}
  BY HavingIsExists
<1>4. T = {<<"album", a, SongCount(v, a)>> : a \in S}
  <2>1. ASSUME NEW z \in T PROVE \E a \in S : z = <<"album", a, SongCount(v, a)>>
    <3>1. PICK a \in AlbumsBy(r) : z = <<"album", a, SongCount(v, a)>>
      BY DEF ArtistAlbumsVisible, AlbumsVisible
    <3> QED BY <1>3, <3>1
  <2>2. ASSUME NEW a \in S PROVE <<"album", a, SongCount(v, a)>> \in T
    BY <1>3 DEF ArtistAlbumsVisible, AlbumsVisible, AlbumVisibleHaving
  <2> QED BY <2>1, <2>2
<1>5. f \in [S -> T] /\ \A z \in T : \E x \in S : f[x] = z
  BY <1>4
<1>6. \A x, y \in S : f[x] = f[y] => x = y
  OBVIOUS
<1>7. Cardinality(T) = Cardinality(S)
  <2> HIDE DEF S, T, f
  <2> QED BY <1>2, <1>5, <1>6, SameCount
<1>8. i[2] = r /\ i[3] = Cardinality(S)
  BY <1>1 DEF AlbumCount
<1> QED BY <1>7, <1>8

\* A track that a user sees is under an album and an artist that the user sees,
\* and its cover is shown.
LEMMA SeenInItsPlace ==
  ASSUME TypeOK, NEW v, NEW t \in SeenTracks(v)
  PROVE  /\ tracks[t].album # Null =>
              /\ tracks[t].album \in DOMAIN albums /\ AlbumVisible(v, tracks[t].album)
              /\ albums[tracks[t].album].cover # Null =>
                   CoverKeyVisible(v, albums[tracks[t].album].cover)
         /\ tracks[t].artist # Null =>
              tracks[t].artist \in DOMAIN artists /\ ArtistVisible(v, tracks[t].artist)
<1>1. t \in DOMAIN tracks /\ Visible(v, t)
  BY DEF SeenTracks
<1>2. /\ tracks[t].album \in DOMAIN albums \cup {Null}
      /\ tracks[t].artist \in DOMAIN artists \cup {Null}
  BY <1>1 DEF TypeOK
<1>3. HasVisibleTrack(v, TracksOn(tracks[t].album)) /\ HasVisibleTrack(v, TracksBy(tracks[t].artist))
  BY <1>1 DEF HasVisibleTrack, TracksOn, TracksBy
<1> QED BY <1>2, <1>3 DEF AlbumVisible, ArtistVisible, CoverKeyVisible

\* An administrator is shown all there is.
LEMMA AdministratorsSeeAll ==
  ASSUME FewRows, NEW v, v.admin
  PROVE  /\ ListTracksVisible(v) = ListTracks /\ ListAlbumsVisible(v) = ListAlbums
         /\ ListGenresVisible(v) = ListGenres
         /\ {r \in DOMAIN artists : ArtistVisible(v, r)} = {i[2] : i \in ListArtists}
<1>1. \A t : Visible(v, t)
  BY DEF Visible
<1>2. SeenTracks(v) = DOMAIN tracks
  BY <1>1 DEF SeenTracks
<1>3. \A a : SongCount(v, a) = Cardinality(TracksOn(a))
  <2> SUFFICES ASSUME NEW a PROVE {t \in TracksOn(a) : Visible(v, t)} = TracksOn(a)
    BY DEF SongCount
  <2> QED BY <1>1
<1>4. \A a : AlbumVisible(v, a)
  BY <1>1 DEF AlbumVisible, HasVisibleTrack
<1>5. ListAlbumsVisible(v) = {<<"album", a, Cardinality(TracksOn(a))>> : a \in DOMAIN albums}
  BY <1>3, <1>4, HavingIsExists DEF ListAlbumsVisible, AlbumsVisible
<1>6. ListAlbums = {<<"album", a, Cardinality(TracksOn(a))>> : a \in DOMAIN albums}
  <2>1. \A a \in DOMAIN albums : GetAlbum(a) = {<<"album", a, Cardinality(TracksOn(a))>>}
    BY DEF GetAlbum
  <2> QED BY <2>1 DEF ListAlbums
<1>7. \A r : ArtistVisible(v, r)
  BY <1>1 DEF ArtistVisible, HasVisibleTrack
<1>8. DOMAIN artists = {i[2] : i \in ListArtists}
  <2>1. \A r \in DOMAIN artists : GetArtist(r) = {<<"artist", r, Cardinality(AlbumsBy(r))>>}
    BY DEF GetArtist
  <2>2. \A r : <<"artist", r, Cardinality(AlbumsBy(r))>>[2] = r
    OBVIOUS
  <2>3. \A i \in ListArtists : i[2] \in DOMAIN artists
    BY <2>1, <2>2 DEF ListArtists
  <2>4. \A r \in DOMAIN artists : \E i \in ListArtists : r = i[2]
    BY <2>1, <2>2 DEF ListArtists
  <2> QED BY <2>3, <2>4
<1>9. {r \in DOMAIN artists : ArtistVisible(v, r)} = DOMAIN artists
  BY <1>7
<1> QED BY <1>2, <1>5, <1>6, <1>8, <1>9
       DEF ListTracksVisible, ListTracks, ListGenresVisible, ListGenres

\* The lists agree in every state whose keys hold.
LEMMA Agreeing ==
  ASSUME TypeOK, FewRows, NEW v
  PROVE  ListingsAgreeFor(v)
<1> DEFINE albumIds == {i[2] : i \in ListAlbumsVisible(v)}
           artistIds == {i[2] : i \in ListArtistsVisible(v)}
<1>1. /\ albumIds = {a \in DOMAIN albums : AlbumVisible(v, a)}
      /\ artistIds = {r \in DOMAIN artists : ArtistVisible(v, r)}
  BY ListedIds
<1> HIDE DEF albumIds, artistIds
<1>2. albumIds = AlbumIdsForList(v, "all", Null)
  BY <1>1 DEF AlbumIdsForList
<1>3. AlbumIdsForList(v, "frequent", Null) \cup AlbumIdsForList(v, "starred", Null) \subseteq albumIds
  <2>1. AlbumIdsForList(v, "starred", Null) \subseteq albumIds
    BY <1>1 DEF AlbumIdsForList
  <2>2. ASSUME NEW a \in AlbumIdsForList(v, "frequent", Null) PROVE a \in albumIds
    <3>1. a \in DOMAIN albums /\ HasVisibleTrack(v, TracksOn(a) \cap Played(v.user))
      BY DEF AlbumIdsForList
    <3>2. AlbumVisible(v, a)
      BY <3>1 DEF HasVisibleTrack, AlbumVisible
    <3> QED BY <1>1, <3>1, <3>2
  <2> QED BY <2>1, <2>2
<1>4. \A t \in SeenTracks(v) :
        /\ tracks[t].album \in albumIds \cup {Null}
        /\ tracks[t].artist \in artistIds \cup {Null}
        /\ tracks[t].album # Null /\ albums[tracks[t].album].cover # Null =>
             CoverKeyVisible(v, albums[tracks[t].album].cover)
  BY <1>1, SeenInItsPlace
<1>5. \A i \in ListAlbumsVisible(v) : i[3] = Cardinality(AlbumTracksVisible(v, i[2]))
  BY PagesHaveTheSongs
<1>6. \A i \in ListArtistsVisible(v) :
        i[3] = Cardinality({a \in ArtistAlbumsVisible(v, i[2]) : a[3] > 0})
  BY PagesHaveTheAlbums
<1>7. v.admin => /\ ListTracksVisible(v) = ListTracks /\ ListAlbumsVisible(v) = ListAlbums
                 /\ ListGenresVisible(v) = ListGenres
                 /\ artistIds = {i[2] : i \in ListArtists}
  BY <1>1, AdministratorsSeeAll
<1> QED BY <1>2, <1>3, <1>4, <1>5, <1>6, <1>7, MostSpecificRuleDecides
       DEF ListingsAgreeFor, albumIds, artistIds

\* At every moment the queries tell every user one story: WHERE, HAVING and
\* EXISTS, written one by one, keep the same items and count the same songs,
\* and what a visible track hangs on is visible.
THEOREM OneStory == Spec => []ListingsAgree
<1>1. RulesOfIssued => FewRows
  BY IssuedAreFew DEF RulesOfIssued
<1>2. TypeOK /\ FewRows => ListingsAgree
  BY Agreeing DEF ListingsAgree
<1> QED BY <1>1, <1>2, IssuedAlways, Typing, PTL
=============================================================================
