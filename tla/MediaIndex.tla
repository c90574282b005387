----------------------------- MODULE MediaIndex -----------------------------
(***************************************************************************)
(* The SQLite index as browsing, search, media delivery and access control *)
(* see it (server/src/index/): the tables, and every query that reads the  *)
(* library on behalf of a user, as a state function.  One query is one     *)
(* consistent read; what happens between two queries is AccessControl's.   *)
(*                                                                         *)
(* A query returns a set of items, <<"track", t>>, <<"album", a, songs>>,  *)
(* <<"artist", r, albums>> or <<"genre", g, songs, albums>>: the columns   *)
(* that only decorate an item, and the order of a listing, are left out.   *)
(***************************************************************************)
EXTENDS Integers, FiniteSets, FiniteSetsExt

CONSTANT Null   \* SQL's NULL

ASSUME NullAssumption == Null \notin {0, 1}

VARIABLES
  users,        \* users[u]: name, password, email
  roles,        \* roles[r]: name, builtin
  userRoles,    \* pairs of a user and a role
  rules,        \* rules[scope]: the rule's id and its grants
  annotations,  \* annotations[<<user, kind, item>>]: starred, rating, plays
  tracks,       \* tracks[t]: object key, album, artist, genre
  genreTags,    \* genreTags[t]: the override of t's genre, where there is one
  albums,       \* albums[a]: name, artist, genre, cover
  artists       \* artists[r]: name, cover

accounts == <<users, roles, userRoles>>
catalog == <<tracks, genreTags, albums, artists>>
index == <<accounts, rules, annotations, catalog>>

(***************************************************************************)
(* Who asks.  role_ids and admin are two queries: the handlers read them   *)
(* one after the other.                                                    *)
(***************************************************************************)
RolesOf(u) == {r \in DOMAIN roles : <<u, r>> \in userRoles}
IsAdmin(u) == \E r \in RolesOf(u) : roles[r].name = "admin"
ViewerOf(u) == [user |-> u, roles |-> RolesOf(u), admin |-> IsAdmin(u)]

UserNamed(n) == {u \in DOMAIN users : users[u].name = n}
RoleNamed(n) == {r \in DOMAIN roles : roles[r].name = n}

(***************************************************************************)
(* The predicate that is put into every query.                             *)
(***************************************************************************)
Genre(t) == IF t \in DOMAIN genreTags THEN genreTags[t] ELSE tracks[t].genre

PrincipalMatch(v) == {<<"user", v.user>>} \cup {<<"role", r>> : r \in v.roles}

LevelVerdict(v, scope) ==
  IF scope \notin DOMAIN rules THEN Null
  ELSE IF rules[scope].grants \cap PrincipalMatch(v) # {} THEN 1 ELSE 0

Coalesce(a, b) == IF a = Null THEN b ELSE a

Visible(v, t) ==
  \/ v.admin
  \/ Coalesce(LevelVerdict(v, <<"track", t>>),
       Coalesce(LevelVerdict(v, <<"album", tracks[t].album>>),
         Coalesce(LevelVerdict(v, <<"artist", tracks[t].artist>>),
           Coalesce(LevelVerdict(v, <<"genre", Genre(t)>>), 1)))) = 1

\* can_access_track: an administrator passes without a look at the row.
CanAccessTrack(v, t) == v.admin \/ (t \in DOMAIN tracks /\ Visible(v, t))

SeenTracks(v) == {t \in DOMAIN tracks : Visible(v, t)}

(***************************************************************************)
(* The rule of a track, level by level (AccessRepo::effective_rule).       *)
(***************************************************************************)
Levels(t) == << <<"track", t>>, <<"album", tracks[t].album>>,
                <<"artist", tracks[t].artist>>, <<"genre", Genre(t)>> >>

Decides(t, i) ==
  Levels(t)[i] \in DOMAIN rules /\ \A j \in 1..(i - 1) : Levels(t)[j] \notin DOMAIN rules

May(v, t) ==
  \/ v.admin
  \/ \A i \in 1..4 :
       Decides(t, i) => rules[Levels(t)[i]].grants \cap PrincipalMatch(v) # {}

(***************************************************************************)
(* Tracks, albums and artists, unfiltered.                                 *)
(***************************************************************************)
TracksOn(a) == {t \in DOMAIN tracks : tracks[t].album = a}
TracksBy(r) == {t \in DOMAIN tracks : tracks[t].artist = r}
AlbumsBy(r) == {a \in DOMAIN albums : albums[a].artist = r}

TrackItem(t) == <<"track", t>>
GetTrack(t) == {TrackItem(x) : x \in {t} \cap DOMAIN tracks}
ListTracks == {TrackItem(t) : t \in DOMAIN tracks}
GetAlbum(a) == {<<"album", x, Cardinality(TracksOn(x))>> : x \in {a} \cap DOMAIN albums}
ListAlbums == UNION {GetAlbum(a) : a \in DOMAIN albums}
GetArtist(r) == {<<"artist", x, Cardinality(AlbumsBy(x))>> : x \in {r} \cap DOMAIN artists}
ListArtists == UNION {GetArtist(r) : r \in DOMAIN artists}

GenreItem(g, ts) ==
  LET of == {t \in ts : Genre(t) = g}
  IN  <<"genre", g, Cardinality(of), Cardinality({tracks[t].album : t \in of} \ {Null})>>
GenresOf(ts) == {GenreItem(g, ts) : g \in {Genre(t) : t \in ts} \ {Null}}
ListGenres == GenresOf(DOMAIN tracks)

(***************************************************************************)
(* The same for a viewer.  Albums join their visible tracks and are kept   *)
(* by HAVING; artists and the album lists ask with EXISTS.                 *)
(***************************************************************************)
GetTrackVisible(v, t) == {TrackItem(x) : x \in {y \in {t} \cap DOMAIN tracks : Visible(v, y)}}
\* mutant: getAlbum lists its tracks with tracks_by_album
AlbumTracksUnfiltered(v, a) == {TrackItem(t) : t \in TracksOn(a)}
AlbumTracksVisible(v, a) == {TrackItem(t) : t \in {x \in TracksOn(a) : Visible(v, x)}}
ListTracksVisible(v) == {TrackItem(t) : t \in SeenTracks(v)}

SongCount(v, a) == Cardinality({t \in TracksOn(a) : Visible(v, t)})
\* mutant: HAVING without the arm for albums that have no track at all
HavingVisibleOnly(v, a) == SongCount(v, a) > 0
AlbumVisibleHaving(v, a) == SongCount(v, a) > 0 \/ Cardinality(TracksOn(a)) = 0
AlbumsVisible(v, as) == {<<"album", a, SongCount(v, a)>> :
                           a \in {x \in as : AlbumVisibleHaving(v, x)}}
GetAlbumVisible(v, a) == AlbumsVisible(v, {a} \cap DOMAIN albums)
ListAlbumsVisible(v) == AlbumsVisible(v, DOMAIN albums)
ArtistAlbumsVisible(v, r) == AlbumsVisible(v, AlbumsBy(r))

HasVisibleTrack(v, ts) == \E t \in ts : Visible(v, t)
ArtistVisible(v, r) == HasVisibleTrack(v, TracksBy(r)) \/ TracksBy(r) = {}
AlbumCount(v, r) == Cardinality({a \in AlbumsBy(r) : HasVisibleTrack(v, TracksOn(a))})
ArtistsVisible(v, rs) == {<<"artist", r, AlbumCount(v, r)>> :
                            r \in {x \in rs : ArtistVisible(v, x)}}
GetArtistVisible(v, r) == ArtistsVisible(v, {r} \cap DOMAIN artists)
ListArtistsVisible(v) == ArtistsVisible(v, DOMAIN artists)

ListGenresVisible(v) == GenresOf(SeenTracks(v))

(***************************************************************************)
(* Starred items, the lists of getAlbumList2, covers and search.           *)
(***************************************************************************)
Noted(u, kind) == {n \in DOMAIN annotations : n[1] = u /\ n[2] = kind}
Starred(u, kind) == {n[3] : n \in {m \in Noted(u, kind) : annotations[m].starred}}
Rated(u, kind) == {n[3] : n \in {m \in Noted(u, kind) : annotations[m].rating # Null}}
Played(u) == {n[3] : n \in {m \in Noted(u, "track") : annotations[m].plays > 0}}

ListStarredTracksVisible(v) ==
  {TrackItem(t) : t \in Starred(v.user, "track") \cap SeenTracks(v)}
ListStarredAlbumsVisible(v) ==
  AlbumsVisible(v, Starred(v.user, "album") \cap DOMAIN albums)
ListStarredArtistsVisible(v) ==
  ArtistsVisible(v, Starred(v.user, "artist") \cap DOMAIN artists)

AlbumVisible(v, a) == HasVisibleTrack(v, TracksOn(a)) \/ TracksOn(a) = {}

\* "all" stands for the kinds that only sort: random, newest and the alphabets.
AlbumIdsForList(v, kind, genre) ==
  CASE kind = "all" -> {a \in DOMAIN albums : AlbumVisible(v, a)}
    [] kind = "byGenre" -> {a \in DOMAIN albums : albums[a].genre = genre /\ AlbumVisible(v, a)}
    [] kind = "highest" -> {a \in Rated(v.user, "album") \cap DOMAIN albums : AlbumVisible(v, a)}
    [] kind = "starred" -> {a \in Starred(v.user, "album") \cap DOMAIN albums : AlbumVisible(v, a)}
    [] kind \in {"frequent", "recent"} ->
         {a \in DOMAIN albums : HasVisibleTrack(v, TracksOn(a) \cap Played(v.user))}

HasCoverKey(k) ==
  (\E a \in DOMAIN albums : albums[a].cover = k) \/ (\E r \in DOMAIN artists : artists[r].cover = k)
CoverKeyVisible(v, k) ==
  \/ \E a \in DOMAIN albums : albums[a].cover = k /\ HasVisibleTrack(v, TracksOn(a))
  \/ \E r \in DOMAIN artists : artists[r].cover = k /\ HasVisibleTrack(v, TracksBy(r))

\* The rows a search finds before any of them is filtered: the query matches
\* every name here, in an order of its own, and LIMIT cuts the list.
SearchIds(rows, limit) ==
  IF Cardinality(rows) <= limit THEN {rows} ELSE kSubset(limit, rows)
=============================================================================
