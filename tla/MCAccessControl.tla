-------------------------- MODULE MCAccessControl --------------------------
(***************************************************************************)
(* A small library, a few databases to start with, and the requests of two *)
(* clients: "w" changes things, "r" reads, and changes what w may race.    *)
(***************************************************************************)
EXTENDS AccessControl, TLC

MCTask == {"w", "r"}
MCSeed == [name |-> "root", password |-> "p0"]

User(n) == [name |-> n, password |-> "p0", email |-> Null]
Rule(i, g) == [id |-> i, grants |-> g]
Ann == <<"user", 2>>
Crew == <<"role", 3>>

\* Two tracks on an album, one on none, and an album without tracks.
Library ==
  [tracks |-> << [key |-> "k1", album |-> 1, artist |-> 1, genre |-> "rock"],
                 [key |-> "k2", album |-> 1, artist |-> 1, genre |-> Null],
                 [key |-> "k3", album |-> Null, artist |-> Null, genre |-> "rock"] >>,
   genreTags |-> (2 :> "jazz"),
   albums |-> << [name |-> "a", artist |-> 1, genre |-> "rock", cover |-> "c1"],
                 [name |-> "b", artist |-> 1, genre |-> Null, cover |-> Null] >>,
   artists |-> << [name |-> "x", cover |-> Null] >>,
   covers |-> {"c1"}]

Fresh ==
  Library @@
  [users |-> << >>, roles |-> << >>, userRoles |-> {}, rules |-> << >>, annotations |-> << >>,
   last |-> [users |-> 0, roles |-> 0, rules |-> 0, tracks |-> 3, albums |-> 2, artists |-> 1]]

\* User 3 was deleted some time ago.
InUse(annsRoles, rs) ==
  Library @@
  [users |-> <<User("root"), User("ann")>>,
   roles |-> << [name |-> "admin", builtin |-> TRUE], [name |-> "member", builtin |-> TRUE],
                [name |-> "crew", builtin |-> FALSE] >>,
   userRoles |-> {<<1, 1>>} \cup {<<2, r>> : r \in annsRoles},
   rules |-> rs,
   annotations |-> (<<2, "album", 1>> :> [starred |-> TRUE, rating |-> 4, plays |-> 0])
                   @@ (<<2, "track", 1>> :> [starred |-> TRUE, rating |-> Null, plays |-> 1]),
   last |-> [users |-> 3, roles |-> 3, rules |-> 3, tracks |-> 3, albums |-> 2, artists |-> 1]]

MCStarts ==
  {Fresh,
   InUse({2}, << >>),
   InUse({2, 3}, (<<"track", 1>> :> Rule(1, {Ann})) @@ (<<"artist", 1>> :> Rule(2, {}))
                 @@ (<<"track", 3>> :> Rule(3, {}))),
   InUse({2, 3}, (<<"album", 1>> :> Rule(1, {Crew})) @@ (<<"genre", "rock">> :> Rule(2, {})))}

Root == [token |-> 1]
RootByPassword == [user |-> "root", secret |-> "p0"]
Anns == {[token |-> 2], [user |-> "ann", secret |-> "p0"]}
As(who, rs) == {c @@ r : c \in who, r \in rs}

Create(n, a) == [op |-> "createUser", name |-> n, password |-> "p0", admin |-> a]
Creations == {Create("bob", TRUE), Create("bob", FALSE), Create("ann", FALSE)}
Updates ==
  {[op |-> "updateUser", name |-> "ann", email |-> TRUE, password |-> Null, admin |-> TRUE],
   [op |-> "updateUser", name |-> "ann", email |-> TRUE, password |-> "malformed", admin |-> TRUE],
   [op |-> "updateUser", name |-> "ann", email |-> FALSE, password |-> "p1", admin |-> Null],
   [op |-> "updateUser", name |-> "root", email |-> FALSE, password |-> "p1", admin |-> FALSE]}
Deletions == {[op |-> "deleteUser", name |-> n] : n \in {"root", "ann"}}
RoleChanges ==
  {[op |-> "createRole", name |-> n] : n \in {"member", "guest"}}
  \cup {[op |-> "deleteRole", role |-> r] : r \in {2, 3}}
  \cup {[op |-> o, target |-> 2, role |-> 3] : o \in {"assignRole", "unassignRole"}}
RuleChanges ==
  {[op |-> "setAccessRule", scope |-> <<"track", 1>>, grants |-> {Ann}],
   [op |-> "setAccessRule", scope |-> <<"album", 1>>, grants |-> {Crew}]}
MoreRuleChanges ==
  {[op |-> "setAccessRule", scope |-> <<"genre", "rock">>, grants |-> {}],
   [op |-> "deleteAccessRule", rule |-> 1]}
CatalogChanges ==
  {[op |-> "setCoverArt", album |-> 2, image |-> i] : i \in {"c1", "c2"}}
  \cup {[op |-> "setCoverArt", album |-> 9, image |-> "c2"]}
  \cup {[op |-> "updateTags", track |-> 1, genre |-> g] : g \in {"jazz", Null}}
Files ==
  {[op |-> "ingest", key |-> "k1", artist |-> "x", album |-> "b", genre |-> "rock", image |-> "c2"],
   [op |-> "ingest", key |-> "k4", artist |-> Null, album |-> "a", genre |-> "jazz", image |-> Null],
   [op |-> "ingest", key |-> "k4", artist |-> "y", album |-> Null, genre |-> "rock", image |-> Null],
   [op |-> "vanish", key |-> "k1"]}
Notes ==
  {[op |-> o, items |-> << <<"track", 2>>, <<"artist", 1>> >>] : o \in {"star", "unstar", "scrobble"}}
  \cup {[op |-> "setRating", items |-> << <<"album", 2>> >>, rating |-> 5]}
Self == {[op |-> "changePassword", name |-> "ann", password |-> "p1"], [op |-> "getUser", name |-> "ann"]}
Reads ==
  {[op |-> o, id |-> 1] : o \in {"getSong", "getAlbum", "getArtist", "stream", "download", "getLyrics"}}
  \cup {[op |-> o] : o \in {"getArtists", "getIndexes", "getGenres", "getStarred2"}}
  \cup {[op |-> "getAlbumList2", kind |-> k, genre |-> "rock"] :
           k \in {"all", "byGenre", "highest", "starred", "frequent"}}
  \cup {[op |-> "search3", all |-> a] : a \in BOOLEAN}
  \cup {[op |-> "getCoverArt", key |-> k] : k \in {"c1", "c2"}}

MCOffered ==
  [w |-> Files \cup As({[token |-> 2]}, Self)
         \cup As({Root}, Creations \cup Updates \cup Deletions \cup RoleChanges
                         \cup RuleChanges \cup MoreRuleChanges \cup CatalogChanges),
   r |-> {[op |-> "vanish", key |-> k] : k \in {"k1", "k3"}}
         \cup As({[token |-> 2]}, Reads \cup Notes)
         \cup As({[user |-> "ann", secret |-> "p0"]}, {[op |-> "getSong", id |-> 1], [op |-> "getStarred2"]})
         \cup As({[token |-> 3]}, {[op |-> "getSong", id |-> 1]})
         \cup As({RootByPassword}, RuleChanges
              \cup {Create("carl", FALSE),
                    [op |-> "deleteUser", name |-> "ann"], [op |-> "deleteUser", name |-> "bob"],
                    [op |-> "deleteRole", role |-> 3],
                    [op |-> "assignRole", target |-> 2, role |-> 3]})]
=============================================================================
