---------------------------- MODULE RulesProofs ----------------------------
(***************************************************************************)
(* Rules of items that are gone never decide about new ones; the keys of   *)
(* all tables hold; who is refused has changed nothing; somebody           *)
(* administers.                                                            *)
(***************************************************************************)
EXTENDS AccessControlProofs

\* The ids of the library are behind their counters.
IssuedIds ==
  /\ last \in [Tables -> Nat]
  /\ DOMAIN tracks \subseteq 1..last.tracks
  /\ DOMAIN albums \subseteq 1..last.albums
  /\ DOMAIN artists \subseteq 1..last.artists

\* The scope s is a genre, or an item that exists or existed.
IssuedScope(s) ==
  /\ s[1] = "track" => s[2] \in 1..last.tracks
  /\ s[1] = "album" => s[2] \in 1..last.albums
  /\ s[1] = "artist" => s[2] \in 1..last.artists

\* Rules are about issued ids, and so is one that is about to be saved.
RulesOfIssued ==
  /\ Shape /\ IssuedIds
  /\ \A s \in DOMAIN rules : IssuedScope(s)
  /\ \A t \in Tasks : task[t].pc = "setRule" => IssuedScope(Req(t).scope)

\* The counters never go back, and what is new has an id nobody ever had.
IssuesOnly ==
  /\ last' \in [Tables -> Nat]
  /\ last.tracks <= last'.tracks /\ last.albums <= last'.albums /\ last.artists <= last'.artists
  /\ \A x \in DOMAIN tracks' : x \in DOMAIN tracks \/ x \in (last.tracks + 1)..last'.tracks
  /\ \A x \in DOMAIN albums' : x \in DOMAIN albums \/ x \in (last.albums + 1)..last'.albums
  /\ \A x \in DOMAIN artists' : x \in DOMAIN artists \/ x \in (last.artists + 1)..last'.artists

\* What was issued stays issued.
LEMMA IssuedStay ==
  ASSUME IssuedIds, IssuesOnly
  PROVE  IssuedIds' /\ \A s : IssuedScope(s) => IssuedScope(s)'
<1>1. /\ last.tracks \in Nat /\ last.albums \in Nat /\ last.artists \in Nat
      /\ last'.tracks \in Nat /\ last'.albums \in Nat /\ last'.artists \in Nat
  BY DEF IssuedIds, IssuesOnly, Tables
<1>2. IssuedIds'
  BY <1>1 DEF IssuedIds, IssuesOnly
<1>3. \A s : IssuedScope(s) => IssuedScope(s)'
  BY <1>1 DEF IssuedScope, IssuesOnly
<1> QED BY <1>2, <1>3

\* Where the counters of the library stay, and its items only go.
LEMMA NothingIssued ==
  ASSUME IssuedIds, last' \in [Tables -> Nat],
         last'.tracks = last.tracks, last'.albums = last.albums, last'.artists = last.artists,
         DOMAIN tracks' \subseteq DOMAIN tracks, DOMAIN albums' \subseteq DOMAIN albums,
         DOMAIN artists' \subseteq DOMAIN artists
  PROVE  IssuesOnly
<1>1. last.tracks \in Nat /\ last.albums \in Nat /\ last.artists \in Nat
  BY DEF IssuedIds, Tables
<1> QED BY <1>1 DEF IssuesOnly

\* Where neither counters nor items change.
LEMMA NothingChanged ==
  ASSUME IssuedIds, UNCHANGED <<last, tracks, albums, artists>>
  PROVE  IssuesOnly
  BY NothingIssued DEF IssuedIds

\* Users, roles and rules have counters of their own.
LEMMA OthersIssued ==
  ASSUME IssuedIds, UNCHANGED catalog,
         NEW k \in {"users", "roles", "rules"}, NEW n \in Nat, last' = [last EXCEPT ![k] = n]
  PROVE  IssuesOnly
<1>1. last' \in [Tables -> Nat]
  BY DEF IssuedIds, Tables
<1>2. last'.tracks = last.tracks /\ last'.albums = last.albums /\ last'.artists = last.artists
  BY DEF IssuedIds, Tables
<1> QED BY <1>1, <1>2, NothingIssued DEF catalog

\* New users, roles and rules take ids of their own counters.
LEMMA CreationIssues ==
  ASSUME IssuedIds, NEW t \in Tasks, InsertUser(t) \/ MakeRole(t) \/ CreateRole(t) \/ SetRule(t)
  PROVE  IssuesOnly
<1>1. last.users + 1 \in Nat /\ last.roles + 1 \in Nat /\ last.rules + 1 \in Nat /\ last.rules \in Nat
  BY DEF IssuedIds, Tables
<1>2. UNCHANGED catalog
  BY DEF InsertUser, MakeRole, CreateRole, SetRule
<1>3. CASE UNCHANGED last
  BY <1>2, <1>3, NothingChanged DEF catalog
<1>4. CASE last' = [last EXCEPT !.users = last.users + 1]
  BY <1>1, <1>2, <1>4, OthersIssued
<1>5. CASE last' = [last EXCEPT !.roles = last.roles + 1]
  BY <1>1, <1>2, <1>5, OthersIssued
<1>6. CASE \E n \in {last.rules, last.rules + 1} : last' = [last EXCEPT !.rules = n]
  <2>1. PICK n \in {last.rules, last.rules + 1} : last' = [last EXCEPT !.rules = n]
    BY <1>6
  <2> QED BY <1>1, <1>2, <2>1, OthersIssued
<1>7. CASE SetRule(t)
  <2> DEFINE s == Req(t).scope
  <2>1. \/ UNCHANGED last
        \/ last' = [last EXCEPT !.rules = IF s \in DOMAIN rules THEN last.rules
                                          ELSE IF s \in DOMAIN rules THEN rules[s].id ELSE last.rules + 1]
    BY <1>7 DEF SetRule
  <2> HIDE DEF s
  <2>2. CASE s \in DOMAIN rules
    BY <1>3, <1>6, <2>1, <2>2
  <2>3. CASE s \notin DOMAIN rules
    BY <1>3, <1>6, <2>1, <2>3
  <2> QED BY <2>2, <2>3
<1>8. CASE InsertUser(t)
  BY <1>3, <1>4, <1>8 DEF InsertUser
<1>9. CASE MakeRole(t) \/ CreateRole(t)
  BY <1>3, <1>5, <1>9 DEF MakeRole, CreateRole, NewRole
<1> QED BY <1>7, <1>8, <1>9

\* A scan takes the next id of a table for what it inserts there.
LEMMA ScanIssues ==
  ASSUME IssuedIds, NEW t \in Tasks, Scan(t)
  PROVE  IssuesOnly
<1>1. last.tracks \in Nat /\ last.albums \in Nat /\ last.artists \in Nat
  BY DEF IssuedIds, Tables
<1>2. CASE StoreCover(t)
  BY <1>2, NothingChanged DEF StoreCover, OnlyCovers, index, catalog
<1>3. CASE UpsertArtist(t)
  <2>1. UNCHANGED <<tracks, albums>>
    BY <1>3 DEF UpsertArtist
  <2>2. CASE UNCHANGED <<artists, last>>
    BY <2>1, <2>2, NothingChanged
  <2>3. ASSUME NEW row, artists' = With(artists, last.artists + 1, row),
               last' = [last EXCEPT !.artists = @ + 1]
        PROVE  IssuesOnly
    <3>1. /\ last' \in [Tables -> Nat] /\ last'.artists = last.artists + 1
          /\ last'.tracks = last.tracks /\ last'.albums = last.albums
      BY <2>3 DEF IssuedIds, Tables
    <3>2. DOMAIN artists' = DOMAIN artists \cup {last.artists + 1}
      BY <2>3 DEF With
    <3> QED BY <1>1, <2>1, <3>1, <3>2 DEF IssuesOnly
  <2> QED BY <1>3, <2>2, <2>3 DEF UpsertArtist
<1>4. CASE UpsertAlbum(t)
  <2>1. UNCHANGED <<tracks, artists>>
    BY <1>4 DEF UpsertAlbum
  <2>2. CASE UNCHANGED last /\ DOMAIN albums' = DOMAIN albums
    BY <2>1, <2>2, NothingIssued DEF IssuedIds
  <2>3. ASSUME NEW row, albums' = With(albums, last.albums + 1, row),
               last' = [last EXCEPT !.albums = @ + 1]
        PROVE  IssuesOnly
    <3>1. /\ last' \in [Tables -> Nat] /\ last'.albums = last.albums + 1
          /\ last'.tracks = last.tracks /\ last'.artists = last.artists
      BY <2>3 DEF IssuedIds, Tables
    <3>2. DOMAIN albums' = DOMAIN albums \cup {last.albums + 1}
      BY <2>3 DEF With
    <3> QED BY <1>1, <2>1, <3>1, <3>2 DEF IssuesOnly
  <2> QED BY <1>4, <2>2, <2>3 DEF UpsertAlbum
<1>5. CASE SetAlbumCover(t)
  BY <1>5, NothingIssued DEF SetAlbumCover, IssuedIds
<1>6. CASE UpsertTrack(t)
  <2> DEFINE same == TrackAt(Req(t).key)
             id == IF same = {} THEN last.tracks + 1 ELSE CHOOSE x \in same : TRUE
  <2>1. /\ UNCHANGED <<albums, artists>> /\ DOMAIN tracks' = DOMAIN tracks \cup {id}
        /\ last' = [last EXCEPT !.tracks = IF same = {} THEN id ELSE @]
    BY <1>6 DEF UpsertTrack, With
  <2>2. same \subseteq DOMAIN tracks
    BY DEF TrackAt
  <2>3. CASE same = {}
    <3>1. id = last.tracks + 1 /\ last' = [last EXCEPT !.tracks = last.tracks + 1]
      BY <2>1, <2>3
    <3> HIDE DEF id
    <3>2. /\ last' \in [Tables -> Nat] /\ last'.tracks = last.tracks + 1
          /\ last'.albums = last.albums /\ last'.artists = last.artists
      BY <1>1, <3>1 DEF IssuedIds, Tables
    <3> QED BY <1>1, <2>1, <3>1, <3>2 DEF IssuesOnly
  <2>4. CASE same # {}
    <3>1. id \in same /\ last' = [last EXCEPT !.tracks = last.tracks]
      BY <2>1, <2>4
    <3>2. /\ last' \in [Tables -> Nat] /\ last'.tracks = last.tracks
          /\ last'.albums = last.albums /\ last'.artists = last.artists
      BY <1>1, <3>1 DEF IssuedIds, Tables
    <3> HIDE DEF id, same
    <3> QED BY <2>1, <2>2, <3>1, <3>2, NothingIssued
  <2> QED BY <2>3, <2>4
<1>7. CASE Vanish(t)
  <2>1. UNCHANGED <<albums, artists, last>> /\ DOMAIN tracks' \subseteq DOMAIN tracks
    BY <1>7 DEF Vanish
  <2> QED BY <2>1, NothingIssued DEF IssuedIds
<1> QED BY <1>2, <1>3, <1>4, <1>5, <1>6, <1>7 DEF Scan

\* No step takes an id of the library but a scan.
LEMMA StepIssues ==
  ASSUME IssuedIds, NEW t \in Tasks, Step(t)
  PROVE  IssuesOnly
<1>1. CASE Authenticate(t)
  BY <1>1, NothingChanged DEF Authenticate, Arrive, ReadPassword, ReadUser, LoadUser, LoadRoles,
     OnlyTask, index, catalog
<1>2. CASE CreateUser(t)
  BY <1>2, CreationIssues, NothingChanged DEF CreateUser, ListUsers, FindRole, AssignBuiltin,
     GetCreated, SetNewEmail, UndoCreate, OnlyTask, index, catalog
<1>3. CASE ManageUser(t)
  BY <1>3, NothingChanged DEF ManageUser, FindUser, GetUser, SetEmail, SetPassword, FindAdminRole,
     SetAdmin, DeleteUser, ChangePassword, OnlyTask, index, catalog
<1>4. CASE ManageRole(t)
  BY <1>4, CreationIssues, NothingChanged DEF ManageRole, ReadBuiltin, DeleteRole, CheckUser,
     CheckRole, Assignment, OnlyTask, index, catalog
<1>5. CASE ManageRule(t)
  BY <1>5, CreationIssues, NothingChanged DEF ManageRule, CheckScope, GetRule, DeleteRule, OnlyTask,
     index, catalog
<1>6. CASE Annotate(t)
  BY <1>6, NothingChanged DEF Annotate, catalog
<1>7. CASE SetCoverArt(t)
  <2>1. UNCHANGED <<last, tracks, artists>>
    BY <1>7 DEF SetCoverArt, PutCover, UpdateCover, UndoCover, OnlyCovers, index, catalog
  <2>2. DOMAIN albums' = DOMAIN albums
    BY <1>7 DEF SetCoverArt, PutCover, UpdateCover, UndoCover, OnlyCovers, index, catalog
  <2> QED BY <2>1, <2>2, NothingIssued DEF IssuedIds
<1>8. CASE UpdateTags(t)
  BY <1>8, NothingChanged DEF UpdateTags, CheckTrack, SetOverride, OnlyTask, index, catalog
<1>9. CASE Read(t)
  BY <1>9, NothingChanged DEF Read, HasCover, ViewerRoles, ViewerAdmin, Query, Respond, OnlyTask,
     index, catalog
<1>10. CASE Abort(t)
  BY <1>10, NothingChanged DEF Abort, index, catalog
<1> QED BY <1>1, <1>2, <1>3, <1>4, <1>5, <1>6, <1>7, <1>8, <1>9, <1>10, ScanIssues DEF Step

\* A step adds no rule but the one whose scope it has checked.
LEMMA StepRules ==
  ASSUME NEW t \in Tasks, Step(t)
  PROVE  \A s \in DOMAIN rules' : \/ s \in DOMAIN rules
                                  \/ task[t].pc = "setRule" /\ s = Req(t).scope
<1>1. CASE CreateUser(t)
  BY <1>1 DEF CreateUser, ListUsers, InsertUser, FindRole, MakeRole, AssignBuiltin, GetCreated,
     SetNewEmail, UndoCreate, RemoveUser, DropGrants, OnlyTask, index
<1>2. CASE ManageUser(t)
  BY <1>2 DEF ManageUser, FindUser, GetUser, SetEmail, SetPassword, FindAdminRole, SetAdmin,
     DeleteUser, RemoveUser, DropGrants, ChangePassword, OnlyTask, index
<1>3. CASE ManageRole(t)
  BY <1>3 DEF ManageRole, CreateRole, ReadBuiltin, DeleteRole, DropGrants, CheckUser, CheckRole,
     Assignment, OnlyTask, index
<1>4. CASE ManageRule(t)
  BY <1>4 DEF ManageRule, CheckScope, SetRule, GetRule, DeleteRule, With, OnlyTask, index, At
<1> QED BY <1>1, <1>2, <1>3, <1>4, OthersKeepAccounts DEF Step

\* What checkScope has found is issued.
LEMMA CheckedIsIssued ==
  ASSUME RulesOfIssued, NEW t \in Tasks, Step(t), task'[t].pc = "setRule"
  PROVE  IssuedScope(Req(t).scope) /\ Req(t)' = Req(t)
<1>1. CASE ManageRule(t)
  <2>1. Req(t)' = Req(t)
    BY <1>1, ManageRuleLands DEF RulesOfIssued, Lands, Moves, Req
  <2>2. CASE CheckScope(t)
    <3>1. ScopeExists(Req(t).scope)
      BY <2>2, Replying DEF CheckScope, RulesOfIssued, Shape
    <3> QED BY <2>1, <3>1 DEF ScopeExists, IssuedScope, RulesOfIssued, IssuedIds
  <2>3. CASE SetRule(t)
    BY <2>1, <2>3 DEF SetRule, At, RulesOfIssued
  <2>4. CASE GetRule(t) \/ DeleteRule(t)
    BY <2>4, Replying DEF GetRule, DeleteRule, RulesOfIssued, Shape
  <2> QED BY <1>1, <2>2, <2>3, <2>4 DEF ManageRule
<1>2. CASE Authenticate(t)
  <2>1. CASE Arrive(t)
    BY <2>1, Arriving DEF RulesOfIssued
  <2>2. CASE ~Arrive(t)
    BY <1>2, <2>2, DoorLands DEF Authenticate, Enters, Firsts, RulesOfIssued
  <2> QED BY <2>1, <2>2
<1>3. CASE CreateUser(t) \/ ManageUser(t) \/ ManageRole(t) \/ Annotate(t) \/ SetCoverArt(t)
        \/ UpdateTags(t) \/ Scan(t) \/ Read(t)
  BY <1>3, CreateUserLands, ManageUserLands, ManageRoleLands, AnnotateLands, SetCoverArtLands,
     UpdateTagsLands, ScanLands, ReadLands DEF Lands, RulesOfIssued
<1>4. CASE Abort(t)
  BY <1>4, Replying DEF Abort, RulesOfIssued, Shape
<1> QED BY <1>1, <1>2, <1>3, <1>4 DEF Step

\* What the theorem says of one step.
NoneUnderARule ==
  /\ Ruled(DOMAIN rules', "track") \cap (DOMAIN tracks' \ DOMAIN tracks) = {}
  /\ Ruled(DOMAIN rules', "album") \cap (DOMAIN albums' \ DOMAIN albums) = {}
  /\ Ruled(DOMAIN rules', "artist") \cap (DOMAIN artists' \ DOMAIN artists) = {}

\* The databases a run starts from are behind their counters.
LEMMA InitIssued ==
  ASSUME Init
  PROVE  RulesOfIssued
<1>1. Shape /\ \A t \in Tasks : task[t].pc \in {"idle", "listUsers"}
  BY Beginning
<1>2. /\ last \in [Tables -> Nat]
      /\ DOMAIN tracks \cup Ruled(DOMAIN rules, "track") \subseteq 1..last.tracks
      /\ DOMAIN albums \cup Ruled(DOMAIN rules, "album") \subseteq 1..last.albums
      /\ DOMAIN artists \cup Ruled(DOMAIN rules, "artist") \subseteq 1..last.artists
  BY StartsAssumption DEF Init
<1>3. \A s \in DOMAIN rules : IssuedScope(s)
  BY <1>2 DEF Ruled, IssuedScope
<1> QED BY <1>1, <1>2, <1>3 DEF RulesOfIssued, IssuedIds

\* Every step keeps the ids behind the counters, and inserts no item under a rule.
LEMMA IssuedStep ==
  ASSUME RulesOfIssued, Next
  PROVE  RulesOfIssued' /\ NoneUnderARule
<1>1. CASE Crash
  <2>1. Shape' /\ UNCHANGED <<rules, last, tracks, albums, artists>>
    BY <1>1, CrashLands DEF RulesOfIssued, Crash, index, catalog
  <2>2. \A x \in Tasks : task'[x] = task[x] \/ task'[x].pc \in {"done", "listUsers"}
    BY <1>1, CrashLands DEF RulesOfIssued
  <2>3. RulesOfIssued'
    BY <2>1, <2>2 DEF RulesOfIssued, IssuedIds, IssuedScope, Req
  <2> QED BY <2>1, <2>3 DEF NoneUnderARule
<1>2. ASSUME NEW t \in Tasks, Step(t) PROVE RulesOfIssued' /\ NoneUnderARule
  <2>1. Shape' /\ \A x \in Tasks \ {t} : task'[x] = task[x]
    BY <1>2, StepsLand, Arriving DEF RulesOfIssued
  <2>2. IssuesOnly
    BY <1>2, StepIssues DEF RulesOfIssued
  <2>3. IssuedIds' /\ \A s : IssuedScope(s) => IssuedScope(s)'
    BY <2>2, IssuedStay DEF RulesOfIssued
  <2>4. \A s \in DOMAIN rules' : IssuedScope(s)
    BY <1>2, StepRules DEF RulesOfIssued
  <2>5. task'[t].pc = "setRule" => IssuedScope(Req(t).scope)'
    BY <1>2, <2>3, CheckedIsIssued
  <2>6. RulesOfIssued'
    BY <2>1, <2>3, <2>4, <2>5 DEF RulesOfIssued, Req
  <2>7. NoneUnderARule
    <3>1. last.tracks \in Nat /\ last.albums \in Nat /\ last.artists \in Nat
      BY DEF RulesOfIssued, IssuedIds, Tables
    <3> QED BY <2>2, <2>4, <3>1 DEF IssuesOnly, IssuedScope, Ruled, NoneUnderARule
  <2> QED BY <2>6, <2>7
<1> QED BY <1>1, <1>2 DEF Next

\* Every step and every stutter keeps the ids behind the counters.
LEMMA IssuedKept ==
  ASSUME RulesOfIssued, [Next]_vars
  PROVE  RulesOfIssued'
<1>1. CASE Next
  BY <1>1, IssuedStep
<1>2. CASE UNCHANGED vars
  BY <1>2 DEF RulesOfIssued, Shape, Handlers, IssuedIds, IssuedScope, vars, history, index, catalog, Op, Req
<1> QED BY <1>1, <1>2

\* No track, album or artist is ever inserted under an id that has a rule,
\* though the rules of items that are gone stay, however scans and requests
\* that set rules interleave.
THEOREM NewItems == Spec => NewItemsHaveNoRules
<1>1. Init => RulesOfIssued
  BY InitIssued
<1>2. RulesOfIssued /\ [Next]_vars => RulesOfIssued' /\ [NoneUnderARule]_vars
  BY IssuedStep, IssuedKept
<1> QED BY <1>1, <1>2, PTL DEF Spec, NewItemsHaveNoRules, NoneUnderARule

\* The ids of every run are behind their counters.
LEMMA IssuedAlways == Spec => []RulesOfIssued
<1>1. Init => RulesOfIssued
  BY InitIssued
<1>2. RulesOfIssued /\ [Next]_vars => RulesOfIssued'
  BY IssuedKept
<1> QED BY <1>1, <1>2, PTL DEF Spec

-----------------------------------------------------------------------------
(***************************************************************************)
(* The keys of the tables of accounts.                                     *)
(***************************************************************************)
\* The counters of roles and rules never go back, and a role that is new has an
\* id no role ever had; a role that stays keeps its name.
RolesIssued(t) ==
  /\ last' \in [Tables -> Nat] /\ last.roles <= last'.roles /\ last.rules <= last'.rules
  /\ \A r \in DOMAIN roles' :
       \/ r \in DOMAIN roles /\ roles'[r] = roles[r]
       \/ /\ r = last.roles + 1 /\ last'.roles = last.roles + 1 /\ r \notin DOMAIN roles
          /\ CreateRole(t) \/ MakeRole(t)

\* Where the counters of roles and rules stay, and roles only go.
LEMMA NoRoleIssued ==
  ASSUME last \in [Tables -> Nat], NEW t, last' \in [Tables -> Nat], last'.roles = last.roles,
         last.rules <= last'.rules,
         \A r \in DOMAIN roles' : r \in DOMAIN roles /\ roles'[r] = roles[r]
  PROVE  RolesIssued(t)
  BY DEF RolesIssued, Tables

\* A role is inserted with the next id.
LEMMA NewRoleIssued ==
  ASSUME last \in [Tables -> Nat], DOMAIN roles \subseteq 1..last.roles, NEW t,
         NEW name, NEW builtin, NewRole(name, builtin), CreateRole(t) \/ MakeRole(t)
  PROVE  RolesIssued(t)
<1>1. last.roles \in Nat /\ last.rules \in Nat
  BY DEF Tables
<1>2. /\ last' \in [Tables -> Nat] /\ last'.roles = last.roles + 1 /\ last'.rules = last.rules
  BY <1>1 DEF NewRole, Tables
<1>3. last.roles + 1 \notin DOMAIN roles
  BY <1>1
<1>4. \A r \in DOMAIN roles' : \/ r = last.roles + 1
                               \/ r \in DOMAIN roles /\ roles'[r] = roles[r]
  BY <1>3 DEF NewRole, With
<1> QED BY <1>1, <1>2, <1>3, <1>4 DEF RolesIssued

\* The next id of the rules is taken, or none.
LEMMA RuleCounter ==
  ASSUME last \in [Tables -> Nat], NEW t \in Tasks, SetRule(t)
  PROVE  /\ last' \in [Tables -> Nat] /\ last'.roles = last.roles /\ last.rules <= last'.rules
         /\ UNCHANGED roles
<1>1. last.rules \in Nat /\ last.rules + 1 \in Nat
  BY DEF Tables
<1>2. CASE UNCHANGED last
  BY <1>1, <1>2 DEF SetRule, accounts
<1>3. CASE \E n \in {last.rules, last.rules + 1} : last' = [last EXCEPT !.rules = n]
  BY <1>1, <1>3 DEF SetRule, accounts, Tables
<1>4. \/ UNCHANGED last
      \/ \E n \in {last.rules, last.rules + 1} : last' = [last EXCEPT !.rules = n]
  BY DEF SetRule
<1> QED BY <1>2, <1>3, <1>4

\* The counters of roles and rules stay where a scan moves another.
LEMMA ScanIssuesNoRole ==
  ASSUME last \in [Tables -> Nat], NEW t \in Tasks, Scan(t)
  PROVE  RolesIssued(t)
<1>1. UNCHANGED roles
  BY OthersKeepAccounts
<1>2. last.artists + 1 \in Nat /\ last.albums + 1 \in Nat /\ last.tracks + 1 \in Nat
        /\ last.tracks \in Nat /\ last.roles \in Nat /\ last.rules \in Nat
  BY DEF Tables
<1>3. last' \in [Tables -> Nat] /\ last'.roles = last.roles /\ last'.rules = last.rules
  <2>1. CASE UNCHANGED last
    BY <2>1
  <2>2. CASE last' = [last EXCEPT !.artists = last.artists + 1]
    BY <1>2, <2>2 DEF Tables
  <2>3. CASE last' = [last EXCEPT !.albums = last.albums + 1]
    BY <1>2, <2>3 DEF Tables
  <2>4. CASE \E n \in {last.tracks, last.tracks + 1} : last' = [last EXCEPT !.tracks = n]
    BY <1>2, <2>4 DEF Tables
  <2>5. CASE UpsertTrack(t)
    BY <2>4, <2>5 DEF UpsertTrack
  <2> QED BY <2>1, <2>2, <2>3, <2>5
    DEF Scan, StoreCover, UpsertArtist, UpsertAlbum, SetAlbumCover, Vanish, OnlyCovers
<1> QED BY <1>1, <1>2, <1>3, NoRoleIssued

\* Of every step of a handler.
LEMMA StepIssuesRoles ==
  ASSUME last \in [Tables -> Nat], DOMAIN roles \subseteq 1..last.roles,
         Counted, Counted', NEW t \in Tasks, Step(t)
  PROVE  RolesIssued(t)
<1>1. last.roles \in Nat /\ last.rules \in Nat
  BY DEF Tables
<1>2. CASE UNCHANGED <<roles, last>>
  BY <1>1, <1>2, NoRoleIssued
<1>3. CASE CreateUser(t)
  <2>1. CASE InsertUser(t)
    <3>1. UNCHANGED roles /\ last' \in [Tables -> Nat] /\ last'.roles = last.roles
            /\ last'.rules = last.rules
      BY <2>1 DEF InsertUser, Counted, Tables
    <3> QED BY <1>1, <3>1, NoRoleIssued
  <2>2. CASE MakeRole(t)
    BY <1>2, <2>2, NewRoleIssued DEF MakeRole
  <2> QED BY <1>2, <1>3, <2>1, <2>2 DEF CreateUser, ListUsers, FindRole, AssignBuiltin, GetCreated,
       SetNewEmail, UndoCreate, OnlyTask, index, accounts
<1>4. CASE ManageUser(t)
  BY <1>2, <1>4 DEF ManageUser, FindUser, GetUser, SetEmail, SetPassword, FindAdminRole, SetAdmin,
     DeleteUser, ChangePassword, OnlyTask, index, accounts
<1>5. CASE ManageRole(t)
  <2>1. CASE CreateRole(t)
    BY <1>2, <2>1, NewRoleIssued DEF CreateRole
  <2>2. CASE DeleteRole(t)
    <3>1. UNCHANGED last /\ roles' = Without(roles, Req(t).role)
      BY <2>2 DEF DeleteRole
    <3> QED BY <1>1, <3>1, NoRoleIssued DEF Without
  <2> QED BY <1>2, <1>5, <2>1, <2>2 DEF ManageRole, ReadBuiltin, CheckUser, CheckRole, Assignment,
       OnlyTask, index, accounts
<1>6. CASE ManageRule(t)
  <2>1. CASE SetRule(t)
    BY <1>1, <2>1, RuleCounter, NoRoleIssued
  <2> QED BY <1>2, <1>6, <2>1 DEF ManageRule, CheckScope, GetRule, DeleteRule, OnlyTask, index,
       accounts
<1>7. CASE Authenticate(t)
  BY <1>2, <1>7 DEF Authenticate, Arrive, ReadPassword, ReadUser, LoadUser, LoadRoles, OnlyTask, index,
     accounts
<1>8. CASE Annotate(t) \/ SetCoverArt(t) \/ UpdateTags(t) \/ Read(t) \/ Abort(t)
  <2>1. UNCHANGED roles
    BY <1>8, OthersKeepAccounts
  <2>2. UNCHANGED last
    BY <1>8 DEF Annotate, SetCoverArt, PutCover, UpdateCover, UndoCover, UpdateTags, CheckTrack,
                SetOverride, Read, HasCover, ViewerRoles, ViewerAdmin, Query, Respond, Abort,
                OnlyTask, OnlyCovers
  <2> QED BY <1>2, <2>1, <2>2
<1> QED BY <1>3, <1>4, <1>5, <1>6, <1>7, <1>8, ScanIssuesNoRole DEF Step

\* Ids come from the counters, and what a foreign key of the accounts or the
\* annotations names is there.
AccountKeys ==
  /\ Counted
  /\ DOMAIN roles \subseteq 1..last.roles
  /\ userRoles \subseteq (DOMAIN users) \X (DOMAIN roles)
  /\ \A n \in DOMAIN annotations : n[1] \in DOMAIN users

\* Behind their counter, roles stay behind it.
LEMMA RolesStayIssued ==
  ASSUME AccountKeys, NEW t, RolesIssued(t)
  PROVE  DOMAIN roles' \subseteq 1..last'.roles
<1>1. last.roles \in Nat /\ last'.roles \in Nat
  BY DEF AccountKeys, Counted, RolesIssued, Tables
<1> QED BY <1>1 DEF AccountKeys, RolesIssued

\* Where accounts only grow, and roles are given to users that are there.
LEMMA MoreAccounts ==
  ASSUME AccountKeys, Counted', NEW t, RolesIssued(t),
         DOMAIN users \subseteq DOMAIN users', DOMAIN roles \subseteq DOMAIN roles',
         userRoles' \subseteq userRoles \cup ((DOMAIN users') \X (DOMAIN roles')),
         \A n \in DOMAIN annotations' : n \in DOMAIN annotations \/ n[1] \in DOMAIN users'
  PROVE  AccountKeys'
<1>1. userRoles' \subseteq (DOMAIN users') \X (DOMAIN roles')
  BY DEF AccountKeys
<1>2. \A n \in DOMAIN annotations' : n[1] \in DOMAIN users'
  BY DEF AccountKeys
<1> QED BY <1>1, <1>2, RolesStayIssued DEF AccountKeys

\* A user that is removed takes along its roles and its annotations.
LEMMA RemovedUser ==
  ASSUME AccountKeys, Counted', NEW t, RolesIssued(t), NEW u, RemoveUser(u), UNCHANGED roles
  PROVE  AccountKeys'
<1>1. DOMAIN users' = DOMAIN users \ {u} /\ userRoles' = {ur \in userRoles : ur[1] # u}
  BY DEF RemoveUser, Without
<1>2. userRoles' \subseteq (DOMAIN users') \X (DOMAIN roles')
  BY <1>1 DEF AccountKeys
<1>3. \A n \in DOMAIN annotations' : n[1] \in DOMAIN users'
  BY <1>1 DEF AccountKeys, RemoveUser
<1> QED BY <1>2, <1>3, RolesStayIssued DEF AccountKeys

\* A role that is deleted is taken from all who have it.
LEMMA RemovedRole ==
  ASSUME AccountKeys, Counted', NEW t, RolesIssued(t), DeleteRole(t)
  PROVE  AccountKeys'
<1> DEFINE r == Req(t).role
<1>1. /\ DOMAIN roles' = DOMAIN roles \ {r} /\ userRoles' = {ur \in userRoles : ur[2] # r}
      /\ UNCHANGED <<users, annotations>>
  BY DEF DeleteRole, Without
<1> HIDE DEF r
<1>2. userRoles' \subseteq (DOMAIN users') \X (DOMAIN roles')
  BY <1>1 DEF AccountKeys
<1> QED BY <1>1, <1>2, RolesStayIssued DEF AccountKeys

\* Every step of a handler keeps the keys of the accounts.
LEMMA AccountKeysStep ==
  ASSUME AccountKeys, Counted', NEW t \in Tasks, Step(t)
  PROVE  AccountKeys'
<1>0. RolesIssued(t)
  BY StepIssuesRoles DEF AccountKeys, Counted
<1>1. CASE UNCHANGED <<users, roles, userRoles, annotations>>
  BY <1>0, <1>1, MoreAccounts
<1>2. CASE CreateUser(t)
  <2>1. CASE InsertUser(t)
    BY <1>0, <2>1, MoreAccounts DEF InsertUser, With
  <2>2. CASE MakeRole(t)
    BY <1>0, <2>2, MoreAccounts DEF MakeRole, NewRole, With
  <2>3. CASE AssignBuiltin(t)
    BY <1>0, <2>3, MoreAccounts DEF AssignBuiltin, Assigned
  <2>4. CASE SetNewEmail(t)
    BY <1>0, <2>4, MoreAccounts DEF SetNewEmail
  <2>5. CASE UndoCreate(t)
    BY <1>0, <2>5, RemovedUser DEF UndoCreate
  <2> QED BY <1>1, <1>2, <2>1, <2>2, <2>3, <2>4, <2>5
       DEF CreateUser, ListUsers, FindRole, GetCreated, OnlyTask, index, accounts
<1>3. CASE ManageUser(t)
  <2>1. CASE SetEmail(t) \/ SetPassword(t) \/ ChangePassword(t)
    BY <1>0, <2>1, MoreAccounts DEF SetEmail, SetPassword, ChangePassword, Update
  <2>2. CASE SetAdmin(t)
    BY <1>0, <2>2, MoreAccounts DEF SetAdmin, Assigned, Unassigned
  <2>3. CASE DeleteUser(t)
    BY <1>0, <2>3, RemovedUser DEF DeleteUser
  <2> QED BY <1>1, <1>3, <2>1, <2>2, <2>3
       DEF ManageUser, FindUser, GetUser, FindAdminRole, OnlyTask, index, accounts
<1>4. CASE ManageRole(t)
  <2>1. CASE CreateRole(t)
    BY <1>0, <2>1, MoreAccounts DEF CreateRole, NewRole, With
  <2>2. CASE Assignment(t)
    BY <1>0, <2>2, MoreAccounts DEF Assignment, Assigned, Unassigned
  <2> QED BY <1>0, <1>1, <1>4, <2>1, <2>2, RemovedRole
       DEF ManageRole, ReadBuiltin, CheckUser, CheckRole, OnlyTask, index, accounts
<1>5. CASE Annotate(t)
  <2>1. UNCHANGED <<users, roles, userRoles>>
    BY <1>5 DEF Annotate, accounts
  <2>2. \A n \in DOMAIN annotations' : n \in DOMAIN annotations \/ n[1] \in DOMAIN users'
    BY <1>5, <2>1 DEF Annotate, With
  <2> QED BY <1>0, <2>1, <2>2, MoreAccounts
<1>6. CASE ManageRule(t)
  BY <1>1, <1>6 DEF ManageRule, CheckScope, SetRule, GetRule, DeleteRule, OnlyTask, index, accounts
<1>7. CASE Authenticate(t)
  BY <1>1, <1>7 DEF Authenticate, Arrive, ReadPassword, ReadUser, LoadUser, LoadRoles, OnlyTask, index,
     accounts
<1>8. CASE SetCoverArt(t) \/ UpdateTags(t) \/ Scan(t) \/ Read(t) \/ Abort(t)
  <2>1. UNCHANGED <<users, roles, userRoles>>
    BY <1>8, OthersKeepAccounts
  <2>2. UNCHANGED annotations
    BY <1>8 DEF SetCoverArt, PutCover, UpdateCover, UndoCover, UpdateTags, CheckTrack,
                SetOverride, Read, HasCover, ViewerRoles, ViewerAdmin, Query, Respond, Abort, Scan,
                StoreCover, UpsertArtist, UpsertAlbum, SetAlbumCover, UpsertTrack, Vanish,
                OnlyTask, OnlyCovers, index
  <2> QED BY <1>1, <2>1, <2>2
<1> QED BY <1>2, <1>3, <1>4, <1>5, <1>6, <1>7, <1>8 DEF Step

-----------------------------------------------------------------------------
(***************************************************************************)
(* The keys of the rules and of the catalog.                               *)
(***************************************************************************)
\* A rule has an id of its own, from the counter.
RuleKeys ==
  /\ \A s \in DOMAIN rules : rules[s].id \in 1..last.rules
  /\ \A s1, s2 \in DOMAIN rules : rules[s1].id = rules[s2].id => s1 = s2

\* Where rules only go, or change what they grant.
LEMMA FewerRules ==
  ASSUME RuleKeys, Counted, NEW t, RolesIssued(t),
         \A s \in DOMAIN rules' : s \in DOMAIN rules /\ rules'[s].id = rules[s].id
  PROVE  RuleKeys'
<1>1. last.rules \in Nat /\ last'.rules \in Nat /\ last.rules <= last'.rules
  BY DEF Counted, RolesIssued, Tables
<1> QED BY <1>1 DEF RuleKeys

\* set_rule inserts under a fresh id, or keeps the id the scope has.
LEMMA SetRuleKeys ==
  ASSUME RuleKeys, Counted, NEW t \in Tasks, RolesIssued(t), SetRule(t)
  PROVE  RuleKeys'
<1> DEFINE s == Req(t).scope
<1>1. last.rules \in Nat /\ last'.rules \in Nat /\ last.rules <= last'.rules
  BY DEF Counted, RolesIssued, Tables
<1>2. CASE UNCHANGED rules
  BY <1>2, FewerRules
<1>3. ASSUME s \in DOMAIN rules, rules' = With(rules, s, [id |-> rules[s].id, grants |-> Req(t).grants])
      PROVE  RuleKeys'
  BY <1>3, FewerRules DEF With
<1>4. ASSUME s \notin DOMAIN rules, last' = [last EXCEPT !.rules = last.rules + 1],
             rules' = With(rules, s, [id |-> last.rules + 1, grants |-> Req(t).grants])
      PROVE  RuleKeys'
  <2>1. last'.rules = last.rules + 1
    BY <1>4 DEF Counted, Tables
  <2>2. /\ DOMAIN rules' = DOMAIN rules \cup {s} /\ rules'[s].id = last.rules + 1
        /\ \A x \in DOMAIN rules : rules'[x] = rules[x]
    BY <1>4 DEF With
  <2> HIDE DEF s
  <2> QED BY <1>1, <2>1, <2>2 DEF RuleKeys
<1> QED BY <1>2, <1>3, <1>4 DEF SetRule

\* Every step keeps the ids of rules apart.
LEMMA RuleKeysStep ==
  ASSUME RuleKeys, Counted, NEW t \in Tasks, RolesIssued(t), Step(t)
  PROVE  RuleKeys'
<1>1. CASE UNCHANGED rules
  BY <1>1, FewerRules
<1>2. ASSUME NEW p, DropGrants(p) PROVE RuleKeys'
  BY <1>2, FewerRules DEF DropGrants
<1>3. CASE CreateUser(t)
  BY <1>1, <1>2, <1>3 DEF CreateUser, ListUsers, InsertUser, FindRole, MakeRole, AssignBuiltin,
     GetCreated, SetNewEmail, UndoCreate, RemoveUser, OnlyTask, index
<1>4. CASE ManageUser(t)
  BY <1>1, <1>2, <1>4 DEF ManageUser, FindUser, GetUser, SetEmail, SetPassword, FindAdminRole, SetAdmin,
     DeleteUser, RemoveUser, ChangePassword, OnlyTask, index
<1>5. CASE ManageRole(t)
  BY <1>1, <1>2, <1>5 DEF ManageRole, CreateRole, ReadBuiltin, DeleteRole, CheckUser, CheckRole,
     Assignment, OnlyTask, index
<1>6. CASE DeleteRule(t)
  BY <1>6, FewerRules DEF DeleteRule
<1>7. CASE CheckScope(t) \/ GetRule(t)
  BY <1>1, <1>7 DEF CheckScope, GetRule, OnlyTask, index
<1> QED BY <1>1, <1>3, <1>4, <1>5, <1>6, <1>7, SetRuleKeys, OthersKeepAccounts DEF Step, ManageRule

\* The artist and the album that a scan has found or made for a file.
WithArtist == {"upsertAlbum", "setAlbumCover", "upsertTrack"}
WithAlbum == {"setAlbumCover", "upsertTrack"}

\* What a row of the catalog names is there, and so is what a scan has in hand.
CatalogKeys ==
  /\ \A x \in DOMAIN tracks : /\ tracks[x].album \in DOMAIN albums \cup {Null}
                              /\ tracks[x].artist \in DOMAIN artists \cup {Null}
  /\ DOMAIN genreTags \subseteq DOMAIN tracks
  /\ \A a \in DOMAIN albums : /\ "artist" \in DOMAIN albums[a]
                              /\ albums[a].artist \in DOMAIN artists \cup {Null}
  /\ \A t \in Tasks : /\ task[t].pc \in WithArtist => task[t].row \in DOMAIN artists \cup {Null}
                      /\ task[t].pc \in WithAlbum => task[t].role \in DOMAIN albums \cup {Null}

\* What a step must show: artists and albums stay, and what is new names them.
CatalogGrows(t) ==
  /\ DOMAIN artists \subseteq DOMAIN artists' /\ DOMAIN albums \subseteq DOMAIN albums'
  /\ \A x \in DOMAIN tracks' :
       \/ x \in DOMAIN tracks /\ tracks'[x] = tracks[x]
       \/ /\ tracks'[x].album \in DOMAIN albums' \cup {Null}
          /\ tracks'[x].artist \in DOMAIN artists' \cup {Null}
  /\ DOMAIN genreTags' \subseteq DOMAIN tracks'
  /\ \A a \in DOMAIN albums' :
       /\ "artist" \in DOMAIN albums'[a]
       /\ \/ a \in DOMAIN albums /\ albums'[a].artist = albums[a].artist
          \/ albums'[a].artist \in DOMAIN artists' \cup {Null}

\* Where the library does not change.
LEMMA SameCatalog ==
  ASSUME CatalogKeys, NEW t, UNCHANGED catalog
  PROVE  CatalogGrows(t)
  BY DEF CatalogKeys, CatalogGrows, catalog

\* A column of an album other than its artist is written.
LEMMA AlbumColumn ==
  ASSUME CatalogKeys, NEW t, UNCHANGED <<tracks, genreTags, artists>>, NEW b \in DOMAIN albums, NEW x,
         \/ albums' = [albums EXCEPT ![b].cover = x]
         \/ albums' = [albums EXCEPT ![b].genre = x]
  PROVE  CatalogGrows(t)
<1>1. DOMAIN albums' = DOMAIN albums /\ \A a \in DOMAIN albums : a # b => albums'[a] = albums[a]
  OBVIOUS
<1>2. albums'[b] = [albums[b] EXCEPT !.cover = x] \/ albums'[b] = [albums[b] EXCEPT !.genre = x]
  OBVIOUS
<1>3. "artist" \in DOMAIN albums[b]
  BY DEF CatalogKeys
<1>4. "artist" \in DOMAIN albums'[b] /\ albums'[b].artist = albums[b].artist
  BY <1>2, <1>3
<1> QED BY <1>1, <1>4 DEF CatalogKeys, CatalogGrows

\* A scan inserts rows whose keys it has inserted before.
LEMMA ScanGrows ==
  ASSUME CatalogKeys, NEW t \in Tasks, Scan(t)
  PROVE  CatalogGrows(t)
<1>1. CASE StoreCover(t)
  BY <1>1, SameCatalog DEF StoreCover, OnlyCovers, index
<1>2. CASE UpsertArtist(t)
  <2>1. UNCHANGED <<tracks, genreTags, albums>> /\ DOMAIN artists \subseteq DOMAIN artists'
    BY <1>2 DEF UpsertArtist, With
  <2> QED BY <2>1 DEF CatalogKeys, CatalogGrows
<1>3. CASE UpsertAlbum(t)
  <2>1. UNCHANGED <<tracks, genreTags, artists>> /\ task[t].row \in DOMAIN artists \cup {Null}
    BY <1>3 DEF UpsertAlbum, At, CatalogKeys, WithArtist
  <2>2. CASE UNCHANGED albums
    BY <2>1, <2>2, SameCatalog DEF catalog
  <2>3. ASSUME NEW a \in DOMAIN albums, NEW genre, albums' = [albums EXCEPT ![a].genre = genre]
        PROVE  CatalogGrows(t)
    BY <2>1, <2>3, AlbumColumn
  <2>4. ASSUME NEW a, NEW name, NEW genre,
               albums' = With(albums, a, [name |-> name, artist |-> task[t].row, genre |-> genre,
                                          cover |-> Null])
        PROVE  CatalogGrows(t)
    <3> DEFINE row == [name |-> name, artist |-> task[t].row, genre |-> genre, cover |-> Null]
    <3>1. "artist" \in DOMAIN row /\ row.artist = task[t].row
      OBVIOUS
    <3> HIDE DEF row
    <3>2. /\ DOMAIN albums' = DOMAIN albums \cup {a} /\ albums'[a] = row
          /\ \A b \in DOMAIN albums : b # a => albums'[b] = albums[b]
      BY <2>4 DEF With, row
    <3> QED BY <2>1, <3>1, <3>2 DEF CatalogKeys, CatalogGrows
  <2> QED BY <1>3, <2>2, <2>3, <2>4 DEF UpsertAlbum
<1>4. CASE SetAlbumCover(t)
  <2>1. UNCHANGED <<tracks, genreTags, artists>>
    BY <1>4 DEF SetAlbumCover
  <2>2. CASE UNCHANGED albums
    BY <2>1, <2>2, SameCatalog DEF catalog
  <2> QED BY <1>4, <2>1, <2>2, AlbumColumn DEF SetAlbumCover
<1>5. CASE UpsertTrack(t)
  <2>1. /\ UNCHANGED <<genreTags, artists, albums>>
        /\ task[t].row \in DOMAIN artists \cup {Null} /\ task[t].role \in DOMAIN albums \cup {Null}
    BY <1>5 DEF UpsertTrack, At, CatalogKeys, WithArtist, WithAlbum
  <2>2. PICK id : tracks' = With(tracks, id, [key |-> Req(t).key, album |-> task[t].role,
                                             artist |-> task[t].row, genre |-> Req(t).genre])
    BY <1>5 DEF UpsertTrack
  <2> QED BY <2>1, <2>2 DEF CatalogKeys, CatalogGrows, With
<1>6. CASE Vanish(t)
  <2> DEFINE gone == TrackAt(Req(t).key)
  <2>1. /\ UNCHANGED <<albums, artists>> /\ tracks' = [x \in DOMAIN tracks \ gone |-> tracks[x]]
        /\ genreTags' = [x \in DOMAIN genreTags \ gone |-> genreTags[x]]
    BY <1>6 DEF Vanish
  <2> HIDE DEF gone
  <2> QED BY <2>1 DEF CatalogKeys, CatalogGrows
<1> QED BY <1>1, <1>2, <1>3, <1>4, <1>5, <1>6 DEF Scan

\* No other step inserts into the library.
LEMMA StepGrows ==
  ASSUME CatalogKeys, NEW t \in Tasks, Step(t)
  PROVE  CatalogGrows(t)
<1>1. CASE Authenticate(t)
  BY <1>1, SameCatalog DEF Authenticate, Arrive, ReadPassword, ReadUser, LoadUser, LoadRoles, OnlyTask,
     index
<1>2. CASE CreateUser(t)
  BY <1>2, SameCatalog DEF CreateUser, ListUsers, InsertUser, FindRole, MakeRole, AssignBuiltin,
     GetCreated, SetNewEmail, UndoCreate, OnlyTask, index
<1>3. CASE ManageUser(t)
  BY <1>3, SameCatalog DEF ManageUser, FindUser, GetUser, SetEmail, SetPassword, FindAdminRole,
     SetAdmin, DeleteUser, ChangePassword, OnlyTask, index
<1>4. CASE ManageRole(t)
  BY <1>4, SameCatalog DEF ManageRole, CreateRole, ReadBuiltin, DeleteRole, CheckUser, CheckRole,
     Assignment, OnlyTask, index
<1>5. CASE ManageRule(t)
  BY <1>5, SameCatalog DEF ManageRule, CheckScope, SetRule, GetRule, DeleteRule, OnlyTask, index
<1>6. CASE Annotate(t)
  BY <1>6, SameCatalog DEF Annotate
<1>7. CASE SetCoverArt(t)
  <2>1. CASE UpdateCover(t)
    <3>1. UNCHANGED <<tracks, genreTags, artists>>
      BY <2>1 DEF UpdateCover
    <3>2. CASE UNCHANGED albums
      BY <3>1, <3>2, SameCatalog DEF catalog
    <3> QED BY <2>1, <3>1, <3>2, AlbumColumn DEF UpdateCover
  <2> QED BY <1>7, <2>1, SameCatalog DEF SetCoverArt, PutCover, UndoCover, OnlyCovers, index
<1>8. CASE UpdateTags(t)
  <2>1. CASE SetOverride(t)
    <3>1. UNCHANGED <<tracks, artists, albums>>
      BY <2>1 DEF SetOverride
    <3>2. DOMAIN genreTags' \subseteq DOMAIN tracks
      BY <2>1 DEF SetOverride, With, CatalogKeys
    <3> QED BY <3>1, <3>2 DEF CatalogKeys, CatalogGrows
  <2> QED BY <1>8, <2>1, SameCatalog DEF UpdateTags, CheckTrack, OnlyTask, index
<1>9. CASE Read(t)
  BY <1>9, SameCatalog DEF Read, HasCover, ViewerRoles, ViewerAdmin, Query, Respond, OnlyTask, index
<1>10. CASE Abort(t)
  BY <1>10, SameCatalog DEF Abort, index
<1> QED BY <1>1, <1>2, <1>3, <1>4, <1>5, <1>6, <1>7, <1>8, <1>9, <1>10, ScanGrows DEF Step

\* Only a scan comes to hold an artist or an album, and it found or made them.
LEMMA InHand ==
  ASSUME Shape, CatalogKeys, NEW t \in Tasks, Step(t)
  PROVE  /\ task'[t].pc \in WithArtist => task'[t].row \in DOMAIN artists' \cup {Null}
         /\ task'[t].pc \in WithAlbum => task'[t].role \in DOMAIN albums' \cup {Null}
<1> USE DEF WithArtist, WithAlbum
<1>0. Handlers
  BY DEF Shape
<1>1. CASE Scan(t)
  <2>1. CASE StoreCover(t)
    BY <1>0, <2>1, Going DEF StoreCover, Moves
  <2>2. CASE UpsertArtist(t)
    BY <1>0, <2>2, Finding DEF UpsertArtist, Moves, With
  <2>3. CASE UpsertAlbum(t)
    <3>1. /\ task[t].row \in DOMAIN artists \cup {Null} /\ UNCHANGED artists
          /\ \E a \in DOMAIN albums' \cup {Null} : Ranked(t, "setAlbumCover", a)
      BY <2>3 DEF UpsertAlbum, At, CatalogKeys, With
    <3> QED BY <1>0, <3>1, Ranking DEF Moves
  <2>4. CASE SetAlbumCover(t)
    <3>1. /\ task[t].row \in DOMAIN artists \cup {Null} /\ UNCHANGED artists
          /\ task[t].role \in DOMAIN albums \cup {Null} /\ Go(t, "upsertTrack")
      BY <2>4 DEF SetAlbumCover, At, CatalogKeys
    <3>2. DOMAIN albums' = DOMAIN albums
      BY <2>4 DEF SetAlbumCover
    <3> QED BY <1>0, <3>1, <3>2, Going DEF Moves
  <2>5. CASE UpsertTrack(t) \/ Vanish(t)
    BY <1>0, <2>5, Replying DEF UpsertTrack, Vanish
  <2> QED BY <1>1, <2>1, <2>2, <2>3, <2>4, <2>5 DEF Scan
<1>2. CASE Authenticate(t)
  <2>1. CASE Arrive(t)
    BY <2>1, Arriving
  <2>2. CASE ~Arrive(t)
    BY <1>2, <2>2, DoorLands DEF Authenticate, Enters, Firsts
  <2> QED BY <2>1, <2>2
<1>3. CASE CreateUser(t) \/ ManageUser(t) \/ ManageRole(t) \/ ManageRule(t) \/ Annotate(t)
        \/ SetCoverArt(t) \/ UpdateTags(t) \/ Read(t)
  BY <1>3, CreateUserLands, ManageUserLands, ManageRoleLands, ManageRuleLands, AnnotateLands,
     SetCoverArtLands, UpdateTagsLands, ReadLands DEF Lands
<1>4. CASE Abort(t)
  BY <1>0, <1>4, Replying DEF Abort
<1> QED BY <1>1, <1>2, <1>3, <1>4 DEF Step

\* Every step keeps the keys of the library.
LEMMA CatalogKeysStep ==
  ASSUME Shape, CatalogKeys, NEW t \in Tasks, Step(t)
  PROVE  CatalogKeys'
<1>1. CatalogGrows(t) /\ \A x \in Tasks \ {t} : task'[x] = task[x]
  BY StepGrows, StepsLand, Arriving
<1>2. \A x \in Tasks :
        /\ task'[x].pc \in WithArtist => task'[x].row \in DOMAIN artists' \cup {Null}
        /\ task'[x].pc \in WithAlbum => task'[x].role \in DOMAIN albums' \cup {Null}
  BY <1>1, InHand DEF CatalogKeys, CatalogGrows
<1> QED BY <1>1, <1>2 DEF CatalogKeys, CatalogGrows

-----------------------------------------------------------------------------
(***************************************************************************)
(* What handlers answer, and the type invariant.                           *)
(***************************************************************************)
\* A handler that ends remembers which operation it was.
LEMMA ReplyingKeepsOp ==
  ASSUME Handlers, NEW t \in Tasks, NEW a, Reply(t, a)
  PROVE  Op(t)' = Op(t)
<1> DEFINE n == Closed(t, a)
           q == [op |-> Op(t)]
           k == task[t].known
<1>1. n = [Blank EXCEPT !.pc = "done", !.req = q, !.answer = a, !.known = k]
  BY DEF Closed
<1>2. task' = [task EXCEPT ![t] = n] /\ q.op = Op(t)
  BY DEF Reply
<1> HIDE DEF q, k, n
<1>3. n.req = q
  BY <1>1 DEF Blank
<1>4. task'[t] = n
  BY <1>2 DEF Handlers
<1> QED BY <1>2, <1>3, <1>4 DEF Op, Req

\* A step that sets some other field of its handler leaves answer and request alone.
LEMMA AnswerStays ==
  ASSUME Handlers, NEW t \in Tasks, NEW h, task' = [task EXCEPT ![t] = h],
         h.answer = task[t].answer /\ h.req = task[t].req
  PROVE  /\ \A x \in Tasks \ {t} : task'[x] = task[x]
         /\ task'[t] = h /\ task'[t].answer = task[t].answer /\ Op(t)' = Op(t)
  BY DEF Handlers, Op, Req

\* A step of t ends with one of these answers, or goes on without one.
Says(t, answers) ==
  /\ \A x \in Tasks \ {t} : task'[x] = task[x]
  /\ Op(t)' = Op(t)
  /\ \/ task'[t].answer = task[t].answer
     \/ task'[t].pc = "done" /\ task'[t].answer \in answers

\* Going on and replying, with what is answered.
LEMMA Saying ==
  ASSUME Handlers, NEW t \in Tasks, NEW answers
  PROVE  /\ \A pc : Go(t, pc) => Says(t, answers)
         /\ \A pc, id : Found(t, pc, id) => Says(t, answers)
         /\ \A pc, r : Ranked(t, pc, r) => Says(t, answers)
         /\ \A a \in answers : Reply(t, a) => Says(t, answers)
<1>1. ASSUME NEW pc, Go(t, pc) PROVE Says(t, answers)
  BY <1>1, Going DEF Says, Moves, Op, Req
<1>2. ASSUME NEW pc, NEW id, Found(t, pc, id) PROVE Says(t, answers)
  BY <1>2, Finding DEF Says, Moves, Op, Req
<1>3. ASSUME NEW pc, NEW r, Ranked(t, pc, r) PROVE Says(t, answers)
  BY <1>3, Ranking DEF Says, Moves, Op, Req
<1>4. ASSUME NEW a \in answers, Reply(t, a) PROVE Says(t, answers)
  BY <1>4, Replying, ReplyingKeepsOp DEF Says
<1> QED BY <1>1, <1>2, <1>3, <1>4

\* The steps of the door, of a reader and of an annotation that set fields of
\* their own.
LEMMA DoorSays ==
  ASSUME Handlers, NEW t \in Tasks, Authenticate(t)
  PROVE  Says(t, Answers) \/ Arrive(t)
<1> IsHandler(task[t])
  BY DEF Handlers
<1> USE Saying DEF Answers, Refusals
<1>1. CASE ReadPassword(t)
  BY <1>1 DEF ReadPassword
<1>2. CASE ReadUser(t)
  <2>1. ASSUME NEW u, task' = [task EXCEPT ![t].pc = "loadUser", ![t].me = u]
        PROVE  Says(t, Answers)
    <3> DEFINE h == [task[t] EXCEPT !.pc = "loadUser", !.me = u]
    <3>1. task' = [task EXCEPT ![t] = h] /\ h.answer = task[t].answer /\ h.req = task[t].req
      BY <2>1 DEF IsHandler
    <3> HIDE DEF h
    <3> QED BY <3>1, AnswerStays DEF Says
  <2> QED BY <1>2, <2>1 DEF ReadUser
<1>3. CASE LoadUser(t)
  <2>1. ASSUME NEW n, task' = [task EXCEPT ![t].pc = "loadRoles", ![t].name = n]
        PROVE  Says(t, Answers)
    <3> DEFINE h == [task[t] EXCEPT !.pc = "loadRoles", !.name = n]
    <3>1. task' = [task EXCEPT ![t] = h] /\ h.answer = task[t].answer /\ h.req = task[t].req
      BY <2>1 DEF IsHandler
    <3> HIDE DEF h
    <3> QED BY <3>1, AnswerStays DEF Says
  <2> QED BY <1>3, <2>1 DEF LoadUser
<1>4. CASE LoadRoles(t)
  <2>1. ASSUME NEW pc, NEW adm, NEW later,
               task' = [task EXCEPT ![t].pc = pc, ![t].admin = adm, ![t].later = later]
        PROVE  Says(t, Answers)
    <3> DEFINE h == [task[t] EXCEPT !.pc = pc, !.admin = adm, !.later = later]
    <3>1. task' = [task EXCEPT ![t] = h] /\ h.answer = task[t].answer /\ h.req = task[t].req
      BY <2>1 DEF IsHandler
    <3> HIDE DEF h
    <3> QED BY <3>1, AnswerStays DEF Says
  <2> QED BY <1>4, <2>1 DEF LoadRoles
<1> QED BY <1>1, <1>2, <1>3, <1>4 DEF Authenticate

\* What a read answers.
LEMMA ReadSays ==
  ASSUME Handlers, NEW t \in Tasks, Read(t)
  PROVE  Says(t, {"notFound", "ok"})
<1> IsHandler(task[t])
  BY DEF Handlers
<1> USE Saying
<1>1. CASE HasCover(t) \/ Respond(t)
  BY <1>1 DEF HasCover, Respond
<1>2. CASE ViewerRoles(t)
  <2> DEFINE h == [task[t] EXCEPT !.pc = "viewerAdmin", !.view = RolesOf(task[t].me)]
  <2>1. task' = [task EXCEPT ![t] = h] /\ h.answer = task[t].answer /\ h.req = task[t].req
    BY <1>2 DEF IsHandler, ViewerRoles
  <2> HIDE DEF h
  <2> QED BY <2>1, AnswerStays DEF Says
<1>3. CASE ViewerAdmin(t)
  <2>1. PICK b, todo, later : task' = [task EXCEPT ![t].pc = "query", ![t].bypass = b,
                                                  ![t].todo = todo, ![t].later = later]
    BY <1>3, Zenon DEF ViewerAdmin
  <2> DEFINE h == [task[t] EXCEPT !.pc = "query", !.bypass = b, !.todo = todo, !.later = later]
  <2>2. task' = [task EXCEPT ![t] = h] /\ h.answer = task[t].answer /\ h.req = task[t].req
    BY <2>1 DEF IsHandler
  <2> HIDE DEF h
  <2> QED BY <2>2, AnswerStays DEF Says
<1>4. ASSUME NEW todo, NEW found, Continue(t, todo, found) PROVE Says(t, {"notFound", "ok"})
  <2>1. PICK stage, later, got : task' = [task EXCEPT ![t].todo = stage, ![t].later = later,
                                                     ![t].got = got]
    BY <1>4, Zenon DEF Continue
  <2> DEFINE h == [task[t] EXCEPT !.todo = stage, !.later = later, !.got = got]
  <2>2. task' = [task EXCEPT ![t] = h] /\ h.answer = task[t].answer /\ h.req = task[t].req
    BY <2>1 DEF IsHandler
  <2> HIDE DEF h
  <2> QED BY <2>2, AnswerStays DEF Says
<1>5. CASE Query(t)
  <2>1. (\E todo, found : Continue(t, todo, found)) \/ Reply(t, "notFound")
    BY <1>5 DEF Query
  <2> QED BY <1>4, <2>1
<1> QED BY <1>1, <1>2, <1>3, <1>5 DEF Read

\* What an annotation answers.
LEMMA AnnotateSays ==
  ASSUME Handlers, NEW t \in Tasks, Annotate(t)
  PROVE  Says(t, {"ok", "internal"})
<1> IsHandler(task[t])
  BY DEF Handlers
<1>1. ASSUME task' = [task EXCEPT ![t].later = Tail(@)] PROVE Says(t, {"ok", "internal"})
  <2> DEFINE h == [task[t] EXCEPT !.later = Tail(task[t].later)]
  <2>1. task' = [task EXCEPT ![t] = h] /\ h.answer = task[t].answer /\ h.req = task[t].req
    BY <1>1 DEF IsHandler
  <2> HIDE DEF h
  <2> QED BY <2>1, AnswerStays DEF Says
<1> QED BY <1>1, Saying DEF Annotate

\* Every step of a handler gives one of the answers, or none.
LEMMA StepAnswers ==
  ASSUME Shape, \A x \in Tasks : task[x].answer \in Answers, NEW t \in Tasks, Step(t)
  PROVE  \A x \in Tasks : task'[x].answer \in Answers
<1> Handlers
  BY DEF Shape
<1>1. ASSUME Says(t, Answers) PROVE \A x \in Tasks : task'[x].answer \in Answers
  BY <1>1 DEF Says
<1>2. {"ok", "internal", "notFound", "forbidden", "refused", "unauthorized"} \subseteq Answers
  BY DEF Answers, Refusals
<1>3. \A a \in {"ok", "internal", "notFound", "forbidden", "refused", "unauthorized"} :
        Reply(t, a) => Says(t, Answers)
  BY <1>2, Saying
<1>4. /\ \A pc : Go(t, pc) => Says(t, Answers)
      /\ \A pc, id : Found(t, pc, id) => Says(t, Answers)
      /\ \A pc, r : Ranked(t, pc, r) => Says(t, Answers)
  BY Saying
<1>5. CASE Authenticate(t)
  BY <1>1, <1>5, DoorSays, Arriving DEF Answers
<1>6. CASE CreateUser(t)
  BY <1>1, <1>3, <1>4, <1>6 DEF CreateUser, ListUsers, InsertUser, FindRole, MakeRole, AssignBuiltin,
     Assigned, GetCreated, SetNewEmail, UndoCreate
<1>7. CASE ManageUser(t)
  BY <1>1, <1>3, <1>4, <1>7 DEF ManageUser, FindUser, GetUser, SetEmail, SetPassword, FindAdminRole,
     SetAdmin, Assigned, DeleteUser, ChangePassword
<1>8. CASE ManageRole(t)
  BY <1>1, <1>3, <1>4, <1>8 DEF ManageRole, CreateRole, ReadBuiltin, DeleteRole, CheckUser, CheckRole,
     Assignment, Assigned
<1>9. CASE ManageRule(t)
  BY <1>1, <1>3, <1>4, <1>9 DEF ManageRule, CheckScope, SetRule, GetRule, DeleteRule
<1>10. CASE SetCoverArt(t) \/ UpdateTags(t) \/ Scan(t)
  BY <1>1, <1>3, <1>4, <1>10 DEF SetCoverArt, PutCover, UpdateCover, UndoCover, UpdateTags, CheckTrack,
     SetOverride, Scan, StoreCover, UpsertArtist, UpsertAlbum, SetAlbumCover, UpsertTrack, Vanish
<1>11. CASE Annotate(t) \/ Read(t)
  <2>1. Says(t, Answers)
    BY <1>2, <1>11, AnnotateSays, ReadSays DEF Says
  <2> QED BY <1>1, <2>1
<1>12. CASE Abort(t)
  BY <1>1, <1>3, <1>12 DEF Abort
<1> QED BY <1>5, <1>6, <1>7, <1>8, <1>9, <1>10, <1>11, <1>12 DEF Step

\* The keys of all tables, and the answers.
Keyed ==
  /\ Shape /\ AccountKeys /\ RuleKeys /\ CatalogKeys
  /\ \A t \in Tasks : task[t].answer \in Answers

\* The databases a run starts from have their keys.
LEMMA InitKeyed ==
  ASSUME Init
  PROVE  Keyed
<1>1. Shape /\ \A t \in Tasks : task[t].pc \in {"idle", "listUsers"}
  BY Beginning
<1>2. AccountKeys /\ RuleKeys
  <2>1. PICK s \in Starts : /\ users = s.users /\ roles = s.roles /\ userRoles = s.userRoles
                           /\ rules = s.rules /\ annotations = s.annotations /\ last = s.last
    BY DEF Init
  <2>2. Counted
    BY <2>1, StartsAssumption DEF Counted
  <2>3. /\ DOMAIN roles \subseteq 1..last.roles
        /\ userRoles \subseteq (DOMAIN users) \X (DOMAIN roles)
        /\ \A n \in DOMAIN annotations : n[1] \in DOMAIN users
    BY <2>1, KeysAssumption
  <2>4. RuleKeys
    BY <2>1, KeysAssumption DEF RuleKeys
  <2> QED BY <2>2, <2>3, <2>4 DEF AccountKeys
<1>3. \A x \in DOMAIN tracks : /\ tracks[x].album \in DOMAIN albums \cup {Null}
                               /\ tracks[x].artist \in DOMAIN artists \cup {Null}
  BY KeysAssumption DEF Init
<1>4. DOMAIN genreTags \subseteq DOMAIN tracks
  BY KeysAssumption DEF Init
<1>5. \A a \in DOMAIN albums : /\ "artist" \in DOMAIN albums[a]
                               /\ albums[a].artist \in DOMAIN artists \cup {Null}
  BY KeysAssumption DEF Init
<1>6. CatalogKeys
  BY <1>1, <1>3, <1>4, <1>5 DEF CatalogKeys, WithArtist, WithAlbum
<1>7. \A t \in Tasks : task[t].answer = "none"
  <2>1. Blank.answer = "none"
    BY DEF Blank
  <2>2. Start0.answer = "none"
    <3> SUFFICES ASSUME NEW h, h = Start0 PROVE h.answer = "none"
      OBVIOUS
    <3> QED BY DEF Start0, Blank
  <2> QED BY <2>1, <2>2 DEF Init
<1> QED BY <1>1, <1>2, <1>6, <1>7 DEF Keyed, Answers

\* Every step keeps all keys.
LEMMA KeyedStep ==
  ASSUME Keyed, [Next]_vars
  PROVE  Keyed'
<1>0. Counted'
  BY IdsAreNotReused DEF Keyed, AccountKeys
<1>1. CASE UNCHANGED vars
  <2>1. Shape'
    BY <1>1 DEF Keyed, Shape, Handlers, vars, history, Op, Req
  <2>2. AccountKeys' /\ RuleKeys'
    BY <1>0, <1>1 DEF Keyed, AccountKeys, RuleKeys, vars, index, accounts
  <2>3. CatalogKeys' /\ \A t \in Tasks : task'[t].answer \in Answers
    BY <1>1 DEF Keyed, CatalogKeys, vars, index, catalog
  <2> QED BY <2>1, <2>2, <2>3 DEF Keyed
<1>2. CASE Crash
  <2>1. Shape' /\ UNCHANGED <<index, last>>
    BY <1>2, CrashLands DEF Keyed, Crash
  <2>2. AccountKeys' /\ RuleKeys'
    BY <1>0, <2>1 DEF Keyed, AccountKeys, RuleKeys, index, accounts
  <2>3. CatalogKeys'
    <3>1. \A x \in Tasks : task'[x] = task[x] \/ task'[x].pc \notin WithArtist \cup WithAlbum
      BY <1>2, CrashLands DEF Keyed, WithArtist, WithAlbum
    <3> QED BY <2>1, <3>1 DEF Keyed, CatalogKeys, index, catalog
  <2>4. \A t \in Tasks : task'[t].answer \in Answers
    <3>1. Start0.answer = "none"
      <4> SUFFICES ASSUME NEW h, h = Start0 PROVE h.answer = "none"
        OBVIOUS
      <4> QED BY DEF Start0, Blank
    <3>2. task'[Boot] = Start0
      BY <1>2 DEF Crash, Tasks
    <3>3. \A x \in Task : task'[x] = task[x] \/ task'[x].answer = "internal"
      BY <1>2, CrashLands DEF Keyed
    <3> QED BY <3>1, <3>2, <3>3 DEF Keyed, Tasks, Answers
  <2> QED BY <2>1, <2>2, <2>3, <2>4 DEF Keyed
<1>3. ASSUME NEW t \in Tasks, Step(t)
      PROVE  Keyed'
  <2>1. Shape'
    BY <1>3, StepsLand, Arriving DEF Keyed
  <2>2. AccountKeys' /\ RolesIssued(t)
    BY <1>0, <1>3, AccountKeysStep, StepIssuesRoles DEF Keyed, AccountKeys, Counted
  <2>3. RuleKeys'
    BY <1>3, <2>2, RuleKeysStep DEF Keyed, AccountKeys
  <2>4. CatalogKeys'
    BY <1>3, CatalogKeysStep DEF Keyed
  <2>5. \A x \in Tasks : task'[x].answer \in Answers
    BY <1>3, StepAnswers DEF Keyed
  <2> QED BY <2>1, <2>2, <2>3, <2>4, <2>5 DEF Keyed
<1> QED BY <1>1, <1>2, <1>3 DEF Next

\* Whatever requests interleave, and wherever they are cut: every foreign key
\* names a row that is there, and no two rules share an id.
THEOREM Typing == Spec => []TypeOK
<1>1. Init => Keyed
  BY InitKeyed
<1>2. Keyed /\ [Next]_vars => Keyed'
  BY KeyedStep
<1>3. Keyed => TypeOK
  BY DEF Keyed, AccountKeys, Counted, RuleKeys, CatalogKeys, TypeOK
<1> QED BY <1>1, <1>2, <1>3, PTL DEF Spec

\* The keys stay what they are in every run.
LEMMA KeysStay == Spec => []Keyed
<1>1. Init => Keyed
  BY InitKeyed
<1>2. Keyed /\ [Next]_vars => Keyed'
  BY KeyedStep
<1> QED BY <1>1, <1>2, PTL DEF Spec

-----------------------------------------------------------------------------
(***************************************************************************)
(* A statement about a row that is not there changes nothing.              *)
(***************************************************************************)
\* The tables have rows, and rules their columns.
Rows ==
  /\ Tabled(users) /\ Tabled(roles) /\ Tabled(annotations)
  /\ rules = [s \in DOMAIN rules |-> [id |-> rules[s].id, grants |-> rules[s].grants]]

\* A table is still one with a row more, a row less, or a row changed.
LEMMA TablesStay ==
  ASSUME NEW f, Tabled(f), NEW x, NEW y
  PROVE  Tabled(With(f, x, y)) /\ Tabled(Without(f, x)) /\ Tabled([f EXCEPT ![x] = y])
  BY DEF Tabled, With, Without

\* Rules without a principal are rules.
LEMMA RulesStay ==
  ASSUME Rows, NEW p, DropGrants(p)
  PROVE  rules' = [s \in DOMAIN rules' |-> [id |-> rules'[s].id, grants |-> rules'[s].grants]]
<1>1. DOMAIN rules' = DOMAIN rules
  BY DEF DropGrants
<1>2. \A s \in DOMAIN rules : rules'[s] = [id |-> rules[s].id, grants |-> rules[s].grants \ {p}]
  BY DEF DropGrants
<1>3. \A s \in DOMAIN rules : rules'[s].id = rules[s].id /\ rules'[s].grants = rules[s].grants \ {p}
  <2> TAKE s \in DOMAIN rules
  <2> DEFINE g == rules[s].grants \ {p}
  <2>1. rules'[s] = [id |-> rules[s].id, grants |-> g]
    BY <1>2
  <2> HIDE DEF g
  <2>2. rules'[s].id = rules[s].id /\ rules'[s].grants = g
    BY <2>1
  <2> QED BY <2>2 DEF g
<1> QED BY <1>1, <1>3 DEF DropGrants

\* Every step leaves tables of rows, with their columns.
LEMMA RowsStep ==
  ASSUME Rows, NEW t \in Tasks, Step(t)
  PROVE  Rows'
<1>1. CASE UNCHANGED <<users, roles, annotations, rules>>
  BY <1>1 DEF Rows, Tabled
<1>2. ASSUME NEW u, RemoveUser(u), UNCHANGED roles PROVE Rows'
  <2>1. Tabled(annotations')
    BY <1>2 DEF RemoveUser, Tabled
  <2>2. Tabled(users') /\ Tabled(roles')
    BY <1>2, TablesStay DEF RemoveUser, Rows
  <2> QED BY <1>2, <2>1, <2>2, RulesStay DEF RemoveUser, Rows
<1>3. ASSUME NEW u, NEW row, Update(u, row), UNCHANGED <<roles, annotations, rules>> PROVE Rows'
  <2>1. Tabled(users')
    BY <1>3, TablesStay DEF Update, Rows
  <2> QED BY <1>3, <2>1 DEF Rows, Tabled
<1>4. ASSUME NEW name, NEW b, NewRole(name, b), UNCHANGED <<users, annotations, rules>> PROVE Rows'
  <2>1. Tabled(roles')
    BY <1>4, TablesStay DEF NewRole, Rows
  <2> QED BY <1>4, <2>1 DEF Rows, Tabled
<1>5. CASE CreateUser(t)
  <2>1. CASE InsertUser(t)
    <3>1. Tabled(users')
      <4>1. UNCHANGED users \/ \E u, row : users' = With(users, u, row)
        BY <2>1 DEF InsertUser
      <4>2. ASSUME NEW u, NEW row, users' = With(users, u, row) PROVE Tabled(users')
        BY <4>2, TablesStay DEF Rows
      <4> QED BY <4>1, <4>2 DEF Rows, Tabled
    <3> QED BY <2>1, <3>1 DEF InsertUser, Rows, Tabled
  <2>2. CASE MakeRole(t)
    BY <1>1, <1>4, <2>2 DEF MakeRole
  <2>3. CASE SetNewEmail(t)
    <3>1. Tabled(users')
      <4>1. UNCHANGED users \/ \E u, row : users' = [users EXCEPT ![u] = row]
        BY <2>3 DEF SetNewEmail
      <4> QED BY <4>1, TablesStay DEF Rows
    <3> QED BY <2>3, <3>1 DEF SetNewEmail, Rows, Tabled
  <2>4. CASE UndoCreate(t)
    BY <1>2, <2>4 DEF UndoCreate
  <2> QED BY <1>1, <1>5, <2>1, <2>2, <2>3, <2>4 DEF CreateUser, ListUsers, FindRole, AssignBuiltin,
       GetCreated, OnlyTask, index, accounts
<1>6. CASE ManageUser(t)
  BY <1>1, <1>2, <1>3, <1>6 DEF ManageUser, FindUser, GetUser, SetEmail, SetPassword, FindAdminRole,
     SetAdmin, DeleteUser, ChangePassword, OnlyTask, index, accounts
<1>7. CASE ManageRole(t)
  <2>1. CASE CreateRole(t)
    BY <1>1, <1>4, <2>1 DEF CreateRole
  <2>2. CASE DeleteRole(t)
    <3>1. Tabled(roles')
      BY <2>2, TablesStay DEF DeleteRole, Rows
    <3> QED BY <2>2, <3>1, RulesStay DEF DeleteRole, Rows, Tabled
  <2> QED BY <1>1, <1>7, <2>1, <2>2 DEF ManageRole, ReadBuiltin, CheckUser, CheckRole, Assignment,
       OnlyTask, index, accounts
<1>8. CASE ManageRule(t)
  <2>1. CASE SetRule(t)
    <3>1. ASSUME NEW s, NEW id, rules' = With(rules, s, [id |-> id, grants |-> Req(t).grants])
          PROVE  rules' = [x \in DOMAIN rules' |-> [id |-> rules'[x].id, grants |-> rules'[x].grants]]
      <4>1. \A x \in DOMAIN rules' :
              \/ rules'[x] = [id |-> id, grants |-> Req(t).grants]
              \/ x \in DOMAIN rules /\ rules'[x] = rules[x]
        BY <3>1 DEF With
      <4>2. \A x \in DOMAIN rules' : rules'[x] = [id |-> rules'[x].id, grants |-> rules'[x].grants]
        BY <4>1 DEF Rows
      <4>3. rules' = [x \in DOMAIN rules' |-> rules'[x]]
        BY <3>1 DEF With
      <4> QED BY <4>2, <4>3
    <3>2. UNCHANGED rules \/ \E s, id : rules' = With(rules, s, [id |-> id, grants |-> Req(t).grants])
      BY <2>1 DEF SetRule
    <3> QED BY <2>1, <3>1, <3>2 DEF SetRule, accounts, Rows, Tabled
  <2>2. CASE DeleteRule(t)
    <3> DEFINE kept == DOMAIN rules \ {s \in DOMAIN rules : rules[s].id = Req(t).rule}
    <3>1. DOMAIN rules' = kept /\ rules' = [s \in kept |-> rules[s]]
      BY <2>2 DEF DeleteRule
    <3>2. \A s \in kept : rules[s] = [id |-> rules[s].id, grants |-> rules[s].grants]
      BY DEF Rows
    <3>3. rules' = [s \in DOMAIN rules' |-> [id |-> rules'[s].id, grants |-> rules'[s].grants]]
      <4> HIDE DEF kept
      <4> QED BY <3>1, <3>2
    <3> QED BY <2>2, <3>3 DEF DeleteRule, accounts, Rows, Tabled
  <2> QED BY <1>1, <1>8, <2>1, <2>2 DEF ManageRule, CheckScope, GetRule, OnlyTask, index, accounts
<1>9. CASE Annotate(t)
  <2>1. Tabled(annotations')
    <3>1. UNCHANGED annotations \/ \E k, n : annotations' = With(annotations, k, n)
      BY <1>9 DEF Annotate
    <3>2. ASSUME NEW k, NEW n, annotations' = With(annotations, k, n) PROVE Tabled(annotations')
      BY <3>2, TablesStay DEF Rows
    <3> QED BY <3>1, <3>2 DEF Rows, Tabled
  <2> QED BY <1>9, <2>1 DEF Annotate, accounts, Rows, Tabled
<1>10. CASE Authenticate(t) \/ SetCoverArt(t) \/ UpdateTags(t) \/ Scan(t) \/ Read(t) \/ Abort(t)
  <2>1. UNCHANGED <<users, roles, annotations, rules>>
    BY <1>10 DEF Authenticate, Arrive, ReadPassword, ReadUser, LoadUser, LoadRoles,
       SetCoverArt, PutCover, UpdateCover, UndoCover, UpdateTags, CheckTrack,
       SetOverride, Read, HasCover, ViewerRoles, ViewerAdmin, Query, Respond, Abort, Scan,
       StoreCover, UpsertArtist, UpsertAlbum, SetAlbumCover, UpsertTrack, Vanish,
       OnlyTask, OnlyCovers, index, accounts
  <2> QED BY <1>1, <2>1
<1> QED BY <1>5, <1>6, <1>7, <1>8, <1>9, <1>10 DEF Step

\* To remove a user who is not there is to do nothing.
LEMMA RemovingNobody ==
  ASSUME Rows, AccountKeys, GrantsNamePrincipals, NEW u, u \notin DOMAIN users, RemoveUser(u)
  PROVE  UNCHANGED <<users, userRoles, annotations, rules>>
<1>1. users' = users
  BY DEF RemoveUser, Without, Rows, Tabled
<1>2. userRoles' = userRoles
  BY DEF RemoveUser, AccountKeys
<1>3. annotations' = annotations
  <2>1. {m \in DOMAIN annotations : m[1] # u} = DOMAIN annotations
    BY DEF AccountKeys
  <2> QED BY <2>1 DEF RemoveUser, Rows, Tabled
<1>4. rules' = rules
  <2>1. \A s \in DOMAIN rules : <<"user", u>> \notin rules[s].grants
    BY DEF GrantsNamePrincipals, PrincipalExists
  <2>2. \A s \in DOMAIN rules : rules[s].grants \ {<<"user", u>>} = rules[s].grants
    BY <2>1
  <2> QED BY <2>2 DEF RemoveUser, DropGrants, Rows
<1> QED BY <1>1, <1>2, <1>3, <1>4

\* To delete a role that is not there is to do nothing.
LEMMA DeletingNoRole ==
  ASSUME Rows, AccountKeys, GrantsNamePrincipals, NEW t, Req(t).role \notin DOMAIN roles, DeleteRole(t)
  PROVE  UNCHANGED index
<1> DEFINE r == Req(t).role
<1>1. roles' = roles
  BY DEF DeleteRole, Without, Rows, Tabled
<1>2. userRoles' = userRoles
  BY DEF DeleteRole, AccountKeys
<1>3. rules' = rules
  <2>1. \A s \in DOMAIN rules : <<"role", r>> \notin rules[s].grants
    BY DEF GrantsNamePrincipals, PrincipalExists
  <2>2. \A s \in DOMAIN rules : rules[s].grants \ {<<"role", r>>} = rules[s].grants
    BY <2>1
  <2> QED BY <2>2 DEF DeleteRole, DropGrants, Rows
<1> QED BY <1>1, <1>2, <1>3 DEF DeleteRole, index, accounts

-----------------------------------------------------------------------------
(***************************************************************************)
(* Refusals.                                                               *)
(***************************************************************************)
\* Where a handler can be that has changed the index already.
Writers == {"findRole", "makeRole", "assignBuiltin", "getCreated", "setNewEmail", "undoCreate",
  "setPassword", "findAdminRole", "setAdmin", "annotate", "getRule", "upsertAlbum",
  "setAlbumCover", "upsertTrack"}
Creators == {"insertUser", "findRole", "makeRole", "assignBuiltin", "getCreated", "setNewEmail"}

\* The refusals of an operation that has changed something.
Excused(op, answer) ==
  (op = "updateUser" /\ answer = "refused") \/ (op = "createUser" /\ answer = "notFound")

\* A request that has written is past its refusals, or was excused.
Blameless(t) ==
  /\ task[t].pc \in Creators => Op(t) = "createUser"
  /\ task[t].pc \in {"setEmail", "setPassword"} => Op(t) = "updateUser"
  /\ task[t].pc # "listUsers"
  /\ task[t].pc # "done" => task[t].answer = "none" /\ (wrote[t] => task[t].pc \in Writers)
  /\ task[t].answer \in Refusals /\ wrote[t] => Excused(Op(t), task[t].answer)

\* What a step of t records about its writing.
Marks(t) == wrote'[t] = (wrote[t] \/ index' # index)

\* It ends with an answer that is no refusal, or refuses before anything was
\* written, or is excused.
LEMMA BlamelessReply ==
  ASSUME Handlers, NEW t \in Tasks, Blameless(t), Marks(t), NEW a, Reply(t, a), task[t].pc # "done",
         \/ a \notin Refusals
         \/ Excused(Op(t), a)
         \/ task[t].pc \notin Writers /\ UNCHANGED index
  PROVE  Blameless(t)'
<1>1. task'[t].pc = "done" /\ task'[t].answer = a /\ Op(t)' = Op(t)
  BY Replying, ReplyingKeepsOp
<1>2. a \in Refusals /\ wrote'[t] => Excused(Op(t), a)
  BY DEF Blameless, Marks
<1> QED BY <1>1, <1>2 DEF Blameless, Creators

\* It goes on: once it has written, to where one goes who has written.
LEMMA BlamelessGoing ==
  ASSUME NEW t \in Tasks, Blameless(t), Marks(t), NEW pc, task[t].pc # "done", pc # "listUsers",
         task'[t].pc = pc, task'[t].answer = task[t].answer, Op(t)' = Op(t),
         task[t].pc \in Writers \/ index' # index => pc \in Writers,
         pc \in Creators => Op(t) = "createUser",
         pc \in {"setEmail", "setPassword"} => Op(t) = "updateUser"
  PROVE  Blameless(t)'
<1>1. task[t].answer = "none" /\ "none" \notin Refusals
  BY DEF Blameless, Refusals
<1>2. wrote'[t] => pc \in Writers
  BY DEF Blameless, Marks
<1> QED BY <1>1, <1>2 DEF Blameless

\* The ways to go on, of which each keeps the request and has no answer yet.
LEMMA WaysOn ==
  ASSUME Handlers, NEW t \in Tasks, NEW pc
  PROVE  /\ Go(t, pc) => /\ task'[t].pc = pc /\ task'[t].answer = task[t].answer /\ Op(t)' = Op(t)
         /\ \A id : Found(t, pc, id) =>
              task'[t].pc = pc /\ task'[t].answer = task[t].answer /\ Op(t)' = Op(t)
         /\ \A r : Ranked(t, pc, r) =>
              task'[t].pc = pc /\ task'[t].answer = task[t].answer /\ Op(t)' = Op(t)
<1>1. ASSUME Go(t, pc)
      PROVE  task'[t].pc = pc /\ task'[t].answer = task[t].answer /\ Op(t)' = Op(t)
  BY <1>1, Going DEF Moves, Op, Req
<1>2. ASSUME NEW id, Found(t, pc, id)
      PROVE  task'[t].pc = pc /\ task'[t].answer = task[t].answer /\ Op(t)' = Op(t)
  BY <1>2, Finding DEF Moves, Op, Req
<1>3. ASSUME NEW r, Ranked(t, pc, r)
      PROVE  task'[t].pc = pc /\ task'[t].answer = task[t].answer /\ Op(t)' = Op(t)
  BY <1>3, Ranking DEF Moves, Op, Req
<1> QED BY <1>1, <1>2, <1>3

\* t is at pc, and whichever way it goes on from there, it is to one of the
\* places and the blame stays away.
Passes(t, places) ==
  /\ \A pc \in places :
       /\ Go(t, pc) => Blameless(t)'
       /\ \A id : Found(t, pc, id) => Blameless(t)'
       /\ \A r : Ranked(t, pc, r) => Blameless(t)'

\* From where nothing can have been written, by a step that writes nothing.
LEMMA ReadsOn ==
  ASSUME Handlers, NEW t \in Tasks, Blameless(t), Marks(t), UNCHANGED index,
         task[t].pc # "done", task[t].pc \notin Writers,
         NEW places, "listUsers" \notin places,
         places \cap Creators # {} => Op(t) = "createUser",
         places \cap {"setEmail", "setPassword"} # {} => Op(t) = "updateUser"
  PROVE  Passes(t, places) /\ \A a : Reply(t, a) => Blameless(t)'
<1>1. ASSUME NEW pc \in places, task'[t].pc = pc, task'[t].answer = task[t].answer, Op(t)' = Op(t)
      PROVE  Blameless(t)'
  BY <1>1, BlamelessGoing
<1>2. \A a : Reply(t, a) => Blameless(t)'
  BY BlamelessReply
<1> QED BY <1>1, <1>2, WaysOn DEF Passes

\* To where one goes who has written.
LEMMA WritesOn ==
  ASSUME Handlers, NEW t \in Tasks, Blameless(t), Marks(t), task[t].pc # "done",
         NEW places, places \subseteq Writers,
         places \cap Creators # {} => Op(t) = "createUser",
         "setPassword" \in places => Op(t) = "updateUser"
  PROVE  Passes(t, places) /\ \A a : a \notin Refusals => (Reply(t, a) => Blameless(t)')
<1>1. ASSUME NEW pc \in places, task'[t].pc = pc, task'[t].answer = task[t].answer, Op(t)' = Op(t)
      PROVE  Blameless(t)'
  BY <1>1, BlamelessGoing DEF Writers
<1>2. \A a : a \notin Refusals => (Reply(t, a) => Blameless(t)')
  BY BlamelessReply
<1> QED BY <1>1, <1>2, WaysOn DEF Passes

\* A handler that has written nothing and writes nothing has no blame, however
\* it goes on.
LEMMA Quiet ==
  ASSUME NEW t \in Tasks, Blameless(t), Marks(t), UNCHANGED index,
         task[t].pc # "done", task[t].pc \notin Writers,
         task'[t].pc \notin {"listUsers", "setEmail", "setPassword"},
         task'[t].pc \in Creators => Op(t)' = "createUser",
         task'[t].pc # "done" => task'[t].answer = "none"
  PROVE  Blameless(t)'
<1>1. ~wrote[t] /\ ~wrote'[t]
  BY DEF Blameless, Marks
<1> QED BY <1>1 DEF Blameless

\* Authentication changes nothing.
LEMMA DoorBlameless ==
  ASSUME Shape, NEW t \in Task, Blameless(t), Marks(t), Authenticate(t)
  PROVE  Blameless(t)'
<1> t \in Tasks /\ Handlers /\ IsHandler(task[t])
  BY DEF Tasks, Shape, Handlers
<1>0. UNCHANGED index
  BY DEF Authenticate, Arrive, ReadPassword, ReadUser, LoadUser, LoadRoles, OnlyTask
<1>1. CASE Arrive(t)
  <2>1. task[t].pc = "idle" /\ task'[t].pc \in {"readPassword", "loadUser", "storeCover", "vanish"}
          /\ task'[t].answer = "none"
    BY <1>1, Arriving
  <2> QED BY <1>0, <2>1, Quiet DEF Writers, Creators
<1>2. CASE ReadPassword(t) \/ ReadUser(t) \/ LoadUser(t)
  <2>1. /\ task'[t].pc \in {"readUser", "loadUser", "loadRoles", "done"}
        /\ task[t].pc \in {"readPassword", "readUser", "loadUser"}
    <3>1. CASE ReadPassword(t)
      BY <3>1, WaysOn, Replying DEF ReadPassword, At
    <3>2. CASE ReadUser(t)
      <4>1. ASSUME NEW u, task' = [task EXCEPT ![t].pc = "loadUser", ![t].me = u]
            PROVE  task'[t].pc = "loadUser"
        <5> DEFINE h == [task[t] EXCEPT !.pc = "loadUser", !.me = u]
        <5>1. task' = [task EXCEPT ![t] = h] /\ h.pc = "loadUser" /\ h.answer = task[t].answer
                /\ h.req = task[t].req
          BY <4>1 DEF IsHandler
        <5> HIDE DEF h
        <5> QED BY <5>1, AnswerStays
      <4> QED BY <3>2, <4>1, Replying DEF ReadUser, At
    <3>3. CASE LoadUser(t)
      <4>1. ASSUME NEW n, task' = [task EXCEPT ![t].pc = "loadRoles", ![t].name = n]
            PROVE  task'[t].pc = "loadRoles"
        <5> DEFINE h == [task[t] EXCEPT !.pc = "loadRoles", !.name = n]
        <5>1. task' = [task EXCEPT ![t] = h] /\ h.pc = "loadRoles" /\ h.answer = task[t].answer
                /\ h.req = task[t].req
          BY <4>1 DEF IsHandler
        <5> HIDE DEF h
        <5> QED BY <5>1, AnswerStays
      <4> QED BY <3>3, <4>1, Replying DEF LoadUser, At
    <3> QED BY <1>2, <3>1, <3>2, <3>3
  <2>2. task'[t].pc # "done" => task'[t].answer = "none"
    BY <1>2, <2>1, DoorSays, Arriving DEF Says, Authenticate, Blameless
  <2> QED BY <1>0, <2>1, <2>2, Quiet DEF Writers, Creators
<1>3. CASE LoadRoles(t)
  <2>1. ASSUME NEW adm, NEW later,
               task' = [task EXCEPT ![t].pc = FirstStep[Op(t)], ![t].admin = adm, ![t].later = later]
        PROVE  task'[t].pc = FirstStep[Op(t)] /\ task'[t].answer = task[t].answer /\ Op(t)' = Op(t)
    <3> DEFINE pc == FirstStep[Op(t)]
               h == [task[t] EXCEPT !.pc = pc, !.admin = adm, !.later = later]
    <3> HIDE DEF pc
    <3>1. task' = [task EXCEPT ![t] = h] /\ h.answer = task[t].answer /\ h.req = task[t].req
            /\ h.pc = pc
      BY <2>1 DEF IsHandler, pc
    <3> HIDE DEF h
    <3> QED BY <3>1, AnswerStays DEF pc
  <2>2. task[t].pc = "loadRoles" /\ Op(t) \in DOMAIN FirstStep
    BY <1>3 DEF LoadRoles, At, Shape
  <2>3. CASE Reply(t, "forbidden")
    BY <1>0, <2>2, <2>3, BlamelessReply DEF Writers
  <2>4. CASE ~Reply(t, "forbidden")
    <3>1. task'[t].pc = FirstStep[Op(t)] /\ task'[t].answer = task[t].answer /\ Op(t)' = Op(t)
      BY <1>3, <2>1, <2>4 DEF LoadRoles
    <3>2. FirstStep[Op(t)] \in Creators => Op(t) = "createUser"
      BY <2>2 DEF FirstStep, Creators
    <3>3. FirstStep[Op(t)] \notin {"listUsers", "setEmail", "setPassword"}
      BY <2>2 DEF FirstStep
    <3>4. task'[t].answer = "none" /\ task[t].pc \notin Writers /\ task[t].pc # "done"
      BY <2>2, <3>1 DEF Blameless, Writers
    <3> QED BY <1>0, <3>1, <3>2, <3>3, <3>4, Quiet
  <2> QED BY <2>3, <2>4
<1> QED BY <1>1, <1>2, <1>3 DEF Authenticate

\* createUser refuses before it inserts, or takes its user back.
LEMMA CreationBlameless ==
  ASSUME Shape, NEW t \in Task, Blameless(t), Marks(t), CreateUser(t)
  PROVE  Blameless(t)'
<1> t \in Tasks /\ Handlers
  BY DEF Tasks, Shape
<1>0. "ok" \notin Refusals /\ "internal" \notin Refusals
  BY DEF Refusals
<1>1. CASE ListUsers(t)
  BY <1>1 DEF ListUsers, At, Blameless
<1>2. CASE InsertUser(t)
  <2>1. task[t].pc = "insertUser" /\ Op(t) = "createUser"
    BY <1>2 DEF InsertUser, At, Blameless, Creators
  <2>2. Passes(t, {"findRole"}) /\ (Reply(t, "internal") => Blameless(t)')
    BY <1>0, <2>1, WritesOn DEF Writers
  <2> QED BY <1>2, <2>2 DEF InsertUser, Passes
<1>3. CASE FindRole(t) \/ MakeRole(t)
  <2>1. task[t].pc \in {"findRole", "makeRole"} /\ Op(t) = "createUser"
    BY <1>3 DEF FindRole, MakeRole, At, Blameless, Creators
  <2>2. Passes(t, {"makeRole", "assignBuiltin"}) /\ (Reply(t, "internal") => Blameless(t)')
    BY <1>0, <2>1, WritesOn DEF Writers
  <2> QED BY <1>3, <2>2 DEF FindRole, MakeRole, Passes
<1>4. CASE AssignBuiltin(t) \/ GetCreated(t)
  <2>1. task[t].pc \in {"assignBuiltin", "getCreated"} /\ Op(t) = "createUser"
    BY <1>4 DEF AssignBuiltin, GetCreated, At, Blameless, Creators
  <2>2. Passes(t, {"getCreated", "setNewEmail"}) /\ (Reply(t, "internal") => Blameless(t)')
          /\ (Reply(t, "ok") => Blameless(t)')
    BY <1>0, <2>1, WritesOn DEF Writers
  <2> QED BY <1>4, <2>2 DEF AssignBuiltin, Assigned, GetCreated, Passes
<1>5. CASE SetNewEmail(t)
  <2>1. task[t].pc = "setNewEmail" /\ Op(t) = "createUser"
    BY <1>5 DEF SetNewEmail, At, Blameless, Creators
  <2>2. Passes(t, {"undoCreate"}) /\ (Reply(t, "ok") => Blameless(t)')
    BY <1>0, <2>1, WritesOn DEF Writers
  <2>3. Reply(t, "notFound") => Blameless(t)'
    BY <2>1, BlamelessReply DEF Excused
  <2> QED BY <1>5, <2>2, <2>3 DEF SetNewEmail, Passes
<1>6. CASE UndoCreate(t)
  BY <1>0, <1>6, BlamelessReply DEF UndoCreate, At
<1> QED BY <1>1, <1>2, <1>3, <1>4, <1>5, <1>6 DEF CreateUser

\* updateUser and deleteUser refuse before they write, the e-mail excepted.
LEMMA UsersBlameless ==
  ASSUME Shape, Rows, AccountKeys, GrantsNamePrincipals, NEW t \in Task, Blameless(t), Marks(t),
         ManageUser(t)
  PROVE  Blameless(t)'
<1> t \in Tasks /\ Handlers
  BY DEF Tasks, Shape
<1>0. "ok" \notin Refusals /\ "internal" \notin Refusals
  BY DEF Refusals
<1>1. CASE FindUser(t)
  <2>1. task[t].pc = "findUser" /\ UNCHANGED index /\ Op(t) \in DOMAIN AfterFind
    BY <1>1 DEF FindUser, At, OnlyTask, Shape
  <2>2. /\ AfterFind[Op(t)] \notin Creators \cup {"listUsers", "setPassword"}
        /\ AfterFind[Op(t)] = "setEmail" => Op(t) = "updateUser"
    BY <2>1 DEF AfterFind, Creators
  <2>3. Passes(t, {AfterFind[Op(t)]})
    BY <2>1, <2>2, ReadsOn DEF Writers
  <2>4. Reply(t, "notFound") => Blameless(t)'
    BY <2>1, BlamelessReply DEF Writers
  <2> QED BY <1>1, <2>3, <2>4 DEF FindUser, Passes
<1>2. CASE GetUser(t) \/ SetAdmin(t)
  BY <1>0, <1>2, BlamelessReply DEF GetUser, SetAdmin, Assigned, At
<1>3. CASE SetEmail(t)
  <2>1. task[t].pc = "setEmail" /\ Op(t) = "updateUser"
    BY <1>3 DEF SetEmail, At, Blameless
  <2>2. Passes(t, {"setPassword"})
    BY <2>1, WritesOn DEF Writers, Creators
  <2> QED BY <1>3, <2>2 DEF SetEmail, Passes
<1>4. CASE SetPassword(t)
  <2>1. task[t].pc = "setPassword" /\ Op(t) = "updateUser"
    BY <1>4 DEF SetPassword, At, Blameless
  <2>2. Passes(t, {"findAdminRole"})
    BY <2>1, WritesOn DEF Writers, Creators
  <2>4. Reply(t, "ok") => Blameless(t)'
    BY <1>0, <2>1, BlamelessReply
  <2>3. Reply(t, "refused") => Blameless(t)'
    BY <2>1, BlamelessReply DEF Excused
  <2> QED BY <1>4, <2>2, <2>3, <2>4 DEF SetPassword, Passes
<1>5. CASE FindAdminRole(t)
  <2>1. task[t].pc = "findAdminRole"
    BY <1>5 DEF FindAdminRole, At
  <2>2. Passes(t, {"setAdmin"})
    BY <2>1, WritesOn DEF Writers, Creators
  <2>3. Reply(t, "internal") => Blameless(t)'
    BY <1>0, <2>1, BlamelessReply
  <2> QED BY <1>5, <2>2, <2>3 DEF FindAdminRole, Passes
<1>6. CASE DeleteUser(t)
  <2>1. task[t].pc = "deleteUser"
    BY <1>6 DEF DeleteUser, At
  <2>2. task[t].row \notin DOMAIN users => UNCHANGED index
    BY <1>6, RemovingNobody DEF DeleteUser, index, accounts
  <2> QED BY <1>0, <1>6, <2>1, <2>2, BlamelessReply DEF DeleteUser, Writers
<1>7. CASE ChangePassword(t)
  <2>1. task[t].pc = "changePassword"
    BY <1>7 DEF ChangePassword, At
  <2>2. task[t].row \notin DOMAIN users => UNCHANGED index
    BY <1>7 DEF ChangePassword, Update, index, accounts
  <2> QED BY <1>0, <1>7, <2>1, <2>2, BlamelessReply DEF ChangePassword, Writers
<1> QED BY <1>1, <1>2, <1>3, <1>4, <1>5, <1>6, <1>7, ManageUserLands DEF ManageUser

\* A role that is not there takes nobody along.
LEMMA RolesBlameless ==
  ASSUME Shape, Rows, AccountKeys, GrantsNamePrincipals, NEW t \in Task, Blameless(t), Marks(t),
         ManageRole(t)
  PROVE  Blameless(t)'
<1> t \in Tasks /\ Handlers
  BY DEF Tasks, Shape
<1>0. "ok" \notin Refusals /\ "internal" \notin Refusals
  BY DEF Refusals
<1>1. CASE ReadBuiltin(t) \/ CheckUser(t) \/ CheckRole(t)
  <2>1. task[t].pc \in {"readBuiltin", "checkUser", "checkRole"} /\ UNCHANGED index
    BY <1>1 DEF ReadBuiltin, CheckUser, CheckRole, At, OnlyTask
  <2>2. Passes(t, {"deleteRole", "checkRole", "assignment"})
    BY <2>1, ReadsOn DEF Writers, Creators
  <2>3. \A a : Reply(t, a) => Blameless(t)'
    BY <2>1, BlamelessReply DEF Writers
  <2> QED BY <1>1, <2>2, <2>3 DEF ReadBuiltin, CheckUser, CheckRole, Passes
<1>2. CASE CreateRole(t) \/ Assignment(t)
  BY <1>0, <1>2, BlamelessReply DEF CreateRole, Assignment, Assigned, At
<1>3. CASE DeleteRole(t)
  <2>1. task[t].pc = "deleteRole"
    BY <1>3 DEF DeleteRole, At
  <2>2. Req(t).role \notin DOMAIN roles => UNCHANGED index
    BY <1>3, DeletingNoRole
  <2>3. Reply(t, IF Req(t).role \in DOMAIN roles THEN "ok" ELSE "notFound")
    BY <1>3 DEF DeleteRole
  <2> QED BY <1>0, <2>1, <2>2, <2>3, BlamelessReply DEF Writers
<1> QED BY <1>1, <1>2, <1>3 DEF ManageRole

\* A rule that is not there is not deleted.
LEMMA RulesBlameless ==
  ASSUME Shape, Rows, NEW t \in Task, Blameless(t), Marks(t), ManageRule(t)
  PROVE  Blameless(t)'
<1> t \in Tasks /\ Handlers
  BY DEF Tasks, Shape
<1>0. "ok" \notin Refusals /\ "internal" \notin Refusals
  BY DEF Refusals
<1>1. CASE CheckScope(t)
  <2>1. task[t].pc = "checkScope" /\ UNCHANGED index
    BY <1>1 DEF CheckScope, At, OnlyTask
  <2>2. Passes(t, {"setRule"}) /\ (Reply(t, "notFound") => Blameless(t)')
    BY <2>1, ReadsOn, BlamelessReply DEF Writers, Creators
  <2> QED BY <1>1, <2>2 DEF CheckScope, Passes
<1>2. CASE SetRule(t)
  <2>1. task[t].pc = "setRule"
    BY <1>2 DEF SetRule, At
  <2>2. Passes(t, {"getRule"}) /\ (Reply(t, "internal") => Blameless(t)')
    BY <1>0, <2>1, WritesOn DEF Writers, Creators
  <2>3. (\E p \in Req(t).grants : ~PrincipalExists(p)) => UNCHANGED index
    BY <1>2 DEF SetRule, index, accounts
  <2>4. UNCHANGED index => (Reply(t, "notFound") => Blameless(t)')
    BY <2>1, BlamelessReply DEF Writers
  <2> QED BY <1>2, <2>2, <2>3, <2>4 DEF SetRule, Passes
<1>3. CASE GetRule(t)
  BY <1>0, <1>3, BlamelessReply DEF GetRule, At
<1>4. CASE DeleteRule(t)
  <2> DEFINE gone == {s \in DOMAIN rules : rules[s].id = Req(t).rule}
  <2>1. /\ task[t].pc = "deleteRule" /\ rules' = [s \in DOMAIN rules \ gone |-> rules[s]]
        /\ Reply(t, IF gone = {} THEN "notFound" ELSE "ok")
        /\ UNCHANGED <<accounts, annotations, catalog>>
    BY <1>4 DEF DeleteRule, At
  <2>2. rules = [s \in DOMAIN rules |-> rules[s]]
    BY DEF Rows
  <2>3. gone = {} => UNCHANGED index
    <3> HIDE DEF gone
    <3> QED BY <2>1, <2>2 DEF index
  <2> HIDE DEF gone
  <2> QED BY <1>0, <2>1, <2>3, BlamelessReply DEF Writers
<1> QED BY <1>1, <1>2, <1>3, <1>4 DEF ManageRule

\* Covers, tags and scans write once they have looked.
LEMMA LibraryBlameless ==
  ASSUME Shape, NEW t \in Task, Blameless(t), Marks(t),
         SetCoverArt(t) \/ UpdateTags(t) \/ Scan(t)
  PROVE  Blameless(t)'
<1> t \in Tasks /\ Handlers
  BY DEF Tasks, Shape
<1>0. "ok" \notin Refusals /\ "internal" \notin Refusals
  BY DEF Refusals
<1>1. CASE PutCover(t) \/ CheckTrack(t) \/ StoreCover(t)
  <2>1. task[t].pc \in {"putCover", "checkTrack", "storeCover"} /\ UNCHANGED index
    BY <1>1 DEF PutCover, CheckTrack, StoreCover, At, OnlyCovers, OnlyTask
  <2>2. Passes(t, {"updateCover", "setOverride", "upsertArtist"})
    BY <2>1, ReadsOn DEF Writers, Creators
  <2>3. \A a : Reply(t, a) => Blameless(t)'
    BY <2>1, BlamelessReply DEF Writers
  <2> QED BY <1>1, <2>2, <2>3 DEF PutCover, CheckTrack, StoreCover, Passes
<1>2. CASE UpdateCover(t)
  <2>1. task[t].pc = "updateCover" /\ (Reply(t, "ok") => Blameless(t)')
    BY <1>0, <1>2, BlamelessReply DEF UpdateCover, At
  <2>2. CASE UNCHANGED index
    <3>1. Passes(t, {"dropUnused", "dropFailed"})
      BY <2>1, <2>2, ReadsOn DEF Writers, Creators
    <3> QED BY <1>2, <2>1, <3>1 DEF UpdateCover, Passes
  <2>3. CASE ~UNCHANGED index
    <3>1. ~UNCHANGED albums
      BY <1>2, <2>3 DEF UpdateCover, index, catalog
    <3> QED BY <1>2, <2>1, <3>1 DEF UpdateCover
  <2> QED BY <2>2, <2>3
<1>3. CASE UndoCover(t)
  <2>1. task[t].pc \in {"dropUnused", "dropFailed"} /\ UNCHANGED index
    BY <1>3 DEF UndoCover, OnlyCovers
  <2> QED BY <1>3, <2>1, BlamelessReply DEF UndoCover, Writers
<1>4. CASE SetOverride(t) \/ UpsertTrack(t) \/ Vanish(t)
  BY <1>0, <1>4, BlamelessReply DEF SetOverride, UpsertTrack, Vanish, At
<1>5. CASE UpsertArtist(t) \/ UpsertAlbum(t) \/ SetAlbumCover(t)
  <2>1. task[t].pc \in {"upsertArtist", "upsertAlbum", "setAlbumCover"}
    BY <1>5 DEF UpsertArtist, UpsertAlbum, SetAlbumCover, At
  <2>2. Passes(t, {"upsertAlbum", "setAlbumCover", "upsertTrack"})
    BY <2>1, WritesOn DEF Writers, Creators
  <2> QED BY <1>5, <2>2 DEF UpsertArtist, UpsertAlbum, SetAlbumCover, Passes
<1> QED BY <1>1, <1>2, <1>3, <1>4, <1>5 DEF SetCoverArt, UpdateTags, Scan

\* Annotations refuse one item at a time; reads change nothing.
LEMMA ReadersBlameless ==
  ASSUME Shape, NEW t \in Task, Blameless(t), Marks(t), Annotate(t) \/ Read(t) \/ Abort(t)
  PROVE  Blameless(t)'
<1> t \in Tasks /\ Handlers
  BY DEF Tasks, Shape
<1>0. "ok" \notin Refusals /\ "internal" \notin Refusals
  BY DEF Refusals
<1>1. CASE Abort(t)
  BY <1>0, <1>1, BlamelessReply DEF Abort, Active
<1>2. CASE Annotate(t)
  <2>1. task[t].pc = "annotate" /\ Says(t, {"ok", "internal"})
    BY <1>2, AnnotateSays DEF Annotate, At
  <2>2. task'[t].pc \in {"annotate", "done"} /\ (task'[t].pc = "done" => task'[t].answer \notin Refusals)
    BY <1>0, <1>2, <2>1, AnnotateLands DEF Lands, Says, Blameless, Refusals
  <2>3. task[t].answer = "none"
    BY <2>1 DEF Blameless
  <2> QED BY <2>1, <2>2, <2>3 DEF Blameless, Says, Writers, Creators, Refusals
<1>3. CASE Read(t)
  <2>1. /\ task[t].pc \in Readers /\ UNCHANGED index /\ Says(t, {"notFound", "ok"})
        /\ Lands(t, {"viewerRoles", "viewerAdmin", "query"})
    BY <1>3, ReadSays, ReadLands
       DEF Read, HasCover, ViewerRoles, ViewerAdmin, Query, Respond, At, OnlyTask, Readers
  <2>2. task'[t].pc \in {"viewerRoles", "viewerAdmin", "query", "done"}
    BY <2>1 DEF Lands
  <2>3. task'[t].pc # "done" => task'[t].answer = "none"
    BY <2>1 DEF Says, Blameless, Readers
  <2> QED BY <2>1, <2>2, <2>3, Quiet DEF Readers, Writers, Creators
<1> QED BY <1>1, <1>2, <1>3

\* A request that was refused has changed nothing, whatever the others did
\* between its steps, but for the two operations that change several rows by
\* statements of their own.
THEOREM Refused == Spec => []RefusalsChangeNothing
<1> DEFINE IInv == Rows /\ \A t \in Task : Blameless(t)
<1>0. Task \subseteq Tasks
  BY DEF Tasks
<1>1. Init => IInv
  <2> SUFFICES ASSUME Init PROVE IInv
    OBVIOUS
  <2>1. Rows
    <3>1. PICK s \in Starts : /\ users = s.users /\ roles = s.roles /\ rules = s.rules
                             /\ annotations = s.annotations
      BY DEF Init
    <3> QED BY <3>1, KeysAssumption DEF Rows
  <2>2. Blank.pc = "idle" /\ Blank.answer = "none"
    BY DEF Blank
  <2>3. \A t \in Task : task[t].pc = "idle" /\ task[t].answer = "none" /\ ~wrote[t]
    BY <1>0, <2>2, Beginning
  <2> QED BY <2>1, <2>3 DEF Blameless, Creators, Refusals
<1>2. IInv /\ Keyed /\ GrantsNamePrincipals /\ [Next]_vars => IInv'
  <2> SUFFICES ASSUME IInv, Keyed, GrantsNamePrincipals, [Next]_vars PROVE IInv'
    OBVIOUS
  <2>0. Shape /\ AccountKeys
    BY DEF Keyed
  <2>1. CASE UNCHANGED vars
    BY <2>1 DEF Rows, Tabled, Blameless, Op, Req, vars, history, index, accounts
  <2>2. CASE Crash
    <3>1. Rows'
      BY <2>2 DEF Crash, Rows, Tabled, index, accounts
    <3>2. ASSUME NEW t \in Task PROVE Blameless(t)'
      <4>1. wrote'[t] = wrote[t]
        BY <2>0, <2>2, CrashLands
      <4>2. CASE task'[t] = task[t]
        BY <4>1, <4>2 DEF Blameless, Op, Req
      <4>3. CASE task'[t] # task[t]
        <5>1. task'[t].pc = "done" /\ task'[t].answer = "internal"
          BY <2>0, <2>2, <4>3, CrashLands
        <5> QED BY <5>1 DEF Blameless, Creators, Refusals
      <4> QED BY <4>2, <4>3
    <3> QED BY <3>1, <3>2
  <2>3. ASSUME NEW t \in Tasks, Step(t) PROVE IInv'
    <3>1. Rows'
      BY <2>3, RowsStep
    <3>2. \A x \in Tasks \ {t} : task'[x] = task[x]
      BY <2>0, <2>3, Arriving, StepsLand
    <3>3. wrote' = [wrote EXCEPT ![t] = @ \/ index' # index]
      BY <2>3 DEF Step, Authenticate, Arrive, ReadPassword, ReadUser, LoadUser, LoadRoles,
        CreateUser, ListUsers, InsertUser, FindRole, MakeRole, AssignBuiltin, GetCreated, SetNewEmail,
        UndoCreate, ManageUser, FindUser, GetUser, SetEmail, SetPassword, FindAdminRole, SetAdmin,
        DeleteUser, ChangePassword, ManageRole, CreateRole, ReadBuiltin, DeleteRole, CheckUser,
        CheckRole, Assignment, ManageRule, CheckScope, SetRule, GetRule, DeleteRule, Annotate,
        SetCoverArt, PutCover, UpdateCover, UndoCover, UpdateTags, CheckTrack, SetOverride,
        Scan, StoreCover, UpsertArtist, UpsertAlbum, SetAlbumCover, UpsertTrack, Vanish,
        Read, HasCover, ViewerRoles, ViewerAdmin, Query, Respond, Abort,
        OnlyTask, OnlyIndex, OnlyCovers, Recorded
    <3>4. Marks(t)
      BY <2>0, <3>3, Zenon DEF Shape, Marks
    <3>5. \A x \in Tasks \ {t} : wrote'[x] = wrote[x]
      BY <2>0, <3>3 DEF Shape
    <3>6. ASSUME NEW x \in Task, x # t PROVE Blameless(x)'
      <4>1. task'[x] = task[x] /\ wrote'[x] = wrote[x]
        BY <1>0, <3>2, <3>5, <3>6
      <4> QED BY <4>1 DEF Blameless, Op, Req
    <3>7. ASSUME t \in Task PROVE Blameless(t)'
      BY <2>0, <2>3, <3>4, <3>7, DoorBlameless, CreationBlameless, UsersBlameless, RolesBlameless,
         RulesBlameless, LibraryBlameless, ReadersBlameless DEF Step
    <3> QED BY <3>1, <3>6, <3>7
  <2> QED BY <2>1, <2>2, <2>3 DEF Next
<1>3. IInv => RefusalsChangeNothing
  BY DEF Blameless, Excused, RefusalsChangeNothing
<1> QED BY <1>1, <1>2, <1>3, KeysStay, Grants, PTL DEF Spec

-----------------------------------------------------------------------------
(***************************************************************************)
(* Administrators.                                                         *)
(***************************************************************************)
\* An administrator was demoted or deleted, or the first one was not completed.
Lapsed == \E l \in lapses : l[2]

\* Somebody has the role named admin that nobody can delete.
Headed ==
  \E u \in DOMAIN users : \E r \in DOMAIN roles :
    <<u, r>> \in userRoles /\ roles[r].name = "admin" /\ roles[r].builtin

\* The first start has not come to the point where its user has its role: there
\* is no user yet, or it is this one.
Founding ==
  /\ ~Up
  /\ \A r \in DOMAIN roles : roles[r].name = "admin" => roles[r].builtin
  /\ task[Boot].pc \in {"listUsers", "insertUser", "done"} => DOMAIN users = {}
  /\ task[Boot].pc \in {"findRole", "makeRole", "assignBuiltin"} => task[Boot].row \in DOMAIN users
  /\ task[Boot].pc = "assignBuiltin" =>
       /\ task[Boot].role \in DOMAIN roles /\ roles[task[Boot].role].name = "admin"
       /\ roles[task[Boot].role].builtin
  /\ task[Boot].pc # "getCreated"

\* The start runs alone, and does what it was started for.
StartsAlone ==
  /\ ~Up => \A t \in Task : task[t].pc \in {"idle", "done"}
  /\ task[Boot].pc \in {"listUsers", "insertUser", "findRole", "makeRole", "assignBuiltin",
                        "getCreated", "done"}
  /\ task[Boot].pc # "done" => Req(Boot).admin = TRUE

\* The role a handler is about to delete was looked at: it is no builtin one.
DeletesNoBuiltin ==
  \A t \in Tasks : task[t].pc = "deleteRole" =>
    /\ Req(t).role \in 1..last.roles
    /\ Req(t).role \in DOMAIN roles => ~roles[Req(t).role].builtin

\* What lapsed stays so.
LEMMA LapsesGrow ==
  ASSUME NEW t \in Tasks, Step(t)
  PROVE  lapses \subseteq lapses'
<1>1. ASSUME NEW u, RemoveUser(u) PROVE lapses \subseteq lapses'
  BY <1>1 DEF RemoveUser
<1>2. ASSUME NEW u, NEW r, Unassigned(u, r) PROVE lapses \subseteq lapses'
  BY <1>2 DEF Unassigned
<1>3. CASE Authenticate(t)
  BY <1>3 DEF Authenticate, Arrive, ReadPassword, ReadUser, LoadUser, LoadRoles, OnlyTask
<1>4. CASE CreateUser(t)
  BY <1>1, <1>4 DEF CreateUser, ListUsers, InsertUser, FindRole, MakeRole, AssignBuiltin, GetCreated,
     SetNewEmail, UndoCreate, OnlyTask
<1>5. CASE ManageUser(t)
  BY <1>1, <1>2, <1>5 DEF ManageUser, FindUser, GetUser, SetEmail, SetPassword, FindAdminRole, SetAdmin,
     DeleteUser, ChangePassword, OnlyTask
<1>6. CASE ManageRole(t)
  BY <1>2, <1>6 DEF ManageRole, CreateRole, ReadBuiltin, DeleteRole, CheckUser, CheckRole, Assignment,
     OnlyTask
<1>7. CASE ManageRule(t) \/ Annotate(t) \/ SetCoverArt(t) \/ UpdateTags(t)
  BY <1>7 DEF ManageRule, CheckScope, SetRule, GetRule, DeleteRule, Annotate, SetCoverArt, PutCover,
     UpdateCover, UndoCover, UpdateTags, CheckTrack, SetOverride, OnlyTask, OnlyCovers
<1>8. CASE Scan(t) \/ Read(t) \/ Abort(t)
  BY <1>8 DEF Scan, StoreCover, UpsertArtist, UpsertAlbum, SetAlbumCover, UpsertTrack, Vanish,
     Read, HasCover, ViewerRoles, ViewerAdmin, Query, Respond, Abort, OnlyTask, OnlyCovers
<1> QED BY <1>3, <1>4, <1>5, <1>6, <1>7, <1>8 DEF Step

\* Where somebody heads the server and the assignments that go are told.
LEMMA HeadStays ==
  ASSUME Headed, DOMAIN users \subseteq DOMAIN users',
         \A r \in DOMAIN roles : r \in DOMAIN roles' /\ roles'[r] = roles[r],
         userRoles \subseteq userRoles'
  PROVE  Headed'
  BY DEF Headed

\* The head is deleted or demoted only into the lapses.
LEMMA HeadRemoved ==
  ASSUME Headed, NEW u, RemoveUser(u), UNCHANGED roles
  PROVE  Headed' \/ Lapsed'
<1>1. PICK h \in DOMAIN users, r \in DOMAIN roles :
        <<h, r>> \in userRoles /\ roles[r].name = "admin" /\ roles[r].builtin
  BY DEF Headed
<1>2. CASE u = h
  <2>1. IsAdmin(u)
    BY <1>1, <1>2 DEF IsAdmin, RolesOf
  <2>2. <<u, TRUE>> \in lapses'
    BY <2>1 DEF RemoveUser
  <2> QED BY <2>2 DEF Lapsed
<1>3. CASE u # h
  <2>1. h \in DOMAIN users' /\ <<h, r>> \in userRoles'
    BY <1>1, <1>3 DEF RemoveUser, Without
  <2> QED BY <1>1, <2>1 DEF Headed
<1> QED BY <1>2, <1>3

\* Who takes the last administrator its role is recorded.
LEMMA HeadDemoted ==
  ASSUME Headed, NEW u, NEW x, Unassigned(u, x), UNCHANGED <<users, roles>>
  PROVE  Headed' \/ Lapsed'
<1>1. PICK h \in DOMAIN users, r \in DOMAIN roles :
        <<h, r>> \in userRoles /\ roles[r].name = "admin" /\ roles[r].builtin
  BY DEF Headed
<1>2. CASE <<u, x>> = <<h, r>>
  <2>1. u = h /\ x = r
    BY <1>2
  <2>2. <<u, roles[x].name = "admin">> \in lapses'
    BY <1>1, <2>1 DEF Unassigned
  <2>3. PICK l \in lapses' : l = <<u, roles[x].name = "admin">>
    BY <2>2
  <2>4. roles[x].name = "admin"
    BY <1>1, <2>1
  <2>5. l[2] = (roles[x].name = "admin")
    BY <2>3
  <2>6. l[2]
    BY <2>4, <2>5
  <2> QED BY <2>6 DEF Lapsed
<1>3. CASE <<u, x>> # <<h, r>>
  <2>1. <<h, r>> \in userRoles'
    BY <1>1, <1>3 DEF Unassigned
  <2> QED BY <1>1, <2>1 DEF Headed
<1> QED BY <1>2, <1>3

\* No step of a handler takes the head away without a lapse.
LEMMA HeadStep ==
  ASSUME AccountKeys, DeletesNoBuiltin, Headed, NEW t \in Tasks, Step(t)
  PROVE  Headed' \/ Lapsed'
<1>0. last.roles + 1 \notin DOMAIN roles /\ last.users + 1 \notin DOMAIN users
  <2>1. last.roles \in Nat /\ last.users \in Nat
    BY DEF AccountKeys, Counted, Tables
  <2> QED BY <2>1 DEF AccountKeys, Counted
<1>1. CASE UNCHANGED accounts
  BY <1>1, HeadStays DEF accounts
<1>2. ASSUME NEW name, NEW b, NewRole(name, b), UNCHANGED <<users, userRoles>> PROVE Headed'
  <2>1. \A r \in DOMAIN roles : r \in DOMAIN roles' /\ roles'[r] = roles[r]
    BY <1>0, <1>2 DEF NewRole, With
  <2> QED BY <1>2, <2>1, HeadStays
<1>3. ASSUME NEW u, NEW row, Update(u, row), UNCHANGED <<roles, userRoles>> PROVE Headed'
  <2>1. DOMAIN users' = DOMAIN users
    BY <1>3 DEF Update
  <2> QED BY <1>3, <2>1, HeadStays
<1>4. ASSUME NEW u, NEW r, NEW then, Assigned(t, u, r, then), UNCHANGED <<users, roles>> PROVE Headed'
  <2>1. userRoles \subseteq userRoles'
    BY <1>4 DEF Assigned
  <2> QED BY <1>4, <2>1, HeadStays
<1>5. CASE CreateUser(t)
  <2>1. CASE InsertUser(t)
    <3>1. DOMAIN users \subseteq DOMAIN users' /\ UNCHANGED <<roles, userRoles>>
      BY <2>1 DEF InsertUser, With
    <3> QED BY <3>1, HeadStays
  <2>2. CASE MakeRole(t)
    BY <1>1, <1>2, <2>2 DEF MakeRole, accounts
  <2>3. CASE AssignBuiltin(t)
    <3>1. userRoles \subseteq userRoles' /\ UNCHANGED <<users, roles>>
      BY <2>3 DEF AssignBuiltin, Assigned
    <3> QED BY <3>1, HeadStays
  <2>4. CASE SetNewEmail(t)
    <3>1. DOMAIN users' = DOMAIN users /\ UNCHANGED <<roles, userRoles>>
      BY <2>4 DEF SetNewEmail
    <3> QED BY <3>1, HeadStays
  <2>5. CASE UndoCreate(t)
    BY <2>5, HeadRemoved DEF UndoCreate
  <2> QED BY <1>1, <1>5, <2>1, <2>2, <2>3, <2>4, <2>5
       DEF CreateUser, ListUsers, FindRole, GetCreated, OnlyTask, index
<1>6. CASE ManageUser(t)
  <2>1. CASE SetEmail(t)
    BY <1>1, <1>3, <2>1 DEF SetEmail, accounts
  <2>2. CASE SetPassword(t)
    BY <1>1, <1>3, <2>2 DEF SetPassword, accounts
  <2>3. CASE SetAdmin(t)
    <3>1. CASE Unassigned(task[t].row, task[t].role)
      BY <2>3, <3>1, HeadDemoted DEF SetAdmin
    <3>2. CASE ~Unassigned(task[t].row, task[t].role)
      <4>1. userRoles \subseteq userRoles' /\ UNCHANGED <<users, roles>>
        BY <2>3, <3>2 DEF SetAdmin, Assigned
      <4> QED BY <4>1, HeadStays
    <3> QED BY <3>1, <3>2
  <2>4. CASE DeleteUser(t)
    BY <2>4, HeadRemoved DEF DeleteUser
  <2>5. CASE ChangePassword(t)
    BY <1>3, <2>5 DEF ChangePassword
  <2> QED BY <1>1, <1>6, <2>1, <2>2, <2>3, <2>4, <2>5
       DEF ManageUser, FindUser, GetUser, FindAdminRole, OnlyTask, index
<1>7. CASE ManageRole(t)
  <2>1. CASE CreateRole(t)
    BY <1>1, <1>2, <2>1 DEF CreateRole, accounts
  <2>2. CASE Assignment(t)
    <3>1. CASE Unassigned(Req(t).target, Req(t).role)
      BY <2>2, <3>1, HeadDemoted DEF Assignment
    <3>2. CASE ~Unassigned(Req(t).target, Req(t).role)
      <4>1. userRoles \subseteq userRoles' /\ UNCHANGED <<users, roles>>
        BY <2>2, <3>2 DEF Assignment, Assigned
      <4> QED BY <4>1, HeadStays
    <3> QED BY <3>1, <3>2
  <2>3. CASE DeleteRole(t)
    <3>1. PICK h \in DOMAIN users, r \in DOMAIN roles :
            <<h, r>> \in userRoles /\ roles[r].name = "admin" /\ roles[r].builtin
      BY DEF Headed
    <3>2. r # Req(t).role
      BY <2>3, <3>1 DEF DeleteRole, At, DeletesNoBuiltin
    <3>3. r \in DOMAIN roles' /\ roles'[r] = roles[r]
      BY <2>3, <3>2 DEF DeleteRole, Without
    <3>4. <<h, r>> \in userRoles' /\ h \in DOMAIN users'
      BY <2>3, <3>1, <3>2 DEF DeleteRole
    <3> QED BY <3>1, <3>3, <3>4 DEF Headed
  <2> QED BY <1>1, <1>7, <2>1, <2>2, <2>3
       DEF ManageRole, ReadBuiltin, CheckUser, CheckRole, OnlyTask, index
<1>8. CASE ManageRule(t)
  BY <1>1, <1>8 DEF ManageRule, CheckScope, SetRule, GetRule, DeleteRule, OnlyTask, index
<1>9. CASE Authenticate(t)
  BY <1>1, <1>9 DEF Authenticate, Arrive, ReadPassword, ReadUser, LoadUser, LoadRoles, OnlyTask, index
<1>10. CASE Annotate(t) \/ SetCoverArt(t) \/ UpdateTags(t) \/ Scan(t) \/ Read(t) \/ Abort(t)
  BY <1>1, <1>10, OthersKeepAccounts DEF accounts
<1> QED BY <1>5, <1>6, <1>7, <1>8, <1>9, <1>10 DEF Step

\* Builtin roles are none of those that are being deleted.
LEMMA DeletionsStep ==
  ASSUME Shape, AccountKeys, DeletesNoBuiltin, NEW t \in Tasks, RolesIssued(t), Step(t)
  PROVE  DeletesNoBuiltin'
<1>1. /\ last.roles \in Nat /\ last'.roles \in Nat /\ last.roles <= last'.roles
      /\ DOMAIN roles \subseteq 1..last.roles
  BY DEF AccountKeys, Counted, RolesIssued, Tables
<1>2. ASSUME NEW r \in 1..last.roles, r \in DOMAIN roles => ~roles[r].builtin
      PROVE  r \in 1..last'.roles /\ (r \in DOMAIN roles' => ~roles'[r].builtin)
  BY <1>1, <1>2 DEF RolesIssued
<1>3. \A x \in Tasks \ {t} : task'[x] = task[x]
  BY Arriving, StepsLand
<1>4. ASSUME NEW x \in Tasks, x # t, task'[x].pc = "deleteRole"
      PROVE  /\ Req(x)'.role \in 1..last'.roles
             /\ Req(x)'.role \in DOMAIN roles' => ~roles'[Req(x)'.role].builtin
  <2>1. Req(x)' = Req(x) /\ task[x].pc = "deleteRole"
    BY <1>3, <1>4 DEF Req
  <2>2. Req(x).role \in 1..last.roles /\ (Req(x).role \in DOMAIN roles => ~roles[Req(x).role].builtin)
    BY <2>1 DEF DeletesNoBuiltin
  <2> QED BY <1>2, <2>1, <2>2
<1>5. ASSUME task'[t].pc = "deleteRole"
      PROVE  /\ Req(t)'.role \in 1..last'.roles
             /\ Req(t)'.role \in DOMAIN roles' => ~roles'[Req(t)'.role].builtin
  <2>1. ReadBuiltin(t)
    <3>1. ~Authenticate(t)
      BY <1>5, Arriving, DoorLands DEF Authenticate, Enters, Firsts
    <3>2. ~CreateUser(t) /\ ~ManageUser(t) /\ ~ManageRule(t) /\ ~Annotate(t)
      BY <1>5, CreateUserLands, ManageUserLands, ManageRuleLands, AnnotateLands DEF Lands
    <3>3. ~SetCoverArt(t) /\ ~UpdateTags(t) /\ ~Scan(t) /\ ~Read(t)
      BY <1>5, SetCoverArtLands, UpdateTagsLands, ScanLands, ReadLands DEF Lands
    <3>4. \A a : ~Reply(t, a)
      BY <1>5, Replying DEF Shape
    <3>5. Go(t, "checkRole") \/ Go(t, "assignment") => FALSE
      BY <1>5, Going DEF Shape, Moves
    <3> QED BY <3>1, <3>2, <3>3, <3>4, <3>5 DEF Step, Abort, ManageRole, CreateRole, DeleteRole,
         CheckUser, CheckRole, Assignment, Assigned
  <2>2. \A a : ~Reply(t, a)
    BY <1>5, Replying DEF Shape
  <2>3. /\ Req(t).role \in DOMAIN roles /\ ~roles[Req(t).role].builtin /\ Go(t, "deleteRole")
    BY <2>1, <2>2 DEF ReadBuiltin
  <2>4. Req(t)' = Req(t)
    BY <2>3, Going DEF Shape, Moves, Req
  <2> QED BY <1>1, <1>2, <2>3, <2>4
<1>6. \A x \in Tasks : task'[x].pc = "deleteRole" =>
        /\ Req(x)'.role \in 1..last'.roles
        /\ Req(x)'.role \in DOMAIN roles' => ~roles'[Req(x)'.role].builtin
  BY <1>4, <1>5
<1> QED BY <1>6 DEF DeletesNoBuiltin

\* The start of the process only creates its user, or is cut.
LEMMA BootSteps ==
  ASSUME Shape, StartsAlone, Step(Boot)
  PROVE  CreateUser(Boot) \/ Abort(Boot)
<1> DEFINE places == {"listUsers", "insertUser", "findRole", "makeRole", "assignBuiltin", "getCreated"}
<1> Boot \in Tasks
  BY DEF Tasks
<1>1. CASE Authenticate(Boot)
  <2>1. ~Arrive(Boot)
    BY DEF Arrive, At, Shape
  <2> QED BY <1>1, <2>1, DoorLands DEF Authenticate, StartsAlone
<1>2. CASE ManageUser(Boot)
  BY <1>2 DEF ManageUser, FindUser, GetUser, SetEmail, SetPassword, FindAdminRole, SetAdmin,
     DeleteUser, ChangePassword, At, StartsAlone
<1>3. CASE ManageRole(Boot) \/ ManageRule(Boot)
  BY <1>3 DEF ManageRole, CreateRole, ReadBuiltin, DeleteRole, CheckUser, CheckRole, Assignment,
     ManageRule, CheckScope, SetRule, GetRule, DeleteRule, At, StartsAlone
<1>4. CASE Annotate(Boot) \/ SetCoverArt(Boot) \/ UpdateTags(Boot)
  BY <1>4 DEF Annotate, SetCoverArt, PutCover, UpdateCover, UndoCover, UpdateTags, CheckTrack,
     SetOverride, At, StartsAlone
<1>5. CASE Scan(Boot) \/ Read(Boot)
  BY <1>5 DEF Scan, StoreCover, UpsertArtist, UpsertAlbum, SetAlbumCover, UpsertTrack, Vanish,
     Read, HasCover, ViewerRoles, ViewerAdmin, Query, Respond, At, StartsAlone
<1> QED BY <1>1, <1>2, <1>3, <1>4, <1>5 DEF Step

\* While the first start runs nobody else does.
LEMMA StartsAloneStep ==
  ASSUME Shape, StartsAlone, NEW t \in Tasks, Step(t)
  PROVE  StartsAlone' /\ (~Up => t = Boot) /\ (t # Boot => UNCHANGED task[Boot])
<1>0. Boot \in Tasks /\ (t # Boot => t \in Task) /\ Task \subseteq Tasks \ {Boot}
  BY BootAssumption DEF Tasks
<1>1. \A x \in Tasks \ {t} : task'[x] = task[x]
  BY Arriving, StepsLand
<1>2. CASE t # Boot
  <2>1. Up
    BY <1>0, <1>2, Arriving, StepsLand DEF StartsAlone
  <2>2. task'[Boot] = task[Boot]
    BY <1>0, <1>1, <1>2
  <2> QED BY <1>2, <2>1, <2>2 DEF StartsAlone, Up, Req
<1>3. CASE t = Boot
  <2>1. task[Boot].pc # "done" /\ (CreateUser(Boot) \/ Abort(Boot)) /\ ~Up
    BY <1>0, <1>3, BootSteps, StepsLand, Arriving DEF Up
  <2>2. \A x \in Task : task'[x].pc \in {"idle", "done"}
    BY <1>0, <1>1, <1>3, <2>1 DEF StartsAlone
  <2>3. /\ task'[Boot].pc \in {"listUsers", "insertUser", "findRole", "makeRole", "assignBuiltin",
                              "getCreated", "done"}
        /\ task'[Boot].pc # "done" => Req(Boot)' = Req(Boot)
    <3>1. CASE Abort(Boot)
      BY <1>0, <3>1, Replying DEF Abort, Shape
    <3>2. CASE CreateUser(Boot)
      <4>1. Lands(Boot, {"insertUser", "findRole", "makeRole", "assignBuiltin", "getCreated",
                        "setNewEmail", "undoCreate"})
        BY <1>0, <3>2, CreateUserLands
      <4>2. task'[Boot].pc \notin {"setNewEmail", "undoCreate"}
        <5>1. Handlers /\ task[Boot].pc \notin {"setNewEmail", "undoCreate"}
          BY DEF Shape, StartsAlone
        <5>2. \A a : Reply(Boot, a) => task'[Boot].pc = "done"
          BY <1>0, <5>1, Replying
        <5>3. \A pc : Go(Boot, pc) => task'[Boot].pc = pc
          BY <1>0, <5>1, WaysOn
        <5>4. \A pc, id : Found(Boot, pc, id) => task'[Boot].pc = pc
          BY <1>0, <5>1, WaysOn
        <5>5. \A pc, r : Ranked(Boot, pc, r) => task'[Boot].pc = pc
          BY <1>0, <5>1, WaysOn
        <5> QED BY <3>2, <5>1, <5>2, <5>3, <5>4, <5>5 DEF CreateUser, ListUsers, InsertUser, FindRole,
             MakeRole, AssignBuiltin, Assigned, GetCreated, SetNewEmail, UndoCreate, At
      <4> QED BY <4>1, <4>2 DEF Lands, Moves, Req
    <3> QED BY <2>1, <3>1, <3>2
  <2> QED BY <1>0, <1>3, <2>1, <2>2, <2>3 DEF StartsAlone
<1> QED BY <1>2, <1>3

\* The user of an unfinished first start is told.
LEMMA OrphanedHead ==
  ASSUME StartsAlone, task[Boot].pc # "done", Orphan(Boot) \subseteq lapses'
  PROVE  Lapsed'
<1>1. <<task[Boot].row, TRUE>> \in lapses'
  BY DEF StartsAlone, Orphan
<1> QED BY <1>1 DEF Lapsed

\* The first start makes a user, its role and their pair, or is recorded.
LEMMA FoundingStep ==
  ASSUME Shape, AccountKeys, StartsAlone, Founding, Step(Boot)
  PROVE  Founding' \/ Headed' \/ Lapsed'
<1>0. /\ Boot \in Tasks /\ Handlers /\ task[Boot].pc # "done" /\ BuiltinFor(Boot) = "admin"
      /\ task[Boot].pc \notin {"setNewEmail", "undoCreate"}
  BY StepsLand, Arriving DEF Tasks, Shape, StartsAlone, BuiltinFor
<1>1. CASE Abort(Boot)
  <2>1. CASE Creating(Boot)
    BY <1>0, <1>1, <2>1, OrphanedHead DEF Abort
  <2>2. CASE ~Creating(Boot)
    <3>1. DOMAIN users = {} /\ UNCHANGED <<users, roles>>
      BY <1>0, <1>1, <2>2 DEF Creating, StartsAlone, Founding, Abort, index, accounts
    <3>2. task'[Boot].pc = "done" /\ task'[Boot].answer = "internal"
      BY <1>0, <1>1, Replying DEF Abort
    <3> QED BY <3>1, <3>2 DEF Founding, Up
  <2> QED BY <2>1, <2>2
<1>2. CASE ListUsers(Boot)
  <2>1. DOMAIN users = {} /\ Go(Boot, "insertUser") /\ UNCHANGED <<users, roles>>
    BY <1>2 DEF ListUsers, At, Founding, OnlyTask, index, accounts
  <2>2. task'[Boot].pc = "insertUser"
    BY <1>0, <2>1, WaysOn
  <2> QED BY <2>1, <2>2 DEF Founding, Up
<1>3. CASE InsertUser(Boot)
  <2>1. DOMAIN users = {} /\ UserNamed(Req(Boot).name) = {}
    BY <1>3 DEF InsertUser, At, Founding, UserNamed
  <2>2. Found(Boot, "findRole", last.users + 1) /\ last.users + 1 \in DOMAIN users' /\ UNCHANGED roles
    BY <1>3, <2>1 DEF InsertUser, With
  <2>3. task'[Boot].pc = "findRole" /\ task'[Boot].row = last.users + 1
    BY <1>0, <2>2, Finding DEF Moves
  <2> QED BY <2>2, <2>3 DEF Founding, Up
<1>4. CASE FindRole(Boot)
  <2>1. UNCHANGED <<users, roles>> /\ task[Boot].row \in DOMAIN users
    BY <1>4 DEF FindRole, OnlyTask, index, accounts, At, Founding
  <2>2. CASE Go(Boot, "makeRole")
    <3>1. task'[Boot].pc = "makeRole" /\ task'[Boot].row = task[Boot].row
      BY <1>0, <2>2, Going DEF Moves
    <3> QED BY <2>1, <3>1 DEF Founding, Up
  <2>3. ASSUME NEW r \in RoleNamed("admin"), Ranked(Boot, "assignBuiltin", r) PROVE Founding'
    <3>1. /\ task'[Boot].pc = "assignBuiltin" /\ task'[Boot].row = task[Boot].row
          /\ task'[Boot].role = r
      BY <1>0, <2>3, Ranking DEF Moves
    <3>2. r \in DOMAIN roles /\ roles[r].name = "admin"
      BY <2>3 DEF RoleNamed
    <3> QED BY <2>1, <3>1, <3>2 DEF Founding, Up
  <2> QED BY <1>0, <1>4, <2>2, <2>3 DEF FindRole
<1>5. CASE MakeRole(Boot)
  <2>1. UNCHANGED users /\ task[Boot].row \in DOMAIN users
    BY <1>5 DEF MakeRole, At, Founding
  <2>2. CASE RoleNamed("admin") = {}
    <3>1. /\ roles' = With(roles, last.roles + 1, [name |-> "admin", builtin |-> TRUE])
          /\ Ranked(Boot, "assignBuiltin", last.roles + 1)
      BY <1>0, <1>5, <2>2 DEF MakeRole, NewRole
    <3>2. /\ task'[Boot].pc = "assignBuiltin" /\ task'[Boot].row = task[Boot].row
          /\ task'[Boot].role = last.roles + 1
      BY <1>0, <3>1, Ranking DEF Moves
    <3>3. /\ last.roles + 1 \in DOMAIN roles'
          /\ roles'[last.roles + 1] = [name |-> "admin", builtin |-> TRUE]
      BY <3>1 DEF With
    <3>4. \A r \in DOMAIN roles' : r = last.roles + 1 \/ (r \in DOMAIN roles /\ roles'[r] = roles[r])
      BY <3>1 DEF With
    <3> QED BY <2>1, <3>2, <3>3, <3>4 DEF Founding, Up
  <2>3. CASE RoleNamed("admin") # {}
    BY <1>0, <1>5, <2>3, OrphanedHead DEF MakeRole
  <2> QED BY <2>2, <2>3
<1>6. CASE AssignBuiltin(Boot)
  <2>1. /\ task[Boot].row \in DOMAIN users /\ task[Boot].role \in DOMAIN roles
        /\ roles[task[Boot].role].name = "admin" /\ roles[task[Boot].role].builtin
    BY <1>6 DEF AssignBuiltin, At, Founding
  <2>2. UNCHANGED <<users, roles>> /\ <<task[Boot].row, task[Boot].role>> \in userRoles'
    BY <1>6, <2>1 DEF AssignBuiltin, Assigned
  <2> QED BY <2>1, <2>2 DEF Headed
<1> QED BY <1>0, <1>1, <1>2, <1>3, <1>4, <1>5, <1>6, BootSteps
     DEF CreateUser, GetCreated, SetNewEmail, UndoCreate, At, Founding

\* A crash leaves the tables, and starts the process again.
LEMMA AdministratorsCrash ==
  ASSUME Shape, StartsAlone, Lapsed \/ Headed \/ Founding, Crash
  PROVE  StartsAlone' /\ (Lapsed' \/ Headed' \/ Founding')
<1>1. /\ task' = [x \in Tasks |-> IF x = Boot THEN Start0
                                 ELSE IF Active(x) THEN Closed(x, "internal") ELSE task[x]]
      /\ UNCHANGED <<users, roles, userRoles>> /\ lapses' = lapses \cup Orphans
  BY DEF Crash, index, accounts
<1>2. Start0.pc = "listUsers" /\ Start0.req.admin = TRUE
  <2> SUFFICES ASSUME NEW h, h = Start0 PROVE h.pc = "listUsers" /\ h.req.admin = TRUE
    OBVIOUS
  <2> QED BY DEF Start0, Blank
<1>3. task'[Boot] = Start0
  BY <1>1 DEF Tasks
<1>4. \A x \in Task : task'[x].pc \in {"idle", "done"}
  <2>1. ASSUME NEW x \in Task PROVE task'[x].pc \in {"idle", "done"}
    <3>1. CASE Active(x)
      <4>1. task'[x] = Closed(x, "internal")
        BY <1>1, <2>1, <3>1, BootAssumption DEF Tasks
      <4>2. Closed(x, "internal").pc = "done"
        <5> SUFFICES ASSUME NEW h, h = Closed(x, "internal") PROVE h.pc = "done"
          OBVIOUS
        <5> QED BY DEF Closed, Blank
      <4> QED BY <4>1, <4>2
    <3>2. CASE ~Active(x)
      BY <1>1, <3>2, BootAssumption DEF Active, Tasks
    <3> QED BY <3>1, <3>2
  <2> QED BY <2>1
<1>5. StartsAlone'
  BY <1>2, <1>3, <1>4 DEF StartsAlone, Req
<1>6. CASE Lapsed \/ Headed
  BY <1>1, <1>5, <1>6 DEF Lapsed, Headed
<1>7. CASE Founding
  <2>1. CASE Creating(Boot)
    <3>1. Orphan(Boot) \subseteq lapses' /\ task[Boot].pc # "done"
      BY <1>1, <2>1 DEF Orphans, Creating, Tasks
    <3> QED BY <1>5, <3>1, OrphanedHead
  <2>2. CASE ~Creating(Boot)
    <3>1. DOMAIN users = {}
      BY <1>7, <2>2 DEF Creating, StartsAlone, Founding
    <3> QED BY <1>1, <1>2, <1>3, <1>5, <1>7, <3>1 DEF Founding, Up
  <2> QED BY <2>1, <2>2
<1> QED BY <1>5, <1>6, <1>7

\* A server that answers requests has an administrator, whatever its
\* administrators do to each other's accounts and to roles at the same time and
\* wherever the first start was cut, unless one was demoted or deleted, or the
\* first start left its user without the role.
THEOREM Administrators == Spec => []SomeoneAdministers
<1> DEFINE IInv == StartsAlone /\ DeletesNoBuiltin /\ (Lapsed \/ Headed \/ Founding)
<1>1. Init => IInv
  <2> SUFFICES ASSUME Init PROVE IInv
    OBVIOUS
  <2>1. /\ \A t \in Tasks : task[t].pc \in {"idle", "listUsers"}
        /\ task[Boot] = Start0 /\ \A t \in Task : task[t] = Blank
    BY Beginning DEF Init, Tasks
  <2>2. Start0.pc = "listUsers" /\ Start0.req.admin = TRUE /\ Blank.pc = "idle"
    <3>1. Blank.pc = "idle"
      BY DEF Blank
    <3> SUFFICES ASSUME NEW h, h = Start0 PROVE h.pc = "listUsers" /\ h.req.admin = TRUE
      BY <3>1
    <3> QED BY DEF Start0, Blank
  <2>3. StartsAlone
    BY <2>1, <2>2 DEF StartsAlone, Req
  <2>4. DeletesNoBuiltin
    BY <2>1 DEF DeletesNoBuiltin
  <2>5. Headed \/ Founding
    <3>1. PICK s \in Starts : users = s.users /\ roles = s.roles /\ userRoles = s.userRoles
      BY DEF Init
    <3>2. \A r \in DOMAIN roles : roles[r].name = "admin" => roles[r].builtin
      BY <3>1, FoundedAssumption
    <3>3. CASE DOMAIN users = {}
      BY <2>1, <2>2, <3>2, <3>3 DEF Founding, Up
    <3>4. CASE DOMAIN users # {}
      <4>1. PICK ur \in userRoles :
              ur[1] \in DOMAIN users /\ ur[2] \in DOMAIN roles /\ roles[ur[2]].name = "admin"
        BY <3>1, <3>4, FoundedAssumption
      <4>2. userRoles \subseteq (DOMAIN users) \X (DOMAIN roles)
        BY InitKeyed DEF Keyed, AccountKeys
      <4>3. ur = <<ur[1], ur[2]>>
        BY <4>2
      <4> QED BY <3>2, <4>1, <4>3 DEF Headed
    <3> QED BY <3>3, <3>4
  <2> QED BY <2>3, <2>4, <2>5
<1>2. IInv /\ Keyed /\ Keyed' /\ [Next]_vars => IInv'
  <2> SUFFICES ASSUME IInv, Keyed, Keyed', [Next]_vars PROVE IInv'
    OBVIOUS
  <2>0. Shape /\ AccountKeys /\ Counted /\ Counted' /\ last \in [Tables -> Nat]
    BY DEF Keyed, AccountKeys, Counted
  <2>1. CASE UNCHANGED vars
    BY <2>1 DEF StartsAlone, DeletesNoBuiltin, Lapsed, Headed, Founding, Up, Req, vars, history,
       index, accounts
  <2>2. CASE Crash
    <3>1. StartsAlone' /\ (Lapsed' \/ Headed' \/ Founding')
      BY <2>0, <2>2, AdministratorsCrash
    <3>2. UNCHANGED <<roles, last>>
      BY <2>2 DEF Crash, index, accounts
    <3>3. \A x \in Tasks : task'[x] = task[x] \/ task'[x].pc # "deleteRole"
      BY <2>0, <2>2, CrashLands
    <3>4. DeletesNoBuiltin'
      BY <3>2, <3>3 DEF DeletesNoBuiltin, Req
    <3> QED BY <3>1, <3>4
  <2>3. ASSUME NEW t \in Tasks, Step(t) PROVE IInv'
    <3>1. StartsAlone' /\ (~Up => t = Boot)
      BY <2>0, <2>3, StartsAloneStep
    <3>2. DeletesNoBuiltin'
      BY <2>0, <2>3, DeletionsStep, StepIssuesRoles DEF AccountKeys
    <3>3. Lapsed => Lapsed'
      BY <2>3, LapsesGrow DEF Lapsed
    <3>4. Headed => Headed' \/ Lapsed'
      BY <2>0, <2>3, HeadStep
    <3>5. Founding => Founding' \/ Headed' \/ Lapsed'
      BY <2>0, <2>3, <3>1, FoundingStep DEF Founding
    <3> QED BY <3>1, <3>2, <3>3, <3>4, <3>5
  <2> QED BY <2>1, <2>2, <2>3 DEF Next
<1>3. IInv => SomeoneAdministers
  BY DEF Lapsed, Headed, Founding, SomeoneAdministers, IsAdmin, RolesOf
<1> QED BY <1>1, <1>2, <1>3, KeysStay, PTL DEF Spec
=============================================================================
