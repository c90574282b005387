--------------------------- MODULE AccessControl ---------------------------
(***************************************************************************)
(* Users, roles, access rules, annotations, covers and the requests that   *)
(* read the library (server/src/api/, auth/, setup.rs), query by query     *)
(* over the index of MediaIndex.  A handler holds no transaction and no    *)
(* lock across its queries: what it checked, who it runs for and what it   *)
(* may show can all have changed by its next query.  At any await a query  *)
(* can fail or the client can leave, which drops the handler.              *)
(*                                                                         *)
(* Left out: refusals of malformed parameters that nothing depends on, the *)
(* paging and decoration of answers, and the read-only lists of users,     *)
(* roles and rules.                                                        *)
(***************************************************************************)
EXTENDS MediaIndex, Sequences

CONSTANTS
  Task,       \* requests that can be in flight, each handled once
  Boot,       \* the start of the process: ensure_admin
  Offered,    \* Offered[t]: the requests t may be
  Starts,     \* the databases a run may start with
  Seed,       \* the user ensure_admin creates: name, password
  SearchCount,\* bound: the count a search asks for
  MaxCrashes  \* bound: crashes of the server

VARIABLES
  covers,   \* the cover objects in the store
  last,     \* sqlite_sequence: the last id handed out in each table
  task,     \* task[t]: the local state of a handler
  crashes,
  wrote,    \* history: has t changed the index
  held,     \* history: what roles its user had since t began to read
  lapses,   \* history: users that lost a role or were not fully created,
            \* with whether that role was the administrator's
  undone    \* history: covers a failed setCoverArt took back

history == <<wrote, held, lapses, undone>>
vars == <<index, covers, last, task, crashes, history>>

Tasks == Task \cup {Boot}

AdminOps == {"createUser", "updateUser", "deleteUser", "createRole", "deleteRole",
  "assignRole", "unassignRole", "setAccessRule", "deleteAccessRule", "setCoverArt", "updateTags"}
ScanOps == {"ingest", "vanish"}

ASSUME BootAssumption == Boot \notin Task

\* The tables whose ids are drawn from sqlite_sequence.
Tables == {"users", "roles", "rules", "albums", "artists", "tracks"}

\* The ids of the items of a kind among the scopes of rules.
Ruled(scopes, kind) == {s[2] : s \in {x \in scopes : x[1] = kind}}

\* A database whose users have roles, whose grants name somebody, whose covers
\* are in the store, whose counters are ahead of its ids and those of its rules,
\* and whose tracks can be counted.
ASSUME StartsAssumption ==
  \A s \in Starts :
    /\ s.last \in [Tables -> Nat] /\ DOMAIN s.users \subseteq 1..s.last.users
    /\ DOMAIN s.tracks \cup Ruled(DOMAIN s.rules, "track") \subseteq 1..s.last.tracks
    /\ DOMAIN s.albums \cup Ruled(DOMAIN s.rules, "album") \subseteq 1..s.last.albums
    /\ DOMAIN s.artists \cup Ruled(DOMAIN s.rules, "artist") \subseteq 1..s.last.artists
    /\ IsFiniteSet(DOMAIN s.tracks)
    /\ \A u \in DOMAIN s.users : \E r \in DOMAIN s.roles : <<u, r>> \in s.userRoles
    /\ \A x \in DOMAIN s.rules : \A p \in s.rules[x].grants :
         (\E u \in DOMAIN s.users : p = <<"user", u>>) \/ (\E r \in DOMAIN s.roles : p = <<"role", r>>)
    /\ \A a \in DOMAIN s.albums :
         "cover" \in DOMAIN s.albums[a] /\ s.albums[a].cover \in s.covers \cup {Null}

\* The tables have their rows, the rows their columns, and what a foreign key
\* names is there.
Tabled(table) == table = [x \in DOMAIN table |-> table[x]]

ASSUME KeysAssumption ==
  \A s \in Starts :
    /\ Tabled(s.users) /\ Tabled(s.roles) /\ Tabled(s.annotations)
    /\ s.rules = [x \in DOMAIN s.rules |-> [id |-> s.rules[x].id, grants |-> s.rules[x].grants]]
    /\ DOMAIN s.roles \subseteq 1..s.last.roles
    /\ s.userRoles \subseteq (DOMAIN s.users) \X (DOMAIN s.roles)
    /\ \A x \in DOMAIN s.rules : s.rules[x].id \in 1..s.last.rules
    /\ \A x, y \in DOMAIN s.rules : s.rules[x].id = s.rules[y].id => x = y
    /\ \A n \in DOMAIN s.annotations : n[1] \in DOMAIN s.users
    /\ \A t \in DOMAIN s.tracks : /\ s.tracks[t].album \in DOMAIN s.albums \cup {Null}
                                 /\ s.tracks[t].artist \in DOMAIN s.artists \cup {Null}
    /\ DOMAIN s.genreTags \subseteq DOMAIN s.tracks
    /\ \A a \in DOMAIN s.albums : /\ "artist" \in DOMAIN s.albums[a]
                                 /\ s.albums[a].artist \in DOMAIN s.artists \cup {Null}

\* The role named admin is the one ensure_admin made, and a database that has
\* users has one with that role.
ASSUME FoundedAssumption ==
  \A s \in Starts :
    /\ \A r \in DOMAIN s.roles : s.roles[r].name = "admin" => s.roles[r].builtin
    /\ DOMAIN s.users # {} =>
         \E ur \in s.userRoles : /\ ur[1] \in DOMAIN s.users /\ ur[2] \in DOMAIN s.roles
                                 /\ s.roles[ur[2]].name = "admin"

\* Where a handler begins once its user is known.
FirstStep ==
  [createUser |-> "insertUser", updateUser |-> "findUser", deleteUser |-> "findUser",
   changePassword |-> "findUser", getUser |-> "findUser", createRole |-> "insertRole",
   deleteRole |-> "readBuiltin", assignRole |-> "checkUser", unassignRole |-> "checkUser",
   setAccessRule |-> "checkScope", deleteAccessRule |-> "deleteRule",
   setCoverArt |-> "putCover", updateTags |-> "checkTrack",
   star |-> "annotate", unstar |-> "annotate", setRating |-> "annotate", scrobble |-> "annotate",
   getCoverArt |-> "hasCover", ingest |-> "storeCover", vanish |-> "vanish",
   getSong |-> "viewerRoles", getAlbum |-> "viewerRoles", getArtist |-> "viewerRoles",
   getArtists |-> "viewerRoles", getGenres |-> "viewerRoles", getStarred2 |-> "viewerRoles",
   getAlbumList2 |-> "viewerRoles", search3 |-> "viewerRoles", stream |-> "viewerRoles",
   getIndexes |-> "viewerRoles", download |-> "viewerRoles", getLyrics |-> "viewerRoles"]

\* Requests are of these kinds; a token holds the id of a user, a scan has none.
ASSUME OfferedAssumption ==
  \A t \in Task : \A r \in Offered[t] :
    r.op \in DOMAIN FirstStep /\ ("token" \in DOMAIN r => r.token \in Nat /\ r.op \notin ScanOps)

Reading == {"viewerRoles", "viewerAdmin", "query"}
Refusals == {"unauthorized", "forbidden", "notFound", "refused"}
Answers == {"none", "ok", "internal"} \cup Refusals

\* me, name, admin: CurrentUser.  view, bypass: Viewer.  row, role: the ids the
\* handler works on.  todo, later: queries or items left.  got: the answer so
\* far.  known: the user of the token existed when the request arrived.
Blank == [pc |-> "idle", req |-> Null, answer |-> "none", me |-> 0, name |-> Null,
          admin |-> FALSE, row |-> 0, role |-> 0, view |-> {}, bypass |-> FALSE,
          todo |-> {}, later |-> << >>, got |-> {}, known |-> TRUE]
Start0 == [Blank EXCEPT !.pc = "listUsers",
             !.req = [op |-> "ensureAdmin", name |-> Seed.name, password |-> Seed.password,
                      admin |-> TRUE]]

At(t, pc) == task[t].pc = pc
Req(t) == task[t].req
Op(t) == Req(t).op
Active(t) == task[t].pc \notin {"idle", "done"}
Up == task[Boot].pc = "done" /\ task[Boot].answer = "ok"

Closed(t, a) == [Blank EXCEPT !.pc = "done", !.req = [op |-> Op(t)], !.answer = a,
                              !.known = task[t].known]
Go(t, pc) == task' = [task EXCEPT ![t].pc = pc]
Reply(t, a) == task' = [task EXCEPT ![t] = Closed(t, a)]
Found(t, pc, id) == task' = [task EXCEPT ![t].pc = pc, ![t].row = id]
Ranked(t, pc, r) == task' = [task EXCEPT ![t].pc = pc, ![t].role = r]

\* What the user of a reading request could be taken for since it began.
Standing(t) == <<RolesOf(task[t].me), IsAdmin(task[t].me)>>
Standings ==
  [t \in Tasks |-> IF task'[t].pc \in Reading THEN held[t] \cup {Standing(t)'} ELSE {}]

\* What a step that only reads leaves alone, and one that writes the index.
Recorded(t) ==
  /\ wrote' = [wrote EXCEPT ![t] = @ \/ index' # index]
  /\ held' = Standings
OnlyTask(t) == UNCHANGED <<index, covers, last, crashes, lapses, undone>> /\ Recorded(t)
OnlyIndex(t) == UNCHANGED <<covers, crashes, undone>> /\ Recorded(t)
With(f, x, y) == [z \in DOMAIN f \cup {x} |-> IF z = x THEN y ELSE f[z]]
Without(f, x) == [z \in DOMAIN f \ {x} |-> f[z]]

Init ==
  /\ \E s \in Starts :
       /\ users = s.users /\ roles = s.roles /\ userRoles = s.userRoles
       /\ rules = s.rules /\ annotations = s.annotations
       /\ tracks = s.tracks /\ genreTags = s.genreTags
       /\ albums = s.albums /\ artists = s.artists
       /\ covers = s.covers /\ last = s.last
  /\ task = [t \in Tasks |-> IF t = Boot THEN Start0 ELSE Blank]
  /\ crashes = 0
  /\ wrote = [t \in Tasks |-> FALSE] /\ held = [t \in Tasks |-> {}]
  /\ lapses = {} /\ undone = {}

(***************************************************************************)
(* Who sends the request: a session token names a user id, a password      *)
(* names a user.  Four queries, then the administrator's check.            *)
(***************************************************************************)
Arrive(t) ==
  /\ At(t, "idle") /\ Up
  /\ \E r \in Offered[t] :
       LET token == "token" \in DOMAIN r
           first == IF r.op \in ScanOps THEN FirstStep[r.op]
                    ELSE IF token THEN "loadUser" ELSE "readPassword"
       IN  /\ token => r.token <= last.users
           /\ task' = [task EXCEPT ![t] =
                [Blank EXCEPT !.pc = first, !.req = r,
                   !.me = IF token THEN r.token ELSE 0,
                   !.known = token => r.token \in DOMAIN users]]
  /\ OnlyTask(t)

ReadPassword(t) ==
  /\ At(t, "readPassword")
  /\ IF \E u \in UserNamed(Req(t).user) : users[u].password = Req(t).secret
     THEN Go(t, "readUser") ELSE Reply(t, "unauthorized")
  /\ OnlyTask(t)

ReadUser(t) ==
  /\ At(t, "readUser")
  /\ \/ \E u \in UserNamed(Req(t).user) :
          task' = [task EXCEPT ![t].pc = "loadUser", ![t].me = u]
     \/ UserNamed(Req(t).user) = {} /\ Reply(t, "unauthorized")
  /\ OnlyTask(t)

LoadUser(t) ==
  /\ At(t, "loadUser")
  /\ IF task[t].me \in DOMAIN users
     THEN task' = [task EXCEPT ![t].pc = "loadRoles", ![t].name = users[task[t].me].name]
     ELSE Reply(t, "unauthorized")
  /\ OnlyTask(t)

\* A user may ask for, and change the password of, itself only.
OthersBusiness(t) ==
  Op(t) \in {"getUser", "changePassword"} /\ task[t].name # Req(t).name

LoadRoles(t) ==
  /\ At(t, "loadRoles")
  /\ IF ~IsAdmin(task[t].me) /\ (Op(t) \in AdminOps \/ OthersBusiness(t))
     THEN Reply(t, "forbidden")
     ELSE task' = [task EXCEPT ![t].pc = FirstStep[Op(t)], ![t].admin = IsAdmin(task[t].me),
                     ![t].later = IF FirstStep[Op(t)] = "annotate" THEN Req(t).items ELSE << >>]
  /\ OnlyTask(t)

Authenticate(t) ==
  Arrive(t) \/ ReadPassword(t) \/ ReadUser(t) \/ LoadUser(t) \/ LoadRoles(t)

(***************************************************************************)
(* createUser and ensure_admin: the row, then its role, then the e-mail.   *)
(***************************************************************************)
ListUsers(t) ==
  /\ At(t, "listUsers")
  /\ IF DOMAIN users = {} THEN Go(t, "insertUser") ELSE Reply(t, "ok")
  /\ OnlyTask(t)

\* mutant: INTEGER PRIMARY KEY without AUTOINCREMENT takes the next free id
InsertUserReusingIds(t) ==
  /\ At(t, "insertUser")
  /\ IF UserNamed(Req(t).name) # {} THEN Reply(t, "internal") /\ UNCHANGED <<users, last>>
     ELSE LET u == Max(DOMAIN users \cup {0}) + 1 IN
          /\ users' = With(users, u, [name |-> Req(t).name, password |-> Req(t).password,
                                      email |-> Null])
          /\ last' = [last EXCEPT !.users = Max({@, u})]
          /\ Found(t, "findRole", u)
  /\ UNCHANGED <<roles, userRoles, rules, annotations, catalog, lapses>> /\ OnlyIndex(t)

InsertUser(t) ==
  /\ At(t, "insertUser")
  /\ IF UserNamed(Req(t).name) # {} THEN Reply(t, "internal") /\ UNCHANGED <<users, last>>
     ELSE LET u == last.users + 1 IN
          /\ users' = With(users, u, [name |-> Req(t).name, password |-> Req(t).password,
                                      email |-> Null])
          /\ last' = [last EXCEPT !.users = u]
          /\ Found(t, "findRole", u)
  /\ UNCHANGED <<roles, userRoles, rules, annotations, catalog, lapses>> /\ OnlyIndex(t)

\* mutant: every new user is a member
BuiltinForAll(t) == "member"
BuiltinFor(t) == IF Req(t).admin THEN "admin" ELSE "member"

\* mutant: a role that exists is taken for assigned
FindRoleOnly(t) ==
  /\ At(t, "findRole")
  /\ \/ \E r \in RoleNamed(BuiltinFor(t)) : Ranked(t, "getCreated", r)
     \/ RoleNamed(BuiltinFor(t)) = {} /\ Go(t, "makeRole")
  /\ OnlyTask(t)

FindRole(t) ==
  /\ At(t, "findRole")
  /\ \/ \E r \in RoleNamed(BuiltinFor(t)) : Ranked(t, "assignBuiltin", r)
     \/ RoleNamed(BuiltinFor(t)) = {} /\ Go(t, "makeRole")
  /\ OnlyTask(t)

NewRole(name, builtin) ==
  /\ roles' = With(roles, last.roles + 1, [name |-> name, builtin |-> builtin])
  /\ last' = [last EXCEPT !.roles = @ + 1]

\* The user of an unfinished creation, which stays.
Orphan(t) == {<<task[t].row, Req(t).admin>>}

\* Another request made the role first: UNIQUE fails.
MakeRole(t) ==
  /\ At(t, "makeRole")
  /\ IF RoleNamed(BuiltinFor(t)) = {}
     THEN /\ NewRole(BuiltinFor(t), TRUE) /\ Ranked(t, "assignBuiltin", last.roles + 1)
          /\ UNCHANGED lapses
     ELSE /\ UNCHANGED <<roles, last>> /\ Reply(t, "internal")
          /\ lapses' = lapses \cup Orphan(t)
  /\ UNCHANGED <<users, userRoles, rules, annotations, catalog>> /\ OnlyIndex(t)

\* INSERT INTO user_roles: a foreign key of either side fails the statement.
Assigned(t, u, r, then) ==
  IF u \in DOMAIN users /\ r \in DOMAIN roles
  THEN userRoles' = userRoles \cup {<<u, r>>} /\ then
  ELSE UNCHANGED userRoles /\ Reply(t, "internal")

AssignBuiltin(t) ==
  /\ At(t, "assignBuiltin")
  /\ Assigned(t, task[t].row, task[t].role, Go(t, "getCreated"))
  /\ lapses' = IF task[t].role \in DOMAIN roles THEN lapses ELSE lapses \cup Orphan(t)
  /\ UNCHANGED <<users, roles, rules, annotations, catalog, last>> /\ OnlyIndex(t)

GetCreated(t) ==
  /\ At(t, "getCreated")
  /\ IF task[t].row \notin DOMAIN users THEN Reply(t, "internal")
     ELSE IF t = Boot THEN Reply(t, "ok") ELSE Go(t, "setNewEmail")
  /\ OnlyTask(t)

SetNewEmail(t) ==
  /\ At(t, "setNewEmail")
  /\ \/ IF task[t].row \in DOMAIN users
        THEN /\ users' = [users EXCEPT ![task[t].row].email = "given"]
             /\ Reply(t, "ok")
        ELSE UNCHANGED users /\ Reply(t, "notFound")
     \/ UNCHANGED users /\ Go(t, "undoCreate")
  /\ UNCHANGED <<roles, userRoles, rules, annotations, catalog, last, lapses>> /\ OnlyIndex(t)

\* The grants of a principal go in the transaction that deletes it; roles and
\* annotations of a user go by the foreign keys.
\* mutant: the grants stay
KeptGrants(p) == UNCHANGED rules
DropGrants(p) ==
  rules' = [s \in DOMAIN rules |-> [id |-> rules[s].id, grants |-> rules[s].grants \ {p}]]

\* mutant: the roles of the user stay
RemoveUserKeepingRoles(u) ==
  /\ users' = Without(users, u)
  /\ annotations' = [n \in {m \in DOMAIN annotations : m[1] # u} |-> annotations[n]]
  /\ DropGrants(<<"user", u>>)
  /\ lapses' = lapses \cup {<<u, IsAdmin(u)>>}
  /\ UNCHANGED userRoles

RemoveUser(u) ==
  /\ users' = Without(users, u)
  /\ userRoles' = {ur \in userRoles : ur[1] # u}
  /\ annotations' = [n \in {m \in DOMAIN annotations : m[1] # u} |-> annotations[n]]
  /\ DropGrants(<<"user", u>>)
  /\ lapses' = lapses \cup {<<u, IsAdmin(u)>>}

UndoCreate(t) ==
  /\ At(t, "undoCreate")
  /\ RemoveUser(task[t].row) /\ Reply(t, "internal")
  /\ UNCHANGED <<roles, catalog, last>> /\ OnlyIndex(t)

CreateUser(t) ==
  \/ ListUsers(t) \/ InsertUser(t) \/ FindRole(t) \/ MakeRole(t) \/ AssignBuiltin(t)
  \/ GetCreated(t) \/ SetNewEmail(t) \/ UndoCreate(t)

(***************************************************************************)
(* updateUser, deleteUser, changePassword, getUser: by name, then by id.   *)
(* updateUser makes each change it is asked for by a statement of its own  *)
(* and does not look whether the row was still there.                      *)
(***************************************************************************)
AfterFind ==
  [updateUser |-> "setEmail", deleteUser |-> "deleteUser", changePassword |-> "changePassword",
   getUser |-> "getUser"]

FindUser(t) ==
  /\ At(t, "findUser")
  /\ \/ \E u \in UserNamed(Req(t).name) : Found(t, AfterFind[Op(t)], u)
     \/ UserNamed(Req(t).name) = {} /\ Reply(t, "notFound")
  /\ OnlyTask(t)

GetUser(t) == At(t, "getUser") /\ Reply(t, "ok") /\ OnlyTask(t)

\* UPDATE users: no row, no change.
Update(u, row) == users' = IF u \in DOMAIN users THEN [users EXCEPT ![u] = row] ELSE users

SetEmail(t) ==
  /\ At(t, "setEmail")
  /\ IF Req(t).email THEN Update(task[t].row, [users[task[t].row] EXCEPT !.email = "given"])
     ELSE UNCHANGED users
  /\ Go(t, "setPassword")
  /\ UNCHANGED <<roles, userRoles, rules, annotations, catalog, last, lapses>> /\ OnlyIndex(t)

SetPassword(t) ==
  /\ At(t, "setPassword")
  /\ IF Req(t).password = "malformed" THEN Reply(t, "refused") /\ UNCHANGED users
     ELSE /\ IF Req(t).password = Null THEN UNCHANGED users
             ELSE Update(task[t].row, [users[task[t].row] EXCEPT !.password = Req(t).password])
          /\ IF Req(t).admin = Null THEN Reply(t, "ok") ELSE Go(t, "findAdminRole")
  /\ UNCHANGED <<roles, userRoles, rules, annotations, catalog, last, lapses>> /\ OnlyIndex(t)

FindAdminRole(t) ==
  /\ At(t, "findAdminRole")
  /\ \/ \E r \in RoleNamed("admin") : Ranked(t, "setAdmin", r)
     \/ RoleNamed("admin") = {} /\ Reply(t, "internal")
  /\ OnlyTask(t)

Unassigned(u, r) ==
  /\ userRoles' = userRoles \ {<<u, r>>}
  /\ lapses' = IF <<u, r>> \in userRoles THEN lapses \cup {<<u, roles[r].name = "admin">>}
               ELSE lapses

SetAdmin(t) ==
  /\ At(t, "setAdmin")
  /\ IF Req(t).admin
     THEN Assigned(t, task[t].row, task[t].role, Reply(t, "ok")) /\ UNCHANGED lapses
     ELSE Unassigned(task[t].row, task[t].role) /\ Reply(t, "ok")
  /\ UNCHANGED <<users, roles, rules, annotations, catalog, last>> /\ OnlyIndex(t)

DeleteUser(t) ==
  /\ At(t, "deleteUser")
  /\ RemoveUser(task[t].row)
  /\ Reply(t, IF task[t].row \in DOMAIN users THEN "ok" ELSE "notFound")
  /\ UNCHANGED <<roles, catalog, last>> /\ OnlyIndex(t)

ChangePassword(t) ==
  /\ At(t, "changePassword")
  /\ Update(task[t].row, [users[task[t].row] EXCEPT !.password = Req(t).password])
  /\ Reply(t, IF task[t].row \in DOMAIN users THEN "ok" ELSE "notFound")
  /\ UNCHANGED <<roles, userRoles, rules, annotations, catalog, last, lapses>> /\ OnlyIndex(t)

ManageUser(t) ==
  \/ FindUser(t) \/ GetUser(t) \/ SetEmail(t) \/ SetPassword(t) \/ FindAdminRole(t)
  \/ SetAdmin(t) \/ DeleteUser(t) \/ ChangePassword(t)

(***************************************************************************)
(* Roles and who has them.                                                 *)
(***************************************************************************)
CreateRole(t) ==
  /\ At(t, "insertRole")
  /\ IF RoleNamed(Req(t).name) = {} THEN NewRole(Req(t).name, FALSE) /\ Reply(t, "ok")
     ELSE UNCHANGED <<roles, last>> /\ Reply(t, "internal")
  /\ UNCHANGED <<users, userRoles, rules, annotations, catalog, lapses>> /\ OnlyIndex(t)

ReadBuiltin(t) ==
  /\ At(t, "readBuiltin")
  /\ IF Req(t).role \notin DOMAIN roles THEN Reply(t, "notFound")
     ELSE IF roles[Req(t).role].builtin THEN Reply(t, "forbidden") ELSE Go(t, "deleteRole")
  /\ OnlyTask(t)

DeleteRole(t) ==
  /\ At(t, "deleteRole")
  /\ LET r == Req(t).role IN
     /\ DropGrants(<<"role", r>>)
     /\ roles' = Without(roles, r)
     /\ userRoles' = {ur \in userRoles : ur[2] # r}
     /\ lapses' = lapses \cup {<<ur[1], FALSE>> : ur \in {x \in userRoles : x[2] = r}}
     /\ Reply(t, IF r \in DOMAIN roles THEN "ok" ELSE "notFound")
  /\ UNCHANGED <<users, annotations, catalog, last>> /\ OnlyIndex(t)

CheckUser(t) ==
  /\ At(t, "checkUser")
  /\ IF Req(t).target \in DOMAIN users THEN Go(t, "checkRole") ELSE Reply(t, "notFound")
  /\ OnlyTask(t)

CheckRole(t) ==
  /\ At(t, "checkRole")
  /\ IF Req(t).role \in DOMAIN roles THEN Go(t, "assignment") ELSE Reply(t, "notFound")
  /\ OnlyTask(t)

Assignment(t) ==
  /\ At(t, "assignment")
  /\ IF Op(t) = "assignRole"
     THEN Assigned(t, Req(t).target, Req(t).role, Reply(t, "ok")) /\ UNCHANGED lapses
     ELSE Unassigned(Req(t).target, Req(t).role) /\ Reply(t, "ok")
  /\ UNCHANGED <<users, roles, rules, annotations, catalog, last>> /\ OnlyIndex(t)

ManageRole(t) ==
  CreateRole(t) \/ ReadBuiltin(t) \/ DeleteRole(t) \/ CheckUser(t) \/ CheckRole(t) \/ Assignment(t)

(***************************************************************************)
(* Access rules.  Whether the scope exists is asked before the transaction *)
(* that checks the principals and replaces the rule, what was saved after. *)
(***************************************************************************)
ScopeExists(s) ==
  CASE s[1] = "track" -> s[2] \in DOMAIN tracks
    [] s[1] = "album" -> s[2] \in DOMAIN albums
    [] s[1] = "artist" -> s[2] \in DOMAIN artists
    [] s[1] = "genre" -> \E t \in DOMAIN tracks : Genre(t) = s[2]

PrincipalExists(p) ==
  (\E u \in DOMAIN users : p = <<"user", u>>) \/ (\E r \in DOMAIN roles : p = <<"role", r>>)

CheckScope(t) ==
  /\ At(t, "checkScope")
  /\ IF ScopeExists(Req(t).scope) THEN Go(t, "setRule") ELSE Reply(t, "notFound")
  /\ OnlyTask(t)

\* mutant: the rule is replaced before its principals are looked at
SetRuleFirst(t) ==
  /\ At(t, "setRule")
  /\ LET s == Req(t).scope
         id == IF s \in DOMAIN rules THEN rules[s].id ELSE last.rules + 1
     IN  /\ rules' = With(rules, s, [id |-> id, grants |-> {p \in Req(t).grants : PrincipalExists(p)}])
         /\ last' = [last EXCEPT !.rules = IF s \in DOMAIN rules THEN @ ELSE id]
         /\ IF \A p \in Req(t).grants : PrincipalExists(p) THEN Found(t, "getRule", id)
            ELSE Reply(t, "notFound")
  /\ UNCHANGED <<accounts, annotations, catalog, lapses>> /\ OnlyIndex(t)

\* BEGIN IMMEDIATE: the transaction has the writer lock before it looks.  The
\* foreign key of created_by fails it when the administrator was deleted.
SetRule(t) ==
  /\ At(t, "setRule")
  /\ LET s == Req(t).scope
         id == IF s \in DOMAIN rules THEN rules[s].id ELSE last.rules + 1
     IN  IF \E p \in Req(t).grants : ~PrincipalExists(p)
         THEN UNCHANGED <<rules, last>> /\ Reply(t, "notFound")
         ELSE IF task[t].me \notin DOMAIN users
         THEN UNCHANGED <<rules, last>> /\ Reply(t, "internal")
         ELSE /\ rules' = With(rules, s, [id |-> id, grants |-> Req(t).grants])
              /\ last' = [last EXCEPT !.rules = IF s \in DOMAIN rules THEN @ ELSE id]
              /\ Found(t, "getRule", id)
  /\ UNCHANGED <<accounts, annotations, catalog, lapses>> /\ OnlyIndex(t)

\* A debug build asserts that the rule is the one it wrote; a request that
\* fails the assertion is cut off, as by Abort.
GetRule(t) ==
  /\ At(t, "getRule")
  /\ Reply(t, IF Req(t).scope \in DOMAIN rules THEN "ok" ELSE "internal")
  /\ OnlyTask(t)

DeleteRule(t) ==
  /\ At(t, "deleteRule")
  /\ LET gone == {s \in DOMAIN rules : rules[s].id = Req(t).rule} IN
     /\ rules' = [s \in DOMAIN rules \ gone |-> rules[s]]
     /\ Reply(t, IF gone = {} THEN "notFound" ELSE "ok")
  /\ UNCHANGED <<accounts, annotations, catalog, last, lapses>> /\ OnlyIndex(t)

ManageRule(t) == CheckScope(t) \/ SetRule(t) \/ GetRule(t) \/ DeleteRule(t)

(***************************************************************************)
(* Annotations: one statement per item, in order; nobody asks whether the  *)
(* item exists or may be seen, only the user is a foreign key.             *)
(***************************************************************************)
Unnoted == [starred |-> FALSE, rating |-> Null, plays |-> 0]

Annotated(t, n) ==
  CASE Op(t) = "star" -> [n EXCEPT !.starred = TRUE]
    [] Op(t) = "unstar" -> [n EXCEPT !.starred = FALSE]
    [] Op(t) = "setRating" -> [n EXCEPT !.rating = Req(t).rating]
    [] Op(t) = "scrobble" -> [n EXCEPT !.plays = @ + 1]

Annotate(t) ==
  /\ At(t, "annotate")
  /\ LET item == Head(task[t].later)
         key == <<task[t].me, item[1], item[2]>>
         now == IF key \in DOMAIN annotations THEN annotations[key] ELSE Unnoted
     IN  IF task[t].me \notin DOMAIN users
         THEN UNCHANGED annotations /\ Reply(t, "internal")
         ELSE /\ annotations' = With(annotations, key, Annotated(t, now))
              /\ IF Tail(task[t].later) = << >> THEN Reply(t, "ok")
                 ELSE task' = [task EXCEPT ![t].later = Tail(@)]
  /\ UNCHANGED <<accounts, rules, catalog, last, lapses>> /\ OnlyIndex(t)

(***************************************************************************)
(* Covers: an object named after the hash of its content (the image stands *)
(* for its name, which equal pictures share), then the album's column.     *)
(* When the album is gone, or the statement fails, the object is deleted   *)
(* again, whoever else shows it.                                           *)
(***************************************************************************)
OnlyCovers(t) == UNCHANGED <<index, last, crashes, lapses>> /\ Recorded(t)

PutCover(t) ==
  /\ At(t, "putCover")
  /\ covers' = covers \cup {Req(t).image}
  /\ Go(t, "updateCover")
  /\ UNCHANGED undone /\ OnlyCovers(t)

UpdateCover(t) ==
  /\ At(t, "updateCover")
  /\ \/ /\ Req(t).album \in DOMAIN albums
        /\ albums' = [albums EXCEPT ![Req(t).album].cover = Req(t).image]
        /\ Reply(t, "ok")
     \/ Req(t).album \notin DOMAIN albums /\ UNCHANGED albums /\ Go(t, "dropUnused")
     \/ UNCHANGED albums /\ Go(t, "dropFailed")
  /\ UNCHANGED <<accounts, rules, annotations, tracks, genreTags, artists, last, lapses>>
  /\ OnlyIndex(t)

\* Nobody looks whether the object could be deleted.
UndoCover(t) ==
  /\ task[t].pc \in {"dropUnused", "dropFailed"}
  /\ \/ covers' = covers \ {Req(t).image} /\ undone' = undone \cup {Req(t).image}
     \/ UNCHANGED <<covers, undone>>
  /\ Reply(t, IF At(t, "dropUnused") THEN "notFound" ELSE "internal")
  /\ OnlyCovers(t)

SetCoverArt(t) == PutCover(t) \/ UpdateCover(t) \/ UndoCover(t)

(***************************************************************************)
(* updateTags, as far as it decides what genre a track has.                *)
(***************************************************************************)
CheckTrack(t) ==
  /\ At(t, "checkTrack")
  /\ IF Req(t).track \in DOMAIN tracks THEN Go(t, "setOverride") ELSE Reply(t, "notFound")
  /\ OnlyTask(t)

SetOverride(t) ==
  /\ At(t, "setOverride")
  /\ IF Req(t).track \in DOMAIN tracks
     THEN genreTags' = With(genreTags, Req(t).track, Req(t).genre) /\ Reply(t, "ok")
     ELSE UNCHANGED genreTags /\ Reply(t, "internal")
  /\ UNCHANGED <<accounts, rules, annotations, tracks, albums, artists, last, lapses>>
  /\ OnlyIndex(t)

UpdateTags(t) == CheckTrack(t) \/ SetOverride(t)

(***************************************************************************)
(* A scan writes one parsed file, or drops the row of one that is gone.    *)
(* Artists are found by name, albums by name and artist: the UNIQUE of     *)
(* albums never holds for an artist that is NULL.                          *)
(***************************************************************************)
\* mutant: a scan names the cover of a file without storing it
NameCoverOnly(t) ==
  /\ At(t, "storeCover") /\ Go(t, "upsertArtist")
  /\ UNCHANGED <<covers, undone>> /\ OnlyCovers(t)

StoreCover(t) ==
  /\ At(t, "storeCover")
  /\ covers' = covers \cup ({Req(t).image} \ {Null})
  /\ Go(t, "upsertArtist")
  /\ UNCHANGED undone /\ OnlyCovers(t)

UpsertArtist(t) ==
  /\ At(t, "upsertArtist")
  /\ LET same == {r \in DOMAIN artists : artists[r].name = Req(t).artist} IN
     \/ Req(t).artist = Null /\ Found(t, "upsertAlbum", Null) /\ UNCHANGED <<artists, last>>
     \/ \E r \in same : Found(t, "upsertAlbum", r) /\ UNCHANGED <<artists, last>>
     \/ /\ Req(t).artist # Null /\ same = {}
        /\ artists' = With(artists, last.artists + 1, [name |-> Req(t).artist, cover |-> Null])
        /\ last' = [last EXCEPT !.artists = @ + 1]
        /\ Found(t, "upsertAlbum", last.artists + 1)
  /\ UNCHANGED <<accounts, rules, annotations, tracks, genreTags, albums, lapses>> /\ OnlyIndex(t)

UpsertAlbum(t) ==
  /\ At(t, "upsertAlbum")
  /\ LET same == {a \in DOMAIN albums : /\ albums[a].name = Req(t).album
                                        /\ albums[a].artist = task[t].row
                                        /\ task[t].row # Null}
     IN \/ Req(t).album = Null /\ Ranked(t, "setAlbumCover", Null) /\ UNCHANGED <<albums, last>>
        \/ \E a \in same : /\ albums' = [albums EXCEPT ![a].genre = Req(t).genre]
                            /\ Ranked(t, "setAlbumCover", a) /\ UNCHANGED last
        \/ /\ Req(t).album # Null /\ same = {}
           /\ albums' = With(albums, last.albums + 1,
                [name |-> Req(t).album, artist |-> task[t].row, genre |-> Req(t).genre,
                 cover |-> Null])
           /\ last' = [last EXCEPT !.albums = @ + 1]
           /\ Ranked(t, "setAlbumCover", last.albums + 1)
  /\ UNCHANGED <<accounts, rules, annotations, tracks, genreTags, artists, lapses>> /\ OnlyIndex(t)

SetAlbumCover(t) ==
  /\ At(t, "setAlbumCover")
  /\ LET a == task[t].role IN
     albums' = IF a \in DOMAIN albums /\ Req(t).image # Null /\ albums[a].cover = Null
               THEN [albums EXCEPT ![a].cover = Req(t).image] ELSE albums
  /\ Go(t, "upsertTrack")
  /\ UNCHANGED <<accounts, rules, annotations, tracks, genreTags, artists, last, lapses>>
  /\ OnlyIndex(t)

TrackAt(k) == {x \in DOMAIN tracks : tracks[x].key = k}

\* mutant: a row is inserted with the id after the greatest there is
UpsertTrackReusingIds(t) ==
  /\ At(t, "upsertTrack")
  /\ LET same == TrackAt(Req(t).key)
         id == IF same = {} THEN Max(DOMAIN tracks \cup {0}) + 1 ELSE CHOOSE x \in same : TRUE
     IN  /\ tracks' = With(tracks, id, [key |-> Req(t).key, album |-> task[t].role,
                                        artist |-> task[t].row, genre |-> Req(t).genre])
         /\ last' = [last EXCEPT !.tracks = IF same = {} THEN Max({@, id}) ELSE @]
  /\ Reply(t, "ok")
  /\ UNCHANGED <<accounts, rules, annotations, genreTags, albums, artists, lapses>> /\ OnlyIndex(t)

UpsertTrack(t) ==
  /\ At(t, "upsertTrack")
  /\ LET same == TrackAt(Req(t).key)
         id == IF same = {} THEN last.tracks + 1 ELSE CHOOSE x \in same : TRUE
     IN  /\ tracks' = With(tracks, id, [key |-> Req(t).key, album |-> task[t].role,
                                        artist |-> task[t].row, genre |-> Req(t).genre])
         /\ last' = [last EXCEPT !.tracks = IF same = {} THEN id ELSE @]
  /\ Reply(t, "ok")
  /\ UNCHANGED <<accounts, rules, annotations, genreTags, albums, artists, lapses>> /\ OnlyIndex(t)

Vanish(t) ==
  /\ At(t, "vanish")
  /\ LET gone == TrackAt(Req(t).key) IN
     /\ tracks' = [x \in DOMAIN tracks \ gone |-> tracks[x]]
     /\ genreTags' = [x \in DOMAIN genreTags \ gone |-> genreTags[x]]
  /\ Reply(t, "ok")
  /\ UNCHANGED <<accounts, rules, annotations, albums, artists, last, lapses>> /\ OnlyIndex(t)

Scan(t) ==
  \/ StoreCover(t) \/ UpsertArtist(t) \/ UpsertAlbum(t) \/ SetAlbumCover(t) \/ UpsertTrack(t)
  \/ Vanish(t)

(***************************************************************************)
(* Reading.  The viewer is resolved by two queries; then come the queries  *)
(* of the endpoint, stage after stage.  What one finds is in the answer;   *)
(* without the item that was asked for the answer is that there is none.   *)
(***************************************************************************)
GetSong(r) == << {<<"song", r.id>>} >>
AlbumPage(r) == << {<<"album", r.id>>}, {<<"albumTracks", r.id>>} >>
ArtistPage(r) == << {<<"artist", r.id>>}, {<<"artistAlbums", r.id>>} >>
GetArtists == << {<<"artists", 0>>} >>
GetIndexes == << {<<"artists", 0>>} >>
GetGenres == << {<<"genres", 0>>} >>
GetStarred2 == << {<<"starredArtists", 0>>, <<"starredAlbums", 0>>, <<"starredTracks", 0>>} >>
GetAlbumList2 == << {<<"albumIds", 0>>} >>
Search3(r) ==
  IF r.all THEN << {<<"artists", 0>>}, {<<"albums", 0>>}, {<<"tracks", 0>>} >>
  ELSE << {<<"findArtists", 0>>}, {<<"findAlbums", 0>>}, {<<"findTracks", 0>>} >>
GateTrack(r) == {<<"gate", r.id>>}
StreamSource(r) == << GateTrack(r), {<<"source", r.id>>} >>
Download(r) == << GateTrack(r), {<<"source", r.id>>} >>
GetLyrics(r) == << GateTrack(r), {<<"source", r.id>>}, {<<"title", r.id>>} >>
GetCoverArt(r) == << {<<"cover", r.key>>}, {<<"object", r.key>>} >>

Stages(r) ==
  CASE r.op = "getSong" -> GetSong(r)
    [] r.op = "getAlbum" -> AlbumPage(r)
    [] r.op = "getArtist" -> ArtistPage(r)
    [] r.op = "getArtists" -> GetArtists
    [] r.op = "getIndexes" -> GetIndexes
    [] r.op = "getGenres" -> GetGenres
    [] r.op = "getStarred2" -> GetStarred2
    [] r.op = "getAlbumList2" -> GetAlbumList2
    [] r.op = "search3" -> Search3(r)
    [] r.op = "stream" -> StreamSource(r)
    [] r.op = "download" -> Download(r)
    [] r.op = "getLyrics" -> GetLyrics(r)
    [] r.op = "getCoverArt" -> GetCoverArt(r)

\* An answer without these ends the request.
Required == {"song", "album", "artist", "gate", "source", "cover", "object"}
Searches == {"findArtists", "findAlbums", "findTracks"}

\* What one query finds, as a viewer v and as a step of request r.
Finds(r, v, q) ==
  CASE q[1] \in {"song", "foundTrack"} -> GetTrackVisible(v, q[2])
    [] q[1] \in {"album", "foundAlbum"} -> GetAlbumVisible(v, q[2])
    [] q[1] \in {"artist", "foundArtist"} -> GetArtistVisible(v, q[2])
    [] q[1] = "albumTracks" -> AlbumTracksVisible(v, q[2])
    [] q[1] = "artistAlbums" -> ArtistAlbumsVisible(v, q[2])
    [] q[1] = "artists" -> ListArtistsVisible(v)
    [] q[1] = "albums" -> ListAlbumsVisible(v)
    [] q[1] = "tracks" -> ListTracksVisible(v)
    [] q[1] = "genres" -> ListGenresVisible(v)
    [] q[1] = "starredArtists" -> ListStarredArtistsVisible(v)
    [] q[1] = "starredAlbums" -> ListStarredAlbumsVisible(v)
    [] q[1] = "starredTracks" -> ListStarredTracksVisible(v)
    [] q[1] = "gate" -> IF CanAccessTrack(v, q[2]) THEN {<<"stream", q[2]>>} ELSE {}
    [] q[1] \in {"source", "title"} -> {<<"stream", t>> : t \in {q[2]} \cap DOMAIN tracks}
    [] q[1] = "cover" -> IF CoverKeyVisible(v, q[2]) THEN {<<"cover", q[2]>>} ELSE {}
    [] q[1] = "object" -> {<<"cover", k>> : k \in {q[2]} \cap covers}

HasCover(t) ==
  /\ At(t, "hasCover")
  /\ IF HasCoverKey(Req(t).key) THEN Go(t, "viewerRoles") ELSE Reply(t, "notFound")
  /\ OnlyTask(t)

ViewerRoles(t) ==
  /\ At(t, "viewerRoles")
  /\ task' = [task EXCEPT ![t].pc = "viewerAdmin", ![t].view = RolesOf(task[t].me)]
  /\ OnlyTask(t)

ViewerAdmin(t) ==
  /\ At(t, "viewerAdmin")
  /\ task' = [task EXCEPT ![t].pc = "query", ![t].bypass = IsAdmin(task[t].me),
                          ![t].todo = Head(Stages(Req(t))), ![t].later = Tail(Stages(Req(t)))]
  /\ OnlyTask(t)

Viewer(t) == [user |-> task[t].me, roles |-> task[t].view, admin |-> task[t].bypass]

\* The queries of a stage run in any order, the next stage when all are done.
Continue(t, todo, found) ==
  LET next == todo = {} /\ task[t].later # << >> IN
  task' = [task EXCEPT ![t].todo = IF next THEN Head(task[t].later) ELSE todo,
                       ![t].later = IF next THEN Tail(@) ELSE @,
                       ![t].got = @ \cup found]

Found3 == [findArtists |-> "foundArtist", findAlbums |-> "foundAlbum", findTracks |-> "foundTrack"]
Rows3 == [findArtists |-> DOMAIN artists, findAlbums |-> DOMAIN albums, findTracks |-> DOMAIN tracks]

Query(t) ==
  /\ At(t, "query")
  /\ \E q \in task[t].todo :
       LET rest == task[t].todo \ {q}
           found == Finds(Req(t), Viewer(t), q)
       IN  \/ /\ q[1] = "albumIds"
              /\ Continue(t, rest \cup {<<"foundAlbum", a>> :
                    a \in AlbumIdsForList(Viewer(t), Req(t).kind, Req(t).genre)}, {})
           \/ /\ q[1] \in Searches
              /\ \E ids \in SearchIds(Rows3[q[1]], 3 * SearchCount) :
                   Continue(t, rest \cup {<<Found3[q[1]], i>> : i \in ids}, {})
           \/ /\ q[1] \notin Searches \cup {"albumIds"}
              /\ q[1] \in Required => found # {}
              /\ Continue(t, rest, found)
           \/ /\ q[1] \in Required \cup {"title"} /\ found = {}
              /\ Reply(t, "notFound")
  /\ OnlyTask(t)

Respond(t) == At(t, "query") /\ task[t].todo = {} /\ Reply(t, "ok") /\ OnlyTask(t)

Read(t) == HasCover(t) \/ ViewerRoles(t) \/ ViewerAdmin(t) \/ Query(t) \/ Respond(t)

(***************************************************************************)
(* A query fails, or the client leaves: the handler ends where it is.  A   *)
(* crash ends them all, and the process starts again.                      *)
(***************************************************************************)
Creating(t) == task[t].pc \in {"findRole", "makeRole", "assignBuiltin"}
Orphans == UNION {Orphan(t) : t \in {x \in Tasks : Creating(x)}}

Abort(t) ==
  /\ Active(t)
  /\ Reply(t, "internal")
  /\ lapses' = IF Creating(t) THEN lapses \cup Orphan(t) ELSE lapses
  /\ UNCHANGED <<index, covers, last, crashes, undone>> /\ Recorded(t)

Crash ==
  /\ crashes < MaxCrashes
  /\ crashes' = crashes + 1
  /\ task' = [t \in Tasks |-> IF t = Boot THEN Start0
                              ELSE IF Active(t) THEN Closed(t, "internal") ELSE task[t]]
  /\ lapses' = lapses \cup Orphans
  /\ UNCHANGED <<index, covers, last, undone, wrote>>
  /\ held' = Standings

Step(t) ==
  \/ Authenticate(t) \/ CreateUser(t) \/ ManageUser(t) \/ ManageRole(t) \/ ManageRule(t)
  \/ Annotate(t) \/ SetCoverArt(t) \/ UpdateTags(t) \/ Scan(t) \/ Read(t) \/ Abort(t)

Next == (\E t \in Tasks : Step(t)) \/ Crash

Spec == Init /\ [][Next]_vars

-----------------------------------------------------------------------------
(***************************************************************************)
(* Properties.                                                             *)
(***************************************************************************)
\* The tables keep their keys: ids come from the counters, rule ids are
\* distinct, and what a foreign key names exists.
TypeOK ==
  /\ DOMAIN users \subseteq 1..last.users /\ DOMAIN roles \subseteq 1..last.roles
  /\ userRoles \subseteq (DOMAIN users) \X (DOMAIN roles)
  /\ \A s \in DOMAIN rules : rules[s].id \in 1..last.rules
  /\ \A s1, s2 \in DOMAIN rules : rules[s1].id = rules[s2].id => s1 = s2
  /\ \A n \in DOMAIN annotations : n[1] \in DOMAIN users
  /\ \A t \in DOMAIN tracks : /\ tracks[t].album \in DOMAIN albums \cup {Null}
                             /\ tracks[t].artist \in DOMAIN artists \cup {Null}
  /\ DOMAIN genreTags \subseteq DOMAIN tracks
  /\ \A a \in DOMAIN albums : albums[a].artist \in DOMAIN artists \cup {Null}
  /\ \A t \in Tasks : task[t].answer \in Answers

\* Nobody is left in an allowlist who is gone: the transactions that delete a
\* user or a role take its grants along, and the one that sets a rule looks at
\* the principals under the writer lock (user_admin.rs, repo_access.rs).
GrantsNamePrincipals ==
  \A s \in DOMAIN rules : \A p \in rules[s].grants : PrincipalExists(p)

\* The COALESCE of visibility_sql decides by the most specific rule there is.
VisibilityIsMostSpecific(v) == \A t \in DOMAIN tracks : Visible(v, t) <=> May(v, t)

\* The queries, each with a WHERE, HAVING or EXISTS of its own, tell a user one
\* story: the album list, the artists' pages and getAlbumList2 hold the same
\* albums, with the songs their pages have; a visible track has its album,
\* artist and cover shown; an administrator sees all there is (repo_media.rs).
ListingsAgreeFor(v) ==
  LET listed == ListAlbumsVisible(v)
      albumIds == {i[2] : i \in listed}
      listedArtists == ListArtistsVisible(v)
      artistIds == {i[2] : i \in listedArtists}
  IN  /\ VisibilityIsMostSpecific(v)
      /\ albumIds = AlbumIdsForList(v, "all", Null)
      /\ AlbumIdsForList(v, "frequent", Null) \cup AlbumIdsForList(v, "starred", Null) \subseteq albumIds
      /\ \A t \in SeenTracks(v) :
           /\ tracks[t].album \in albumIds \cup {Null}
           /\ tracks[t].artist \in artistIds \cup {Null}
           /\ tracks[t].album # Null /\ albums[tracks[t].album].cover # Null =>
                CoverKeyVisible(v, albums[tracks[t].album].cover)
      /\ \A i \in listed : i[3] = Cardinality(AlbumTracksVisible(v, i[2]))
      /\ \A i \in listedArtists :
           i[3] = Cardinality({a \in ArtistAlbumsVisible(v, i[2]) : a[3] > 0})
      /\ v.admin => /\ ListTracksVisible(v) = ListTracks /\ listed = ListAlbums
                    /\ ListGenresVisible(v) = ListGenres
                    /\ artistIds = {i[2] : i \in ListArtists}
ListingsAgree == \A u \in DOMAIN users : ListingsAgreeFor(ViewerOf(u))

\* What a viewer may be shown, said with the rule of each track.
Allowed(v, i) ==
  LET may(ts) == {t \in ts : May(v, t)} IN
  CASE i[1] = "track" -> i[2] \in DOMAIN tracks /\ May(v, i[2])
    [] i[1] = "stream" -> v.admin \/ (i[2] \in DOMAIN tracks /\ May(v, i[2]))
    [] i[1] = "album" -> /\ i[3] = Cardinality(may(TracksOn(i[2])))
                         /\ may(TracksOn(i[2])) # {} \/ TracksOn(i[2]) = {}
    [] i[1] = "artist" -> /\ i[3] = Cardinality({a \in AlbumsBy(i[2]) : may(TracksOn(a)) # {}})
                          /\ may(TracksBy(i[2])) # {} \/ TracksBy(i[2]) = {}
    [] i[1] = "genre" -> /\ i[3] = Cardinality({t \in may(DOMAIN tracks) : Genre(t) = i[2]})
                         /\ i[3] > 0
    [] i[1] = "cover" ->
         \E t \in may(DOMAIN tracks) :
           \/ tracks[t].album \in DOMAIN albums /\ albums[tracks[t].album].cover = i[2]
           \/ tracks[t].artist \in DOMAIN artists /\ artists[tracks[t].artist].cover = i[2]

\* An item enters an answer only if the rules of that moment let its user see
\* it, with roles and an administrator's standing the user has had since the
\* request began to read: nothing older than the request, nothing of another
\* user, and no item, count or cover beside the rules (api/browsing.rs,
\* search.rs, media.rs).
AnswersAreAllowed ==
  [][\A t \in Task : \A i \in task'[t].got \ task[t].got : \E h1, h2 \in held[t] :
       Allowed([user |-> task[t].me, roles |-> h1[1], admin |-> h2[2]], i)]_vars

\* A server that answers has an administrator, unless the first start was cut
\* between the user and its role, or an administrator was demoted or deleted
\* (setup.rs, user_admin.rs).
SomeoneAdministers ==
  Up => (\E u \in DOMAIN users : IsAdmin(u)) \/ (\E l \in lapses : l[2])

\* A user without any role is being created, or its creation was cut or failed,
\* or somebody took the role (user_admin.rs create_user).
UsersAreWhole ==
  \A u \in DOMAIN users :
    \/ RolesOf(u) # {}
    \/ \E l \in lapses : l[1] = u
    \/ \E t \in Tasks : Creating(t) /\ task[t].row = u

\* A cover that an album names is in the store, unless a setCoverArt of the
\* same image failed and took it back (ext/cover.rs, scanner/cover.rs).
CoversAreKept ==
  \A a \in DOMAIN albums : albums[a].cover \in covers \cup undone \cup {Null}

\* The token of a user who was deleted before the request stays worthless:
\* no later user gets its id (AUTOINCREMENT in migrations/0001_init.sql).
TokensDieWithUsers ==
  \A t \in Task : ~task[t].known =>
    task[t].answer \in {"none", "unauthorized", "internal"} /\ task[t].got = {} /\ ~wrote[t]

\* The rule of an item that is gone stays, for its scope is no foreign key: it
\* never comes to decide about another.  Nothing is inserted under an id with a
\* rule (access_rules and AUTOINCREMENT in migrations/0001_init.sql).
NewItemsHaveNoRules ==
  [][/\ Ruled(DOMAIN rules', "track") \cap (DOMAIN tracks' \ DOMAIN tracks) = {}
     /\ Ruled(DOMAIN rules', "album") \cap (DOMAIN albums' \ DOMAIN albums) = {}
     /\ Ruled(DOMAIN rules', "artist") \cap (DOMAIN artists' \ DOMAIN artists) = {}]_vars

\* A request that was refused has changed nothing, but for updateUser, which
\* finds a malformed password after it wrote the e-mail, and createUser, whose
\* user was deleted before it was done (api/user.rs, ext/role.rs, ext/access.rs).
RefusalsChangeNothing ==
  \A t \in Task : task[t].answer \in Refusals /\ wrote[t] =>
    \/ Op(t) = "updateUser" /\ task[t].answer = "refused"
    \/ Op(t) = "createUser" /\ task[t].answer = "notFound"
=============================================================================
