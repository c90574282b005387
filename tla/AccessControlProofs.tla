------------------------ MODULE AccessControlProofs ------------------------
(***************************************************************************)
(* What holds of access control for any requests, any databases to start   *)
(* with, any number of crashes and any bound of a search.                  *)
(***************************************************************************)
EXTENDS AccessControl, TLAPS

-----------------------------------------------------------------------------
(***************************************************************************)
(* The predicate in the queries.                                           *)
(***************************************************************************)
\* A level without a rule has no verdict, one with a rule has 1 or 0.
LEMMA VerdictOfALevel ==
  ASSUME NEW v, NEW s
  PROVE  /\ s \notin DOMAIN rules => LevelVerdict(v, s) = Null
         /\ s \in DOMAIN rules => LevelVerdict(v, s) # Null
         /\ s \in DOMAIN rules =>
              (LevelVerdict(v, s) = 1 <=> rules[s].grants \cap PrincipalMatch(v) # {})
  BY NullAssumption DEF LevelVerdict

\* The nested COALESCE of visibility_sql decides as the most specific rule of
\* the track does, whoever looks at whatever track and whatever the rules are.
THEOREM MostSpecificRuleDecides ==
  ASSUME NEW v
  PROVE  VisibilityIsMostSpecific(v)
<1> DEFINE s1(t) == <<"track", t>>
           s2(t) == <<"album", tracks[t].album>>
           s3(t) == <<"artist", tracks[t].artist>>
           s4(t) == <<"genre", Genre(t)>>
           allows(s) == rules[s].grants \cap PrincipalMatch(v) # {}
           given(s) == s \in DOMAIN rules
<1> SUFFICES ASSUME NEW t \in DOMAIN tracks, ~v.admin
             PROVE  Visible(v, t) <=> May(v, t)
  BY DEF VisibilityIsMostSpecific, Visible, May
<1>1. Levels(t)[1] = s1(t) /\ Levels(t)[2] = s2(t) /\ Levels(t)[3] = s3(t) /\ Levels(t)[4] = s4(t)
  BY DEF Levels
<1>2. May(v, t) <=> /\ given(s1(t)) => allows(s1(t))
                    /\ given(s2(t)) /\ ~given(s1(t)) => allows(s2(t))
                    /\ given(s3(t)) /\ ~given(s1(t)) /\ ~given(s2(t)) => allows(s3(t))
                    /\ given(s4(t)) /\ ~given(s1(t)) /\ ~given(s2(t)) /\ ~given(s3(t))
                         => allows(s4(t))
  <2> HIDE DEF s1, s2, s3, s4
  <2>1. 1..4 = {1, 2, 3, 4} /\ 1..(1 - 1) = {} /\ 1..(2 - 1) = {1} /\ 1..(3 - 1) = {1, 2}
          /\ 1..(4 - 1) = {1, 2, 3}
    OBVIOUS
  <2>2. /\ Decides(t, 1) <=> given(s1(t))
        /\ Decides(t, 2) <=> given(s2(t)) /\ ~given(s1(t))
        /\ Decides(t, 3) <=> given(s3(t)) /\ ~given(s1(t)) /\ ~given(s2(t))
        /\ Decides(t, 4) <=> given(s4(t)) /\ ~given(s1(t)) /\ ~given(s2(t)) /\ ~given(s3(t))
    BY <1>1, <2>1 DEF Decides
  <2> QED BY <1>1, <2>1, <2>2 DEF May
<1>3. Visible(v, t) <=> Coalesce(LevelVerdict(v, s1(t)), Coalesce(LevelVerdict(v, s2(t)),
                          Coalesce(LevelVerdict(v, s3(t)), Coalesce(LevelVerdict(v, s4(t)), 1)))) = 1
  BY DEF Visible
<1>4. \A s : /\ ~given(s) => LevelVerdict(v, s) = Null
             /\ given(s) => LevelVerdict(v, s) # Null /\ (LevelVerdict(v, s) = 1 <=> allows(s))
  BY VerdictOfALevel
<1> HIDE DEF s1, s2, s3, s4, allows, given
<1> QED BY <1>2, <1>3, <1>4 DEF Coalesce

-----------------------------------------------------------------------------
(***************************************************************************)
(* Which steps touch the accounts and the rules.                           *)
(***************************************************************************)
\* Only the changes of users, of roles and of rules, and a process that starts
\* for the first time, write the tables of accounts and rules.
LEMMA OthersKeepAccounts ==
  ASSUME NEW t \in Tasks,
         \/ Authenticate(t) \/ Annotate(t) \/ SetCoverArt(t) \/ UpdateTags(t) \/ Scan(t)
         \/ Read(t) \/ Abort(t)
  PROVE  UNCHANGED <<users, roles, userRoles, rules>>
<1>1. CASE Authenticate(t)
  BY <1>1 DEF Authenticate, Arrive, ReadPassword, ReadUser, LoadUser, LoadRoles, OnlyTask, index, accounts
<1>2. CASE Annotate(t)
  BY <1>2 DEF Annotate, accounts
<1>3. CASE SetCoverArt(t)
  BY <1>3 DEF SetCoverArt, PutCover, UpdateCover, UndoCover, OnlyCovers, index, accounts
<1>4. CASE UpdateTags(t)
  BY <1>4 DEF UpdateTags, CheckTrack, SetOverride, OnlyTask, index, accounts
<1>5. CASE Scan(t)
  BY <1>5 DEF Scan, StoreCover, UpsertArtist, UpsertAlbum, SetAlbumCover, UpsertTrack, Vanish,
              OnlyCovers, index, accounts
<1>6. CASE Read(t)
  BY <1>6 DEF Read, HasCover, ViewerRoles, ViewerAdmin, Query, Respond, OnlyTask, index, accounts
<1>7. CASE Abort(t)
  BY <1>7 DEF Abort, index, accounts
<1> QED BY <1>1, <1>2, <1>3, <1>4, <1>5, <1>6, <1>7

-----------------------------------------------------------------------------
(***************************************************************************)
(* Nobody who is gone is left in an allowlist.                             *)
(***************************************************************************)
\* Where accounts only grow and the rules stay, the grants still name somebody.
LEMMA GrantsOfMoreAccounts ==
  ASSUME GrantsNamePrincipals, UNCHANGED rules,
         DOMAIN users \subseteq DOMAIN users', DOMAIN roles \subseteq DOMAIN roles'
  PROVE  GrantsNamePrincipals'
  BY DEF GrantsNamePrincipals, PrincipalExists

\* A deleted user is dropped from every allowlist in the same transaction.
LEMMA RemoveUserDropsGrants ==
  ASSUME GrantsNamePrincipals, NEW u, RemoveUser(u), UNCHANGED roles
  PROVE  GrantsNamePrincipals'
<1> SUFFICES ASSUME NEW s \in DOMAIN rules', NEW p \in rules'[s].grants
             PROVE  PrincipalExists(p)'
  BY DEF GrantsNamePrincipals
<1>1. s \in DOMAIN rules /\ p \in rules[s].grants /\ p # <<"user", u>>
  BY DEF RemoveUser, DropGrants
<1>2. PrincipalExists(p) /\ DOMAIN users' = DOMAIN users \ {u}
  BY <1>1 DEF GrantsNamePrincipals, RemoveUser, Without
<1> QED BY <1>1, <1>2 DEF PrincipalExists

\* The transaction that deletes a role takes its grants.
LEMMA DeleteRoleDropsGrants ==
  ASSUME GrantsNamePrincipals, NEW t \in Tasks, DeleteRole(t)
  PROVE  GrantsNamePrincipals'
<1> DEFINE r == Req(t).role
<1> SUFFICES ASSUME NEW s \in DOMAIN rules', NEW p \in rules'[s].grants
             PROVE  PrincipalExists(p)'
  BY DEF GrantsNamePrincipals
<1>1. s \in DOMAIN rules /\ p \in rules[s].grants /\ p # <<"role", r>>
  BY DEF DeleteRole, DropGrants
<1>2. PrincipalExists(p) /\ DOMAIN roles' = DOMAIN roles \ {r} /\ users' = users
  BY <1>1 DEF GrantsNamePrincipals, DeleteRole, Without
<1> QED BY <1>1, <1>2 DEF PrincipalExists

\* set_rule refuses under the writer lock what does not exist at that moment.
LEMMA SetRuleGrantsExist ==
  ASSUME GrantsNamePrincipals, NEW t \in Tasks, SetRule(t)
  PROVE  GrantsNamePrincipals'
<1>1. UNCHANGED <<users, roles>>
  BY DEF SetRule, accounts
<1>2. CASE UNCHANGED rules
  BY <1>1, <1>2, GrantsOfMoreAccounts
<1>3. ASSUME NEW id, rules' = With(rules, Req(t).scope, [id |-> id, grants |-> Req(t).grants]),
             \A p \in Req(t).grants : PrincipalExists(p)
      PROVE  GrantsNamePrincipals'
  BY <1>1, <1>3 DEF GrantsNamePrincipals, PrincipalExists, With
<1> QED BY <1>2, <1>3 DEF SetRule

\* A rule goes with its grants.
LEMMA DeleteRuleKeepsGrants ==
  ASSUME GrantsNamePrincipals, NEW t \in Tasks, DeleteRule(t)
  PROVE  GrantsNamePrincipals'
<1>1. UNCHANGED <<users, roles>> /\ \A s \in DOMAIN rules' : s \in DOMAIN rules /\ rules'[s] = rules[s]
  BY DEF DeleteRule, accounts
<1> QED BY <1>1 DEF GrantsNamePrincipals, PrincipalExists

LEMMA CreateUserKeepsGrants ==
  ASSUME GrantsNamePrincipals, NEW t \in Tasks, CreateUser(t)
  PROVE  GrantsNamePrincipals'
<1>1. CASE ListUsers(t) \/ FindRole(t) \/ GetCreated(t)
  BY <1>1, GrantsOfMoreAccounts DEF ListUsers, FindRole, GetCreated, OnlyTask, index, accounts
<1>2. CASE InsertUser(t)
  BY <1>2, GrantsOfMoreAccounts DEF InsertUser, With
<1>3. CASE MakeRole(t)
  BY <1>3, GrantsOfMoreAccounts DEF MakeRole, NewRole, With
<1>4. CASE AssignBuiltin(t)
  BY <1>4, GrantsOfMoreAccounts DEF AssignBuiltin
<1>5. CASE SetNewEmail(t)
  BY <1>5, GrantsOfMoreAccounts DEF SetNewEmail
<1>6. CASE UndoCreate(t)
  BY <1>6, RemoveUserDropsGrants DEF UndoCreate
<1> QED BY <1>1, <1>2, <1>3, <1>4, <1>5, <1>6 DEF CreateUser

LEMMA ManageUserKeepsGrants ==
  ASSUME GrantsNamePrincipals, NEW t \in Tasks, ManageUser(t)
  PROVE  GrantsNamePrincipals'
<1>1. CASE FindUser(t) \/ GetUser(t) \/ FindAdminRole(t)
  BY <1>1, GrantsOfMoreAccounts DEF FindUser, GetUser, FindAdminRole, OnlyTask, index, accounts
<1>2. CASE SetEmail(t) \/ SetPassword(t) \/ ChangePassword(t)
  BY <1>2, GrantsOfMoreAccounts DEF SetEmail, SetPassword, ChangePassword, Update
<1>3. CASE SetAdmin(t)
  BY <1>3, GrantsOfMoreAccounts DEF SetAdmin
<1>4. CASE DeleteUser(t)
  BY <1>4, RemoveUserDropsGrants DEF DeleteUser
<1> QED BY <1>1, <1>2, <1>3, <1>4 DEF ManageUser

LEMMA ManageRoleKeepsGrants ==
  ASSUME GrantsNamePrincipals, NEW t \in Tasks, ManageRole(t)
  PROVE  GrantsNamePrincipals'
<1>1. CASE ReadBuiltin(t) \/ CheckUser(t) \/ CheckRole(t)
  BY <1>1, GrantsOfMoreAccounts DEF ReadBuiltin, CheckUser, CheckRole, OnlyTask, index, accounts
<1>2. CASE CreateRole(t)
  BY <1>2, GrantsOfMoreAccounts DEF CreateRole, NewRole, With
<1>3. CASE Assignment(t)
  BY <1>3, GrantsOfMoreAccounts DEF Assignment
<1> QED BY <1>1, <1>2, <1>3, DeleteRoleDropsGrants DEF ManageRole

LEMMA ManageRuleKeepsGrants ==
  ASSUME GrantsNamePrincipals, NEW t \in Tasks, ManageRule(t)
  PROVE  GrantsNamePrincipals'
<1>1. CASE CheckScope(t) \/ GetRule(t)
  BY <1>1, GrantsOfMoreAccounts DEF CheckScope, GetRule, OnlyTask, index, accounts
<1> QED BY <1>1, SetRuleGrantsExist, DeleteRuleKeepsGrants DEF ManageRule

\* No allowlist of a rule ever names a user or a role that does not exist,
\* however the requests that set rules and delete users and roles interleave.
THEOREM Grants == Spec => []GrantsNamePrincipals
<1>1. Init => GrantsNamePrincipals
  BY StartsAssumption DEF Init, GrantsNamePrincipals, PrincipalExists
<1>2. GrantsNamePrincipals /\ [Next]_vars => GrantsNamePrincipals'
  <2> SUFFICES ASSUME GrantsNamePrincipals, [Next]_vars PROVE GrantsNamePrincipals'
    OBVIOUS
  <2>1. CASE UNCHANGED vars
    BY <2>1, GrantsOfMoreAccounts DEF vars, index, accounts
  <2>2. CASE Crash
    BY <2>2, GrantsOfMoreAccounts DEF Crash, index, accounts
  <2>3. ASSUME NEW t \in Tasks, Step(t) PROVE GrantsNamePrincipals'
    BY <2>3, OthersKeepAccounts, GrantsOfMoreAccounts, CreateUserKeepsGrants, ManageUserKeepsGrants,
       ManageRoleKeepsGrants, ManageRuleKeepsGrants DEF Step
  <2> QED BY <2>1, <2>2, <2>3 DEF Next
<1> QED BY <1>1, <1>2, PTL DEF Spec

-----------------------------------------------------------------------------
(***************************************************************************)
(* The shape of the handlers' states, and what one step does to them.      *)
(***************************************************************************)
IsHandler(h) ==
  h = [pc |-> h.pc, req |-> h.req, answer |-> h.answer, me |-> h.me, name |-> h.name,
       admin |-> h.admin, row |-> h.row, role |-> h.role, view |-> h.view,
       bypass |-> h.bypass, todo |-> h.todo, later |-> h.later, got |-> h.got, known |-> h.known]

Handlers == DOMAIN task = Tasks /\ task = [x \in Tasks |-> task[x]] /\ \A x \in Tasks : IsHandler(task[x])

\* Nobody but t moves, and t keeps what it is asked and who asks.  Only a query
\* adds to the answer.
Moves(t, pc) ==
  /\ \A x \in Tasks \ {t} : task'[x] = task[x]
  /\ task'[t].pc = pc
  /\ task'[t].req = task[t].req /\ task'[t].me = task[t].me
  /\ task'[t].known = task[t].known
  /\ task'[t].got \subseteq task[t].got \/ Query(t)

\* A handler goes on to its next query.
LEMMA Going ==
  ASSUME Handlers, NEW t \in Tasks, NEW pc, Go(t, pc)
  PROVE  /\ Handlers' /\ Moves(t, pc)
         /\ task'[t].got = task[t].got /\ task'[t].answer = task[t].answer
         /\ task'[t].row = task[t].row /\ task'[t].role = task[t].role
  BY DEF Handlers, IsHandler, Go, Moves

\* A handler goes on with the row it found.
LEMMA Finding ==
  ASSUME Handlers, NEW t \in Tasks, NEW pc, NEW id, Found(t, pc, id)
  PROVE  /\ Handlers' /\ Moves(t, pc)
         /\ task'[t].got = task[t].got /\ task'[t].answer = task[t].answer
         /\ task'[t].row = id /\ task'[t].role = task[t].role
<1>1. /\ DOMAIN task' = Tasks /\ task' = [x \in Tasks |-> task'[x]]
      /\ \A x \in Tasks \ {t} : task'[x] = task[x]
      /\ task'[t] = [task[t] EXCEPT !.pc = pc, !.row = id]
  BY DEF Handlers, Found
<1>2. IsHandler(task[t])
  BY DEF Handlers
<1>3. task'[t] = [pc |-> pc, req |-> task[t].req, answer |-> task[t].answer, me |-> task[t].me,
         name |-> task[t].name, admin |-> task[t].admin, row |-> id, role |-> task[t].role,
         view |-> task[t].view, bypass |-> task[t].bypass, todo |-> task[t].todo,
         later |-> task[t].later, got |-> task[t].got, known |-> task[t].known]
  BY <1>1, <1>2 DEF IsHandler
<1> QED BY <1>1, <1>3 DEF Handlers, IsHandler, Moves

\* A handler goes on with the role it found.
LEMMA Ranking ==
  ASSUME Handlers, NEW t \in Tasks, NEW pc, NEW r, Ranked(t, pc, r)
  PROVE  /\ Handlers' /\ Moves(t, pc)
         /\ task'[t].got = task[t].got /\ task'[t].answer = task[t].answer
         /\ task'[t].row = task[t].row /\ task'[t].role = r
<1>1. /\ DOMAIN task' = Tasks /\ task' = [x \in Tasks |-> task'[x]]
      /\ \A x \in Tasks \ {t} : task'[x] = task[x]
      /\ task'[t] = [task[t] EXCEPT !.pc = pc, !.role = r]
  BY DEF Handlers, Ranked
<1>2. IsHandler(task[t])
  BY DEF Handlers
<1>3. task'[t] = [pc |-> pc, req |-> task[t].req, answer |-> task[t].answer, me |-> task[t].me,
         name |-> task[t].name, admin |-> task[t].admin, row |-> task[t].row, role |-> r,
         view |-> task[t].view, bypass |-> task[t].bypass, todo |-> task[t].todo,
         later |-> task[t].later, got |-> task[t].got, known |-> task[t].known]
  BY <1>1, <1>2 DEF IsHandler
<1> QED BY <1>1, <1>3 DEF Handlers, IsHandler, Moves

\* A handler answers.
LEMMA Replying ==
  ASSUME Handlers, NEW t \in Tasks, NEW a, Reply(t, a)
  PROVE  /\ Handlers'
         /\ \A x \in Tasks \ {t} : task'[x] = task[x]
         /\ task'[t].pc = "done" /\ task'[t].answer = a /\ task'[t].got = {}
         /\ task'[t].known = task[t].known
<1> DEFINE n == Closed(t, a)
           q == [op |-> Op(t)]
           k == task[t].known
<1>a. n = [Blank EXCEPT !.pc = "done", !.req = q, !.answer = a, !.known = k]
  BY DEF Closed
<1> HIDE DEF q, n
<1>0. n = [pc |-> "done", req |-> q, answer |-> a, me |-> 0, name |-> Null,
           admin |-> FALSE, row |-> 0, role |-> 0, view |-> {}, bypass |-> FALSE,
           todo |-> {}, later |-> << >>, got |-> {}, known |-> k]
  BY <1>a DEF Blank
<1>1. /\ IsHandler(n) /\ n.pc = "done" /\ n.answer = a /\ n.got = {}
      /\ n.known = task[t].known
  BY <1>0 DEF IsHandler
<1>2. task' = [task EXCEPT ![t] = n]
  BY DEF Reply, n
<1> QED
  BY <1>1, <1>2 DEF Handlers

-----------------------------------------------------------------------------
(***************************************************************************)
(* Where a handler can be after a step of each group of actions.  A step   *)
(* that needs its user known starts behind the authentication.             *)
(***************************************************************************)
AtTheDoor == {"idle", "readPassword", "readUser", "loadUser", "loadRoles", "done"}
Firsts == {"insertUser", "findUser", "insertRole", "readBuiltin", "checkUser", "checkScope",
  "deleteRule", "putCover", "checkTrack", "annotate", "hasCover", "storeCover", "vanish",
  "viewerRoles"}
Readers == {"hasCover", "viewerRoles", "viewerAdmin", "query"}
ReadOps == {"getSong", "getAlbum", "getArtist", "getArtists", "getGenres", "getStarred2",
  "getAlbumList2", "search3", "stream", "getIndexes", "download", "getLyrics", "getCoverArt"}

Shape ==
  /\ Handlers
  /\ wrote = [x \in Tasks |-> wrote[x]]
  /\ task[Boot].pc # "idle"
  /\ \A x \in Tasks :
       /\ task[x].pc \in {"readPassword", "readUser", "loadUser", "loadRoles"} =>
            Op(x) \in DOMAIN FirstStep
       /\ task[x].pc = "findUser" => Op(x) \in DOMAIN AfterFind
       /\ task[x].pc \in Readers => Op(x) \in ReadOps

\* Where the handlers begin.
LEMMA FirstSteps ==
  \A op \in DOMAIN FirstStep :
    /\ FirstStep[op] \in Firsts
    /\ FirstStep[op] = "findUser" => op \in DOMAIN AfterFind
    /\ FirstStep[op] \in Readers => op \in ReadOps
  BY DEF FirstStep, Firsts, AfterFind, Readers, ReadOps

\* Nobody but t moves; t goes to one of the places, and unless it is done it
\* keeps its request.
Lands(t, places) ==
  /\ \A x \in Tasks \ {t} : task'[x] = task[x]
  /\ \/ task'[t].pc = "done" /\ task'[t].got = {} /\ task'[t].known = task[t].known
     \/ task'[t].pc \in places /\ Moves(t, task'[t].pc)

\* What a step must show for the shape to stay.
LEMMA ShapeStays ==
  ASSUME Shape, NEW t \in Tasks, Recorded(t), Handlers',
         NEW places, "findUser" \notin places,
         places \cap {"idle", "readPassword", "readUser", "loadUser", "loadRoles"} = {},
         places \cap Readers = {} \/ task[t].pc \in Readers,
         Lands(t, places)
  PROVE  Shape'
<1>1. \A x \in Tasks \ {t} : task'[x] = task[x]
  BY DEF Lands
<1>2. task'[t].pc = "done" \/ (task'[t].pc \in places /\ task'[t].req = task[t].req)
  BY DEF Lands, Moves
<1>3. task'[Boot].pc # "idle"
  BY <1>1, <1>2 DEF Shape, Tasks
<1>4. wrote' = [x \in Tasks |-> wrote'[x]]
  BY DEF Shape, Recorded
<1>5. \A x \in Tasks : task'[x].pc \in Readers => Op(x)' \in ReadOps
  BY <1>1, <1>2 DEF Shape, Op, Req, Readers
<1> QED BY <1>1, <1>2, <1>3, <1>4, <1>5 DEF Shape, Op, Req

\* Each way to end a step, as such a landing.
LEMMA Landing ==
  ASSUME Handlers, NEW t \in Tasks, NEW places
  PROVE  /\ \A pc \in places : Go(t, pc) => Handlers' /\ Lands(t, places)
         /\ \A pc \in places : \A id : Found(t, pc, id) => Handlers' /\ Lands(t, places)
         /\ \A pc \in places : \A r : Ranked(t, pc, r) => Handlers' /\ Lands(t, places)
         /\ \A a : Reply(t, a) => Handlers' /\ Lands(t, places)
<1>1. ASSUME NEW pc \in places, Go(t, pc) PROVE Handlers' /\ Lands(t, places)
  BY <1>1, Going DEF Lands, Moves
<1>2. ASSUME NEW pc \in places, NEW id, Found(t, pc, id) PROVE Handlers' /\ Lands(t, places)
  BY <1>2, Finding DEF Lands, Moves
<1>3. ASSUME NEW pc \in places, NEW r, Ranked(t, pc, r) PROVE Handlers' /\ Lands(t, places)
  BY <1>3, Ranking DEF Lands, Moves
<1>4. ASSUME NEW a, Reply(t, a) PROVE Handlers' /\ Lands(t, places)
  BY <1>4, Replying DEF Lands
<1> QED BY <1>1, <1>2, <1>3, <1>4

LEMMA CreateUserLands ==
  ASSUME Shape, NEW t \in Tasks, CreateUser(t)
  PROVE  /\ Shape' /\ task[t].pc \notin AtTheDoor
         /\ Lands(t, {"insertUser", "findRole", "makeRole", "assignBuiltin", "getCreated",
                      "setNewEmail", "undoCreate"})
<1> DEFINE places == {"insertUser", "findRole", "makeRole", "assignBuiltin", "getCreated",
                      "setNewEmail", "undoCreate"}
<1>1. Handlers' /\ Recorded(t) /\ task[t].pc \notin AtTheDoor /\ Lands(t, places)
  <2> Handlers BY DEF Shape
  <2> USE Landing DEF At, AtTheDoor
  <2>1. CASE ListUsers(t) BY <2>1 DEF ListUsers, OnlyTask
  <2>2. CASE InsertUser(t) BY <2>2 DEF InsertUser, OnlyIndex
  <2>3. CASE FindRole(t) BY <2>3 DEF FindRole, OnlyTask
  <2>4. CASE MakeRole(t) BY <2>4 DEF MakeRole, OnlyIndex
  <2>5. CASE AssignBuiltin(t) BY <2>5 DEF AssignBuiltin, Assigned, OnlyIndex
  <2>6. CASE GetCreated(t) BY <2>6 DEF GetCreated, OnlyTask
  <2>7. CASE SetNewEmail(t) BY <2>7 DEF SetNewEmail, OnlyIndex
  <2>8. CASE UndoCreate(t) BY <2>8 DEF UndoCreate, OnlyIndex
  <2> QED BY <2>1, <2>2, <2>3, <2>4, <2>5, <2>6, <2>7, <2>8 DEF CreateUser
<1>2. /\ "findUser" \notin places /\ places \cap Readers = {}
      /\ places \cap {"idle", "readPassword", "readUser", "loadUser", "loadRoles"} = {}
  BY DEF Readers
<1> HIDE DEF places
<1>3. Shape'
  BY <1>1, <1>2, ShapeStays
<1> QED BY <1>1, <1>3 DEF places

LEMMA ManageUserLands ==
  ASSUME Shape, NEW t \in Tasks, ManageUser(t)
  PROVE  /\ Shape' /\ task[t].pc \notin AtTheDoor
         /\ Lands(t, {"setEmail", "deleteUser", "changePassword", "getUser", "setPassword", "findAdminRole", "setAdmin"})
<1> DEFINE places == {"setEmail", "deleteUser", "changePassword", "getUser", "setPassword", "findAdminRole", "setAdmin"}
<1>1. Handlers' /\ Recorded(t) /\ task[t].pc \notin AtTheDoor /\ Lands(t, places)
  <2> Handlers BY DEF Shape
  <2> USE Landing DEF At, AtTheDoor
  <2>1. CASE FindUser(t)
    <3>1. AfterFind[Op(t)] \in places
      BY <2>1 DEF FindUser, Shape, AfterFind
    <3> QED BY <2>1, <3>1 DEF FindUser, OnlyTask
  <2>2. CASE GetUser(t) BY <2>2 DEF GetUser, OnlyTask
  <2>3. CASE SetEmail(t) BY <2>3 DEF SetEmail, OnlyIndex
  <2>4. CASE SetPassword(t) BY <2>4 DEF SetPassword, OnlyIndex
  <2>5. CASE FindAdminRole(t) BY <2>5 DEF FindAdminRole, OnlyTask
  <2>6. CASE SetAdmin(t) BY <2>6 DEF SetAdmin, Assigned, OnlyIndex
  <2>7. CASE DeleteUser(t) BY <2>7 DEF DeleteUser, OnlyIndex
  <2>8. CASE ChangePassword(t) BY <2>8 DEF ChangePassword, OnlyIndex
  <2> QED BY <2>1, <2>2, <2>3, <2>4, <2>5, <2>6, <2>7, <2>8 DEF ManageUser
<1>2. /\ "findUser" \notin places /\ places \cap Readers = {}
      /\ places \cap {"idle", "readPassword", "readUser", "loadUser", "loadRoles"} = {}
  BY DEF Readers
<1> HIDE DEF places
<1>3. Shape'
  BY <1>1, <1>2, ShapeStays
<1> QED BY <1>1, <1>3 DEF places

LEMMA ManageRoleLands ==
  ASSUME Shape, NEW t \in Tasks, ManageRole(t)
  PROVE  /\ Shape' /\ task[t].pc \notin AtTheDoor
         /\ Lands(t, {"deleteRole", "checkRole", "assignment"})
<1> DEFINE places == {"deleteRole", "checkRole", "assignment"}
<1>1. Handlers' /\ Recorded(t) /\ task[t].pc \notin AtTheDoor /\ Lands(t, places)
  <2> Handlers BY DEF Shape
  <2> USE Landing DEF At, AtTheDoor
  <2>1. CASE CreateRole(t) BY <2>1 DEF CreateRole, OnlyIndex
  <2>2. CASE ReadBuiltin(t) BY <2>2 DEF ReadBuiltin, OnlyTask
  <2>3. CASE DeleteRole(t) BY <2>3 DEF DeleteRole, OnlyIndex
  <2>4. CASE CheckUser(t) BY <2>4 DEF CheckUser, OnlyTask
  <2>5. CASE CheckRole(t) BY <2>5 DEF CheckRole, OnlyTask
  <2>6. CASE Assignment(t) BY <2>6 DEF Assignment, Assigned, OnlyIndex
  <2> QED BY <2>1, <2>2, <2>3, <2>4, <2>5, <2>6 DEF ManageRole
<1>2. /\ "findUser" \notin places /\ places \cap Readers = {}
      /\ places \cap {"idle", "readPassword", "readUser", "loadUser", "loadRoles"} = {}
  BY DEF Readers
<1> HIDE DEF places
<1>3. Shape'
  BY <1>1, <1>2, ShapeStays
<1> QED BY <1>1, <1>3 DEF places

LEMMA ManageRuleLands ==
  ASSUME Shape, NEW t \in Tasks, ManageRule(t)
  PROVE  /\ Shape' /\ task[t].pc \notin AtTheDoor
         /\ Lands(t, {"setRule", "getRule"})
<1> DEFINE places == {"setRule", "getRule"}
<1>1. Handlers' /\ Recorded(t) /\ task[t].pc \notin AtTheDoor /\ Lands(t, places)
  <2> Handlers BY DEF Shape
  <2> USE Landing DEF At, AtTheDoor
  <2>1. CASE CheckScope(t) BY <2>1 DEF CheckScope, OnlyTask
  <2>2. CASE SetRule(t) BY <2>2 DEF SetRule, OnlyIndex
  <2>3. CASE GetRule(t) BY <2>3 DEF GetRule, OnlyTask
  <2>4. CASE DeleteRule(t) BY <2>4 DEF DeleteRule, OnlyIndex
  <2> QED BY <2>1, <2>2, <2>3, <2>4 DEF ManageRule
<1>2. /\ "findUser" \notin places /\ places \cap Readers = {}
      /\ places \cap {"idle", "readPassword", "readUser", "loadUser", "loadRoles"} = {}
  BY DEF Readers
<1> HIDE DEF places
<1>3. Shape'
  BY <1>1, <1>2, ShapeStays
<1> QED BY <1>1, <1>3 DEF places

LEMMA SetCoverArtLands ==
  ASSUME Shape, NEW t \in Tasks, SetCoverArt(t)
  PROVE  /\ Shape' /\ task[t].pc \notin AtTheDoor
         /\ Lands(t, {"updateCover", "dropUnused", "dropFailed"})
<1> DEFINE places == {"updateCover", "dropUnused", "dropFailed"}
<1>1. Handlers' /\ Recorded(t) /\ task[t].pc \notin AtTheDoor /\ Lands(t, places)
  <2> Handlers BY DEF Shape
  <2> USE Landing DEF At, AtTheDoor
  <2>1. CASE PutCover(t) BY <2>1 DEF PutCover, OnlyCovers
  <2>2. CASE UpdateCover(t) BY <2>2 DEF UpdateCover, OnlyIndex
  <2>3. CASE UndoCover(t) BY <2>3 DEF UndoCover, OnlyCovers
  <2> QED BY <2>1, <2>2, <2>3 DEF SetCoverArt
<1>2. /\ "findUser" \notin places /\ places \cap Readers = {}
      /\ places \cap {"idle", "readPassword", "readUser", "loadUser", "loadRoles"} = {}
  BY DEF Readers
<1> HIDE DEF places
<1>3. Shape'
  BY <1>1, <1>2, ShapeStays
<1> QED BY <1>1, <1>3 DEF places

LEMMA UpdateTagsLands ==
  ASSUME Shape, NEW t \in Tasks, UpdateTags(t)
  PROVE  /\ Shape' /\ task[t].pc \notin AtTheDoor
         /\ Lands(t, {"setOverride"})
<1> DEFINE places == {"setOverride"}
<1>1. Handlers' /\ Recorded(t) /\ task[t].pc \notin AtTheDoor /\ Lands(t, places)
  <2> Handlers BY DEF Shape
  <2> USE Landing DEF At, AtTheDoor
  <2>1. CASE CheckTrack(t) BY <2>1 DEF CheckTrack, OnlyTask
  <2>2. CASE SetOverride(t) BY <2>2 DEF SetOverride, OnlyIndex
  <2> QED BY <2>1, <2>2 DEF UpdateTags
<1>2. /\ "findUser" \notin places /\ places \cap Readers = {}
      /\ places \cap {"idle", "readPassword", "readUser", "loadUser", "loadRoles"} = {}
  BY DEF Readers
<1> HIDE DEF places
<1>3. Shape'
  BY <1>1, <1>2, ShapeStays
<1> QED BY <1>1, <1>3 DEF places

LEMMA ScanLands ==
  ASSUME Shape, NEW t \in Tasks, Scan(t)
  PROVE  /\ Shape' /\ task[t].pc \notin AtTheDoor
         /\ Lands(t, {"upsertArtist", "upsertAlbum", "setAlbumCover", "upsertTrack"})
<1> DEFINE places == {"upsertArtist", "upsertAlbum", "setAlbumCover", "upsertTrack"}
<1>1. Handlers' /\ Recorded(t) /\ task[t].pc \notin AtTheDoor /\ Lands(t, places)
  <2> Handlers BY DEF Shape
  <2> USE Landing DEF At, AtTheDoor
  <2>1. CASE StoreCover(t) BY <2>1 DEF StoreCover, OnlyCovers
  <2>2. CASE UpsertArtist(t) BY <2>2 DEF UpsertArtist, OnlyIndex
  <2>3. CASE UpsertAlbum(t) BY <2>3 DEF UpsertAlbum, OnlyIndex
  <2>4. CASE SetAlbumCover(t) BY <2>4 DEF SetAlbumCover, OnlyIndex
  <2>5. CASE UpsertTrack(t) BY <2>5 DEF UpsertTrack, OnlyIndex
  <2>6. CASE Vanish(t) BY <2>6 DEF Vanish, OnlyIndex
  <2> QED BY <2>1, <2>2, <2>3, <2>4, <2>5, <2>6 DEF Scan
<1>2. /\ "findUser" \notin places /\ places \cap Readers = {}
      /\ places \cap {"idle", "readPassword", "readUser", "loadUser", "loadRoles"} = {}
  BY DEF Readers
<1> HIDE DEF places
<1>3. Shape'
  BY <1>1, <1>2, ShapeStays
<1> QED BY <1>1, <1>3 DEF places

\* A step of a reader or of an annotation sets fields of its own.
LEMMA Keeping ==
  ASSUME Handlers, NEW t \in Tasks, NEW h, IsHandler(h), task' = [task EXCEPT ![t] = h],
         h.req = task[t].req, h.me = task[t].me, h.known = task[t].known,
         h.got \subseteq task[t].got \/ Query(t)
  PROVE  Handlers' /\ Moves(t, h.pc) /\ task'[t] = h
  BY DEF Handlers, Moves

EditLater(g, later) == [g EXCEPT !.later = later]
\* What each edit of a handler leaves as it was.
LEMMA LaterEdited ==
  ASSUME NEW g, IsHandler(g), NEW later
  PROVE  /\ IsHandler(EditLater(g, later))
         /\ EditLater(g, later).req = g.req /\ EditLater(g, later).me = g.me
         /\ EditLater(g, later).known = g.known
         /\ EditLater(g, later).pc = g.pc /\ EditLater(g, later).got = g.got
<1> DEFINE h == EditLater(g, later)
<1>1. h = [pc |-> g.pc, req |-> g.req, answer |-> g.answer, me |-> g.me,
           name |-> g.name, admin |-> g.admin, row |-> g.row, role |-> g.role,
           view |-> g.view, bypass |-> g.bypass, todo |-> g.todo, later |-> later,
           got |-> g.got, known |-> g.known]
  <2> SUFFICES ASSUME NEW k, k = [g EXCEPT !.later = later]
               PROVE  k = [pc |-> g.pc, req |-> g.req, answer |-> g.answer, me |-> g.me,
           name |-> g.name, admin |-> g.admin, row |-> g.row, role |-> g.role,
           view |-> g.view, bypass |-> g.bypass, todo |-> g.todo, later |-> later,
           got |-> g.got, known |-> g.known]
    BY DEF EditLater
  <2> QED BY DEF IsHandler
<1> QED BY <1>1 DEF IsHandler

EditStart(g, pc, req, me, known) == [g EXCEPT !.pc = pc, !.req = req, !.me = me, !.known = known]
LEMMA StartEdited ==
  ASSUME NEW g, IsHandler(g), NEW pc, NEW req, NEW me, NEW known
  PROVE  LET h == EditStart(g, pc, req, me, known)
         IN  /\ IsHandler(h) /\ h.pc = pc /\ h.req = req /\ h.me = me /\ h.known = known
             /\ h.got = g.got /\ h.answer = g.answer
<1> DEFINE h == EditStart(g, pc, req, me, known)
<1>1. h = [pc |-> pc, req |-> req, answer |-> g.answer, me |-> me, name |-> g.name,
           admin |-> g.admin, row |-> g.row, role |-> g.role, view |-> g.view,
           bypass |-> g.bypass, todo |-> g.todo, later |-> g.later, got |-> g.got,
           known |-> known]
  <2> SUFFICES ASSUME NEW k, k = [g EXCEPT !.pc = pc, !.req = req, !.me = me, !.known = known]
               PROVE  k = [pc |-> pc, req |-> req, answer |-> g.answer, me |-> me, name |-> g.name,
           admin |-> g.admin, row |-> g.row, role |-> g.role, view |-> g.view,
           bypass |-> g.bypass, todo |-> g.todo, later |-> g.later, got |-> g.got,
           known |-> known]
    BY DEF EditStart
  <2> QED BY DEF IsHandler
<1> QED BY <1>1 DEF IsHandler

EditMe(g, pc, me) == [g EXCEPT !.pc = pc, !.me = me]
LEMMA MeEdited ==
  ASSUME NEW g, IsHandler(g), NEW pc, NEW me
  PROVE  /\ IsHandler(EditMe(g, pc, me))
         /\ EditMe(g, pc, me).req = g.req /\ EditMe(g, pc, me).known = g.known
         /\ EditMe(g, pc, me).pc = pc /\ EditMe(g, pc, me).got = g.got
<1> DEFINE h == EditMe(g, pc, me)
<1>1. h = [pc |-> pc, req |-> g.req, answer |-> g.answer, me |-> me, name |-> g.name,
           admin |-> g.admin, row |-> g.row, role |-> g.role, view |-> g.view,
           bypass |-> g.bypass, todo |-> g.todo, later |-> g.later, got |-> g.got,
           known |-> g.known]
  <2> SUFFICES ASSUME NEW k, k = [g EXCEPT !.pc = pc, !.me = me]
               PROVE  k = [pc |-> pc, req |-> g.req, answer |-> g.answer, me |-> me, name |-> g.name,
           admin |-> g.admin, row |-> g.row, role |-> g.role, view |-> g.view,
           bypass |-> g.bypass, todo |-> g.todo, later |-> g.later, got |-> g.got,
           known |-> g.known]
    BY DEF EditMe
  <2> QED BY DEF IsHandler
<1> QED BY <1>1 DEF IsHandler

EditName(g, pc, name) == [g EXCEPT !.pc = pc, !.name = name]
LEMMA NameEdited ==
  ASSUME NEW g, IsHandler(g), NEW pc, NEW name
  PROVE  /\ IsHandler(EditName(g, pc, name))
         /\ EditName(g, pc, name).req = g.req /\ EditName(g, pc, name).me = g.me
         /\ EditName(g, pc, name).known = g.known
         /\ EditName(g, pc, name).pc = pc /\ EditName(g, pc, name).got = g.got
<1> DEFINE h == EditName(g, pc, name)
<1>1. h = [pc |-> pc, req |-> g.req, answer |-> g.answer, me |-> g.me, name |-> name,
           admin |-> g.admin, row |-> g.row, role |-> g.role, view |-> g.view,
           bypass |-> g.bypass, todo |-> g.todo, later |-> g.later, got |-> g.got,
           known |-> g.known]
  <2> SUFFICES ASSUME NEW k, k = [g EXCEPT !.pc = pc, !.name = name]
               PROVE  k = [pc |-> pc, req |-> g.req, answer |-> g.answer, me |-> g.me, name |-> name,
           admin |-> g.admin, row |-> g.row, role |-> g.role, view |-> g.view,
           bypass |-> g.bypass, todo |-> g.todo, later |-> g.later, got |-> g.got,
           known |-> g.known]
    BY DEF EditName
  <2> QED BY DEF IsHandler
<1> QED BY <1>1 DEF IsHandler

EditAdmin(g, pc, admin, later) == [g EXCEPT !.pc = pc, !.admin = admin, !.later = later]
LEMMA AdminEdited ==
  ASSUME NEW g, IsHandler(g), NEW pc, NEW admin, NEW later
  PROVE  /\ IsHandler(EditAdmin(g, pc, admin, later))
         /\ EditAdmin(g, pc, admin, later).req = g.req /\ EditAdmin(g, pc, admin, later).me = g.me
         /\ EditAdmin(g, pc, admin, later).known = g.known
         /\ EditAdmin(g, pc, admin, later).pc = pc /\ EditAdmin(g, pc, admin, later).got = g.got
<1> DEFINE h == EditAdmin(g, pc, admin, later)
<1>1. h = [pc |-> pc, req |-> g.req, answer |-> g.answer, me |-> g.me, name |-> g.name,
           admin |-> admin, row |-> g.row, role |-> g.role, view |-> g.view,
           bypass |-> g.bypass, todo |-> g.todo, later |-> later, got |-> g.got,
           known |-> g.known]
  <2> SUFFICES ASSUME NEW k, k = [g EXCEPT !.pc = pc, !.admin = admin, !.later = later]
               PROVE  k = [pc |-> pc, req |-> g.req, answer |-> g.answer, me |-> g.me, name |-> g.name,
           admin |-> admin, row |-> g.row, role |-> g.role, view |-> g.view,
           bypass |-> g.bypass, todo |-> g.todo, later |-> later, got |-> g.got,
           known |-> g.known]
    BY DEF EditAdmin
  <2> QED BY DEF IsHandler
<1> QED BY <1>1 DEF IsHandler

EditView(g, pc, view) == [g EXCEPT !.pc = pc, !.view = view]
LEMMA ViewEdited ==
  ASSUME NEW g, IsHandler(g), NEW pc, NEW view
  PROVE  /\ IsHandler(EditView(g, pc, view))
         /\ EditView(g, pc, view).req = g.req /\ EditView(g, pc, view).me = g.me
         /\ EditView(g, pc, view).known = g.known
         /\ EditView(g, pc, view).pc = pc /\ EditView(g, pc, view).got = g.got
         /\ EditView(g, pc, view).view = view
<1> DEFINE h == EditView(g, pc, view)
<1>1. h = [pc |-> pc, req |-> g.req, answer |-> g.answer, me |-> g.me, name |-> g.name,
           admin |-> g.admin, row |-> g.row, role |-> g.role, view |-> view,
           bypass |-> g.bypass, todo |-> g.todo, later |-> g.later, got |-> g.got,
           known |-> g.known]
  <2> SUFFICES ASSUME NEW k, k = [g EXCEPT !.pc = pc, !.view = view]
               PROVE  k = [pc |-> pc, req |-> g.req, answer |-> g.answer, me |-> g.me, name |-> g.name,
           admin |-> g.admin, row |-> g.row, role |-> g.role, view |-> view,
           bypass |-> g.bypass, todo |-> g.todo, later |-> g.later, got |-> g.got,
           known |-> g.known]
    BY DEF EditView
  <2> QED BY DEF IsHandler
<1> QED BY <1>1 DEF IsHandler

EditQueries(g, pc, bypass, todo, later) == [g EXCEPT !.pc = pc, !.bypass = bypass, !.todo = todo, !.later = later]
LEMMA QueriesEdited ==
  ASSUME NEW g, IsHandler(g), NEW pc, NEW bypass, NEW todo, NEW later
  PROVE  /\ IsHandler(EditQueries(g, pc, bypass, todo, later))
         /\ EditQueries(g, pc, bypass, todo, later).req = g.req /\ EditQueries(g, pc, bypass, todo, later).me = g.me
         /\ EditQueries(g, pc, bypass, todo, later).known = g.known
         /\ EditQueries(g, pc, bypass, todo, later).pc = pc /\ EditQueries(g, pc, bypass, todo, later).got = g.got
         /\ EditQueries(g, pc, bypass, todo, later).view = g.view /\ EditQueries(g, pc, bypass, todo, later).bypass = bypass
         /\ EditQueries(g, pc, bypass, todo, later).todo = todo /\ EditQueries(g, pc, bypass, todo, later).later = later
<1> DEFINE h == EditQueries(g, pc, bypass, todo, later)
<1>1. h = [pc |-> pc, req |-> g.req, answer |-> g.answer, me |-> g.me, name |-> g.name,
           admin |-> g.admin, row |-> g.row, role |-> g.role, view |-> g.view,
           bypass |-> bypass, todo |-> todo, later |-> later, got |-> g.got,
           known |-> g.known]
  <2> SUFFICES ASSUME NEW k, k = [g EXCEPT !.pc = pc, !.bypass = bypass, !.todo = todo, !.later = later]
               PROVE  k = [pc |-> pc, req |-> g.req, answer |-> g.answer, me |-> g.me, name |-> g.name,
           admin |-> g.admin, row |-> g.row, role |-> g.role, view |-> g.view,
           bypass |-> bypass, todo |-> todo, later |-> later, got |-> g.got,
           known |-> g.known]
    BY DEF EditQueries
  <2> QED BY DEF IsHandler
<1> QED BY <1>1 DEF IsHandler

EditItems(g, todo, later, got) == [g EXCEPT !.todo = todo, !.later = later, !.got = got]
LEMMA ItemsEdited ==
  ASSUME NEW g, IsHandler(g), NEW todo, NEW later, NEW got
  PROVE  /\ IsHandler(EditItems(g, todo, later, got))
         /\ EditItems(g, todo, later, got).req = g.req /\ EditItems(g, todo, later, got).me = g.me
         /\ EditItems(g, todo, later, got).known = g.known
         /\ EditItems(g, todo, later, got).pc = g.pc /\ EditItems(g, todo, later, got).got = got
         /\ EditItems(g, todo, later, got).view = g.view /\ EditItems(g, todo, later, got).bypass = g.bypass
         /\ EditItems(g, todo, later, got).todo = todo /\ EditItems(g, todo, later, got).later = later
<1> DEFINE h == EditItems(g, todo, later, got)
<1>1. h = [pc |-> g.pc, req |-> g.req, answer |-> g.answer, me |-> g.me,
           name |-> g.name, admin |-> g.admin, row |-> g.row, role |-> g.role,
           view |-> g.view, bypass |-> g.bypass, todo |-> todo, later |-> later,
           got |-> got, known |-> g.known]
  <2> SUFFICES ASSUME NEW k, k = [g EXCEPT !.todo = todo, !.later = later, !.got = got]
               PROVE  k = [pc |-> g.pc, req |-> g.req, answer |-> g.answer, me |-> g.me,
           name |-> g.name, admin |-> g.admin, row |-> g.row, role |-> g.role,
           view |-> g.view, bypass |-> g.bypass, todo |-> todo, later |-> later,
           got |-> got, known |-> g.known]
    BY DEF EditItems
  <2> QED BY DEF IsHandler
<1> QED BY <1>1 DEF IsHandler

LEMMA AnnotateLands ==
  ASSUME Shape, NEW t \in Tasks, Annotate(t)
  PROVE  Shape' /\ task[t].pc \notin AtTheDoor /\ Lands(t, {"annotate"})
<1> Handlers /\ IsHandler(task[t])
  BY DEF Shape, Handlers
<1>1. task[t].pc = "annotate" /\ Recorded(t) /\ task[t].pc \notin AtTheDoor
  BY DEF Annotate, At, AtTheDoor, OnlyIndex
<1>2. Handlers' /\ Lands(t, {"annotate"})
  <2>1. CASE \E a : Reply(t, a)
    BY <2>1, Landing
  <2>2. CASE task' = [task EXCEPT ![t].later = Tail(@)]
    <3> DEFINE h == EditLater(task[t], Tail(task[t].later))
    <3>2. task' = [task EXCEPT ![t] = h]
      BY <2>2 DEF EditLater
    <3>3. IsHandler(h) /\ h.req = task[t].req /\ h.me = task[t].me /\ h.known = task[t].known
            /\ h.pc = "annotate" /\ h.got = task[t].got
      BY <1>1, LaterEdited
    <3> HIDE DEF h
    <3> QED BY <3>2, <3>3, Keeping DEF Lands, Moves
  <2> QED BY <2>1, <2>2 DEF Annotate
<1> QED BY <1>1, <1>2, ShapeStays

\* The queries of a request that reads.
LEMMA ReadLands ==
  ASSUME Shape, NEW t \in Tasks, Read(t)
  PROVE  /\ Shape' /\ task[t].pc \notin AtTheDoor
         /\ Lands(t, {"viewerRoles", "viewerAdmin", "query"})
<1> DEFINE places == {"viewerRoles", "viewerAdmin", "query"}
<1> Handlers /\ IsHandler(task[t])
  BY DEF Shape, Handlers
<1>1. ASSUME NEW h, IsHandler(h), h.req = task[t].req, h.me = task[t].me, h.known = task[t].known,
             h.got \subseteq task[t].got \/ Query(t),
             h.pc \in places, task' = [task EXCEPT ![t] = h]
      PROVE  Handlers' /\ Lands(t, places)
  BY <1>1, Keeping DEF Lands, Moves
<1>2. ASSUME task[t].pc = "query", Query(t), NEW todo, NEW found, Continue(t, todo, found)
      PROVE  Handlers' /\ Lands(t, places)
  <2>1. PICK stage, later, got : task' = [task EXCEPT ![t].todo = stage, ![t].later = later,
                                                     ![t].got = got]
    BY <1>2, Zenon DEF Continue
  <2> DEFINE h == EditItems(task[t], stage, later, got)
  <2>2. task' = [task EXCEPT ![t] = h]
    BY <2>1 DEF EditItems
  <2>3. /\ IsHandler(h) /\ h.req = task[t].req /\ h.me = task[t].me /\ h.known = task[t].known
        /\ h.pc \in places
    BY <1>2, ItemsEdited
  <2> HIDE DEF h
  <2> QED BY <1>1, <1>2, <2>2, <2>3
<1>3. Handlers' /\ Recorded(t) /\ task[t].pc \notin AtTheDoor /\ Lands(t, places)
  <2>1. CASE HasCover(t) BY <2>1, Landing DEF HasCover, OnlyTask, At, AtTheDoor
  <2>2. CASE ViewerRoles(t)
    <3> DEFINE h == EditView(task[t], "viewerAdmin", RolesOf(task[t].me))
    <3>1. task' = [task EXCEPT ![t] = h]
      BY <2>2 DEF ViewerRoles, EditView
    <3>2. /\ IsHandler(h) /\ h.req = task[t].req /\ h.me = task[t].me /\ h.known = task[t].known
          /\ h.pc \in places /\ h.got \subseteq task[t].got
      BY ViewEdited
    <3> HIDE DEF h
    <3>3. Handlers' /\ Lands(t, places)
      BY <3>1, <3>2, <1>1
    <3> QED BY <2>2, <3>3 DEF ViewerRoles, OnlyTask, At, AtTheDoor
  <2>3. CASE ViewerAdmin(t)
    <3> DEFINE h == EditQueries(task[t], "query", IsAdmin(task[t].me),
                                Head(Stages(Req(t))), Tail(Stages(Req(t))))
    <3>1. task' = [task EXCEPT ![t] = h]
      BY <2>3 DEF ViewerAdmin, EditQueries
    <3>2. /\ IsHandler(h) /\ h.req = task[t].req /\ h.me = task[t].me /\ h.known = task[t].known
          /\ h.pc \in places /\ h.got \subseteq task[t].got
      BY QueriesEdited
    <3> HIDE DEF h
    <3>3. Handlers' /\ Lands(t, places)
      BY <3>1, <3>2, <1>1
    <3> QED BY <2>3, <3>3 DEF ViewerAdmin, OnlyTask, At, AtTheDoor
  <2>4. CASE Query(t)
    <3>1. task[t].pc = "query" /\ Recorded(t) /\ task[t].pc \notin AtTheDoor
      BY <2>4 DEF Query, OnlyTask, At, AtTheDoor
    <3>2. (\E todo, found : Continue(t, todo, found)) \/ Reply(t, "notFound")
      BY <2>4 DEF Query
    <3> QED BY <1>2, <2>4, <3>1, <3>2, Landing
  <2>5. CASE Respond(t) BY <2>5, Landing DEF Respond, OnlyTask, At, AtTheDoor
  <2> QED BY <2>1, <2>2, <2>3, <2>4, <2>5 DEF Read
<1>4. task[t].pc \in Readers
  BY DEF Read, HasCover, ViewerRoles, ViewerAdmin, Query, Respond, At, Readers
<1>5. "findUser" \notin places /\ places \cap {"idle", "readPassword", "readUser", "loadUser", "loadRoles"} = {}
  OBVIOUS
<1> HIDE DEF places
<1>6. Shape'
  BY <1>3, <1>4, <1>5, ShapeStays
<1> QED BY <1>3, <1>6 DEF places

-----------------------------------------------------------------------------
(***************************************************************************)
(* The authentication, and the ways a handler ends before its time.        *)
(***************************************************************************)
\* A request that arrives: what it is, and what is remembered of its token.
LEMMA Arriving ==
  ASSUME Shape, NEW t \in Tasks, Arrive(t)
  PROVE  /\ Shape' /\ t \in Task /\ task[t].pc = "idle" /\ Up
         /\ \A x \in Tasks \ {t} : task'[x] = task[x]
         /\ task'[t].pc \in {"readPassword", "loadUser", "storeCover", "vanish"}
         /\ task'[t].got = {} /\ task'[t].answer = "none"
         /\ ~task'[t].known => /\ task'[t].pc = "loadUser" /\ task'[t].me \notin DOMAIN users
                               /\ task'[t].me \in Nat /\ task'[t].me <= last.users
<1>1. task[t].pc = "idle" /\ t \in Task /\ Up
  BY DEF Arrive, At, Shape, Tasks
<1>2. PICK r \in Offered[t] :
        /\ "token" \in DOMAIN r => r.token <= last.users
        /\ task' = [task EXCEPT ![t] =
             [Blank EXCEPT !.pc = IF r.op \in ScanOps THEN FirstStep[r.op]
                                  ELSE IF "token" \in DOMAIN r THEN "loadUser" ELSE "readPassword",
                           !.req = r, !.me = IF "token" \in DOMAIN r THEN r.token ELSE 0,
                           !.known = "token" \in DOMAIN r => r.token \in DOMAIN users]]
  BY DEF Arrive
<1> DEFINE first == IF r.op \in ScanOps THEN FirstStep[r.op]
                    ELSE IF "token" \in DOMAIN r THEN "loadUser" ELSE "readPassword"
           who == IF "token" \in DOMAIN r THEN r.token ELSE 0
           known == "token" \in DOMAIN r => r.token \in DOMAIN users
<1>3. /\ r.op \in DOMAIN FirstStep
      /\ "token" \in DOMAIN r => r.token \in Nat /\ r.op \notin ScanOps
  BY <1>1, OfferedAssumption
<1>4. first \in {"readPassword", "loadUser", "storeCover", "vanish"}
  BY <1>3 DEF FirstStep, ScanOps
<1>5. ~known => first = "loadUser" /\ who \notin DOMAIN users /\ who \in Nat /\ who <= last.users
  BY <1>2, <1>3
<1> HIDE DEF first, who, known
<1>6. task' = [task EXCEPT ![t] = [Blank EXCEPT !.pc = first, !.req = r, !.me = who, !.known = known]]
  BY <1>2 DEF first, who, known
<1> DEFINE h == EditStart(Blank, first, r, who, known)
<1>7. IsHandler(Blank) /\ Blank.got = {} /\ Blank.answer = "none"
  BY DEF IsHandler, Blank
<1>8. IsHandler(h) /\ h.pc = first /\ h.req = r /\ h.me = who /\ h.known = known /\ h.got = {}
        /\ h.answer = "none"
  BY <1>7, StartEdited
<1>9. task' = [task EXCEPT ![t] = h]
  BY <1>6 DEF EditStart
<1> HIDE DEF h
<1>10. Handlers' /\ task'[t] = h /\ \A x \in Tasks \ {t} : task'[x] = task[x]
  BY <1>8, <1>9 DEF Shape, Handlers
<1>11. Shape'
  <2>1. wrote' = [x \in Tasks |-> wrote'[x]]
    BY DEF Shape, Arrive, OnlyTask, Recorded
  <2>2. task'[Boot].pc # "idle"
    BY <1>1, <1>10, BootAssumption DEF Shape, Tasks
  <2>3. Op(t)' = r.op
    BY <1>8, <1>10 DEF Op, Req
  <2>4. \A x \in Tasks \ {t} : Op(x)' = Op(x)
    BY <1>10 DEF Op, Req
  <2> QED BY <1>3, <1>4, <1>8, <1>10, <2>1, <2>2, <2>3, <2>4 DEF Shape, Readers
<1> QED BY <1>1, <1>4, <1>5, <1>8, <1>10, <1>11

\* t goes on behind the door, or is sent away: its request stays what it was.
Enters(t, places) ==
  /\ Shape'
  /\ \A x \in Tasks \ {t} : task'[x] = task[x]
  /\ task'[t].known = task[t].known /\ task'[t].got \subseteq task[t].got
  /\ task'[t].pc \in places

\* A request that comes past the door.
LEMMA Entering ==
  ASSUME Shape, NEW t \in Tasks, Recorded(t), Op(t) \in DOMAIN FirstStep,
         NEW h, IsHandler(h), h.req = task[t].req, h.known = task[t].known, h.got = task[t].got,
         \/ h.pc \in {"readUser", "loadUser", "loadRoles"}
         \/ /\ h.pc \in Firsts
            /\ h.pc = "findUser" => Op(t) \in DOMAIN AfterFind
            /\ h.pc \in Readers => Op(t) \in ReadOps,
         task' = [task EXCEPT ![t] = h]
  PROVE  Enters(t, {h.pc}) /\ task'[t] = h
<1>1. Handlers' /\ task'[t] = h /\ \A x \in Tasks \ {t} : task'[x] = task[x]
  BY DEF Shape, Handlers
<1>2. \A x \in Tasks : Op(x)' = Op(x)
  BY <1>1 DEF Op, Req
<1>3. h.pc # "idle"
  BY DEF Firsts
<1>4. task'[Boot].pc # "idle"
  BY <1>1, <1>3 DEF Shape, Tasks
<1>5. wrote' = [x \in Tasks |-> wrote'[x]]
  BY DEF Shape, Recorded
<1>6. Shape'
  BY <1>1, <1>2, <1>4, <1>5 DEF Shape, Readers
<1> QED BY <1>1, <1>6 DEF Enters

\* The steps that find out who asks.
LEMMA DoorLands ==
  ASSUME Shape, NEW t \in Tasks, ReadPassword(t) \/ ReadUser(t) \/ LoadUser(t) \/ LoadRoles(t)
  PROVE  /\ Enters(t, {"readUser", "loadUser", "loadRoles", "done"} \cup Firsts)
         /\ task[t].pc \in {"readPassword", "readUser", "loadUser", "loadRoles"}
         /\ task[t].pc = "loadUser" /\ task[t].me \notin DOMAIN users => Reply(t, "unauthorized")
<1> Handlers /\ IsHandler(task[t])
  BY DEF Shape, Handlers
<1>1. /\ Recorded(t) /\ Op(t) \in DOMAIN FirstStep
      /\ task[t].pc \in {"readPassword", "readUser", "loadUser", "loadRoles"}
  BY DEF ReadPassword, ReadUser, LoadUser, LoadRoles, OnlyTask, At, Shape
<1>2. task[t].pc = "loadUser" /\ task[t].me \notin DOMAIN users => Reply(t, "unauthorized")
  BY DEF ReadPassword, ReadUser, LoadUser, LoadRoles, At
<1>3. ASSUME NEW a, Reply(t, a) PROVE Enters(t, {"done"})
  <2>1. Handlers' /\ Lands(t, {}) /\ task'[t].pc = "done"
    BY <1>3, Landing, Replying
  <2> QED BY <1>1, <2>1, ShapeStays DEF Enters, Lands
<1>4. ASSUME ReadPassword(t) PROVE Enters(t, {"readUser", "done"})
  <2>1. CASE Go(t, "readUser")
    <3> DEFINE h == EditMe(task[t], "readUser", task[t].me)
    <3>1. task' = [task EXCEPT ![t] = h]
      BY <2>1 DEF EditMe, Go, IsHandler
    <3>2. IsHandler(h) /\ h.req = task[t].req /\ h.known = task[t].known /\ h.pc = "readUser"
           /\ h.got = task[t].got
      BY MeEdited
    <3> HIDE DEF h
    <3> QED BY <1>1, <3>1, <3>2, Entering DEF Enters
  <2> QED BY <1>3, <1>4, <2>1 DEF ReadPassword, Enters
<1>5. ASSUME ReadUser(t) PROVE Enters(t, {"loadUser", "done"})
  <2>1. ASSUME NEW u, task' = [task EXCEPT ![t].pc = "loadUser", ![t].me = u]
        PROVE  Enters(t, {"loadUser"})
    <3> DEFINE h == EditMe(task[t], "loadUser", u)
    <3>1. task' = [task EXCEPT ![t] = h]
      BY <2>1 DEF EditMe
    <3>2. IsHandler(h) /\ h.req = task[t].req /\ h.known = task[t].known /\ h.pc = "loadUser"
           /\ h.got = task[t].got
      BY MeEdited
    <3> HIDE DEF h
    <3> QED BY <1>1, <3>1, <3>2, Entering
  <2> QED BY <1>3, <1>5, <2>1 DEF ReadUser, Enters
<1>6. ASSUME LoadUser(t) PROVE Enters(t, {"loadRoles", "done"})
  <2>1. ASSUME NEW name, task' = [task EXCEPT ![t].pc = "loadRoles", ![t].name = name]
        PROVE  Enters(t, {"loadRoles"})
    <3> DEFINE h == EditName(task[t], "loadRoles", name)
    <3>1. task' = [task EXCEPT ![t] = h]
      BY <2>1 DEF EditName
    <3>2. IsHandler(h) /\ h.req = task[t].req /\ h.known = task[t].known /\ h.pc = "loadRoles"
           /\ h.got = task[t].got
      BY NameEdited
    <3> HIDE DEF h
    <3> QED BY <1>1, <3>1, <3>2, Entering
  <2> QED BY <1>3, <1>6, <2>1 DEF LoadUser, Enters
<1>7. ASSUME LoadRoles(t) PROVE Enters(t, Firsts \cup {"done"})
  <2>1. ASSUME NEW admin, NEW later,
               task' = [task EXCEPT ![t].pc = FirstStep[Op(t)], ![t].admin = admin,
                                    ![t].later = later]
        PROVE  Enters(t, Firsts)
    <3> DEFINE h == EditAdmin(task[t], FirstStep[Op(t)], admin, later)
    <3>1. task' = [task EXCEPT ![t] = h]
      BY <2>1 DEF EditAdmin
    <3>2. IsHandler(h) /\ h.req = task[t].req /\ h.known = task[t].known /\ h.pc = FirstStep[Op(t)]
           /\ h.got = task[t].got
      BY AdminEdited
    <3>3. /\ h.pc \in Firsts
          /\ h.pc = "findUser" => Op(t) \in DOMAIN AfterFind
          /\ h.pc \in Readers => Op(t) \in ReadOps
      BY <1>1, <3>2, FirstSteps
    <3> HIDE DEF h
    <3>4. Enters(t, {h.pc})
      BY <1>1, <3>1, <3>2, <3>3, Entering
    <3> QED BY <3>3, <3>4 DEF Enters
  <2> QED BY <1>3, <1>7, <2>1 DEF LoadRoles, Enters
<1>8. Enters(t, {"readUser", "loadUser", "loadRoles", "done"} \cup Firsts)
  BY <1>4, <1>5, <1>6, <1>7 DEF Enters
<1> QED BY <1>1, <1>2, <1>8

\* Of one step of a handler: where it goes, and that only an arrival says whether
\* the user of a token exists.
LEMMA StepsLand ==
  ASSUME Shape, NEW t \in Tasks, Step(t), ~Arrive(t)
  PROVE  /\ Shape'
         /\ \A x \in Tasks \ {t} : task'[x] = task[x]
         /\ task'[t].known = task[t].known /\ task'[t].pc # "idle"
         /\ task'[t].got \subseteq task[t].got \/ Query(t)
         /\ task[t].pc \notin {"idle", "done"}
         /\ task[t].pc = "loadUser" =>
              /\ UNCHANGED index
              /\ Reply(t, "internal") \/ (task[t].me \notin DOMAIN users => Reply(t, "unauthorized"))
<1>1. CASE Authenticate(t)
  <2>1. ReadPassword(t) \/ ReadUser(t) \/ LoadUser(t) \/ LoadRoles(t)
    BY <1>1 DEF Authenticate
  <2>2. UNCHANGED index
    BY <2>1 DEF ReadPassword, ReadUser, LoadUser, LoadRoles, OnlyTask
  <2> QED BY <2>1, <2>2, DoorLands DEF Enters, Firsts
<1>2. CASE CreateUser(t)
  BY <1>2, CreateUserLands DEF Lands, Moves, AtTheDoor
<1>3. CASE ManageUser(t)
  BY <1>3, ManageUserLands DEF Lands, Moves, AtTheDoor
<1>4. CASE ManageRole(t)
  BY <1>4, ManageRoleLands DEF Lands, Moves, AtTheDoor
<1>5. CASE ManageRule(t)
  BY <1>5, ManageRuleLands DEF Lands, Moves, AtTheDoor
<1>6. CASE Annotate(t)
  BY <1>6, AnnotateLands DEF Lands, Moves, AtTheDoor
<1>7. CASE SetCoverArt(t)
  BY <1>7, SetCoverArtLands DEF Lands, Moves, AtTheDoor
<1>8. CASE UpdateTags(t)
  BY <1>8, UpdateTagsLands DEF Lands, Moves, AtTheDoor
<1>9. CASE Scan(t)
  BY <1>9, ScanLands DEF Lands, Moves, AtTheDoor
<1>10. CASE Read(t)
  BY <1>10, ReadLands DEF Lands, Moves, AtTheDoor
<1>11. CASE Abort(t)
  <2>1. Reply(t, "internal") /\ Recorded(t) /\ task[t].pc \notin {"idle", "done"} /\ UNCHANGED index
    BY <1>11 DEF Abort, Active
  <2>2. Handlers' /\ Lands(t, {}) /\ task'[t].pc = "done"
    BY <2>1, Landing, Replying DEF Shape
  <2> QED BY <2>1, <2>2, ShapeStays DEF Lands
<1> QED BY <1>1, <1>2, <1>3, <1>4, <1>5, <1>6, <1>7, <1>8, <1>9, <1>10, <1>11 DEF Step

\* Where the handlers are in the beginning.
LEMMA Beginning ==
  ASSUME Init
  PROVE  /\ Shape /\ \A t \in Tasks : task[t].pc \in {"idle", "listUsers"} /\ ~wrote[t]
         /\ \A t \in Task : task[t] = Blank
<1>1. IsHandler(Blank) /\ Blank.pc = "idle" /\ Blank.known
  BY DEF IsHandler, Blank
<1>2. IsHandler(Start0) /\ Start0.pc = "listUsers"
  <2> SUFFICES ASSUME NEW h, h = Start0 PROVE IsHandler(h) /\ h.pc = "listUsers"
    OBVIOUS
  <2> QED BY DEF Start0, Blank, IsHandler
<1>3. task = [t \in Tasks |-> IF t = Boot THEN Start0 ELSE Blank] /\ wrote = [t \in Tasks |-> FALSE]
  BY DEF Init
<1>4. Shape
  BY <1>1, <1>2, <1>3 DEF Shape, Handlers, Tasks, Readers
<1>5. \A t \in Task : task[t] = Blank
  BY <1>3, BootAssumption DEF Tasks
<1> QED BY <1>1, <1>2, <1>3, <1>4, <1>5

\* A crash ends every request and starts the process again.
LEMMA CrashLands ==
  ASSUME Shape, Crash
  PROVE  /\ Shape' /\ UNCHANGED wrote
         /\ \A x \in Tasks : task'[x] = task[x] \/ task'[x].pc \in {"done", "listUsers"}
         /\ \A x \in Task : \/ task'[x] = task[x]
                            \/ /\ task[x].pc # "idle" /\ task'[x].pc = "done"
                               /\ task'[x].answer = "internal" /\ task'[x].got = {}
                               /\ task'[x].known = task[x].known
<1>1. /\ task' = [x \in Tasks |-> IF x = Boot THEN Start0
                                 ELSE IF Active(x) THEN Closed(x, "internal") ELSE task[x]]
      /\ UNCHANGED wrote
  BY DEF Crash
<1>2. \A x \in Tasks : /\ IsHandler(Closed(x, "internal")) /\ Closed(x, "internal").pc = "done"
                       /\ Closed(x, "internal").answer = "internal" /\ Closed(x, "internal").got = {}
                       /\ Closed(x, "internal").known = task[x].known
  <2> SUFFICES ASSUME NEW x \in Tasks, NEW h, h = Closed(x, "internal")
               PROVE  /\ IsHandler(h) /\ h.pc = "done" /\ h.answer = "internal" /\ h.got = {}
                      /\ h.known = task[x].known
    OBVIOUS
  <2> QED BY DEF Closed, Blank, IsHandler
<1>3. IsHandler(Start0) /\ Start0.pc = "listUsers"
  <2> SUFFICES ASSUME NEW h, h = Start0 PROVE IsHandler(h) /\ h.pc = "listUsers"
    OBVIOUS
  <2> QED BY DEF Start0, Blank, IsHandler
<1>4. Handlers'
  BY <1>1, <1>2, <1>3 DEF Shape, Handlers
<1>5. \A x \in Tasks : \/ task'[x] = task[x] /\ x # Boot
                       \/ task'[x].pc \in {"done", "listUsers"}
  BY <1>1, <1>2, <1>3
<1>6. task'[Boot].pc # "idle"
  BY <1>1, <1>3 DEF Tasks
<1>7. Shape'
  BY <1>1, <1>4, <1>5, <1>6 DEF Shape, Op, Req, Readers
<1>8. \A x \in Task : x # Boot /\ x \in Tasks /\ (Active(x) => task[x].pc # "idle")
  BY BootAssumption DEF Tasks, Active
<1> QED BY <1>1, <1>2, <1>5, <1>7, <1>8

-----------------------------------------------------------------------------
(***************************************************************************)
(* Ids are handed out once.                                                *)
(***************************************************************************)
Counted == last \in [Tables -> Nat] /\ DOMAIN users \subseteq 1..last.users

\* A user that is there now was there before, or has an id nobody ever had.
NewIdsOnly ==
  /\ last.users <= last'.users
  /\ \A u \in DOMAIN users' : u \in DOMAIN users \/ u > last.users

\* Where users only go, and the counter of users stays, nothing is to be shown.
LEMMA FewerUsers ==
  ASSUME Counted, last' \in [Tables -> Nat], last'.users = last.users,
         DOMAIN users' \subseteq DOMAIN users
  PROVE  Counted' /\ NewIdsOnly
  BY DEF Counted, NewIdsOnly, Tables

\* A new user takes the next id.
LEMMA InsertUserCounts ==
  ASSUME Counted, NEW t \in Tasks, InsertUser(t)
  PROVE  Counted' /\ NewIdsOnly
<1>1. CASE UNCHANGED <<users, last>>
  BY <1>1, FewerUsers DEF Counted
<1>2. ASSUME DOMAIN users' = DOMAIN users \cup {last.users + 1},
             last' = [last EXCEPT !.users = last.users + 1]
      PROVE  Counted' /\ NewIdsOnly
  <2>1. last' \in [Tables -> Nat] /\ last'.users = last.users + 1 /\ last.users \in Nat
    BY <1>2 DEF Counted, Tables
  <2> QED BY <1>2, <2>1 DEF Counted, NewIdsOnly
<1> QED BY <1>1, <1>2 DEF InsertUser, With

\* Another counter moves: the one of users stays.
LEMMA OtherCounter ==
  ASSUME Counted, NEW table \in Tables \ {"users"}, NEW n \in Nat,
         last' = [last EXCEPT ![table] = n]
  PROVE  last' \in [Tables -> Nat] /\ last'.users = last.users /\ last[table] \in Nat
  BY DEF Counted, Tables

\* A new role leaves the counter of users.
LEMMA NewRoleCounts ==
  ASSUME Counted, NEW name, NEW builtin, NewRole(name, builtin)
  PROVE  last' \in [Tables -> Nat] /\ last'.users = last.users
<1>1. "roles" \in Tables \ {"users"} /\ last.roles + 1 \in Nat
  BY DEF Counted, Tables
<1> QED BY <1>1, OtherCounter DEF NewRole

\* So does a scan.
LEMMA ScanCounts ==
  ASSUME Counted, NEW t \in Tasks, Scan(t)
  PROVE  Counted' /\ NewIdsOnly
<1>1. UNCHANGED users
  BY OthersKeepAccounts
<1>2. {"artists", "albums", "tracks"} \subseteq Tables \ {"users"}
  BY DEF Tables
<1>3. last.artists + 1 \in Nat /\ last.albums + 1 \in Nat /\ last.tracks + 1 \in Nat
        /\ last.tracks \in Nat
  BY DEF Counted, Tables
<1>4. last' \in [Tables -> Nat] /\ last'.users = last.users
  <2>1. CASE UNCHANGED last
    BY <2>1 DEF Counted
  <2>2. CASE last' = [last EXCEPT !.artists = last.artists + 1]
    BY <1>2, <1>3, <2>2, OtherCounter
  <2>3. CASE last' = [last EXCEPT !.albums = last.albums + 1]
    BY <1>2, <1>3, <2>3, OtherCounter
  <2>4. CASE \E n \in {last.tracks, last.tracks + 1} : last' = [last EXCEPT !.tracks = n]
    BY <1>2, <1>3, <2>4, OtherCounter
  <2>5. CASE UpsertTrack(t)
    BY <2>4, <2>5 DEF UpsertTrack
  <2> QED BY <2>1, <2>2, <2>3, <2>5
    DEF Scan, StoreCover, UpsertArtist, UpsertAlbum, SetAlbumCover, Vanish, OnlyCovers
<1> QED BY <1>1, <1>4, FewerUsers

\* So does a rule.
LEMMA SetRuleCounts ==
  ASSUME Counted, NEW t \in Tasks, SetRule(t)
  PROVE  Counted' /\ NewIdsOnly
<1>1. UNCHANGED users
  BY DEF SetRule, accounts
<1>2. CASE UNCHANGED last
  BY <1>1, <1>2, FewerUsers DEF Counted
<1>3. CASE \E n \in {last.rules, last.rules + 1} : last' = [last EXCEPT !.rules = n]
  <2>1. "rules" \in Tables \ {"users"} /\ last.rules \in Nat /\ last.rules + 1 \in Nat
    BY DEF Counted, Tables
  <2> QED BY <1>1, <1>3, <2>1, OtherCounter, FewerUsers
<1> QED BY <1>2, <1>3 DEF SetRule

\* Every step leaves the ids that were handed out to those who had them.
LEMMA IdsAreNotReused ==
  ASSUME Counted, [Next]_vars
  PROVE  Counted' /\ NewIdsOnly
<1>1. CASE UNCHANGED vars \/ Crash
  BY <1>1, FewerUsers DEF Counted, vars, index, accounts, Crash
<1>2. ASSUME NEW t \in Tasks, Step(t)
      PROVE  Counted' /\ NewIdsOnly
  <2>1. CASE UNCHANGED <<users, last>>
    BY <2>1, FewerUsers DEF Counted
  <2>2. CASE Authenticate(t)
    BY <2>1, <2>2 DEF Authenticate, Arrive, ReadPassword, ReadUser, LoadUser, LoadRoles, OnlyTask,
                      index, accounts
  <2>3. CASE CreateUser(t)
    <3>1. CASE ListUsers(t) \/ FindRole(t) \/ GetCreated(t) \/ AssignBuiltin(t)
      BY <2>1, <3>1 DEF ListUsers, FindRole, GetCreated, AssignBuiltin, OnlyTask, index, accounts
    <3>2. CASE MakeRole(t)
      BY <3>2, NewRoleCounts, FewerUsers DEF MakeRole, Counted
    <3>3. CASE SetNewEmail(t)
      BY <3>3, FewerUsers DEF SetNewEmail, Counted
    <3>4. CASE UndoCreate(t)
      BY <3>4, FewerUsers DEF UndoCreate, RemoveUser, Without, Counted
    <3> QED BY <2>3, <3>1, <3>2, <3>3, <3>4, InsertUserCounts DEF CreateUser
  <2>4. CASE ManageUser(t)
    <3>1. CASE FindUser(t) \/ GetUser(t) \/ FindAdminRole(t) \/ SetAdmin(t)
      BY <2>1, <3>1 DEF FindUser, GetUser, FindAdminRole, SetAdmin, OnlyTask, index, accounts
    <3>2. CASE SetEmail(t) \/ SetPassword(t) \/ ChangePassword(t)
      BY <3>2, FewerUsers DEF SetEmail, SetPassword, ChangePassword, Update, Counted
    <3>3. CASE DeleteUser(t)
      BY <3>3, FewerUsers DEF DeleteUser, RemoveUser, Without, Counted
    <3> QED BY <2>4, <3>1, <3>2, <3>3 DEF ManageUser
  <2>5. CASE ManageRole(t)
    <3>1. CASE ReadBuiltin(t) \/ CheckUser(t) \/ CheckRole(t) \/ DeleteRole(t) \/ Assignment(t)
      BY <2>1, <3>1 DEF ReadBuiltin, CheckUser, CheckRole, DeleteRole, Assignment, OnlyTask, index,
                        accounts
    <3>2. CASE CreateRole(t)
      BY <3>2, NewRoleCounts, FewerUsers DEF CreateRole, Counted
    <3> QED BY <2>5, <3>1, <3>2 DEF ManageRole
  <2>6. CASE ManageRule(t)
    <3>1. CASE CheckScope(t) \/ GetRule(t) \/ DeleteRule(t)
      BY <2>1, <3>1 DEF CheckScope, GetRule, DeleteRule, OnlyTask, index, accounts
    <3> QED BY <2>6, <3>1, SetRuleCounts DEF ManageRule
  <2>7. CASE Annotate(t) \/ SetCoverArt(t) \/ UpdateTags(t) \/ Read(t) \/ Abort(t)
    <3>1. UNCHANGED users
      BY <2>7, OthersKeepAccounts
    <3>2. UNCHANGED last
      BY <2>7 DEF Annotate, SetCoverArt, PutCover, UpdateCover, UndoCover, UpdateTags, CheckTrack,
                  SetOverride, Read, HasCover, ViewerRoles, ViewerAdmin, Query, Respond, Abort,
                  OnlyTask, OnlyCovers
    <3> QED BY <2>1, <3>1, <3>2
  <2> QED BY <1>2, <2>2, <2>3, <2>4, <2>5, <2>6, <2>7, ScanCounts DEF Step
<1> QED BY <1>1, <1>2 DEF Next

-----------------------------------------------------------------------------
(***************************************************************************)
(* The token of a user who was deleted.                                    *)
(***************************************************************************)
\* Whose token names nobody is still to be looked up, and its id stays unused,
\* or was sent away.
Stranger(t) ==
  /\ task[t].got = {} /\ ~wrote[t]
  /\ \/ /\ task[t].pc = "loadUser" /\ task[t].answer = "none"
        /\ task[t].me \in Nat /\ task[t].me <= last.users /\ task[t].me \notin DOMAIN users
     \/ task[t].pc = "done" /\ task[t].answer \in {"unauthorized", "internal"}

Strangers ==
  /\ Shape /\ Counted
  /\ \A t \in Task : (~task[t].known => Stranger(t)) /\ (task[t].pc = "idle" => ~wrote[t])

\* A handler that does not move stays a stranger: its id is not handed out.
LEMMA StrangerStays ==
  ASSUME Counted, NewIdsOnly, Counted', NEW t \in Task, Stranger(t), UNCHANGED <<task[t], wrote[t]>>
  PROVE  Stranger(t)'
<1>1. last.users \in Nat /\ last'.users \in Nat /\ DOMAIN users \subseteq Nat /\ DOMAIN users' \subseteq Nat
  BY DEF Counted, Tables
<1> QED BY <1>1 DEF Stranger, NewIdsOnly

\* Whoever comes with a dead token stays a stranger.
LEMMA StrangersStep ==
  ASSUME Strangers, NEW t \in Tasks, Step(t), Counted', NewIdsOnly
  PROVE  Strangers'
<1>1. wrote' = [wrote EXCEPT ![t] = @ \/ index' # index]
  BY DEF Step, Authenticate, Arrive, ReadPassword, ReadUser, LoadUser, LoadRoles,
    CreateUser, ListUsers, InsertUser, FindRole, MakeRole, AssignBuiltin, GetCreated, SetNewEmail,
    UndoCreate, ManageUser, FindUser, GetUser, SetEmail, SetPassword, FindAdminRole, SetAdmin,
    DeleteUser, ChangePassword, ManageRole, CreateRole, ReadBuiltin, DeleteRole, CheckUser,
    CheckRole, Assignment, ManageRule, CheckScope, SetRule, GetRule, DeleteRule, Annotate,
    SetCoverArt, PutCover, UpdateCover, UndoCover, UpdateTags, CheckTrack, SetOverride,
    Scan, StoreCover, UpsertArtist, UpsertAlbum, SetAlbumCover, UpsertTrack, Vanish,
    Read, HasCover, ViewerRoles, ViewerAdmin, Query, Respond, Abort,
    OnlyTask, OnlyIndex, OnlyCovers, Recorded
<1>2. \A x \in Tasks \ {t} : wrote'[x] = wrote[x]
  BY <1>1 DEF Strangers, Shape
<1>3. UNCHANGED index /\ ~wrote[t] => ~wrote'[t]
  <2>1. wrote'[t] = (wrote[t] \/ index' # index)
    BY <1>1, Zenon DEF Strangers, Shape
  <2> QED BY <2>1
<1>4. Task \subseteq Tasks
  BY DEF Tasks
<1>5. Shape' /\ (\A x \in Tasks \ {t} : task'[x] = task[x]) /\ task'[t].pc # "idle"
  BY Arriving, StepsLand DEF Strangers
<1>6. ASSUME NEW x \in Task, x # t
      PROVE  (~task[x].known => Stranger(x))' /\ (task[x].pc = "idle" => ~wrote[x])'
  <2>1. UNCHANGED <<task[x], wrote[x]>>
    BY <1>2, <1>4, <1>5, <1>6
  <2> QED BY <2>1, StrangerStays DEF Strangers
<1>7. ASSUME t \in Task, ~task'[t].known
      PROVE  Stranger(t)'
  <2>1. CASE Arrive(t)
    <3>1. UNCHANGED index /\ task[t].pc = "idle"
      BY <2>1 DEF Arrive, At, OnlyTask
    <3>2. ~wrote'[t]
      BY <1>3, <1>7, <3>1 DEF Strangers
    <3>3. task'[t].me \notin DOMAIN users'
      BY <1>7, <2>1, <3>1, Arriving DEF Strangers, index, accounts
    <3>4. last' = last
      BY <2>1 DEF Arrive, OnlyTask
    <3> QED BY <1>7, <2>1, <3>2, <3>3, <3>4, Arriving DEF Stranger, Strangers
  <2>2. CASE ~Arrive(t)
    <3>1. task'[t].known = task[t].known /\ task[t].pc \notin {"idle", "done"}
      BY <2>2, StepsLand DEF Strangers
    <3>2. Stranger(t) /\ task[t].pc = "loadUser" /\ task[t].me \notin DOMAIN users
      BY <1>7, <3>1 DEF Strangers, Stranger
    <3>3. UNCHANGED index /\ (Reply(t, "internal") \/ Reply(t, "unauthorized"))
      BY <2>2, <3>2, StepsLand DEF Strangers
    <3>4. task'[t].pc = "done" /\ task'[t].got = {} /\ task'[t].answer \in {"internal", "unauthorized"}
      BY <3>3, Replying DEF Strangers, Shape
    <3> QED BY <1>3, <3>2, <3>3, <3>4 DEF Stranger
  <2> QED BY <2>1, <2>2
<1> QED BY <1>5, <1>6, <1>7 DEF Strangers

\* Whoever sends the token of a user that is gone is refused, sees nothing and
\* changes nothing, however long ago that was and whoever joined since.
THEOREM Tokens == Spec => []TokensDieWithUsers
<1>1. Init => Strangers
  <2> SUFFICES ASSUME Init PROVE Strangers
    OBVIOUS
  <2>1. Counted
    BY StartsAssumption DEF Init, Counted
  <2>2. Blank.known
    BY DEF Blank
  <2> QED BY <2>1, <2>2, Beginning DEF Strangers, Tasks
<1>2. Strangers /\ [Next]_vars => Strangers'
  <2> SUFFICES ASSUME Strangers, [Next]_vars PROVE Strangers'
    OBVIOUS
  <2>1. Counted' /\ NewIdsOnly
    BY IdsAreNotReused DEF Strangers
  <2>2. CASE UNCHANGED vars
    <3>1. Shape'
      BY <2>2 DEF Strangers, Shape, Handlers, vars, history, Op, Req
    <3> QED BY <2>1, <2>2, <3>1 DEF Strangers, Stranger, vars, history, index, accounts
  <2>3. CASE Crash
    <3>1. Shape' /\ UNCHANGED <<wrote, last, users>>
      BY <2>3, CrashLands DEF Strangers, Crash, index, accounts
    <3>2. ASSUME NEW t \in Task
          PROVE  (~task[t].known => Stranger(t))' /\ (task[t].pc = "idle" => ~wrote[t])'
      <4>1. CASE task'[t] = task[t]
        BY <2>1, <3>1, <4>1, StrangerStays DEF Strangers
      <4>2. CASE task'[t] # task[t]
        BY <2>3, <3>1, <4>2, CrashLands DEF Strangers, Stranger
      <4> QED BY <4>1, <4>2
    <3> QED BY <2>1, <3>1, <3>2 DEF Strangers
  <2>4. CASE \E t \in Tasks : Step(t)
    BY <2>1, <2>4, StrangersStep
  <2> QED BY <2>2, <2>3, <2>4 DEF Next
<1>3. Strangers => TokensDieWithUsers
  BY DEF Strangers, Stranger, TokensDieWithUsers
<1> QED BY <1>1, <1>2, <1>3, PTL DEF Spec

-----------------------------------------------------------------------------
(***************************************************************************)
(* Covers that albums name are in the store.                               *)
(***************************************************************************)
\* What the store has, or a failed setCoverArt took back.
Stored == covers \cup undone \cup {Null}

\* A handler between the put of an image and the row that names it.
Carrying == {"updateCover", "upsertArtist", "upsertAlbum", "setAlbumCover"}

AlbumRows == \A a \in DOMAIN albums : "cover" \in DOMAIN albums[a]

CoversInHand ==
  /\ Shape /\ AlbumRows /\ CoversAreKept
  /\ \A t \in Tasks : task[t].pc \in Carrying => Req(t).image \in Stored

\* An album names what it named before, nothing, or the image t carries.
CoversNamed(t) ==
  /\ Stored \subseteq Stored' /\ AlbumRows'
  /\ \A a \in DOMAIN albums' :
       \/ albums'[a].cover = Null
       \/ task[t].pc \in Carrying /\ albums'[a].cover = Req(t).image
       \/ a \in DOMAIN albums /\ albums'[a].cover = albums[a].cover

\* Only setCoverArt and scans touch covers.
LEMMA CoversStay ==
  ASSUME AlbumRows, NEW t \in Tasks, UNCHANGED <<albums, covers, undone>>
  PROVE  CoversNamed(t)
  BY DEF CoversNamed, Stored, AlbumRows

\* setCoverArt names a cover it has put.
LEMMA SetCoverArtNames ==
  ASSUME AlbumRows, NEW t \in Tasks, SetCoverArt(t)
  PROVE  CoversNamed(t)
<1>1. CASE PutCover(t)
  BY <1>1 DEF PutCover, OnlyCovers, index, catalog, CoversNamed, Stored, AlbumRows
<1>2. CASE UpdateCover(t)
  <2>1. UNCHANGED <<covers, undone>> /\ task[t].pc \in Carrying
    BY <1>2 DEF UpdateCover, OnlyIndex, At, Carrying
  <2>2. CASE UNCHANGED albums
    BY <2>1, <2>2, CoversStay
  <2>3. CASE /\ Req(t).album \in DOMAIN albums
             /\ albums' = [albums EXCEPT ![Req(t).album].cover = Req(t).image]
    <3>1. /\ DOMAIN albums' = DOMAIN albums
          /\ \A a \in DOMAIN albums :
               /\ a # Req(t).album => albums'[a] = albums[a]
               /\ a = Req(t).album => albums'[a] = [albums[a] EXCEPT !.cover = Req(t).image]
      BY <2>3
    <3> QED BY <2>1, <2>3, <3>1 DEF CoversNamed, Stored, AlbumRows
  <2> QED BY <1>2, <2>2, <2>3 DEF UpdateCover
<1>3. CASE UndoCover(t)
  BY <1>3 DEF UndoCover, OnlyCovers, index, catalog, CoversNamed, Stored, AlbumRows
<1> QED BY <1>1, <1>2, <1>3 DEF SetCoverArt

\* A scan names a cover it has stored.
LEMMA ScanNames ==
  ASSUME AlbumRows, NEW t \in Tasks, Scan(t)
  PROVE  CoversNamed(t)
<1>1. CASE StoreCover(t)
  BY <1>1 DEF StoreCover, OnlyCovers, index, catalog, CoversNamed, Stored, AlbumRows
<1>2. CASE UpsertArtist(t) \/ UpsertTrack(t) \/ Vanish(t)
  BY <1>2, CoversStay DEF UpsertArtist, UpsertTrack, Vanish, OnlyIndex
<1>3. CASE UpsertAlbum(t)
  <2>1. UNCHANGED <<covers, undone>>
    BY <1>3 DEF UpsertAlbum, OnlyIndex
  <2>2. CASE UNCHANGED albums
    BY <2>1, <2>2, CoversStay
  <2>3. ASSUME NEW a \in DOMAIN albums, NEW genre, albums' = [albums EXCEPT ![a].genre = genre]
        PROVE  CoversNamed(t)
    <3>1. /\ DOMAIN albums' = DOMAIN albums
          /\ \A b \in DOMAIN albums :
               albums'[b] = albums[b] \/ albums'[b] = [albums[b] EXCEPT !.genre = genre]
      BY <2>3
    <3> QED BY <2>1, <3>1 DEF CoversNamed, Stored, AlbumRows
  <2>4. ASSUME NEW a, NEW name, NEW artist, NEW genre,
               albums' = With(albums, a, [name |-> name, artist |-> artist, genre |-> genre,
                                          cover |-> Null])
        PROVE  CoversNamed(t)
    BY <2>1, <2>4 DEF CoversNamed, Stored, AlbumRows, With
  <2> QED BY <1>3, <2>2, <2>3, <2>4 DEF UpsertAlbum
<1>4. CASE SetAlbumCover(t)
  <2>1. UNCHANGED <<covers, undone>> /\ task[t].pc \in Carrying
    BY <1>4 DEF SetAlbumCover, OnlyIndex, At, Carrying
  <2>2. CASE UNCHANGED albums
    BY <2>1, <2>2, CoversStay
  <2>3. ASSUME NEW a \in DOMAIN albums, albums' = [albums EXCEPT ![a].cover = Req(t).image]
        PROVE  CoversNamed(t)
    <3>1. /\ DOMAIN albums' = DOMAIN albums
          /\ \A b \in DOMAIN albums :
               albums'[b] = albums[b] \/ albums'[b] = [albums[b] EXCEPT !.cover = Req(t).image]
      BY <2>3
    <3> QED BY <2>1, <3>1 DEF CoversNamed, Stored, AlbumRows
  <2> QED BY <1>4, <2>2, <2>3 DEF SetAlbumCover
<1> QED BY <1>1, <1>2, <1>3, <1>4 DEF Scan

\* No other step names a cover.
LEMMA StepNames ==
  ASSUME AlbumRows, NEW t \in Tasks, Step(t)
  PROVE  CoversNamed(t)
<1>1. CASE Authenticate(t)
  BY <1>1, CoversStay DEF Authenticate, Arrive, ReadPassword, ReadUser, LoadUser, LoadRoles, OnlyTask,
     index, catalog
<1>2. CASE CreateUser(t)
  BY <1>2, CoversStay DEF CreateUser, ListUsers, InsertUser, FindRole, MakeRole, AssignBuiltin,
     GetCreated, SetNewEmail, UndoCreate, OnlyTask, OnlyIndex, index, catalog
<1>3. CASE ManageUser(t)
  BY <1>3, CoversStay DEF ManageUser, FindUser, GetUser, SetEmail, SetPassword, FindAdminRole,
     SetAdmin, DeleteUser, ChangePassword, OnlyTask, OnlyIndex, index, catalog
<1>4. CASE ManageRole(t)
  BY <1>4, CoversStay DEF ManageRole, CreateRole, ReadBuiltin, DeleteRole, CheckUser, CheckRole,
     Assignment, OnlyTask, OnlyIndex, index, catalog
<1>5. CASE ManageRule(t)
  BY <1>5, CoversStay DEF ManageRule, CheckScope, SetRule, GetRule, DeleteRule, OnlyTask, OnlyIndex,
     index, catalog
<1>6. CASE Annotate(t)
  BY <1>6, CoversStay DEF Annotate, OnlyIndex, catalog
<1>7. CASE UpdateTags(t)
  BY <1>7, CoversStay DEF UpdateTags, CheckTrack, SetOverride, OnlyTask, OnlyIndex, index, catalog
<1>8. CASE Read(t)
  BY <1>8, CoversStay DEF Read, HasCover, ViewerRoles, ViewerAdmin, Query, Respond, OnlyTask, index,
     catalog
<1>9. CASE Abort(t)
  BY <1>9, CoversStay DEF Abort, index, catalog
<1> QED BY <1>1, <1>2, <1>3, <1>4, <1>5, <1>6, <1>7, <1>8, <1>9, SetCoverArtNames, ScanNames DEF Step

\* Who comes to carry an image has stored it, or carried it before.
LEMMA CarriedIsStored ==
  ASSUME CoversInHand, NEW t \in Tasks, Step(t), Stored \subseteq Stored', task'[t].pc \in Carrying
  PROVE  task'[t].req.image \in Stored'
<1> DEFINE taken == task'[t].req = task[t].req
<1>1. CASE SetCoverArt(t)
  <2>1. Lands(t, {"updateCover", "dropUnused", "dropFailed"})
    BY <1>1, SetCoverArtLands DEF CoversInHand
  <2>2. PutCover(t) \/ task[t].pc \in Carrying \/ UndoCover(t)
    BY <1>1 DEF SetCoverArt, UpdateCover, At, Carrying
  <2>3. taken
    BY <2>1 DEF Lands, Moves, Carrying
  <2>4. CASE PutCover(t)
    BY <2>3, <2>4 DEF PutCover, Stored, Req
  <2>5. CASE task[t].pc \in Carrying
    BY <2>3, <2>5 DEF CoversInHand, Req
  <2>6. CASE UndoCover(t)
    BY <2>6, Replying DEF UndoCover, CoversInHand, Shape, Carrying
  <2> QED BY <2>2, <2>4, <2>5, <2>6
<1>2. CASE Scan(t)
  <2>1. Lands(t, {"upsertArtist", "upsertAlbum", "setAlbumCover", "upsertTrack"})
    BY <1>2, ScanLands DEF CoversInHand
  <2>2. taken
    BY <2>1 DEF Lands, Moves, Carrying
  <2>3. CASE StoreCover(t)
    BY <2>2, <2>3 DEF StoreCover, Stored, Req
  <2>4. CASE task[t].pc \in Carrying
    BY <2>2, <2>4 DEF CoversInHand, Req
  <2>5. CASE UpsertTrack(t) \/ Vanish(t)
    BY <2>5, Replying DEF UpsertTrack, Vanish, CoversInHand, Shape, Carrying
  <2> QED BY <1>2, <2>3, <2>4, <2>5
    DEF Scan, UpsertArtist, UpsertAlbum, SetAlbumCover, At, Carrying
<1>3. CASE Authenticate(t)
  <2>1. CASE Arrive(t)
    BY <2>1, Arriving DEF CoversInHand, Carrying
  <2>2. CASE ~Arrive(t)
    BY <1>3, <2>2, DoorLands DEF Authenticate, Enters, Firsts, CoversInHand, Carrying
  <2> QED BY <2>1, <2>2
<1>4. CASE CreateUser(t) \/ ManageUser(t) \/ ManageRole(t) \/ ManageRule(t) \/ Annotate(t)
        \/ UpdateTags(t) \/ Read(t)
  BY <1>4, CreateUserLands, ManageUserLands, ManageRoleLands, ManageRuleLands, AnnotateLands,
     UpdateTagsLands, ReadLands DEF Lands, CoversInHand, Carrying
<1>5. CASE Abort(t)
  BY <1>5, Replying DEF Abort, CoversInHand, Shape, Carrying
<1> QED BY <1>1, <1>2, <1>3, <1>4, <1>5 DEF Step

\* No album shows a picture the store does not have, but for one a failed
\* setCoverArt of the same picture deleted.
THEOREM Covers == Spec => []CoversAreKept
<1>1. Init => CoversInHand
  <2> SUFFICES ASSUME Init PROVE CoversInHand
    OBVIOUS
  <2>1. Shape /\ \A t \in Tasks : task[t].pc \in {"idle", "listUsers"}
    BY Beginning
  <2>2. AlbumRows /\ CoversAreKept
    BY StartsAssumption DEF Init, AlbumRows, CoversAreKept
  <2> QED BY <2>1, <2>2 DEF CoversInHand, Carrying
<1>2. CoversInHand /\ [Next]_vars => CoversInHand'
  <2> SUFFICES ASSUME CoversInHand, [Next]_vars PROVE CoversInHand'
    OBVIOUS
  <2>1. CASE UNCHANGED vars
    <3>1. Shape'
      BY <2>1 DEF CoversInHand, Shape, Handlers, vars, history, Op, Req
    <3> QED BY <2>1, <3>1 DEF CoversInHand, AlbumRows, CoversAreKept, Req, Stored, vars, history, index,
                              catalog
  <2>2. CASE Crash
    <3>1. Shape' /\ UNCHANGED <<albums, covers, undone>>
      BY <2>2, CrashLands DEF CoversInHand, Crash, index, catalog
    <3>2. \A t \in Tasks : task'[t] = task[t] \/ task'[t].pc \notin Carrying
      BY <2>2, CrashLands DEF CoversInHand, Carrying
    <3> QED BY <3>1, <3>2 DEF CoversInHand, AlbumRows, CoversAreKept, Req, Stored
  <2>3. ASSUME NEW t \in Tasks, Step(t) PROVE CoversInHand'
    <3>1. CoversNamed(t)
      BY <2>3, StepNames DEF CoversInHand
    <3>2. Shape' /\ \A x \in Tasks \ {t} : task'[x] = task[x]
      BY <2>3, StepsLand, Arriving DEF CoversInHand
    <3>3. \A a \in DOMAIN albums' : albums'[a].cover \in Stored'
      BY <3>1 DEF CoversInHand, CoversNamed, CoversAreKept, Stored
    <3>4. task'[t].pc \in Carrying => task'[t].req.image \in Stored'
      BY <2>3, <3>1, CarriedIsStored DEF CoversNamed
    <3>5. CoversAreKept' /\ AlbumRows'
      BY <3>1, <3>3 DEF CoversAreKept, CoversNamed, Stored
    <3> QED BY <3>1, <3>2, <3>4, <3>5 DEF CoversInHand, CoversNamed, Req
  <2> QED BY <2>1, <2>2, <2>3 DEF Next
<1> QED BY <1>1, <1>2, PTL DEF Spec, CoversInHand

-----------------------------------------------------------------------------
(***************************************************************************)
(* Users without a role.                                                   *)
(***************************************************************************)
\* The user u has a role, or it is known how it comes that it has none.
Whole(u) ==
  \/ \E r \in DOMAIN roles : <<u, r>> \in userRoles
  \/ \E l \in lapses : l[1] = u
  \/ \E t \in Tasks : Creating(t) /\ task[t].row = u

\* Users are whole one by one.
LEMMA WholeUsers == UsersAreWhole <=> \A u \in DOMAIN users : Whole(u)
<1>1. \A u : RolesOf(u) # {} <=> \E r \in DOMAIN roles : <<u, r>> \in userRoles
  BY DEF RolesOf
<1> QED BY <1>1 DEF UsersAreWhole, Whole

\* What a step must show: roles are taken from those it records, and who was
\* being created still is, has its role, is recorded, or is gone.
LEMMA WholeStays ==
  ASSUME UsersAreWhole, lapses \subseteq lapses',
         \A u \in DOMAIN users' : \/ u \in DOMAIN users
                                  \/ Whole(u)',
         \A u \in DOMAIN users', r \in DOMAIN roles :
           <<u, r>> \in userRoles =>
             (r \in DOMAIN roles' /\ <<u, r>> \in userRoles') \/ \E l \in lapses' : l[1] = u,
         \A t \in Tasks : Creating(t) =>
           \/ Creating(t)' /\ task'[t].row = task[t].row
           \/ \A u \in DOMAIN users' : u = task[t].row => Whole(u)'
  PROVE  UsersAreWhole'
<1>1. \A u \in DOMAIN users : Whole(u)
  BY WholeUsers
<1>2. ASSUME NEW u \in DOMAIN users' PROVE Whole(u)'
  <2>1. CASE u \notin DOMAIN users
    BY <2>1
  <2>2. CASE \E r \in DOMAIN roles : <<u, r>> \in userRoles
    BY <2>2 DEF Whole
  <2>3. CASE \E l \in lapses : l[1] = u
    BY <2>3 DEF Whole
  <2>4. CASE \E t \in Tasks : Creating(t) /\ task[t].row = u
    <3>1. PICK t \in Tasks : Creating(t) /\ task[t].row = u
      BY <2>4
    <3>2. CASE Creating(t)' /\ task'[t].row = task[t].row
      BY <3>1, <3>2 DEF Whole
    <3>3. CASE \A x \in DOMAIN users' : x = task[t].row => Whole(x)'
      BY <3>1, <3>3
    <3> QED BY <1>2, <3>1, <3>2, <3>3
  <2> QED BY <1>1, <2>1, <2>2, <2>3, <2>4 DEF Whole
<1>3. \A u : RolesOf(u)' # {} <=> \E r \in DOMAIN roles' : <<u, r>> \in userRoles'
  BY DEF RolesOf
<1> QED BY <1>2, <1>3 DEF UsersAreWhole, Whole

\* A step of t that does not touch accounts, and leaves others where they are.
LEMMA WholeWithoutChange ==
  ASSUME UsersAreWhole, NEW t \in Tasks, UNCHANGED <<users, roles, userRoles>>,
         lapses \subseteq lapses', \A x \in Tasks \ {t} : task'[x] = task[x],
         Creating(t) => (Creating(t)' /\ task'[t].row = task[t].row) \/ Orphan(t) \subseteq lapses'
  PROVE  UsersAreWhole'
<1>1. ASSUME NEW x \in Tasks, Creating(x)
      PROVE  \/ Creating(x)' /\ task'[x].row = task[x].row
             \/ \A u \in DOMAIN users' : u = task[x].row => Whole(u)'
  <2>1. CASE x # t
    BY <1>1, <2>1 DEF Creating
  <2>2. CASE x = t /\ Orphan(t) \subseteq lapses'
    BY <2>2 DEF Orphan, Whole
  <2> QED BY <1>1, <2>1, <2>2
<1> QED BY <1>1, WholeStays

\* A user comes without a role, and is being created.
LEMMA InsertUserWhole ==
  ASSUME Handlers, UsersAreWhole, NEW t \in Tasks, InsertUser(t)
  PROVE  UsersAreWhole'
<1>1. /\ UNCHANGED <<roles, userRoles, lapses>> /\ task[t].pc = "insertUser"
  BY DEF InsertUser, At
<1>2. ~Creating(t)
  BY <1>1 DEF Creating
<1>3. CASE UNCHANGED users /\ Reply(t, "internal")
  BY <1>1, <1>2, <1>3, Replying, WholeWithoutChange
<1>4. ASSUME NEW u, DOMAIN users' = DOMAIN users \cup {u}, Found(t, "findRole", u)
      PROVE  UsersAreWhole'
  <2>1. Creating(t)' /\ task'[t].row = u /\ \A x \in Tasks \ {t} : task'[x] = task[x]
    BY <1>4, Finding DEF Creating, Moves
  <2>2. Whole(u)'
    BY <2>1 DEF Whole
  <2>3. \A x \in Tasks : Creating(x) => Creating(x)' /\ task'[x].row = task[x].row
    BY <1>2, <2>1 DEF Creating
  <2> QED BY <1>1, <1>4, <2>2, <2>3, WholeStays
<1> QED BY <1>3, <1>4 DEF InsertUser, With

\* A user that is deleted is gone, and its roles with it.
LEMMA RemoveUserWhole ==
  ASSUME UsersAreWhole, NEW t \in Tasks, NEW u, RemoveUser(u), UNCHANGED roles,
         \A x \in Tasks \ {t} : task'[x] = task[x], ~Creating(t)
  PROVE  UsersAreWhole'
<1>1. /\ DOMAIN users' = DOMAIN users \ {u}
      /\ userRoles' = {ur \in userRoles : ur[1] # u} /\ lapses \subseteq lapses'
  BY DEF RemoveUser, Without
<1>2. \A x \in Tasks : Creating(x) => Creating(x)' /\ task'[x].row = task[x].row
  BY DEF Creating
<1> QED BY <1>1, <1>2, WholeStays

\* A role is assigned to the user that is being created.
LEMMA AssignBuiltinWhole ==
  ASSUME Handlers, UsersAreWhole, NEW t \in Tasks, AssignBuiltin(t)
  PROVE  UsersAreWhole'
<1>1. UNCHANGED <<users, roles>> /\ lapses \subseteq lapses'
        /\ (task[t].role \notin DOMAIN roles => Orphan(t) \subseteq lapses')
  BY DEF AssignBuiltin
<1>2. \A x \in Tasks \ {t} : task'[x] = task[x]
  BY Going, Replying DEF AssignBuiltin, Assigned, Moves
<1>3. userRoles \subseteq userRoles'
  BY DEF AssignBuiltin, Assigned
<1>4. ASSUME NEW x \in Tasks, Creating(x)
      PROVE  \/ Creating(x)' /\ task'[x].row = task[x].row
             \/ \A u \in DOMAIN users' : u = task[x].row => Whole(u)'
  <2>1. CASE x # t
    BY <1>2, <1>4, <2>1 DEF Creating
  <2>2. CASE x = t /\ task[t].role \notin DOMAIN roles
    BY <1>1, <2>2 DEF Orphan, Whole
  <2>3. CASE x = t /\ task[t].role \in DOMAIN roles /\ task[t].row \in DOMAIN users
    <3>1. userRoles' = userRoles \cup {<<task[t].row, task[t].role>>}
      BY <2>3 DEF AssignBuiltin, Assigned
    <3> QED BY <1>1, <2>3, <3>1 DEF Whole
  <2>4. CASE x = t /\ task[t].row \notin DOMAIN users
    BY <1>1, <2>4
  <2> QED BY <2>1, <2>2, <2>3, <2>4
<1> QED BY <1>1, <1>3, <1>4, WholeStays

\* The built-in role is made before it is assigned, or the user is recorded.
LEMMA MakeRoleWhole ==
  ASSUME Handlers, UsersAreWhole, NEW t \in Tasks, MakeRole(t)
  PROVE  UsersAreWhole'
<1>1. UNCHANGED <<users, userRoles>> /\ DOMAIN roles \subseteq DOMAIN roles' /\ lapses \subseteq lapses'
  BY DEF MakeRole, NewRole, With
<1>2. CASE Reply(t, "internal") /\ lapses' = lapses \cup Orphan(t) /\ UNCHANGED roles
  BY <1>1, <1>2, Replying, WholeWithoutChange
<1>3. CASE Ranked(t, "assignBuiltin", last.roles + 1)
  <2>1. \A x \in Tasks : Creating(x) => Creating(x)' /\ task'[x].row = task[x].row
    BY <1>3, Ranking DEF Creating, Moves
  <2> QED BY <1>1, <2>1, WholeStays
<1> QED BY <1>2, <1>3 DEF MakeRole

\* The user being created has its role at the end, or is gone or recorded.
LEMMA CreateUserWhole ==
  ASSUME Handlers, UsersAreWhole, NEW t \in Tasks, CreateUser(t)
  PROVE  UsersAreWhole'
<1>1. CASE ListUsers(t) \/ GetCreated(t)
  <2>1. UNCHANGED <<users, roles, userRoles, lapses>> /\ ~Creating(t)
    BY <1>1 DEF ListUsers, GetCreated, OnlyTask, index, accounts, At, Creating
  <2>2. \A x \in Tasks \ {t} : task'[x] = task[x]
    BY <1>1, Going, Replying DEF ListUsers, GetCreated, Moves
  <2> QED BY <2>1, <2>2, WholeWithoutChange
<1>2. CASE FindRole(t)
  <2>1. UNCHANGED <<users, roles, userRoles, lapses>>
    BY <1>2 DEF FindRole, OnlyTask, index, accounts
  <2>2. /\ \A x \in Tasks \ {t} : task'[x] = task[x]
        /\ Creating(t)' /\ task'[t].row = task[t].row
    BY <1>2, Going, Ranking DEF FindRole, Moves, Creating
  <2> QED BY <2>1, <2>2, WholeWithoutChange
<1>3. CASE SetNewEmail(t)
  <2>1. UNCHANGED <<roles, userRoles, lapses>> /\ ~Creating(t) /\ DOMAIN users' = DOMAIN users
    BY <1>3 DEF SetNewEmail, At, Creating
  <2>2. \A x \in Tasks : Creating(x) => Creating(x)' /\ task'[x].row = task[x].row
    BY <1>3, <2>1, Going, Replying DEF SetNewEmail, Moves, Creating
  <2> QED BY <2>1, <2>2, WholeStays
<1>4. CASE UndoCreate(t)
  <2>1. RemoveUser(task[t].row) /\ UNCHANGED roles /\ ~Creating(t)
    BY <1>4 DEF UndoCreate, At, Creating
  <2>2. \A x \in Tasks \ {t} : task'[x] = task[x]
    BY <1>4, Replying DEF UndoCreate
  <2> QED BY <2>1, <2>2, RemoveUserWhole
<1> QED BY <1>1, <1>2, <1>3, <1>4, InsertUserWhole, MakeRoleWhole, AssignBuiltinWhole DEF CreateUser

\* A role is given or taken while nobody changes who is being created.
LEMMA AssignmentWhole ==
  ASSUME UsersAreWhole, NEW t \in Tasks, UNCHANGED <<users, roles>>, ~Creating(t),
         \A x \in Tasks \ {t} : task'[x] = task[x],
         NEW u, NEW r,
         \/ Unassigned(u, r)
         \/ UNCHANGED lapses /\ (UNCHANGED userRoles \/ userRoles' = userRoles \cup {<<u, r>>})
  PROVE  UsersAreWhole'
<1>1. \A x \in Tasks : Creating(x) => Creating(x)' /\ task'[x].row = task[x].row
  BY DEF Creating
<1>2. lapses \subseteq lapses'
  BY DEF Unassigned
<1>3. ASSUME NEW v \in DOMAIN users', NEW q \in DOMAIN roles, <<v, q>> \in userRoles
      PROVE  <<v, q>> \in userRoles' \/ \E l \in lapses' : l[1] = v
  <2>1. CASE Unassigned(u, r) /\ v = u /\ q = r
    <3>1. <<v, roles[r].name = "admin">> \in lapses'
      BY <1>3, <2>1 DEF Unassigned
    <3> QED BY <3>1
  <2>2. CASE Unassigned(u, r) /\ ~(v = u /\ q = r)
    BY <1>3, <2>2 DEF Unassigned
  <2> QED BY <1>3, <2>1, <2>2
<1> QED BY <1>1, <1>2, <1>3, WholeStays

\* Demotions are recorded.
LEMMA ManageUserWhole ==
  ASSUME Shape, UsersAreWhole, NEW t \in Tasks, ManageUser(t)
  PROVE  UsersAreWhole'
<1>1. ~Creating(t) /\ \A x \in Tasks \ {t} : task'[x] = task[x]
  BY ManageUserLands DEF Lands, ManageUser, FindUser, GetUser, SetEmail, SetPassword, FindAdminRole,
     SetAdmin, DeleteUser, ChangePassword, At, Creating
<1>2. CASE FindUser(t) \/ GetUser(t) \/ FindAdminRole(t)
  BY <1>1, <1>2, WholeWithoutChange DEF FindUser, GetUser, FindAdminRole, OnlyTask, index, accounts
<1>3. CASE SetEmail(t) \/ SetPassword(t) \/ ChangePassword(t)
  <2>1. UNCHANGED <<roles, userRoles, lapses>> /\ DOMAIN users' = DOMAIN users
    BY <1>3 DEF SetEmail, SetPassword, ChangePassword, Update
  <2>2. \A x \in Tasks : Creating(x) => Creating(x)' /\ task'[x].row = task[x].row
    BY <1>1 DEF Creating
  <2> QED BY <2>1, <2>2, WholeStays
<1>4. CASE SetAdmin(t)
  BY <1>1, <1>4, AssignmentWhole DEF SetAdmin, Assigned
<1>5. CASE DeleteUser(t)
  BY <1>1, <1>5, RemoveUserWhole DEF DeleteUser
<1> QED BY <1>2, <1>3, <1>4, <1>5 DEF ManageUser

\* So are roles taken away or deleted.
LEMMA ManageRoleWhole ==
  ASSUME Shape, UsersAreWhole, NEW t \in Tasks, ManageRole(t)
  PROVE  UsersAreWhole'
<1>1. ~Creating(t) /\ \A x \in Tasks \ {t} : task'[x] = task[x]
  BY ManageRoleLands DEF Lands, ManageRole, CreateRole, ReadBuiltin, DeleteRole, CheckUser, CheckRole,
     Assignment, At, Creating
<1>2. CASE ReadBuiltin(t) \/ CheckUser(t) \/ CheckRole(t)
  BY <1>1, <1>2, WholeWithoutChange DEF ReadBuiltin, CheckUser, CheckRole, OnlyTask, index, accounts
<1>3. CASE CreateRole(t)
  <2>1. UNCHANGED <<users, userRoles, lapses>> /\ DOMAIN roles \subseteq DOMAIN roles'
    BY <1>3 DEF CreateRole, NewRole, With
  <2>2. \A x \in Tasks : Creating(x) => Creating(x)' /\ task'[x].row = task[x].row
    BY <1>1 DEF Creating
  <2> QED BY <2>1, <2>2, WholeStays
<1>4. CASE DeleteRole(t)
  <2> DEFINE r == Req(t).role
  <2>1. /\ UNCHANGED users /\ DOMAIN roles' = DOMAIN roles \ {r}
        /\ userRoles' = {ur \in userRoles : ur[2] # r}
        /\ lapses' = lapses \cup {<<ur[1], FALSE>> : ur \in {x \in userRoles : x[2] = r}}
    BY <1>4 DEF DeleteRole, Without
  <2> HIDE DEF r
  <2>2. ASSUME NEW u, NEW q \in DOMAIN roles, <<u, q>> \in userRoles
        PROVE  \/ q \in DOMAIN roles' /\ <<u, q>> \in userRoles'
               \/ \E l \in lapses' : l[1] = u
    <3>1. CASE q = r
      <4>1. <<u, FALSE>> \in lapses'
        BY <2>1, <2>2, <3>1
      <4> QED BY <4>1
    <3> QED BY <2>1, <2>2, <3>1
  <2>3. \A x \in Tasks : Creating(x) => Creating(x)' /\ task'[x].row = task[x].row
    BY <1>1 DEF Creating
  <2> QED BY <2>1, <2>2, <2>3, WholeStays
<1>5. CASE Assignment(t)
  BY <1>1, <1>5, AssignmentWhole DEF Assignment, Assigned
<1> QED BY <1>2, <1>3, <1>4, <1>5 DEF ManageRole

\* No user is left without a role that nobody took: a creation that is under
\* way, was cut or failed, or a role that was taken or deleted, explains each.
THEOREM Wholeness == Spec => []UsersAreWhole
<1>1. Init => Shape /\ UsersAreWhole
  BY StartsAssumption, Beginning DEF Init, UsersAreWhole, RolesOf
<1>2. Shape /\ UsersAreWhole /\ [Next]_vars => (Shape /\ UsersAreWhole)'
  <2> SUFFICES ASSUME Shape, UsersAreWhole, [Next]_vars PROVE (Shape /\ UsersAreWhole)'
    OBVIOUS
  <2>1. CASE UNCHANGED vars
    <3>1. Shape'
      BY <2>1 DEF Shape, Handlers, vars, history, Op, Req
    <3>2. UsersAreWhole'
      BY <2>1, WholeStays DEF vars, history, index, accounts, Creating
    <3> QED BY <3>1, <3>2
  <2>2. CASE Crash
    <3>1. UNCHANGED <<users, roles, userRoles>> /\ lapses' = lapses \cup Orphans
      BY <2>2 DEF Crash, index, accounts
    <3>2. ASSUME NEW t \in Tasks, Creating(t)
          PROVE  \A u \in DOMAIN users' : u = task[t].row => Whole(u)'
      <4>1. Orphan(t) \subseteq lapses'
        BY <3>1, <3>2 DEF Orphans
      <4> QED BY <4>1 DEF Orphan, Whole
    <3> QED BY <2>2, <3>1, <3>2, WholeStays, CrashLands
  <2>3. ASSUME NEW t \in Tasks, Step(t) PROVE (Shape /\ UsersAreWhole)'
    <3>1. Shape' /\ \A x \in Tasks \ {t} : task'[x] = task[x]
      BY <2>3, StepsLand, Arriving
    <3>2. CASE \/ Authenticate(t) \/ ManageRule(t) \/ Annotate(t) \/ SetCoverArt(t)
               \/ UpdateTags(t) \/ Scan(t) \/ Read(t)
      <4>1. UNCHANGED <<users, roles, userRoles, lapses>> /\ ~Creating(t)
        BY <3>2 DEF Authenticate, Arrive, ReadPassword, ReadUser, LoadUser, LoadRoles,
          ManageRule, CheckScope, SetRule, GetRule, DeleteRule, Annotate, SetCoverArt, PutCover,
          UpdateCover, UndoCover, UpdateTags, CheckTrack, SetOverride, Scan, StoreCover,
          UpsertArtist, UpsertAlbum, SetAlbumCover, UpsertTrack, Vanish, Read, HasCover,
          ViewerRoles, ViewerAdmin, Query, Respond, OnlyTask, OnlyCovers, index, accounts, At,
          Creating
      <4> QED BY <3>1, <4>1, WholeWithoutChange
    <3>3. CASE Abort(t)
      BY <3>1, <3>3, WholeWithoutChange DEF Abort, index, accounts
    <3> QED BY <2>3, <3>1, <3>2, <3>3, CreateUserWhole, ManageUserWhole, ManageRoleWhole
      DEF Step, Shape
  <2> QED BY <2>1, <2>2, <2>3 DEF Next
<1> QED BY <1>1, <1>2, PTL DEF Spec
=============================================================================
