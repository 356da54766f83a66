-------------------------------- MODULE Access --------------------------------
(***************************************************************************)
(* What a user may do (packages/rbac, withApiHandler, the routes): a       *)
(* request reads the roles of its user anew, their permissions and scopes  *)
(* are put together, and the route asks for a permission and for a         *)
(* project.  Roles are given by admin/users, edited by admin/roles.        *)
(***************************************************************************)
EXTENDS WebHandlers, FiniteSets

CONSTANTS
  Sites,         \* projects, by code
  NoSite,        \* an assignment without a project
  EditedRoles    \* bound: the roles whose permissions are edited

VARIABLES
  grants,        \* the rows of user_roles of one user, without the deleted ones
  permissions,   \* roles.permissions
  projects       \* per code: none, made by the user, made by another, or deleted

accessVars == <<grants, permissions, projects, request, deaths>>

(* seed/defaults.js, with the permissions some route asks for.             *)
(* "Administrator" stands for every name that resolveScope lower-cases to  *)
(* "administrator" or "admin".                                             *)
SystemRoles ==
  [r \in {"Administrator", "Auditor", "Site Engineer", "Project Manager", "Sales Executive"} |->
     CASE r = "Administrator" -> {"*"}
       [] r = "Auditor" -> {"user.read", "project.read", "unit.read", "task.read", "audit.read"}
       [] r = "Site Engineer" ->
            {"project.read", "unit.read", "task.read", "drawing.manage", "rfi.manage", "issue.manage"}
       [] r = "Project Manager" ->
            {"user.read", "project.create", "project.read", "project.update", "unit.create", "unit.read",
             "unit.update", "task.create", "task.read", "task.update", "boq.manage", "drawing.manage",
             "rfi.manage", "issue.manage", "audit.read"}
       [] r = "Sales Executive" -> {"project.read", "unit.read"}]

(* A role the tenant made itself (POST admin/roles). *)
RoleNames == DOMAIN SystemRoles \cup {"Own"}

ASSUME AccessAssumption == NoSite \notin Sites /\ EditedRoles \subseteq RoleNames

(* What a role may be edited to: its first permissions, one, or all. *)
Editions(role) ==
  {IF role = "Own" THEN {} ELSE SystemRoles[role], {"project.update"}, {"*"}}

Assignment == [role : RoleNames, site : Sites \cup {NoSite}, located : BOOLEAN]

(* A route asks for a permission and, if it is inside a project, for the   *)
(* project; an auditor is kept from those that write.                      *)
Reads(permission) == [permission |-> permission, scoped |-> TRUE, writes |-> FALSE]
Writes(permission) == [permission |-> permission, scoped |-> TRUE, writes |-> TRUE]
Unscoped(route) == [route EXCEPT !.scoped = FALSE]

GetProjectsRoute == Unscoped(Reads("project.read"))
GetProjectRoute == Reads("project.read")
GetStructureRoute == Reads("project.read")
GetBlocksRoute == Reads("project.read")
GetTowersRoute == Reads("project.read")
GetFloorsRoute == Reads("project.read")
GetCategoriesRoute == Reads("project.read")
GetAllUnitsRoute == Unscoped(Reads("unit.read"))
GetUnitsRoute == Reads("unit.read")
GetUnitRoute == Reads("unit.read")
GetTasksRoute == Reads("task.read")
GetBoqRoute == Reads("boq.manage")
GetDrawingsRoute == Reads("drawing.manage")
GetRfisRoute == Reads("rfi.manage")
GetIssuesRoute == Reads("issue.manage")

PatchProjectRoute == Writes("project.update")
PostBlockRoute == Writes("project.update")
PostTowerRoute == Writes("project.update")
PostFloorRoute == Writes("project.update")
PostCategoryRoute == Writes("project.update")
PostUnitsRoute == Writes("unit.create")
GenerateUnitsRoute == Writes("unit.create")
PatchUnitRoute == Writes("unit.update")
PostTaskRoute == Writes("task.create")
PostDependencyRoute == Writes("task.update")
PostBoqRoute == Writes("boq.manage")
PostDrawingRoute == Writes("drawing.manage")
PostRfiRoute == Writes("rfi.manage")
PostIssueRoute == Writes("issue.manage")

Readings ==
  {GetProjectsRoute, GetProjectRoute, GetStructureRoute, GetBlocksRoute, GetTowersRoute, GetFloorsRoute,
   GetCategoriesRoute, GetAllUnitsRoute, GetUnitsRoute, GetUnitRoute, GetTasksRoute, GetBoqRoute,
   GetDrawingsRoute, GetRfisRoute, GetIssuesRoute}

(* Each of these is one INSERT or UPDATE, or what another module models.   *)
WritesInProject ==
  {PatchProjectRoute, PostBlockRoute, PostTowerRoute, PostFloorRoute, PostCategoryRoute, PostUnitsRoute,
   GenerateUnitsRoute, PatchUnitRoute, PostTaskRoute, PostDependencyRoute, PostBoqRoute, PostDrawingRoute,
   PostRfiRoute, PostIssueRoute}

PostProjectRoute == Unscoped(Writes("project.create"))
DeleteProjectRoute == Writes("project.delete")
PatchUserRoute == Unscoped(Writes("user.update"))
PatchRoleRoute == Unscoped(Writes("role.update"))

Route == Readings \cup WritesInProject \cup {PostProjectRoute, DeleteProjectRoute, PatchUserRoute, PatchRoleRoute}

AccessRequest ==
  {Idle} \cup [pc : {"check", "view", "write", "assign"}, by : {"user", "another"}, route : Route, site : Sites]

AccessInit ==
  /\ grants \in {{}} \cup {{g} : g \in Assignment}
  /\ permissions = [x \in RoleNames |-> IF x = "Own" THEN {} ELSE SystemRoles[x]]
  /\ projects = [s \in Sites |-> "none"]
  /\ HandlersInit

(* loadUserAuthz: names, permissions and projects of all assignments, each *)
(* put together on its own.                                                *)
Names == {g.role : g \in grants}
Rights == UNION {permissions[g.role] : g \in grants}
ProjectIds == {g.site : g \in grants} \ {NoSite}

(* resolveScope: "scoped" also for those who only have a location.         *)
Scope ==
  IF "Administrator" \in Names THEN "global"
  ELSE IF ProjectIds # {} \/ \E g \in grants : g.located THEN "scoped"
  ELSE "own"

Allowed(permission) == permission \in Rights \/ "*" \in Rights
AuditorWrites == "Auditor" \in Names /\ "Administrator" \notin Names

(* assertProjectAccess, which does not look whether the project exists *)
MayOpen(site) == Scope = "global" \/ (Scope = "scoped" /\ site \in ProjectIds)

There(site) == projects[site] \in {"mine", "another's"}

(* Mutant: a user with projects of his own sees those. *)
OwnOnlyListed(site) ==
  There(site) /\ (Scope = "global" \/ projects[site] = "mine")

(* filterProjectsByScope *)
Listed(site) ==
  /\ There(site)
  /\ \/ Scope = "global"
     \/ ProjectIds # {} /\ site \in ProjectIds
     \/ ProjectIds = {} /\ projects[site] = "mine"

-----------------------------------------------------------------------------
(* Reading changes nothing: only what the user reads is looked at.         *)
AnyRequest(r) ==
  /\ MayBegin(r)
  /\ \E by \in {"user", "another"}, route \in Route, site \in Sites :
       /\ route.writes \/ by = "user"
       /\ Becomes(r, [pc |-> "check", by |-> by, route |-> route, site |-> site])
  /\ UNCHANGED <<grants, permissions, projects, deaths>>

(* withApiHandler and assertProjectAccess *)
Passes(route, site) ==
  /\ Allowed(route.permission)
  /\ route.writes => ~AuditorWrites
  /\ route.scoped => MayOpen(site)

(* Another user is allowed all. *)
Check(r) ==
  LET q == request[r] IN
  /\ q.pc = "check"
  /\ Becomes(r, IF q.by = "another" \/ Passes(q.route, q.site)
                THEN [q EXCEPT !.pc = IF q.route.writes THEN "write" ELSE "view"] ELSE Idle)
  /\ UNCHANGED <<grants, permissions, projects, deaths>>

Read(r) ==
  /\ request[r].pc = "view"
  /\ Becomes(r, Idle)
  /\ UNCHANGED <<grants, permissions, projects, deaths>>

Writing(r, route) == request[r].pc = "write" /\ request[r].route = route

(* UNIQUE (code) counts deleted projects too. *)
InsertProject(r) ==
  LET q == request[r] IN
  /\ Writing(r, PostProjectRoute)
  /\ projects' = [projects EXCEPT ![q.site] =
       IF @ # "none" THEN @ ELSE IF q.by = "user" THEN "mine" ELSE "another's"]
  /\ Becomes(r, Idle)
  /\ UNCHANGED <<grants, permissions, deaths>>

(* deleted_at is set; what belongs to the project stays. *)
DeleteProject(r) ==
  /\ Writing(r, DeleteProjectRoute)
  /\ projects' = [projects EXCEPT ![request[r].site] = IF @ = "none" THEN @ ELSE "deleted"]
  /\ Becomes(r, Idle)
  /\ UNCHANGED <<grants, permissions, deaths>>

(* The row belongs to the project, which nobody asks whether it is there.  *)
WriteInProject(r) ==
  /\ request[r].pc = "write" /\ request[r].route \in WritesInProject
  /\ Becomes(r, Idle)
  /\ UNCHANGED <<grants, permissions, projects, deaths>>

EditRole(r) ==
  /\ Writing(r, PatchRoleRoute)
  /\ \E x \in EditedRoles : \E edition \in Editions(x) :
       permissions' = [permissions EXCEPT ![x] = edition]
  /\ Becomes(r, Idle)
  /\ UNCHANGED <<grants, projects, deaths>>

(* Mutant: the assignments a user has are kept. *)
KeepGrants(r) ==
  /\ Writing(r, PatchUserRoute)
  /\ Becomes(r, [request[r] EXCEPT !.pc = "assign"])
  /\ UNCHANGED <<grants, permissions, projects, deaths>>

(* PATCH admin/users/:id with a roleId, for the user of the model *)
DropGrants(r) ==
  /\ Writing(r, PatchUserRoute)
  /\ grants' = {}
  /\ Becomes(r, [request[r] EXCEPT !.pc = "assign"])
  /\ UNCHANGED <<permissions, projects, deaths>>

AddGrant(r) ==
  /\ request[r].pc = "assign"
  /\ \E g \in Assignment : grants' = grants \cup {g}
  /\ Becomes(r, Idle)
  /\ UNCHANGED <<permissions, projects, deaths>>

AccessNext == \E r \in Requests :
  \/ AnyRequest(r) \/ Check(r) \/ Read(r) \/ InsertProject(r) \/ DeleteProject(r) \/ WriteInProject(r)
  \/ EditRole(r) \/ DropGrants(r) \/ AddGrant(r)

AccessSpec == AccessInit /\ [][AccessNext]_accessVars
-----------------------------------------------------------------------------
AccessTypeOK ==
  /\ grants \subseteq Assignment
  /\ DOMAIN permissions = RoleNames /\ \A x \in EditedRoles : permissions[x] \in Editions(x)
  /\ projects \in [Sites -> {"none", "mine", "another's", "deleted"}]
  /\ request \in [Requests -> AccessRequest]
  /\ deaths \in 0 .. MaxDeaths

(* Requests in turn: a permission is used only in the project of the       *)
(* assignment it comes from, though permissions and projects are put       *)
(* together apart from one another: a change of role leaves one.           *)
PermissionStaysInItsProject ==
  \A r \in Requests :
    LET q == request[r] IN
    q # Idle /\ q.pc \in {"view", "write"} /\ q.by = "user" /\ q.route.scoped =>
      \E g \in grants :
        /\ permissions[g.role] \cap {"*", q.route.permission} # {}
        /\ g.role = "Administrator" \/ g.site = q.site

(* Whoever may open a project that is there also sees it in the list, for  *)
(* any assignments at once: two functions decide, from the same scope.     *)
OpenableIsListed ==
  \A s \in Sites : There(s) /\ MayOpen(s) => Listed(s)
=============================================================================
