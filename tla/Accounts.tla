------------------------------- MODULE Accounts -------------------------------
(***************************************************************************)
(* Workspaces, their members and their projects under concurrent requests  *)
(* (core/workspace, core/member, core/project, adapters/sql/stores.ts).    *)
(*                                                                         *)
(* A request is authorised when it arrives and then runs from await to     *)
(* await: `slot` holds the requests in flight, each with the role its      *)
(* caller had and with what it has read.  No two statements of a request   *)
(* are in one transaction.                                                 *)
(***************************************************************************)
EXTENDS Authorization

CONSTANTS
  Slots,          \* requests in flight
  GivenRoles,     \* the roles that requests ask for
  Answers         \* what the authorizer behind the policy may say

ASSUME AccountsAssumption ==
  /\ GivenRoles \subseteq Roles /\ Answers \subseteq Verdicts
  /\ None \notin Roles \cup Users \cup Workspaces \cup Projects \cup Sessions
  /\ None \notin Targets

VARIABLES
  slot,
  used,           \* ids of workspaces and projects handed out
  calm            \* history: requests came one at a time and none died

directory == <<workspaces, member, project>>
vars == <<directory, slot, used, calm>>

Idle == [op |-> "idle", at |-> "", actor |-> None, self |-> None, w |-> None, subject |-> None,
         role |-> None, todo |-> {}]

Init ==
  /\ workspaces = {} /\ member = [w \in Workspaces |-> [u \in Users |-> None]]
  /\ project = [p \in Projects |-> None]
  /\ slot = [s \in Slots |-> Idle] /\ used = {} /\ calm = TRUE

Quiet == \A s \in Slots : slot[s] = Idle

Caller(u) == [user |-> u, session |-> None]
Self(u, w) == IF w = None THEN None ELSE member[w][u]

\* A request that passed its checks goes on in slot s; u's role is kept.
Started(op, at, u, w, subject, role) ==
  [op |-> op, at |-> at, actor |-> u, self |-> Self(u, w), w |-> w, subject |-> subject, role |-> role, todo |-> {}]
Start(s, op, at, u, w, subject, role) ==
  /\ slot[s] = Idle
  /\ slot' = [slot EXCEPT ![s] = Started(op, at, u, w, subject, role)]
  /\ calm' = (calm /\ Quiet)

At(s, ops, at) == slot[s].op \in ops /\ slot[s].at = at
GoTo(s, at) == slot' = [slot EXCEPT ![s].at = at] /\ UNCHANGED calm
Return(s) == slot' = [slot EXCEPT ![s] = Idle] /\ UNCHANGED calm
Subject(s) == member[slot[s].w][slot[s].subject]

\* INSERT OR REPLACE and DELETE of one row of `members`.
SetMember(w, u, role) == member' = [member EXCEPT ![w][u] = role]

\* The rows of a workspace that are owners, and the check made on that list.
Owners(w) == {u \in Users : member[w][u] = "owner"}
MutantLastOwner(w) == Owners(w) = {}
LastOwner(w) == Cardinality(Owners(w)) <= 1

-------------------------------------------------------------------------------
(* Workspaces: the row, then the creator as its owner.                     *)

CreateWorkspace(s, u, w) ==
  /\ w \notin used
  /\ Start(s, "create_workspace", "owner", u, w, u, "owner")
  /\ workspaces' = workspaces \cup {w} /\ used' = used \cup {w}
  /\ UNCHANGED <<member, project>>

SaveOwner(s) ==
  /\ At(s, {"create_workspace"}, "owner")
  /\ SetMember(slot[s].w, slot[s].subject, "owner")
  /\ Return(s)
  /\ UNCHANGED <<workspaces, project, used>>

DeleteWorkspace(s, u, w) ==
  /\ \E v \in Answers : AuthorizeWorkspace(Caller(u), w, "delete", v) = "ok"
  /\ Start(s, "delete_workspace", "find", u, w, None, None)
  /\ UNCHANGED <<directory, used>>

FindWorkspace(s) ==
  /\ At(s, {"delete_workspace"}, "find")
  /\ IF slot[s].w \in workspaces THEN GoTo(s, "projects") ELSE Return(s)
  /\ UNCHANGED <<directory, used>>

MutantNoProjects(w) == TRUE
NoProjects(w) == Rows({w}) = {}

CheckProjects(s) ==
  /\ At(s, {"delete_workspace"}, "projects")
  /\ IF NoProjects(slot[s].w) THEN GoTo(s, "list") ELSE Return(s)
  /\ UNCHANGED <<directory, used>>

\* The members are listed once and deleted one by one, then the workspace.
ListRows(s) ==
  /\ At(s, {"delete_workspace"}, "list")
  /\ slot' = [slot EXCEPT ![s].at = "delete", ![s].todo = {u \in Users : member[slot[s].w][u] # None}]
  /\ UNCHANGED <<directory, used, calm>>

DeleteRow(s) ==
  /\ At(s, {"delete_workspace"}, "delete")
  /\ \E u \in slot[s].todo :
       /\ SetMember(slot[s].w, u, None)
       /\ slot' = [slot EXCEPT ![s].todo = @ \ {u}]
  /\ UNCHANGED <<workspaces, project, used, calm>>

DeleteWorkspaceRow(s) ==
  /\ At(s, {"delete_workspace"}, "delete") /\ slot[s].todo = {}
  /\ workspaces' = workspaces \ {slot[s].w}
  /\ Return(s)
  /\ UNCHANGED <<member, project, used>>

-------------------------------------------------------------------------------
(* Members: the handler checks roles, the use case reads the row again.    *)

AddMember(s, u, w, subject, role) ==
  /\ \E v \in Answers : AuthorizeWorkspace(Caller(u), w, "manage_members", v) = "ok"
  /\ CanManageRole(member[w][u], role)
  /\ Start(s, "add", "find", u, w, subject, role)
  /\ UNCHANGED <<directory, used>>

FindMember(s) ==
  /\ At(s, {"add"}, "find")
  /\ IF Subject(s) = None THEN GoTo(s, "save") ELSE Return(s)
  /\ UNCHANGED <<directory, used>>

UpdateMemberRole(s, u, w, subject, role) ==
  /\ \E v \in Answers : AuthorizeWorkspace(Caller(u), w, "manage_members", v) = "ok"
  /\ Start(s, "update", "target", u, w, subject, role)
  /\ UNCHANGED <<directory, used>>

RemoveMember(s, u, w, subject) ==
  /\ \E v \in Answers : AuthorizeWorkspace(Caller(u), w, "manage_members", v) = "ok"
  /\ Start(s, "remove", "target", u, w, subject, None)
  /\ UNCHANGED <<directory, used>>

\* Nobody changes a role above their own, nor gives one.
CheckTarget(s) ==
  /\ At(s, {"update", "remove"}, "target")
  /\ IF /\ Subject(s) # None
        /\ CanManageRole(slot[s].self, Subject(s))
        /\ slot[s].op = "update" => CanManageRole(slot[s].self, slot[s].role)
     THEN GoTo(s, "existing") ELSE Return(s)
  /\ UNCHANGED <<directory, used>>

\* The row is read again; an owner who loses the role must not be the last one.
ReadExisting(s) ==
  /\ At(s, {"update", "remove"}, "existing")
  /\ IF Subject(s) = None THEN Return(s)
     ELSE GoTo(s, IF Subject(s) = "owner" /\ slot[s].role # "owner" THEN "count" ELSE "save")
  /\ UNCHANGED <<directory, used>>

CountOwners(s) ==
  /\ At(s, {"update", "remove"}, "count")
  /\ IF LastOwner(slot[s].w) THEN Return(s) ELSE GoTo(s, "save")
  /\ UNCHANGED <<directory, used>>

\* The role asked for, or None for a removal.
SaveMember(s) ==
  /\ At(s, {"add", "update", "remove"}, "save")
  /\ SetMember(slot[s].w, slot[s].subject, slot[s].role)
  /\ Return(s)
  /\ UNCHANGED <<workspaces, project, used>>

-------------------------------------------------------------------------------
(* Projects.                                                               *)

CreateProject(s, u, p, w) ==
  /\ p \notin used
  /\ w # None => \E v \in Answers : AuthorizeWorkspace(Caller(u), w, "create_project", v) = "ok"
  /\ Start(s, "create_project", "save", u, w, p, None)
  /\ used' = used \cup {p}
  /\ UNCHANGED directory

SaveProject(s) ==
  /\ At(s, {"create_project"}, "save")
  /\ project' = [project EXCEPT ![slot[s].subject] = [workspace |-> slot[s].w, owner |-> slot[s].actor]]
  /\ Return(s)
  /\ UNCHANGED <<workspaces, member, used>>

DeleteProject(s, u, p) ==
  /\ \E v \in Answers : AuthorizeProject(Caller(u), p, "delete", v) = "ok"
  /\ Start(s, "delete_project", "delete", u, None, p, None)
  /\ UNCHANGED <<directory, used>>

DeleteProjectRow(s) ==
  /\ At(s, {"delete_project"}, "delete")
  /\ project' = [project EXCEPT ![slot[s].subject] = None]
  /\ Return(s)
  /\ UNCHANGED <<workspaces, member, used>>

-------------------------------------------------------------------------------
\* The isolate dies, or a statement fails: the request ends where it is.
Die(s) ==
  /\ slot[s] # Idle
  /\ slot' = [slot EXCEPT ![s] = Idle] /\ calm' = FALSE
  /\ UNCHANGED <<directory, used>>

Request(s) ==
  \E u \in Users :
    \/ \E w \in Workspaces :
         \/ CreateWorkspace(s, u, w) \/ DeleteWorkspace(s, u, w)
         \/ \E subject \in Users :
              \/ RemoveMember(s, u, w, subject)
              \/ \E role \in GivenRoles : AddMember(s, u, w, subject, role) \/ UpdateMemberRole(s, u, w, subject, role)
    \/ \E p \in Projects : DeleteProject(s, u, p) \/ \E w \in Workspaces \cup {None} : CreateProject(s, u, p, w)

Serve(s) ==
  \/ SaveOwner(s) \/ FindWorkspace(s) \/ CheckProjects(s) \/ ListRows(s) \/ DeleteRow(s) \/ DeleteWorkspaceRow(s)
  \/ FindMember(s) \/ CheckTarget(s) \/ ReadExisting(s) \/ CountOwners(s) \/ SaveMember(s)
  \/ SaveProject(s) \/ DeleteProjectRow(s)
  \/ Die(s)

Next == \E s \in Slots : Request(s) \/ Serve(s)

Spec == Init /\ [][Next]_vars

-------------------------------------------------------------------------------
(* Properties.                                                             *)

Requests ==
  [op : {"idle", "create_workspace", "delete_workspace", "add", "update", "remove", "create_project", "delete_project"},
   at : {"", "owner", "find", "projects", "list", "delete", "target", "existing", "count", "save"},
   actor : Users \cup {None}, self : Roles \cup {None}, w : Workspaces \cup {None},
   subject : Users \cup Projects \cup {None}, role : Roles \cup {None}, todo : SUBSET Users]

\* Every variable keeps its type.
TypeOK ==
  /\ workspaces \subseteq Workspaces
  /\ member \in [Workspaces -> [Users -> Roles \cup {None}]]
  /\ project \in [Projects -> {None} \cup [workspace : Workspaces \cup {None}, owner : Users]]
  /\ slot \in [Slots -> Requests]
  /\ used \subseteq Workspaces \cup Projects
  /\ calm \in BOOLEAN

\* Whatever requests interleave and die, a role is only ever written by the request
\* that created the workspace or for someone who managed members and held at least
\* that role when authorised (canManageRole in add-member and update-member-role):
\* an admin cannot make an owner, themselves included.
RolesComeFromAbove ==
  [][\A w \in Workspaces, u \in Users :
       member'[w][u] \notin {None, member[w][u]} =>
         \E s \in Slots :
           /\ slot[s].w = w /\ slot[s].subject = u
           /\ \/ slot[s].op = "create_workspace"
              \/ slot[s].self \in {"admin", "owner"} /\ Rank[member'[w][u]] <= Rank[slot[s].self]]_vars

\* As long as requests come one at a time, the last-owner checks of removal and
\* demotion leave every workspace with an owner. (Two owners who demote each other
\* at once both count the other.)
OwnerRemainsInSequence ==
  calm /\ Quiet => \A w \in workspaces : Owners(w) # {}

\* As long as requests come one at a time, no member and no project is left in a
\* workspace that is deleted.
NothingOutlivesItsWorkspace ==
  calm /\ Quiet => /\ \A w \in Workspaces, u \in Users : member[w][u] # None => w \in workspaces
                   /\ \A p \in Projects : project[p] # None => project[p].workspace \in workspaces \cup {None}

\* What lists owe to reads of the same caller, under one verdict of the authorizer.
ListsFollow(c, v) ==
  /\ {t \in Targets : GetAsset(c, t, v) = 200} \subseteq ListAssets(c, None, None, v)
  /\ {t \in Targets : GetJob(c, t, v) = 200} \subseteq ListJobs(c, None, None, v)
  /\ c.user # None => \A p \in Projects :
       /\ ListAssets(c, p, None, v) = {t \in Targets : t.project = p /\ GetAsset(c, t, v) = 200}
       /\ ListJobs(c, p, None, v) = {t \in Targets : t.project = p /\ GetJob(c, t, v) = 200}

\* The two ways to answer "who sees what" agree, in every state that races and
\* crashes leave behind (all of them are also met with no request in flight, since
\* a request may die anywhere). While the authorizer allows what the roles allow, the
\* lists, which SQL clauses scope, hold exactly what the single reads, which access.ts
\* decides, answer 200 to. Whatever it answers, a list of one project follows the reads
\* of that project's assets and jobs, and the unscoped lists miss nothing that can be
\* read; they may hold more, for they are decided per workspace and a policy denying
\* one project hides none of its rows from them (README.md:340, 362).
ListsMatchReads ==
  Quiet => \A c \in Callers :
    /\ ListAssets(c, None, None, "ok") = {t \in Targets : GetAsset(c, t, "ok") = 200}
    /\ ListJobs(c, None, None, "ok") = {t \in Targets : GetJob(c, t, "ok") = 200}
    /\ c.user # None =>
         /\ \A p \in Projects : /\ ListAssets(c, p, None, "ok") \subseteq ListAssets(c, None, None, "ok")
                                /\ ListAssets(c, p, None, "ok") = {} <=> GetProject(c, p, "ok") # 200
         /\ \A w \in Workspaces : /\ ListAssets(c, None, w, "ok") \subseteq ListAssets(c, None, None, "ok")
                                  /\ \A p \in ListProjects(c, w, "ok") : GetProject(c, p, "ok") = 200
         /\ \A p \in ListProjects(c, None, "ok") : GetProject(c, p, "ok") = 200
         /\ Me(c) = {w \in Workspaces : GetWorkspace(c, w, "ok") = 200}
    /\ \A v \in Verdicts : ListsFollow(c, v)

\* A caller's share in a target, said without access.ts.
Stranger(c, t) ==
  /\ t.session = None \/ c.user # None \/ c.session # t.session
  /\ \A p \in Projects : t.project = p /\ project[p] # None /\ c.user # None =>
       IF project[p].workspace = None THEN project[p].owner # c.user
       ELSE member[project[p].workspace][c.user] = None

AnswersAbout(c, t, v) ==
  <<GetAsset(c, t, v), ListFiles(c, t, v), ListVersions(c, t, v), GetVersion(c, t, v, TRUE),
    UpdateVersion(c, t, v, TRUE), SetActiveVersion(c, t, v, TRUE), GetJob(c, t, v), RetryJob(c, t, v, FALSE),
    ListHosts(c, t, v), ClaimHost(c, t, v, 201), GetHost(c, t, v, TRUE), VerifyHost(c, t, v, 409),
    UpdateHost(c, t, v, 409), ReleaseHost(c, t, v, 204)>>

NothingToSee(c, t, v) ==
  /\ AnswersAbout(c, t, v) = AnswersAbout(c, None, v)
  /\ \A p \in Projects : t.project = p =>
       /\ Upload(c, p, v, TRUE, TRUE) \in {201, 404} /\ (c.user # None => Upload(c, p, v, TRUE, TRUE) = 404)
       /\ ListProjectHosts(c, p, v) = GetProject(c, p, v) /\ GetProject(c, p, v) \in {401, 404}

\* To someone with no share in it, a target that exists looks like one that does not
\* on every route (access.ts answers not_found before the policy or the authorizer
\* is asked), and uploads to its project and the project itself answer 404.
StrangersSeeNothing ==
  Quiet => \A c \in Callers, t \in Targets, v \in Verdicts : Stranger(c, t) => NothingToSee(c, t, v)
=============================================================================
