---------------------------- MODULE Authorization ----------------------------
(***************************************************************************)
(* Who may do what: the role policy, the decisions core/auth/access.ts     *)
(* takes from the directory's rows, and what each route answers with them. *)
(*                                                                         *)
(* A caller is a user or a session.  A target is an asset or a job: it     *)
(* carries the project or the session it was made under, or is None when   *)
(* there is no such row.  An operator named after a route is its answer,   *)
(* an HTTP status; v is what the authorizer behind the policy says, and    *)
(* `found` whether what the route reads or writes next is there.           *)
(***************************************************************************)
EXTENDS Integers, FiniteSets

CONSTANTS Users, Workspaces, Projects, Sessions, None

VARIABLES
  workspaces,   \* table `workspaces`
  member,       \* table `members`: member[w][u], a role or None
  project       \* table `projects`: [workspace, owner] or None

-------------------------------------------------------------------------------
(* Who a request comes from: the middlewares of app.ts, in their order.     *)

\* What its two headers may hold: nothing, something that is not of the form,
\* something unknown, or the token of a user and the ID of a live session.
Bearers == {None, "malformed", "invalid"} \cup Users
SessionIds == {None, "malformed", "unknown"} \cup Sessions

\* The users a request may be taken to come from: none if it is refused.
AuthMiddleware(oidc, bearer) == IF ~oidc \/ bearer = None THEN {None} ELSE {bearer} \cap Users

\* An ID the server does not know is not adopted: a session is minted.
SessionMiddleware(user, id) ==
  IF user # None THEN {None}
  ELSE IF id = "malformed" THEN {}
  ELSE IF id \in Sessions THEN {id} ELSE Sessions

\* File delivery and the internal API carry no identity.
Exempt(route) == route \in {"files", "internal"}

Identify(route, oidc, bearer, id) ==
  IF Exempt(route) THEN {[user |-> None, session |-> None]}
  ELSE UNION {{[user |-> u, session |-> s] : s \in SessionMiddleware(u, id)} : u \in AuthMiddleware(oidc, bearer)}

Callers ==
  Identify("files", TRUE, None, None)
    \cup UNION {UNION {Identify("api", TRUE, bearer, id) : id \in SessionIds} : bearer \in Bearers}

\* The last kind is what a session's upload becomes that a user completes.
Targets == [project : Projects, session : {None}] \cup [project : {None}, session : Sessions \cup {None}]

-------------------------------------------------------------------------------
(* The policy (permissions.ts).                                            *)

Roles == {"viewer", "editor", "admin", "owner"}
Rank  == [viewer |-> 0, editor |-> 1, admin |-> 2, owner |-> 3]

POLICY ==
  [workspace |-> [read |-> "viewer", delete |-> "owner", manage_members |-> "admin", create_project |-> "admin"],
   project   |-> [read |-> "viewer", delete |-> "owner", read_asset |-> "viewer", create_asset |-> "editor",
                  update_asset |-> "editor", manage_hosts |-> "editor", delete_asset |-> "editor",
                  extract_asset |-> "editor", read_job |-> "viewer", retry_job |-> "editor",
                  manage_webhooks |-> "admin"]]

Allows(role, kind, action) == Rank[role] >= Rank[POLICY[kind][action]]
MutantCanManageRole(actor, role) == TRUE
CanManageRole(actor, role) == Rank[actor] >= Rank[role]

\* What is behind the policy: SimpleAuthorizer is the policy again; a Cerbos
\* server allows, denies, or gives no usable answer.
Verdicts == {"ok", "forbidden", "unavailable"}
Permitted(role, kind, action, v) == IF Allows(role, kind, action) THEN v ELSE "forbidden"

-------------------------------------------------------------------------------
(* Decisions (access.ts).                                                  *)

AuthorizeWorkspace(c, w, action, v) ==
  IF c.user = None \/ member[w][c.user] = None THEN "not_found"
  ELSE Permitted(member[w][c.user], "workspace", action, v)

MutantAuthorizeProject(c, p, action, v) ==
  LET w == project[p].workspace
  IN IF c.user = None \/ project[p] = None THEN "not_found"
     ELSE IF project[p].owner = c.user THEN "ok"
     ELSE IF w = None \/ member[w][c.user] = None THEN "forbidden"
     ELSE Permitted(member[w][c.user], "project", action, v)

\* A project without a workspace is its creator's alone; in a workspace its
\* creator has no say unless a member.
AuthorizeProject(c, p, action, v) ==
  LET w == project[p].workspace
  IN IF c.user = None \/ project[p] = None THEN "not_found"
     ELSE IF w = None THEN IF project[p].owner = c.user THEN "ok" ELSE "not_found"
     ELSE IF member[w][c.user] = None THEN "not_found"
     ELSE Permitted(member[w][c.user], "project", action, v)

AuthorizeOwned(c, t, action, v) ==
  IF t = None THEN "not_found"
  ELSE IF c.user = None THEN IF c.session # None /\ t.session = c.session THEN "ok" ELSE "not_found"
  ELSE IF t.project = None THEN "not_found"
  ELSE AuthorizeProject(c, t.project, action, v)

\* deniedResponse: a refused member of these routes is told 404 like a stranger; an
\* authorizer without an answer is 503 everywhere.
Hidden(d, then) == IF d = "ok" THEN then ELSE IF d = "unavailable" THEN 503 ELSE 404
If(found, s)    == IF found THEN s ELSE 404
SignedIn(c, s)  == IF c.user = None THEN 401 ELSE s

-------------------------------------------------------------------------------
(* Assets, versions and jobs (asset/handler, job/handler.ts).              *)

GetAsset(c, t, v)                == Hidden(AuthorizeOwned(c, t, "read_asset", v), 200)
ListFiles(c, t, v)               == Hidden(AuthorizeOwned(c, t, "read_asset", v), 200)
ListVersions(c, t, v)            == Hidden(AuthorizeOwned(c, t, "read_asset", v), 200)
GetVersion(c, t, v, found)       == Hidden(AuthorizeOwned(c, t, "read_asset", v), If(found, 200))
UpdateVersion(c, t, v, found)    == Hidden(AuthorizeOwned(c, t, "update_asset", v), If(found, 200))
SetActiveVersion(c, t, v, found) == Hidden(AuthorizeOwned(c, t, "update_asset", v), If(found, 200))
GetJob(c, t, v)                  == Hidden(AuthorizeOwned(c, t, "read_job", v), 200)
RetryJob(c, t, v, done)          == Hidden(AuthorizeOwned(c, t, "retry_job", v), IF done THEN 400 ELSE 200)

\* resolveUploadProject: an upload goes to the session or to a project named in a
\* header; p is None when there is none.
ResolveUploadProject(c, p, v) ==
  IF c.user = None THEN 201 ELSE IF p = None THEN 400
  ELSE Hidden(AuthorizeProject(c, p, "create_asset", v), 201)

\* denyAnonymousUpload comes first; the body may still be refused.
Upload(c, p, v, anonymous, fits) ==
  IF c.user = None /\ ~anonymous THEN 401
  ELSE LET s == ResolveUploadProject(c, p, v) IN IF s = 201 /\ ~fits THEN 413 ELSE s

(* The scope of a list (buildScopeClause): the targets whose columns match. *)
InProjects(S) == {t \in Targets : t.project \in S}
Rows(scope) == {p \in Projects : project[p] # None /\ project[p].workspace \in scope}
Scope(kind, x) ==
  IF kind = "session" THEN {t \in Targets : t.session = x}
  ELSE IF kind = "project" THEN InProjects({x})
  ELSE InProjects(Rows({x}))
MemberOf(u) == {w \in Workspaces : member[w][u] # None}
MutantVisible(u) == InProjects(Rows(MemberOf(u)) \cup {p \in Projects : project[p] # None /\ project[p].owner = u})
Visible(u) == InProjects(Rows(MemberOf(u)) \cup {p \in Rows({None}) : project[p].owner = u})

\* GET /assets: what is listed, nothing when the scope is refused.
ListAssets(c, p, w, v) ==
  IF c.user = None THEN IF c.session = None THEN {} ELSE Scope("session", c.session)
  ELSE IF p # None THEN IF AuthorizeProject(c, p, "read_asset", v) = "ok" THEN Scope("project", p) ELSE {}
  ELSE IF w # None THEN IF AuthorizeWorkspace(c, w, "read", v) = "ok" THEN Scope("workspace", w) ELSE {}
  ELSE Visible(c.user)

\* GET /jobs, by the same scopes.
ListJobs(c, p, w, v) ==
  IF c.user = None THEN IF c.session = None THEN {} ELSE Scope("session", c.session)
  ELSE IF p # None THEN IF AuthorizeProject(c, p, "read_job", v) = "ok" THEN Scope("project", p) ELSE {}
  ELSE IF w # None THEN IF AuthorizeWorkspace(c, w, "read", v) = "ok" THEN Scope("workspace", w) ELSE {}
  ELSE Visible(c.user)

-------------------------------------------------------------------------------
(* Site hosts (site/handler.ts).                                           *)

ListHosts(c, t, v)              == Hidden(AuthorizeOwned(c, t, "read_asset", v), 200)
ClaimHost(c, t, v, refusal)     == Hidden(AuthorizeOwned(c, t, "manage_hosts", v), refusal)
GetHost(c, t, v, found)         == Hidden(AuthorizeOwned(c, t, "read_asset", v), If(found, 200))
VerifyHost(c, t, v, refusal)    == Hidden(AuthorizeOwned(c, t, "manage_hosts", v), refusal)
UpdateHost(c, t, v, refusal)    == Hidden(AuthorizeOwned(c, t, "manage_hosts", v), refusal)
ReleaseHost(c, t, v, refusal)   == Hidden(AuthorizeOwned(c, t, "manage_hosts", v), refusal)
ListProjectHosts(c, p, v)       == SignedIn(c, Hidden(AuthorizeProject(c, p, "read", v), 200))

-------------------------------------------------------------------------------
(* Projects and workspaces (project/handler.ts, workspace/handler, me).    *)

GetProject(c, p, v)   == SignedIn(c, Hidden(AuthorizeProject(c, p, "read", v), 200))
ListProjects(c, w, v) ==
  IF c.user = None THEN {}
  ELSE IF w # None THEN IF AuthorizeWorkspace(c, w, "read", v) = "ok" THEN Rows({w}) ELSE {}
  ELSE {p \in Rows({None} \cup MemberOf(c.user)) : project[p].owner = c.user}

GetWorkspace(c, w, v) == SignedIn(c, Hidden(AuthorizeWorkspace(c, w, "read", v), If(w \in workspaces, 200)))
ListMembers(c, w, v)  == SignedIn(c, Hidden(AuthorizeWorkspace(c, w, "read", v), 200))
Me(c) == IF c.user = None THEN {} ELSE MemberOf(c.user) \cap workspaces
=============================================================================
