---------------------------- MODULE AccountsProofs ----------------------------
(***************************************************************************)
(* Accounts for any users, workspaces, projects, sessions and requests at  *)
(* once: types, where roles come from, what a calm directory keeps, and    *)
(* that lists and single reads tell the same, to strangers nothing.        *)
(***************************************************************************)
EXTENDS Accounts, FiniteSetTheorems, TLAPS

-------------------------------------------------------------------------------
(* The invariant: what a request holds across its awaits.                  *)

\* Requests about members know who asks, where and about whom; whoever asks
\* manages members, and a role on its way to the table is one they may give.
Manages(r) == r.op \in {"add", "update", "remove"}
Checked(r) == r.op = "add" \/ (r.op = "update" /\ r.at \in {"existing", "count", "save"})

RequestOK(r) ==
  /\ r.op = "create_workspace" \/ Manages(r) => r.w \in Workspaces /\ r.subject \in Users
  /\ r.op = "delete_workspace" => r.w \in Workspaces
  /\ r.op = "create_project" => r.actor \in Users
  /\ Manages(r) => r.self \in {"admin", "owner"}
  /\ r.op = "remove" => r.role = None
  /\ r.op \in {"add", "update"} => r.role \in Roles
  /\ Checked(r) => Rank[r.role] <= Rank[r.self]

RequestsInv == \A s \in Slots : RequestOK(slot[s])
TypeInv == TypeOK /\ RequestsInv

\* As long as requests come one at a time, one at most is in flight;
Alone == \A s, t \in Slots : slot[s].op # "idle" /\ slot[t].op # "idle" => s = t

\* members and projects have their workspace;
MembersHome == \A w \in Workspaces, u \in Users : member[w][u] # None => w \in workspaces
ProjectsHome == \A p \in Projects : project[p] # None => project[p].workspace \in workspaces \cup {None}

\* a workspace has an owner, unless it is being made or taken apart;
Unled(r, w) == /\ r.w = w
               /\ r.op = "create_workspace" \/ (r.op = "delete_workspace" /\ r.at = "delete")
HasOwner(w) == \E u \in Users : member[w][u] = "owner"
Led == \A w \in workspaces : HasOwner(w) \/ \E s \in Slots : Unled(slot[s], w)

\* and what a request has found is still so.
Holds(s) ==
  LET r == slot[s] IN
  /\ r.op = "create_workspace" \/ Manages(r) => r.w \in workspaces
  /\ r.op = "create_project" => r.w \in workspaces \cup {None}
  /\ r.op = "add" /\ r.at = "save" => Subject(s) = None
  /\ r.op \in {"update", "remove"} /\ r.at = "count" => Subject(s) = "owner"
  /\ r.op \in {"update", "remove"} /\ r.at = "save" =>
       (Subject(s) = "owner" /\ r.role # "owner" => ~LastOwner(r.w))
  /\ r.op = "delete_workspace" /\ r.at \in {"list", "delete"} => NoProjects(r.w)
  /\ r.op = "delete_workspace" /\ r.at = "delete" => \A u \in Users : member[r.w][u] # None => u \in r.todo

CalmInv == calm => Alone /\ MembersHome /\ ProjectsHome /\ Led /\ \A s \in Slots : Holds(s)

-------------------------------------------------------------------------------
(* Types.                                                                  *)

LEMMA IdleOK == Idle \in Requests /\ Idle.op = "idle" /\ Idle.at = "" /\ Idle.w = None
BY DEF Idle, Requests

\* One request goes on; the others are where they were.
LEMMA PutSlot ==
  ASSUME TypeInv, NEW s \in Slots, NEW r \in Requests, r.op # "idle" => RequestOK(r),
         slot' = [slot EXCEPT ![s] = r]
  PROVE  /\ slot' \in [Slots -> Requests] /\ RequestsInv'
         /\ slot'[s] = r /\ \A t \in Slots \ {s} : slot'[t] = slot[t]
<1>1. slot' \in [Slots -> Requests] /\ slot'[s] = r /\ \A t \in Slots \ {s} : slot'[t] = slot[t]
  BY DEF TypeInv, TypeOK
<1>2. ASSUME NEW t \in Slots PROVE RequestOK(slot'[t])
  <2>1. CASE t # s BY <2>1, <1>1 DEF TypeInv, RequestsInv
  <2>2. CASE t = s /\ r.op # "idle" BY <2>2, <1>1
  <2>3. CASE t = s /\ r.op = "idle" BY <2>3, <1>1 DEF RequestOK, Manages, Checked
  <2>4. QED BY <2>1, <2>2, <2>3
<1>3. QED BY <1>1, <1>2 DEF RequestsInv

LEMMA GoToType ==
  ASSUME TypeInv, NEW s \in Slots, NEW at, GoTo(s, at),
         at \in {"projects", "list", "save", "existing", "count"},
         LET r == [slot[s] EXCEPT !.at = at] IN Checked(r) => Checked(slot[s]) \/ Rank[r.role] <= Rank[r.self]
  PROVE  /\ slot' \in [Slots -> Requests] /\ RequestsInv'
         /\ slot'[s] = [slot[s] EXCEPT !.at = at] /\ \A t \in Slots \ {s} : slot'[t] = slot[t]
<1> DEFINE r == [slot[s] EXCEPT !.at = at]
<1>1. slot[s] \in Requests /\ RequestOK(slot[s]) BY DEF TypeInv, TypeOK, RequestsInv
<1>2. r \in Requests BY <1>1 DEF Requests
<1>3. RequestOK(r) BY <1>1 DEF RequestOK, Manages, Checked, Requests
<1>4. slot' = [slot EXCEPT ![s] = r] BY DEF GoTo, TypeInv, TypeOK
<1>5. QED BY <1>2, <1>3, <1>4, PutSlot

LEMMA ReturnType ==
  ASSUME TypeInv, NEW s \in Slots, slot' = [slot EXCEPT ![s] = Idle]
  PROVE  /\ slot' \in [Slots -> Requests] /\ RequestsInv'
         /\ slot'[s] = Idle /\ \A t \in Slots \ {s} : slot'[t] = slot[t]
BY IdleOK, PutSlot

LEMMA StartType ==
  ASSUME TypeInv, NEW s \in Slots, NEW op, NEW at, NEW u \in Users, NEW w \in Workspaces \cup {None},
         NEW subject, NEW role, Start(s, op, at, u, w, subject, role),
         Started(op, at, u, w, subject, role) \in Requests,
         RequestOK(Started(op, at, u, w, subject, role))
  PROVE  /\ slot' \in [Slots -> Requests] /\ RequestsInv' /\ calm' \in BOOLEAN
         /\ slot'[s] = Started(op, at, u, w, subject, role) /\ \A t \in Slots \ {s} : slot'[t] = slot[t]
<1>1. slot' = [slot EXCEPT ![s] = Started(op, at, u, w, subject, role)] BY DEF Start
<1>2. calm' \in BOOLEAN BY DEF Start, TypeInv, TypeOK
<1>3. QED BY <1>1, <1>2, PutSlot

LEMMA SelfType ==
  ASSUME TypeInv, NEW u \in Users, NEW w \in Workspaces \cup {None}
  PROVE  Self(u, w) \in Roles \cup {None}
BY DEF TypeInv, TypeOK, Self

\* Who passes a check on a workspace is a member of at least that rank.
LEMMA AdmittedMember ==
  ASSUME TypeInv, NEW u \in Users, NEW w \in Workspaces, NEW v, NEW action,
         AuthorizeWorkspace(Caller(u), w, action, v) = "ok"
  PROVE  /\ member[w][u] \in Roles /\ Self(u, w) = member[w][u]
         /\ Allows(member[w][u], "workspace", action)
<1>1. w # None BY AccountsAssumption
<1>2. QED BY <1>1 DEF AuthorizeWorkspace, Caller, Permitted, Self, TypeInv, TypeOK

LEMMA ManagersOnly ==
  ASSUME NEW role \in Roles, Allows(role, "workspace", "manage_members")
  PROVE  role \in {"admin", "owner"}
BY DEF Allows, POLICY, Roles, Rank

LEMMA SetMemberType ==
  ASSUME TypeInv, NEW w \in Workspaces, NEW u \in Users, NEW role \in Roles \cup {None}, SetMember(w, u, role)
  PROVE  /\ member' \in [Workspaces -> [Users -> Roles \cup {None}]]
         /\ \A x \in Workspaces, y \in Users :
              member'[x][y] = IF x = w /\ y = u THEN role ELSE member[x][y]
BY DEF SetMember, TypeInv, TypeOK

\* What is left to show of a step: the rows it wrote.
LEMMA DirectoryType ==
  ASSUME slot' \in [Slots -> Requests], RequestsInv', calm' \in BOOLEAN,
         workspaces' \subseteq Workspaces, member' \in [Workspaces -> [Users -> Roles \cup {None}]],
         project' \in [Projects -> {None} \cup [workspace : Workspaces \cup {None}, owner : Users]],
         used' \subseteq Workspaces \cup Projects
  PROVE  TypeInv'
BY DEF TypeInv, TypeOK

\* The same where no row is written.
LEMMA SameDirectory ==
  ASSUME TypeInv, slot' \in [Slots -> Requests], RequestsInv', calm' \in BOOLEAN, UNCHANGED <<directory, used>>
  PROVE  TypeInv'
BY DEF TypeInv, TypeOK, directory

LEMMA RequestType ==
  ASSUME TypeInv, NEW s \in Slots, Request(s)
  PROVE  TypeInv'
<1>0. PICK u \in Users :
        \/ \E w \in Workspaces :
             \/ CreateWorkspace(s, u, w) \/ DeleteWorkspace(s, u, w)
             \/ \E subject \in Users :
                  \/ RemoveMember(s, u, w, subject)
                  \/ \E role \in GivenRoles : AddMember(s, u, w, subject, role) \/ UpdateMemberRole(s, u, w, subject, role)
        \/ \E p \in Projects : DeleteProject(s, u, p) \/ \E w \in Workspaces \cup {None} : CreateProject(s, u, p, w)
  BY DEF Request
<1>1. ASSUME NEW w \in Workspaces, CreateWorkspace(s, u, w) PROVE TypeInv'
  <2> DEFINE r == Started("create_workspace", "owner", u, w, u, "owner")
  <2>1. r \in Requests BY SelfType DEF Started, Requests, Roles
  <2>2. RequestOK(r) BY DEF Started, RequestOK, Manages, Checked
  <2>3. /\ slot' \in [Slots -> Requests] /\ RequestsInv' /\ calm' \in BOOLEAN
    BY <1>1, <2>1, <2>2, StartType DEF CreateWorkspace
  <2>4. QED BY <1>1, <2>3, DirectoryType DEF CreateWorkspace, TypeInv, TypeOK
<1>2. ASSUME NEW w \in Workspaces, DeleteWorkspace(s, u, w) PROVE TypeInv'
  <2> DEFINE r == Started("delete_workspace", "find", u, w, None, None)
  <2>1. r \in Requests BY SelfType DEF Started, Requests
  <2>2. RequestOK(r) BY DEF Started, RequestOK, Manages, Checked
  <2>3. slot' \in [Slots -> Requests] /\ RequestsInv' /\ calm' \in BOOLEAN
    BY <1>2, <2>1, <2>2, StartType DEF DeleteWorkspace
  <2>4. QED BY <1>2, <2>3, SameDirectory DEF DeleteWorkspace
<1>3. ASSUME NEW w \in Workspaces, NEW subject \in Users, RemoveMember(s, u, w, subject) PROVE TypeInv'
  <2> DEFINE r == Started("remove", "target", u, w, subject, None)
  <2>1. r \in Requests BY SelfType DEF Started, Requests
  <2>2. Self(u, w) \in {"admin", "owner"} BY <1>3, AdmittedMember, ManagersOnly DEF RemoveMember
  <2>3. RequestOK(r) BY <2>2 DEF Started, RequestOK, Manages, Checked
  <2>4. slot' \in [Slots -> Requests] /\ RequestsInv' /\ calm' \in BOOLEAN
    BY <1>3, <2>1, <2>3, StartType DEF RemoveMember
  <2>5. QED BY <1>3, <2>4, SameDirectory DEF RemoveMember
<1>4. ASSUME NEW w \in Workspaces, NEW subject \in Users, NEW role \in GivenRoles, AddMember(s, u, w, subject, role)
      PROVE  TypeInv'
  <2> DEFINE r == Started("add", "find", u, w, subject, role)
  <2>0. role \in Roles BY AccountsAssumption
  <2>1. r \in Requests BY <2>0, SelfType DEF Started, Requests
  <2>2. /\ Self(u, w) \in {"admin", "owner"} /\ Self(u, w) = member[w][u]
    BY <1>4, AdmittedMember, ManagersOnly DEF AddMember
  <2>3. Rank[role] <= Rank[Self(u, w)]
    BY <1>4, <2>0, <2>2 DEF AddMember, CanManageRole, Rank, Roles
  <2>4. RequestOK(r) BY <2>0, <2>2, <2>3 DEF Started, RequestOK, Manages, Checked
  <2>5. slot' \in [Slots -> Requests] /\ RequestsInv' /\ calm' \in BOOLEAN
    BY <1>4, <2>1, <2>4, StartType DEF AddMember
  <2>6. QED BY <1>4, <2>5, SameDirectory DEF AddMember
<1>5. ASSUME NEW w \in Workspaces, NEW subject \in Users, NEW role \in GivenRoles,
             UpdateMemberRole(s, u, w, subject, role)
      PROVE  TypeInv'
  <2> DEFINE r == Started("update", "target", u, w, subject, role)
  <2>0. role \in Roles BY AccountsAssumption
  <2>1. r \in Requests BY <2>0, SelfType DEF Started, Requests
  <2>2. Self(u, w) \in {"admin", "owner"} BY <1>5, AdmittedMember, ManagersOnly DEF UpdateMemberRole
  <2>3. RequestOK(r) BY <2>0, <2>2 DEF Started, RequestOK, Manages, Checked
  <2>4. slot' \in [Slots -> Requests] /\ RequestsInv' /\ calm' \in BOOLEAN
    BY <1>5, <2>1, <2>3, StartType DEF UpdateMemberRole
  <2>5. QED BY <1>5, <2>4, SameDirectory DEF UpdateMemberRole
<1>6. ASSUME NEW p \in Projects, DeleteProject(s, u, p) PROVE TypeInv'
  <2> DEFINE r == Started("delete_project", "delete", u, None, p, None)
  <2>1. r \in Requests BY SelfType DEF Started, Requests
  <2>2. RequestOK(r) BY DEF Started, RequestOK, Manages, Checked
  <2>3. slot' \in [Slots -> Requests] /\ RequestsInv' /\ calm' \in BOOLEAN
    BY <1>6, <2>1, <2>2, StartType DEF DeleteProject
  <2>4. QED BY <1>6, <2>3, SameDirectory DEF DeleteProject
<1>7. ASSUME NEW p \in Projects, NEW w \in Workspaces \cup {None}, CreateProject(s, u, p, w) PROVE TypeInv'
  <2> DEFINE r == Started("create_project", "save", u, w, p, None)
  <2>1. r \in Requests BY SelfType DEF Started, Requests
  <2>2. RequestOK(r) BY DEF Started, RequestOK, Manages, Checked
  <2>3. slot' \in [Slots -> Requests] /\ RequestsInv' /\ calm' \in BOOLEAN
    BY <1>7, <2>1, <2>2, StartType DEF CreateProject
  <2>4. QED BY <1>7, <2>3, DirectoryType DEF CreateProject, directory, TypeInv, TypeOK
<1>8. QED BY <1>0, <1>1, <1>2, <1>3, <1>4, <1>5, <1>6, <1>7

LEMMA ServeType ==
  ASSUME TypeInv, NEW s \in Slots, Serve(s)
  PROVE  TypeInv'
<1>0. slot[s] \in Requests /\ RequestOK(slot[s]) /\ calm \in BOOLEAN BY DEF TypeInv, TypeOK, RequestsInv
<1>1. CASE SaveOwner(s)
  <2>1. slot[s].w \in Workspaces /\ slot[s].subject \in Users BY <1>0, <1>1 DEF SaveOwner, At, RequestOK
  <2>2. member' \in [Workspaces -> [Users -> Roles \cup {None}]]
    BY <1>1, <2>1, SetMemberType DEF SaveOwner, Roles
  <2>3. slot' \in [Slots -> Requests] /\ RequestsInv' BY <1>1, ReturnType DEF SaveOwner, Return
  <2>4. QED BY <1>1, <1>0, <2>2, <2>3, DirectoryType DEF SaveOwner, Return, TypeInv, TypeOK
<1>2. CASE SaveMember(s)
  <2>1. slot[s].w \in Workspaces /\ slot[s].subject \in Users /\ slot[s].role \in Roles \cup {None}
    BY <1>0, <1>2 DEF SaveMember, At, RequestOK, Manages, Requests
  <2>2. member' \in [Workspaces -> [Users -> Roles \cup {None}]]
    BY <1>2, <2>1, SetMemberType DEF SaveMember
  <2>3. slot' \in [Slots -> Requests] /\ RequestsInv' BY <1>2, ReturnType DEF SaveMember, Return
  <2>4. QED BY <1>2, <1>0, <2>2, <2>3, DirectoryType DEF SaveMember, Return, TypeInv, TypeOK
<1>3. CASE FindWorkspace(s)
  <2>1. slot' \in [Slots -> Requests] /\ RequestsInv'
    BY <1>3, <1>0, GoToType, ReturnType DEF FindWorkspace, At, Return, Checked, Requests
  <2>2. QED BY <1>3, <2>1, SameDirectory DEF FindWorkspace, GoTo, Return, TypeInv, TypeOK
<1>4. CASE CheckProjects(s)
  <2>1. slot' \in [Slots -> Requests] /\ RequestsInv'
    BY <1>4, <1>0, GoToType, ReturnType DEF CheckProjects, At, Return, Checked, Requests
  <2>2. QED BY <1>4, <2>1, SameDirectory DEF CheckProjects, GoTo, Return, TypeInv, TypeOK
<1>5. CASE ListRows(s)
  <2> DEFINE rows == {u \in Users : member[slot[s].w][u] # None}
             r == [slot[s] EXCEPT !.at = "delete", !.todo = rows]
  <2>1. r \in Requests BY <1>0 DEF Requests
  <2>2. RequestOK(r) BY <1>0, <1>5 DEF ListRows, At, RequestOK, Manages, Checked, Requests
  <2>3. slot' = [slot EXCEPT ![s] = r] BY <1>5 DEF ListRows, TypeInv, TypeOK
  <2>4. slot' \in [Slots -> Requests] /\ RequestsInv' BY <2>1, <2>2, <2>3, PutSlot
  <2>5. QED BY <1>5, <1>0, <2>4, SameDirectory DEF ListRows
<1>6. CASE DeleteRow(s)
  <2>1. PICK u \in slot[s].todo : /\ SetMember(slot[s].w, u, None)
                                  /\ slot' = [slot EXCEPT ![s].todo = @ \ {u}]
    BY <1>6 DEF DeleteRow
  <2> DEFINE r == [slot[s] EXCEPT !.todo = @ \ {u}]
  <2>2. u \in Users /\ slot[s].w \in Workspaces BY <1>0, <1>6 DEF Requests, DeleteRow, At, RequestOK
  <2>3. member' \in [Workspaces -> [Users -> Roles \cup {None}]] BY <2>1, <2>2, SetMemberType
  <2>4. r \in Requests BY <1>0 DEF Requests
  <2>5. RequestOK(r) BY <1>0, <1>6 DEF DeleteRow, At, RequestOK, Manages, Checked, Requests
  <2>6. slot' = [slot EXCEPT ![s] = r] BY <2>1 DEF TypeInv, TypeOK
  <2>7. slot' \in [Slots -> Requests] /\ RequestsInv' BY <2>4, <2>5, <2>6, PutSlot
  <2>8. QED BY <1>6, <1>0, <2>3, <2>7, DirectoryType DEF DeleteRow, TypeInv, TypeOK
<1>7. CASE DeleteWorkspaceRow(s)
  <2>1. slot' \in [Slots -> Requests] /\ RequestsInv' BY <1>7, ReturnType DEF DeleteWorkspaceRow, Return
  <2>2. QED BY <1>7, <1>0, <2>1, DirectoryType DEF DeleteWorkspaceRow, Return, TypeInv, TypeOK
<1>8. CASE FindMember(s)
  <2>1. slot' \in [Slots -> Requests] /\ RequestsInv'
    BY <1>8, <1>0, GoToType, ReturnType DEF FindMember, At, Return, Checked, Requests
  <2>2. QED BY <1>8, <2>1, SameDirectory DEF FindMember, GoTo, Return, TypeInv, TypeOK
<1>9. CASE CheckTarget(s)
  <2>1. slot[s].w \in Workspaces /\ slot[s].subject \in Users /\ slot[s].self \in Roles
    BY <1>0, <1>9 DEF CheckTarget, At, RequestOK, Manages, Roles
  <2>2. CASE /\ Subject(s) # None /\ CanManageRole(slot[s].self, Subject(s))
             /\ slot[s].op = "update" => CanManageRole(slot[s].self, slot[s].role)
    <3>1. slot[s].op = "update" => Rank[slot[s].role] <= Rank[slot[s].self]
      BY <1>0, <2>1, <2>2 DEF CanManageRole, RequestOK, Rank, Roles
    <3>2. GoTo(s, "existing") BY <1>9, <2>2 DEF CheckTarget
    <3>3. LET r == [slot[s] EXCEPT !.at = "existing"]
          IN Checked(r) => Checked(slot[s]) \/ Rank[r.role] <= Rank[r.self]
      BY <1>0, <3>1 DEF Checked, Requests
    <3>4. slot' \in [Slots -> Requests] /\ RequestsInv' BY <3>2, <3>3, GoToType
    <3>5. QED BY <1>9, <1>0, <3>2, <3>4, SameDirectory DEF CheckTarget, GoTo
  <2>3. CASE Return(s)
    <3>1. slot' \in [Slots -> Requests] /\ RequestsInv' BY <2>3, ReturnType DEF Return
    <3>2. QED BY <1>9, <1>0, <2>3, <3>1, SameDirectory DEF CheckTarget, Return
  <2>4. QED BY <1>9, <2>2, <2>3 DEF CheckTarget
<1>A. CASE ReadExisting(s)
  <2>1. slot' \in [Slots -> Requests] /\ RequestsInv'
    BY <1>A, <1>0, GoToType, ReturnType DEF ReadExisting, At, Return, Checked, Requests
  <2>2. QED BY <1>A, <2>1, SameDirectory DEF ReadExisting, GoTo, Return, TypeInv, TypeOK
<1>B. CASE CountOwners(s)
  <2>1. slot' \in [Slots -> Requests] /\ RequestsInv'
    BY <1>B, <1>0, GoToType, ReturnType DEF CountOwners, At, Return, Checked, Requests
  <2>2. QED BY <1>B, <2>1, SameDirectory DEF CountOwners, GoTo, Return, TypeInv, TypeOK
<1>C. CASE SaveProject(s)
  <2>1. slot' \in [Slots -> Requests] /\ RequestsInv' BY <1>C, ReturnType DEF SaveProject, Return
  <2>2. [workspace |-> slot[s].w, owner |-> slot[s].actor] \in [workspace : Workspaces \cup {None}, owner : Users]
    BY <1>0, <1>C DEF SaveProject, At, RequestOK, Requests
  <2>3. project' \in [Projects -> {None} \cup [workspace : Workspaces \cup {None}, owner : Users]]
    BY <1>C, <2>2 DEF SaveProject, TypeInv, TypeOK
  <2>4. QED BY <1>C, <1>0, <2>1, <2>3, DirectoryType DEF SaveProject, Return, TypeInv, TypeOK
<1>D. CASE DeleteProjectRow(s)
  <2>1. slot' \in [Slots -> Requests] /\ RequestsInv' BY <1>D, ReturnType DEF DeleteProjectRow, Return
  <2>2. project' \in [Projects -> {None} \cup [workspace : Workspaces \cup {None}, owner : Users]]
    BY <1>D DEF DeleteProjectRow, TypeInv, TypeOK
  <2>3. QED BY <1>D, <1>0, <2>1, <2>2, DirectoryType DEF DeleteProjectRow, Return, TypeInv, TypeOK
<1>E. CASE Die(s)
  <2>1. slot' \in [Slots -> Requests] /\ RequestsInv' BY <1>E, ReturnType DEF Die
  <2>2. QED BY <1>E, <2>1, SameDirectory DEF Die
<1>F. QED BY <1>1, <1>2, <1>3, <1>4, <1>5, <1>6, <1>7, <1>8, <1>9, <1>A, <1>B, <1>C, <1>D, <1>E DEF Serve

LEMMA InitType == Init => TypeInv
<1> SUFFICES ASSUME Init PROVE TypeInv OBVIOUS
<1>1. \A s \in Slots : slot[s] = Idle BY DEF Init
<1>2. RequestsInv BY <1>1, IdleOK DEF RequestsInv, RequestOK, Manages, Checked
<1>3. slot \in [Slots -> Requests] BY IdleOK DEF Init
<1>4. member \in [Workspaces -> [Users -> Roles \cup {None}]] BY DEF Init
<1>5. QED BY <1>2, <1>3, <1>4 DEF Init, TypeInv, TypeOK

LEMMA TypeStep == TypeInv /\ [Next]_vars => TypeInv'
<1> SUFFICES ASSUME TypeInv, [Next]_vars PROVE TypeInv' OBVIOUS
<1>1. CASE UNCHANGED vars
  BY <1>1 DEF vars, directory, TypeInv, TypeOK, RequestsInv, RequestOK, Manages, Checked
<1>2. QED BY <1>1, RequestType, ServeType DEF Next

-------------------------------------------------------------------------------
(* One request at a time.                                                  *)

\* While one request is in flight no other is, and only it may leave a workspace
\* without an owner.
LEMMA Alone_ ==
  ASSUME TypeInv, CalmInv, calm, NEW s \in Slots, slot[s].op # "idle"
  PROVE  /\ \A t \in Slots \ {s} : slot[t].op = "idle"
         /\ MembersHome /\ ProjectsHome /\ Holds(s)
         /\ \A w \in workspaces : HasOwner(w) \/ Unled(slot[s], w)
BY DEF CalmInv, Alone, Led, Unled

\* What is left to show of a step of the one request.
LEMMA CalmAfter ==
  ASSUME NEW s \in Slots, \A t \in Slots \ {s} : slot'[t].op = "idle",
         MembersHome', ProjectsHome', Holds(s)',
         \A w \in workspaces' : HasOwner(w)' \/ Unled(slot'[s], w)
  PROVE  CalmInv'
<1>1. ASSUME NEW t \in Slots PROVE Holds(t)'
  <2>1. CASE t = s BY <2>1
  <2>2. CASE slot'[t].op = "idle" BY <2>2 DEF Holds, Manages
  <2>3. QED BY <2>1, <2>2
<1>2. Alone' BY DEF Alone
<1>3. Led' BY DEF Led, HasOwner
<1>4. QED BY <1>1, <1>2, <1>3 DEF CalmInv

\* A request that starts: its workspace is there, or it is the one it makes.
LEMMA CalmStart ==
  ASSUME TypeInv, CalmInv, calm', NEW s \in Slots, NEW op, NEW at, NEW u, NEW w, NEW subject, NEW role,
         Start(s, op, at, u, w, subject, role), UNCHANGED <<member, project>>,
         workspaces \subseteq workspaces',
         \A x \in workspaces' \ workspaces : op = "create_workspace" /\ x = w,
         op \in {"create_workspace", "add", "update", "remove"} => w \in workspaces',
         op = "create_project" => w \in workspaces' \cup {None},
         at \in {"owner", "find", "target"} \/ op \in {"create_project", "delete_project"}
  PROVE  CalmInv'
<1>1. calm /\ \A t \in Slots : slot[t] = Idle /\ slot[t].op = "idle" BY IdleOK DEF Start, Quiet
<1>2. slot'[s] = Started(op, at, u, w, subject, role) /\ \A t \in Slots \ {s} : slot'[t].op = "idle"
  BY <1>1 DEF Start, TypeInv, TypeOK
<1>3. MembersHome /\ ProjectsHome /\ \A x \in workspaces : HasOwner(x)
  BY <1>1 DEF CalmInv, Led, Unled
<1>4. MembersHome' BY <1>3 DEF MembersHome
<1>5. ProjectsHome' BY <1>3 DEF ProjectsHome
<1>6. /\ slot'[s].op = op /\ slot'[s].at = at /\ slot'[s].w = w BY <1>2 DEF Started
<1>7. Holds(s)' BY <1>6 DEF Holds, Manages
<1>8. \A x \in workspaces' : HasOwner(x)' \/ Unled(slot'[s], x) BY <1>3, <1>6 DEF HasOwner, Unled
<1>9. QED BY <1>2, <1>4, <1>5, <1>7, <1>8, CalmAfter

\* Only a member passes a check, and members have their workspace.
LEMMA AdmittedHome ==
  ASSUME TypeInv, CalmInv, calm, NEW u \in Users, NEW w \in Workspaces, NEW v, NEW action,
         AuthorizeWorkspace(Caller(u), w, action, v) = "ok"
  PROVE  w \in workspaces
<1>1. member[w][u] # None BY AdmittedMember, AccountsAssumption
<1>2. QED BY <1>1 DEF CalmInv, MembersHome

LEMMA CalmRequest ==
  ASSUME TypeInv, CalmInv, calm', NEW s \in Slots, Request(s)
  PROVE  CalmInv'
<1>0. PICK u \in Users :
        \/ \E w \in Workspaces :
             \/ CreateWorkspace(s, u, w) \/ DeleteWorkspace(s, u, w)
             \/ \E subject \in Users :
                  \/ RemoveMember(s, u, w, subject)
                  \/ \E role \in GivenRoles : AddMember(s, u, w, subject, role) \/ UpdateMemberRole(s, u, w, subject, role)
        \/ \E p \in Projects : DeleteProject(s, u, p) \/ \E w \in Workspaces \cup {None} : CreateProject(s, u, p, w)
  BY DEF Request
<1>1. ASSUME NEW w \in Workspaces, CreateWorkspace(s, u, w) PROVE CalmInv'
  BY <1>1, CalmStart DEF CreateWorkspace
<1>2. ASSUME NEW w \in Workspaces, DeleteWorkspace(s, u, w) PROVE CalmInv'
  BY <1>2, CalmStart DEF DeleteWorkspace, directory
<1>3. ASSUME NEW w \in Workspaces, NEW subject \in Users, RemoveMember(s, u, w, subject) PROVE CalmInv'
  <2>1. calm /\ w \in workspaces BY <1>3, AdmittedHome DEF RemoveMember, Start
  <2>2. QED BY <1>3, <2>1, CalmStart DEF RemoveMember, directory
<1>4. ASSUME NEW w \in Workspaces, NEW subject \in Users, NEW role \in GivenRoles, AddMember(s, u, w, subject, role)
      PROVE  CalmInv'
  <2>1. calm /\ w \in workspaces BY <1>4, AdmittedHome DEF AddMember, Start
  <2>2. QED BY <1>4, <2>1, CalmStart DEF AddMember, directory
<1>5. ASSUME NEW w \in Workspaces, NEW subject \in Users, NEW role \in GivenRoles,
             UpdateMemberRole(s, u, w, subject, role)
      PROVE  CalmInv'
  <2>1. calm /\ w \in workspaces BY <1>5, AdmittedHome DEF UpdateMemberRole, Start
  <2>2. QED BY <1>5, <2>1, CalmStart DEF UpdateMemberRole, directory
<1>6. ASSUME NEW p \in Projects, DeleteProject(s, u, p) PROVE CalmInv'
  BY <1>6, CalmStart DEF DeleteProject, directory
<1>7. ASSUME NEW p \in Projects, NEW w \in Workspaces \cup {None}, CreateProject(s, u, p, w) PROVE CalmInv'
  <2>1. calm /\ w \in workspaces \cup {None}
    BY <1>7, AdmittedHome DEF CreateProject, Start
  <2>2. QED BY <1>7, <2>1, CalmStart DEF CreateProject, directory
<1>8. QED BY <1>0, <1>1, <1>2, <1>3, <1>4, <1>5, <1>6, <1>7

\* An owner who is not the last one leaves another.
LEMMA NotTheLast ==
  ASSUME NEW w, NEW u \in Users, ~LastOwner(w)
  PROVE  \E v \in Users \ {u} : member[w][v] = "owner"
<1> SUFFICES ASSUME \A v \in Users \ {u} : member[w][v] # "owner" PROVE FALSE OBVIOUS
<1>1. Owners(w) = {} \/ Owners(w) = {u} BY DEF Owners
<1>2. Cardinality(Owners(w)) <= 1 BY <1>1, FS_EmptySet, FS_Singleton
<1>3. QED BY <1>2 DEF LastOwner

\* What a step that writes no row leaves to show.
LEMMA CalmSame ==
  ASSUME TypeInv, CalmInv, calm, NEW s \in Slots, slot[s].op # "idle", UNCHANGED directory,
         \A t \in Slots \ {s} : slot'[t] = slot[t], ~Unled(slot[s], slot[s].w), Holds(s)'
  PROVE  CalmInv'
<1>1. /\ \A t \in Slots \ {s} : slot[t].op = "idle"
      /\ MembersHome /\ ProjectsHome /\ \A w \in workspaces : HasOwner(w) \/ Unled(slot[s], w)
  BY Alone_
<1>2. MembersHome' /\ ProjectsHome' BY <1>1 DEF MembersHome, ProjectsHome, directory
<1>3. \A w \in workspaces' : HasOwner(w)' BY <1>1 DEF HasOwner, Unled, directory
<1>4. QED BY <1>1, <1>2, <1>3, CalmAfter

LEMMA IdleHolds == ASSUME NEW s \in Slots, slot'[s] = Idle PROVE Holds(s)'
BY IdleOK DEF Holds, Manages

\* The steps of a request that only read.
LEMMA CalmRead ==
  ASSUME TypeInv, CalmInv, calm, NEW s \in Slots,
         \/ FindWorkspace(s) \/ CheckProjects(s) \/ ListRows(s)
         \/ FindMember(s) \/ CheckTarget(s) \/ ReadExisting(s) \/ CountOwners(s)
  PROVE  CalmInv'
<1>0. slot[s] \in Requests /\ slot \in [Slots -> Requests] BY DEF TypeInv, TypeOK
<1>1. slot[s].op # "idle" /\ ~Unled(slot[s], slot[s].w) /\ UNCHANGED directory
  BY DEF FindWorkspace, CheckProjects, ListRows, FindMember, CheckTarget, ReadExisting, CountOwners, At, Unled
<1>2. \A t \in Slots \ {s} : slot'[t] = slot[t]
  BY <1>0 DEF FindWorkspace, CheckProjects, ListRows, FindMember, CheckTarget, ReadExisting, CountOwners, GoTo, Return
<1>3. Holds(s) BY <1>1, Alone_
<1>4. CASE slot'[s] = Idle BY <1>1, <1>2, <1>4, IdleHolds, CalmSame
<1>5. ASSUME NEW at, GoTo(s, at)
      PROVE  /\ slot'[s].op = slot[s].op /\ slot'[s].at = at /\ slot'[s].w = slot[s].w
             /\ slot'[s].subject = slot[s].subject /\ slot'[s].role = slot[s].role
  BY <1>0, <1>5 DEF GoTo, Requests
<1>6. CASE FindWorkspace(s) /\ slot'[s] # Idle
  <2>1. slot[s].op = "delete_workspace" /\ GoTo(s, "projects") BY <1>0, <1>6 DEF FindWorkspace, At, Return
  <2>2. Holds(s)' BY <2>1, <1>5 DEF Holds, Manages
  <2>3. QED BY <1>1, <1>2, <2>2, CalmSame
<1>7. CASE CheckProjects(s) /\ slot'[s] # Idle
  <2>1. slot[s].op = "delete_workspace" /\ GoTo(s, "list") /\ NoProjects(slot[s].w)
    BY <1>0, <1>7 DEF CheckProjects, At, Return
  <2>2. NoProjects(slot[s].w)' BY <2>1, <1>1 DEF NoProjects, Rows, directory, GoTo
  <2>3. Holds(s)' BY <2>1, <2>2, <1>5 DEF Holds, Manages
  <2>4. QED BY <1>1, <1>2, <2>3, CalmSame
<1>8. CASE ListRows(s)
  <2>1. /\ slot[s].op = "delete_workspace" /\ slot[s].at = "list"
        /\ slot'[s].op = slot[s].op /\ slot'[s].at = "delete" /\ slot'[s].w = slot[s].w
        /\ slot'[s].todo = {u \in Users : member[slot[s].w][u] # None}
    BY <1>0, <1>8 DEF ListRows, At, Requests
  <2>2. NoProjects(slot[s].w) BY <2>1, <1>3 DEF Holds
  <2>3. Holds(s)' BY <2>1, <2>2, <1>1 DEF Holds, Manages, NoProjects, Rows, directory
  <2>4. QED BY <1>1, <1>2, <2>3, CalmSame
<1>9. CASE FindMember(s) /\ slot'[s] # Idle
  <2>1. slot[s].op = "add" /\ GoTo(s, "save") /\ Subject(s) = None
    BY <1>0, <1>9 DEF FindMember, At, Return
  <2>2. Holds(s)' BY <2>1, <1>1, <1>3, <1>5 DEF Holds, Manages, Subject, directory
  <2>3. QED BY <1>1, <1>2, <2>2, CalmSame
<1>A. CASE CheckTarget(s) /\ slot'[s] # Idle
  <2>1. slot[s].op \in {"update", "remove"} /\ GoTo(s, "existing") BY <1>0, <1>A DEF CheckTarget, At, Return
  <2>2. Holds(s)' BY <2>1, <1>1, <1>3, <1>5 DEF Holds, Manages, directory
  <2>3. QED BY <1>1, <1>2, <2>2, CalmSame
<1>B. CASE ReadExisting(s) /\ slot'[s] # Idle
  <2>1. /\ slot[s].op \in {"update", "remove"}
        /\ GoTo(s, IF Subject(s) = "owner" /\ slot[s].role # "owner" THEN "count" ELSE "save")
    BY <1>0, <1>B DEF ReadExisting, At, Return
  <2>2. CASE Subject(s) = "owner" /\ slot[s].role # "owner"
    <3>1. GoTo(s, "count") BY <2>1, <2>2
    <3>2. Holds(s)' BY <3>1, <2>1, <2>2, <1>1, <1>3, <1>5 DEF Holds, Manages, Subject, directory
    <3>3. QED BY <1>1, <1>2, <3>2, CalmSame
  <2>3. CASE ~(Subject(s) = "owner" /\ slot[s].role # "owner")
    <3>1. GoTo(s, "save") BY <2>1, <2>3
    <3>2. Holds(s)' BY <3>1, <2>1, <2>3, <1>1, <1>3, <1>5, SMTT(30) DEF Holds, Manages, Subject, directory
    <3>3. QED BY <1>1, <1>2, <3>2, CalmSame
  <2>4. QED BY <2>2, <2>3
<1>C. CASE CountOwners(s) /\ slot'[s] # Idle
  <2>1. slot[s].op \in {"update", "remove"} /\ GoTo(s, "save") /\ ~LastOwner(slot[s].w)
    BY <1>0, <1>C DEF CountOwners, At, Return
  <2>2. ~LastOwner(slot[s].w)' BY <2>1, <1>1 DEF LastOwner, Owners, directory, GoTo
  <2>3. Holds(s)' BY <2>1, <2>2, <1>1, <1>3, <1>5 DEF Holds, Manages, directory
  <2>4. QED BY <1>1, <1>2, <2>3, CalmSame
<1>D. QED BY <1>4, <1>6, <1>7, <1>8, <1>9, <1>A, <1>B, <1>C

\* The steps of a request that write.
LEMMA CalmWrite ==
  ASSUME TypeInv, CalmInv, calm, NEW s \in Slots,
         \/ SaveOwner(s) \/ DeleteRow(s) \/ DeleteWorkspaceRow(s) \/ SaveMember(s)
         \/ SaveProject(s) \/ DeleteProjectRow(s)
  PROVE  CalmInv'
<1> DEFINE w == slot[s].w
<1>0. slot[s] \in Requests /\ slot \in [Slots -> Requests] /\ RequestOK(slot[s]) BY DEF TypeInv, TypeOK, RequestsInv
<1>1. /\ slot[s].op # "idle"
      /\ \A t \in Slots \ {s} : slot'[t] = slot[t]
  BY <1>0 DEF SaveOwner, DeleteRow, DeleteWorkspaceRow, SaveMember, SaveProject, DeleteProjectRow, At, Return
<1>2. /\ \A t \in Slots \ {s} : slot'[t].op = "idle"
      /\ MembersHome /\ ProjectsHome /\ Holds(s)
      /\ \A x \in workspaces : HasOwner(x) \/ Unled(slot[s], x)
  BY <1>1, Alone_
<1>3. CASE SaveOwner(s)
  <2>1. w \in Workspaces /\ slot[s].subject \in Users /\ w \in workspaces /\ slot'[s] = Idle
    BY <1>0, <1>2, <1>3 DEF SaveOwner, At, Return, RequestOK, Holds
  <2>2. \A x \in Workspaces, y \in Users :
          member'[x][y] = IF x = w /\ y = slot[s].subject THEN "owner" ELSE member[x][y]
    BY <1>3, <2>1, SetMemberType DEF SaveOwner, Roles
  <2>3. UNCHANGED <<workspaces, project>> BY <1>3 DEF SaveOwner
  <2>4. MembersHome' /\ ProjectsHome' BY <1>2, <2>1, <2>2, <2>3 DEF MembersHome, ProjectsHome
  <2>5. \A x \in workspaces' : HasOwner(x)'
    BY <1>2, <2>1, <2>2, <2>3 DEF HasOwner, Unled, TypeInv, TypeOK
  <2>6. QED BY <1>2, <2>1, <2>4, <2>5, IdleHolds, CalmAfter
<1>4. CASE DeleteRow(s)
  <2>1. PICK u \in slot[s].todo : /\ SetMember(w, u, None)
                                  /\ slot' = [slot EXCEPT ![s].todo = @ \ {u}]
    BY <1>4 DEF DeleteRow
  <2>2. /\ u \in Users /\ w \in Workspaces /\ UNCHANGED <<workspaces, project>>
        /\ slot[s].op = "delete_workspace" /\ slot[s].at = "delete"
    BY <1>0, <1>4 DEF Requests, DeleteRow, At, RequestOK
  <2>3. /\ slot'[s].op = slot[s].op /\ slot'[s].at = slot[s].at /\ slot'[s].w = w
        /\ slot'[s].todo = slot[s].todo \ {u}
    BY <1>0, <2>1 DEF Requests
  <2>4. \A x \in Workspaces, y \in Users : member'[x][y] = IF x = w /\ y = u THEN None ELSE member[x][y]
    BY <2>1, <2>2, SetMemberType
  <2>5. MembersHome' /\ ProjectsHome' BY <1>2, <2>2, <2>4 DEF MembersHome, ProjectsHome
  <2>6. \A x \in workspaces' : HasOwner(x)' \/ Unled(slot'[s], x)
    BY <1>2, <2>2, <2>3, <2>4 DEF HasOwner, Unled, TypeInv, TypeOK
  <2>7. NoProjects(w) /\ \A y \in Users : member[w][y] # None => y \in slot[s].todo BY <1>2, <2>2 DEF Holds
  <2>8. Holds(s)' BY <2>2, <2>3, <2>4, <2>7 DEF Holds, Manages, NoProjects, Rows
  <2>9. QED BY <1>2, <2>5, <2>6, <2>8, CalmAfter
<1>5. CASE DeleteWorkspaceRow(s)
  <2>1. /\ workspaces' = workspaces \ {w} /\ UNCHANGED <<member, project>> /\ slot'[s] = Idle
        /\ slot[s].todo = {} /\ slot[s].op = "delete_workspace" /\ slot[s].at = "delete"
    BY <1>0, <1>5 DEF DeleteWorkspaceRow, At, Return
  <2>2. NoProjects(w) /\ \A y \in Users : member[w][y] = None BY <1>2, <2>1 DEF Holds
  <2>3. \A p \in Projects : project[p] # None => project[p].workspace # w BY <2>2 DEF NoProjects, Rows
  <2>4. MembersHome' BY <1>2, <2>1, <2>2 DEF MembersHome
  <2>5. ProjectsHome' BY <1>2, <2>1, <2>3 DEF ProjectsHome
  <2>6. \A x \in workspaces' : HasOwner(x)' BY <1>2, <2>1 DEF HasOwner, Unled
  <2>7. QED BY <1>2, <2>1, <2>4, <2>5, <2>6, IdleHolds, CalmAfter
<1>6. CASE SaveMember(s)
  <2> DEFINE u == slot[s].subject
             role == slot[s].role
  <2>1. /\ w \in Workspaces /\ u \in Users /\ w \in workspaces /\ slot'[s] = Idle /\ role \in Roles \cup {None}
        /\ slot[s].op \in {"add", "update", "remove"} /\ slot[s].at = "save" /\ UNCHANGED <<workspaces, project>>
    BY <1>0, <1>2, <1>6 DEF SaveMember, At, Return, RequestOK, Holds, Manages, Requests
  <2>2. \A x \in Workspaces, y \in Users : member'[x][y] = IF x = w /\ y = u THEN role ELSE member[x][y]
    BY <1>6, <2>1, SetMemberType DEF SaveMember
  <2>3. MembersHome' /\ ProjectsHome' BY <1>2, <2>1, <2>2 DEF MembersHome, ProjectsHome
  <2>4. \E v \in Users : member'[w][v] = "owner"
    <3>1. CASE role = "owner" BY <2>1, <2>2, <3>1
    <3>2. CASE member[w][u] # "owner"
      <4>1. HasOwner(w) BY <1>2, <2>1 DEF Unled
      <4>2. QED BY <2>1, <2>2, <3>2, <4>1 DEF HasOwner
    <3>3. CASE member[w][u] = "owner" /\ role # "owner"
      <4>1. slot[s].op # "add" BY <1>2, <2>1, <3>3, AccountsAssumption DEF Holds, Subject, Roles
      <4>2. ~LastOwner(w) BY <1>2, <2>1, <3>3, <4>1 DEF Holds, Subject
      <4>3. PICK v \in Users \ {u} : member[w][v] = "owner" BY <4>2, <2>1, NotTheLast
      <4>4. QED BY <2>1, <2>2, <4>3
    <3>4. QED BY <3>1, <3>2, <3>3
  <2>5. \A x \in workspaces' : HasOwner(x)'
    BY <1>2, <2>1, <2>2, <2>4 DEF HasOwner, Unled, TypeInv, TypeOK
  <2>6. QED BY <1>2, <2>1, <2>3, <2>5, IdleHolds, CalmAfter
<1>7. CASE SaveProject(s)
  <2> DEFINE p == slot[s].subject
  <2>1. /\ w \in workspaces \cup {None} /\ slot'[s] = Idle /\ UNCHANGED <<workspaces, member>>
        /\ slot[s].op = "create_project"
        /\ project' = [project EXCEPT ![p] = [workspace |-> w, owner |-> slot[s].actor]]
    BY <1>0, <1>2, <1>7 DEF SaveProject, At, Return, RequestOK, Holds
  <2>2. MembersHome' /\ \A x \in workspaces' : HasOwner(x)' BY <1>2, <2>1 DEF MembersHome, HasOwner, Unled
  <2>3. ProjectsHome' BY <1>2, <2>1 DEF ProjectsHome, TypeInv, TypeOK
  <2>4. QED BY <1>2, <2>1, <2>2, <2>3, IdleHolds, CalmAfter
<1>8. CASE DeleteProjectRow(s)
  <2>1. /\ slot'[s] = Idle /\ UNCHANGED <<workspaces, member>> /\ slot[s].op = "delete_project"
        /\ project' = [project EXCEPT ![slot[s].subject] = None]
    BY <1>0, <1>8 DEF DeleteProjectRow, At, Return
  <2>2. MembersHome' /\ \A x \in workspaces' : HasOwner(x)' BY <1>2, <2>1 DEF MembersHome, HasOwner, Unled
  <2>3. ProjectsHome' BY <1>2, <2>1 DEF ProjectsHome, TypeInv, TypeOK
  <2>4. QED BY <1>2, <2>1, <2>2, <2>3, IdleHolds, CalmAfter
<1>9. QED BY <1>3, <1>4, <1>5, <1>6, <1>7, <1>8

LEMMA CalmStep == TypeInv /\ CalmInv /\ [Next]_vars => CalmInv'
<1> SUFFICES ASSUME TypeInv, CalmInv, [Next]_vars, calm' PROVE CalmInv'
  BY DEF CalmInv
<1>1. CASE UNCHANGED vars
  BY <1>1 DEF vars, directory, CalmInv, Alone, MembersHome, ProjectsHome, Led, HasOwner, Unled,
              Holds, Manages, Subject, LastOwner, Owners, NoProjects, Rows
<1>2. ASSUME NEW s \in Slots, Request(s) PROVE CalmInv' BY <1>2, CalmRequest
<1>3. ASSUME NEW s \in Slots, Serve(s) PROVE CalmInv'
  <2>1. calm /\ ~Die(s)
    BY <1>3 DEF Serve, SaveOwner, FindWorkspace, CheckProjects, ListRows, DeleteRow, DeleteWorkspaceRow, FindMember,
                CheckTarget, ReadExisting, CountOwners, SaveMember, SaveProject, DeleteProjectRow, GoTo, Return, Die
  <2>2. QED BY <1>3, <2>1, CalmRead, CalmWrite DEF Serve
<1>4. QED BY <1>1, <1>2, <1>3 DEF Next

LEMMA CalmInit == Init => CalmInv
<1> SUFFICES ASSUME Init PROVE CalmInv OBVIOUS
<1>1. \A s \in Slots : slot[s] = Idle BY DEF Init
<1>2. \A s \in Slots : Holds(s) BY <1>1, IdleOK DEF Holds, Manages
<1>3. Alone BY <1>1, IdleOK DEF Alone
<1>4. QED BY <1>2, <1>3 DEF Init, CalmInv, MembersHome, ProjectsHome, Led

LEMMA Invariant == Spec => [](TypeInv /\ CalmInv)
<1>1. Init => TypeInv /\ CalmInv BY InitType, CalmInit
<1>2. TypeInv /\ CalmInv /\ [Next]_vars => (TypeInv /\ CalmInv)' BY TypeStep, CalmStep
<1>3. QED BY <1>1, <1>2, PTL DEF Spec

-------------------------------------------------------------------------------
(* Lists and reads.                                                        *)

\* Whoever the middlewares let in is a user or a session, or, on the exempt
\* routes, nobody.
LEMMA CallerType ==
  ASSUME NEW c \in Callers
  PROVE  c.user \in Users \cup {None} /\ c.session \in Sessions \cup {None}
<1>1. CASE c \in Identify("files", TRUE, None, None) BY <1>1 DEF Identify, Exempt
<1>2. CASE \E bearer \in Bearers, id \in SessionIds : c \in Identify("api", TRUE, bearer, id)
  <2>1. PICK bearer \in Bearers, id \in SessionIds :
               \E u \in AuthMiddleware(TRUE, bearer) :
                 \E x \in SessionMiddleware(u, id) : c = [user |-> u, session |-> x]
    BY <1>2 DEF Identify, Exempt
  <2>2. AuthMiddleware(TRUE, bearer) \subseteq Users \cup {None} BY DEF AuthMiddleware
  <2>3. \A u : SessionMiddleware(u, id) \subseteq Sessions \cup {None} BY DEF SessionMiddleware
  <2>4. PICK u \in AuthMiddleware(TRUE, bearer) : \E x \in SessionMiddleware(u, id) : c = [user |-> u, session |-> x]
    BY <2>1
  <2>5. PICK x \in SessionMiddleware(u, id) : c = [user |-> u, session |-> x] BY <2>4
  <2>6. c.user = u /\ c.session = x BY <2>5
  <2>7. u \in Users \cup {None} /\ x \in Sessions \cup {None} BY <2>2, <2>3
  <2>8. QED BY <2>6, <2>7
<1>3. \A S, T : c \in S \cup T => c \in S \/ c \in T OBVIOUS
<1>4. \/ c \in Identify("files", TRUE, None, None)
      \/ c \in UNION {UNION {Identify("api", TRUE, bearer, id) : id \in SessionIds} : bearer \in Bearers}
  BY <1>3, Zenon DEF Callers
<1>5. ASSUME c \in UNION {UNION {Identify("api", TRUE, bearer, id) : id \in SessionIds} : bearer \in Bearers}
      PROVE  \E bearer \in Bearers, id \in SessionIds : c \in Identify("api", TRUE, bearer, id)
  <2>1. PICK bearer \in Bearers : c \in UNION {Identify("api", TRUE, bearer, id) : id \in SessionIds} BY <1>5
  <2>2. PICK id \in SessionIds : c \in Identify("api", TRUE, bearer, id) BY <2>1
  <2>3. QED BY <2>2
<1>6. QED BY <1>1, <1>2, <1>4, <1>5

LEMMA TargetType ==
  ASSUME NEW t \in Targets
  PROVE  /\ t # None /\ t.project \in Projects \cup {None} /\ t.session \in Sessions \cup {None}
         /\ t.project = None \/ t.session = None
BY AccountsAssumption DEF Targets

\* Every role may read.
LEMMA Readers ==
  ASSUME NEW role \in Roles
  PROVE  /\ Allows(role, "workspace", "read") /\ Allows(role, "project", "read")
         /\ Allows(role, "project", "read_asset") /\ Allows(role, "project", "read_job")
BY DEF Roles, Allows, POLICY, Rank

\* What a user's share in a project is.
Shares(c, p) ==
  /\ project[p] # None
  /\ IF project[p].workspace = None THEN project[p].owner = c.user ELSE member[project[p].workspace][c.user] # None

LEMMA ReadsProject ==
  ASSUME TypeOK, NEW c, c.user \in Users, NEW p \in Projects, NEW action \in {"read", "read_asset", "read_job"}
  PROVE  AuthorizeProject(c, p, action, "ok") = "ok" <=> Shares(c, p)
<1>1. c.user # None BY AccountsAssumption
<1>2. CASE project[p] = None BY <1>2, <1>1 DEF AuthorizeProject, Shares
<1>3. CASE project[p] # None /\ project[p].workspace = None BY <1>3, <1>1 DEF AuthorizeProject, Shares
<1>4. CASE project[p] # None /\ project[p].workspace # None
  <2>1. project[p].workspace \in Workspaces BY <1>4 DEF TypeOK
  <2>2. member[project[p].workspace][c.user] \in Roles \cup {None} BY <2>1 DEF TypeOK
  <2>3. CASE member[project[p].workspace][c.user] = None BY <1>1, <1>4, <2>3 DEF AuthorizeProject, Shares
  <2>4. CASE member[project[p].workspace][c.user] \in Roles
    <3>1. Allows(member[project[p].workspace][c.user], "project", action) BY <2>4, Readers
    <3>2. member[project[p].workspace][c.user] # None BY <2>4, AccountsAssumption
    <3>3. QED BY <1>1, <1>4, <3>1, <3>2 DEF AuthorizeProject, Shares, Permitted
  <2>5. QED BY <2>2, <2>3, <2>4
<1>5. QED BY <1>2, <1>3, <1>4

LEMMA ReadsWorkspace ==
  ASSUME TypeOK, NEW c, c.user \in Users, NEW w \in Workspaces
  PROVE  AuthorizeWorkspace(c, w, "read", "ok") = "ok" <=> w \in MemberOf(c.user)
<1>1. c.user # None BY AccountsAssumption
<1>2. member[w][c.user] \in Roles \cup {None} BY DEF TypeOK
<1>3. CASE member[w][c.user] = None BY <1>1, <1>3 DEF AuthorizeWorkspace, MemberOf
<1>4. CASE member[w][c.user] \in Roles
  <2>1. Allows(member[w][c.user], "workspace", "read") BY <1>4, Readers
  <2>2. member[w][c.user] # None BY <1>4, AccountsAssumption
  <2>3. QED BY <1>1, <2>1, <2>2 DEF AuthorizeWorkspace, Permitted, MemberOf
<1>5. QED BY <1>2, <1>3, <1>4

\* The rows a list without a scope looks for are the projects of a user's share.
LEMMA VisibleIsShared ==
  ASSUME TypeOK, NEW c, c.user \in Users
  PROVE  Visible(c.user) = {t \in Targets : t.project # None /\ Shares(c, t.project)}
<1>1. ASSUME NEW t \in Targets
      PROVE  t \in Visible(c.user) <=> t.project # None /\ Shares(c, t.project)
  <2>1. CASE t.project = None
    <3>1. t.project \notin Projects BY <2>1, AccountsAssumption
    <3>2. QED BY <2>1, <3>1 DEF Visible, InProjects, Rows
  <2>2. CASE t.project \in Projects
    <3>1. project[t.project] # None => project[t.project].workspace \in Workspaces \cup {None} BY <2>2 DEF TypeOK
    <3>2. t.project # None /\ None \notin Workspaces BY <2>2, AccountsAssumption
    <3>3. QED BY <2>2, <3>1, <3>2 DEF Visible, InProjects, Rows, MemberOf, Shares
  <2>3. QED BY <2>1, <2>2, TargetType
<1>2. QED BY <1>1 DEF Visible, InProjects

\* What the reads of an asset and of a job answer 200 to.
LEMMA ReadsTargets ==
  ASSUME TypeOK, NEW c \in Callers, NEW t \in Targets, NEW action \in {"read_asset", "read_job"}
  PROVE  Hidden(AuthorizeOwned(c, t, action, "ok"), 200) = 200 <=>
           IF c.user = None THEN c.session # None /\ t.session = c.session
           ELSE t.project # None /\ Shares(c, t.project)
<1>1. t # None /\ t.project \in Projects \cup {None} BY TargetType
<1>2. CASE c.user = None BY <1>1, <1>2 DEF AuthorizeOwned, Hidden
<1>3. CASE c.user # None /\ t.project = None BY <1>1, <1>3 DEF AuthorizeOwned, Hidden
<1>4. CASE c.user # None /\ t.project # None
  <2>1. c.user \in Users /\ t.project \in Projects BY <1>1, <1>4, CallerType
  <2>2. AuthorizeOwned(c, t, action, "ok") = AuthorizeProject(c, t.project, action, "ok")
    BY <1>1, <1>4 DEF AuthorizeOwned
  <2>3. AuthorizeProject(c, t.project, action, "ok") = "ok" <=> Shares(c, t.project) BY <2>1, ReadsProject
  <2>4. QED BY <1>4, <2>2, <2>3 DEF Hidden
<1>5. QED BY <1>2, <1>3, <1>4

\* The authorizer only ever takes away from what the roles allow.
LEMMA VerdictsNarrow ==
  ASSUME NEW c, NEW t, NEW action, NEW v, AuthorizeOwned(c, t, action, v) = "ok"
  PROVE  AuthorizeOwned(c, t, action, "ok") = "ok"
<1>1. ASSUME NEW p, AuthorizeProject(c, p, action, v) = "ok"
      PROVE  AuthorizeProject(c, p, action, "ok") = "ok"
  BY <1>1 DEF AuthorizeProject, Permitted
<1>2. QED BY <1>1 DEF AuthorizeOwned

LEMMA ListsFollowReads ==
  ASSUME NEW c \in Callers, NEW v,
         ListAssets(c, None, None, "ok") = {t \in Targets : GetAsset(c, t, "ok") = 200},
         ListJobs(c, None, None, "ok") = {t \in Targets : GetJob(c, t, "ok") = 200}
  PROVE  ListsFollow(c, v)
<1>1. \A t \in Targets : /\ GetAsset(c, t, v) = 200 <=> AuthorizeOwned(c, t, "read_asset", v) = "ok"
                         /\ GetJob(c, t, v) = 200 <=> AuthorizeOwned(c, t, "read_job", v) = "ok"
                         /\ GetAsset(c, t, "ok") = 200 <=> AuthorizeOwned(c, t, "read_asset", "ok") = "ok"
                         /\ GetJob(c, t, "ok") = 200 <=> AuthorizeOwned(c, t, "read_job", "ok") = "ok"
  BY DEF GetAsset, GetJob, Hidden
<1>2. ListAssets(c, None, None, v) = ListAssets(c, None, None, "ok") BY DEF ListAssets
<1>3. ListJobs(c, None, None, v) = ListJobs(c, None, None, "ok") BY DEF ListJobs
<1>4. {t \in Targets : GetAsset(c, t, v) = 200} \subseteq ListAssets(c, None, None, v)
  BY <1>1, <1>2, VerdictsNarrow
<1>5. {t \in Targets : GetJob(c, t, v) = 200} \subseteq ListJobs(c, None, None, v)
  BY <1>1, <1>3, VerdictsNarrow
<1>6. ASSUME c.user # None, NEW p \in Projects
      PROVE  /\ ListAssets(c, p, None, v) = {t \in Targets : t.project = p /\ GetAsset(c, t, v) = 200}
             /\ ListJobs(c, p, None, v) = {t \in Targets : t.project = p /\ GetJob(c, t, v) = 200}
  <2>1. p # None BY AccountsAssumption
  <2>2. Scope("project", p) = {t \in Targets : t.project = p} BY DEF Scope, InProjects
  <2>3. \A t \in Targets : t.project = p =>
          /\ AuthorizeOwned(c, t, "read_asset", v) = AuthorizeProject(c, p, "read_asset", v)
          /\ AuthorizeOwned(c, t, "read_job", v) = AuthorizeProject(c, p, "read_job", v)
    BY <1>6, <2>1, TargetType DEF AuthorizeOwned
  <2>4. ListAssets(c, p, None, v) = IF AuthorizeProject(c, p, "read_asset", v) = "ok"
                                    THEN {t \in Targets : t.project = p} ELSE {}
    BY <1>6, <2>1, <2>2 DEF ListAssets
  <2>5. ListJobs(c, p, None, v) = IF AuthorizeProject(c, p, "read_job", v) = "ok"
                                  THEN {t \in Targets : t.project = p} ELSE {}
    BY <1>6, <2>1, <2>2 DEF ListJobs
  <2>6. QED BY <1>1, <2>3, <2>4, <2>5
<1>7. QED BY <1>4, <1>5, <1>6 DEF ListsFollow

LEMMA ListsMatch == TypeOK => ListsMatchReads
<1> SUFFICES ASSUME TypeOK, NEW c \in Callers
             PROVE  /\ ListAssets(c, None, None, "ok") = {t \in Targets : GetAsset(c, t, "ok") = 200}
                    /\ ListJobs(c, None, None, "ok") = {t \in Targets : GetJob(c, t, "ok") = 200}
                    /\ c.user # None =>
                         /\ \A p \in Projects : /\ ListAssets(c, p, None, "ok") \subseteq ListAssets(c, None, None, "ok")
                                                /\ ListAssets(c, p, None, "ok") = {} <=> GetProject(c, p, "ok") # 200
                         /\ \A w \in Workspaces : /\ ListAssets(c, None, w, "ok") \subseteq ListAssets(c, None, None, "ok")
                                                  /\ \A p \in ListProjects(c, w, "ok") : GetProject(c, p, "ok") = 200
                         /\ \A p \in ListProjects(c, None, "ok") : GetProject(c, p, "ok") = 200
                         /\ Me(c) = {w \in Workspaces : GetWorkspace(c, w, "ok") = 200}
                    /\ \A v \in Verdicts : ListsFollow(c, v)
  BY DEF ListsMatchReads
<1> DEFINE Sees(t) == IF c.user = None THEN c.session # None /\ t.session = c.session
                      ELSE t.project # None /\ Shares(c, t.project)
<1>0. c.user \in Users \cup {None} /\ None \notin Users /\ None \notin Projects /\ None \notin Workspaces
  BY CallerType, AccountsAssumption
<1>1. ASSUME NEW L, L = (IF c.user = None THEN IF c.session = None THEN {} ELSE Scope("session", c.session)
                         ELSE Visible(c.user))
      PROVE  L = {t \in Targets : Sees(t)}
  <2>1. CASE c.user = None /\ c.session = None BY <1>1, <2>1
  <2>2. CASE c.user = None /\ c.session # None BY <1>1, <2>2 DEF Scope
  <2>3. CASE c.user \in Users
    <3>1. Visible(c.user) = {t \in Targets : t.project # None /\ Shares(c, t.project)} BY <2>3, VisibleIsShared
    <3>2. QED BY <1>1, <3>1, <2>3, <1>0
  <2>4. QED BY <2>1, <2>2, <2>3, <1>0
<1>2. ListAssets(c, None, None, "ok") = {t \in Targets : Sees(t)} BY <1>1 DEF ListAssets
<1>3. ListJobs(c, None, None, "ok") = {t \in Targets : Sees(t)} BY <1>1 DEF ListJobs
<1>4. \A t \in Targets : GetAsset(c, t, "ok") = 200 <=> Sees(t) BY ReadsTargets DEF GetAsset
<1>5. \A t \in Targets : GetJob(c, t, "ok") = 200 <=> Sees(t) BY ReadsTargets DEF GetJob
<1>6. ASSUME c.user \in Users, NEW p \in Projects PROVE GetProject(c, p, "ok") = 200 <=> Shares(c, p)
  <2>1. AuthorizeProject(c, p, "read", "ok") = "ok" <=> Shares(c, p) BY <1>6, ReadsProject
  <2>2. QED BY <2>1, <1>6, <1>0 DEF GetProject, SignedIn, Hidden
<1>7. ASSUME c.user \in Users, NEW p \in Projects
      PROVE  /\ ListAssets(c, p, None, "ok") \subseteq ListAssets(c, None, None, "ok")
             /\ ListAssets(c, p, None, "ok") = {} <=> GetProject(c, p, "ok") # 200
  <2>1. ListAssets(c, p, None, "ok") = IF Shares(c, p) THEN InProjects({p}) ELSE {}
    <3>1. AuthorizeProject(c, p, "read_asset", "ok") = "ok" <=> Shares(c, p) BY <1>7, ReadsProject
    <3>2. Scope("project", p) = InProjects({p}) BY DEF Scope
    <3>3. QED BY <3>1, <3>2, <1>7, <1>0 DEF ListAssets
  <2>2. [project |-> p, session |-> None] \in InProjects({p}) BY DEF InProjects, Targets
  <2>3. InProjects({p}) = {t \in Targets : t.project = p} BY DEF InProjects
  <2>4. QED BY <2>1, <2>2, <2>3, <1>2, <1>6, <1>7, <1>0
<1>8. ASSUME c.user \in Users, NEW w \in Workspaces
      PROVE  /\ ListAssets(c, None, w, "ok") \subseteq ListAssets(c, None, None, "ok")
             /\ \A p \in ListProjects(c, w, "ok") : GetProject(c, p, "ok") = 200
  <2>1. w \in MemberOf(c.user) => \A p \in Rows({w}) : p \in Projects /\ Shares(c, p)
    BY <1>0 DEF MemberOf, Rows, Shares
  <2>2. AuthorizeWorkspace(c, w, "read", "ok") = "ok" <=> w \in MemberOf(c.user) BY <1>8, ReadsWorkspace
  <2>3. ListAssets(c, None, w, "ok") \subseteq {t \in Targets : t.project \in Rows({w}) /\ w \in MemberOf(c.user)}
    BY <2>2, <1>8, <1>0 DEF ListAssets, Scope, InProjects
  <2>4. \A p \in ListProjects(c, w, "ok") : p \in Rows({w}) /\ w \in MemberOf(c.user)
    BY <2>2, <1>8, <1>0 DEF ListProjects
  <2>5. ListAssets(c, None, w, "ok") \subseteq ListAssets(c, None, None, "ok")
    <3> SUFFICES ASSUME NEW t \in Targets, t.project \in Rows({w}), w \in MemberOf(c.user) PROVE Sees(t)
      BY <2>3, <1>2
    <3>1. t.project \in Projects /\ Shares(c, t.project) BY <2>1
    <3>2. QED BY <3>1, <1>8, <1>0
  <2>6. ASSUME NEW p \in ListProjects(c, w, "ok") PROVE GetProject(c, p, "ok") = 200
    <3>1. p \in Projects /\ Shares(c, p) BY <2>1, <2>4
    <3>2. QED BY <3>1, <1>6, <1>8
  <2>7. QED BY <2>5, <2>6
<1>9. ASSUME c.user \in Users, NEW p \in ListProjects(c, None, "ok") PROVE GetProject(c, p, "ok") = 200
  <2>1. p \in Rows({None} \cup MemberOf(c.user)) /\ project[p].owner = c.user BY <1>9, <1>0 DEF ListProjects
  <2>2. p \in Projects /\ Shares(c, p) BY <2>1, <1>0 DEF Rows, MemberOf, Shares
  <2>3. QED BY <2>2, <1>6, <1>9
<1>10. ASSUME c.user \in Users PROVE Me(c) = {w \in Workspaces : GetWorkspace(c, w, "ok") = 200}
  <2>1. \A w \in Workspaces : AuthorizeWorkspace(c, w, "read", "ok") = "ok" <=> w \in MemberOf(c.user)
    BY <1>10, ReadsWorkspace
  <2>2. \A w \in Workspaces : GetWorkspace(c, w, "ok") = 200 <=> w \in MemberOf(c.user) \cap workspaces
    BY <2>1, <1>10, <1>0 DEF GetWorkspace, SignedIn, Hidden, If
  <2>3. MemberOf(c.user) \subseteq Workspaces BY DEF MemberOf
  <2>4. QED BY <2>2, <2>3, <1>10, <1>0 DEF Me
<1>11. ListAssets(c, None, None, "ok") = {t \in Targets : GetAsset(c, t, "ok") = 200} BY <1>2, <1>4
<1>12. ListJobs(c, None, None, "ok") = {t \in Targets : GetJob(c, t, "ok") = 200} BY <1>3, <1>5
<1>13. \A v \in Verdicts : ListsFollow(c, v) BY <1>11, <1>12, ListsFollowReads
<1>14. QED BY <1>0, <1>7, <1>8, <1>9, <1>10, <1>11, <1>12, <1>13

LEMMA StrangersDenied ==
  ASSUME NEW c, NEW t \in Targets, Stranger(c, t), NEW action, NEW v
  PROVE  AuthorizeOwned(c, t, action, v) = "not_found"
<1>1. CASE c.user = None BY <1>1 DEF Stranger, AuthorizeOwned
<1>2. CASE c.user # None /\ t.project = None BY <1>2 DEF AuthorizeOwned
<1>3. CASE c.user # None /\ t.project # None
  <2>1. t.project \in Projects BY <1>3, TargetType
  <2>2. AuthorizeProject(c, t.project, action, v) = "not_found"
    BY <1>3, <2>1 DEF Stranger, AuthorizeProject
  <2>3. QED BY <1>3, <2>2 DEF AuthorizeOwned
<1>4. QED BY <1>1, <1>2, <1>3

LEMMA StrangersAnswered == StrangersSeeNothing
<1> SUFFICES ASSUME NEW c \in Callers, NEW t \in Targets, NEW v \in Verdicts, Stranger(c, t)
             PROVE  NothingToSee(c, t, v)
  BY DEF StrangersSeeNothing
<1> DEFINE Denied(x) == \A action : AuthorizeOwned(c, x, action, v) = "not_found"
<1>1. ASSUME NEW x, Denied(x)
      PROVE  AnswersAbout(c, x, v) = <<404, 404, 404, 404, 404, 404, 404, 404, 404, 404, 404, 404, 404, 404>>
  <2>1. \A action, s : Hidden(AuthorizeOwned(c, x, action, v), s) = 404 BY <1>1 DEF Hidden
  <2>2. QED
    BY <2>1 DEF AnswersAbout, GetAsset, ListFiles, ListVersions, GetVersion, UpdateVersion, SetActiveVersion, GetJob,
                RetryJob, ListHosts, ClaimHost, GetHost, VerifyHost, UpdateHost, ReleaseHost, If
<1>2. Denied(None) BY DEF AuthorizeOwned
<1>3. AnswersAbout(c, t, v) = AnswersAbout(c, None, v)
  <2>1. Denied(t) BY StrangersDenied
  <2> HIDE DEF Denied
  <2>2. QED BY <2>1, <1>1, <1>2
<1>4. ASSUME NEW p \in Projects, t.project = p
      PROVE  /\ Upload(c, p, v, TRUE, TRUE) \in {201, 404} /\ (c.user # None => Upload(c, p, v, TRUE, TRUE) = 404)
             /\ ListProjectHosts(c, p, v) = GetProject(c, p, v) /\ GetProject(c, p, v) \in {401, 404}
  <2>1. p # None BY AccountsAssumption
  <2>2. \A action : c.user # None => AuthorizeProject(c, p, action, v) = "not_found"
    BY <1>4, <2>1 DEF Stranger, AuthorizeProject
  <2>3. Upload(c, p, v, TRUE, TRUE) \in {201, 404} /\ (c.user # None => Upload(c, p, v, TRUE, TRUE) = 404)
    BY <2>1, <2>2 DEF Upload, ResolveUploadProject, Hidden
  <2>4. ListProjectHosts(c, p, v) = GetProject(c, p, v) /\ GetProject(c, p, v) \in {401, 404}
    BY <2>2 DEF ListProjectHosts, GetProject, SignedIn, Hidden
  <2>5. QED BY <2>3, <2>4
<1>5. QED BY <1>3, <1>4 DEF NothingToSee

\* Where a written role comes from, step by step.
LEMMA RoleStep ==
  ASSUME TypeInv, [Next]_vars, NEW w \in Workspaces, NEW u \in Users, member'[w][u] \notin {None, member[w][u]}
  PROVE  \E s \in Slots :
           /\ slot[s].w = w /\ slot[s].subject = u
           /\ \/ slot[s].op = "create_workspace"
              \/ slot[s].self \in {"admin", "owner"} /\ Rank[member'[w][u]] <= Rank[slot[s].self]
<1>1. member' # member OBVIOUS
<1>2. PICK s \in Slots : SaveOwner(s) \/ DeleteRow(s) \/ SaveMember(s)
  <2>1. ASSUME NEW s \in Slots, Request(s) PROVE FALSE
    BY <1>1, <2>1 DEF Request, CreateWorkspace, DeleteWorkspace, RemoveMember, AddMember, UpdateMemberRole,
                      DeleteProject, CreateProject, directory
  <2>2. ASSUME NEW s \in Slots, Serve(s) PROVE SaveOwner(s) \/ DeleteRow(s) \/ SaveMember(s)
    BY <1>1, <2>2 DEF Serve, FindWorkspace, CheckProjects, ListRows, DeleteWorkspaceRow, FindMember, CheckTarget,
                      ReadExisting, CountOwners, SaveProject, DeleteProjectRow, Die, directory
  <2>3. QED BY <1>1, <2>1, <2>2 DEF Next, vars, directory
<1>3. slot[s] \in Requests /\ RequestOK(slot[s]) BY DEF TypeInv, TypeOK, RequestsInv
<1>4. CASE SaveOwner(s)
  <2>1. slot[s].op = "create_workspace" /\ slot[s].w \in Workspaces /\ slot[s].subject \in Users
    BY <1>3, <1>4 DEF SaveOwner, At, RequestOK
  <2>2. slot[s].w = w /\ slot[s].subject = u
    BY <1>4, <2>1, SetMemberType DEF SaveOwner, Roles
  <2>3. QED BY <2>1, <2>2
<1>5. CASE DeleteRow(s)
  <2>1. PICK x \in slot[s].todo : SetMember(slot[s].w, x, None) BY <1>5 DEF DeleteRow
  <2>2. x \in Users /\ slot[s].w \in Workspaces BY <1>3, <1>5 DEF Requests, DeleteRow, At, RequestOK
  <2>3. member'[w][u] \in {None, member[w][u]} BY <2>1, <2>2, SetMemberType
  <2>4. QED BY <2>3
<1>6. CASE SaveMember(s)
  <2>1. /\ slot[s].w \in Workspaces /\ slot[s].subject \in Users /\ slot[s].role \in Roles \cup {None}
        /\ slot[s].op \in {"add", "update", "remove"} /\ slot[s].at = "save"
    BY <1>3, <1>6 DEF SaveMember, At, RequestOK, Manages, Requests
  <2>2. slot[s].w = w /\ slot[s].subject = u /\ member'[w][u] = slot[s].role
    BY <1>6, <2>1, SetMemberType DEF SaveMember
  <2>3. slot[s].op \in {"add", "update"} BY <1>3, <2>1, <2>2 DEF RequestOK
  <2>4. slot[s].self \in {"admin", "owner"} /\ Rank[slot[s].role] <= Rank[slot[s].self]
    BY <1>3, <2>1, <2>3 DEF RequestOK, Manages, Checked
  <2>5. QED BY <2>2, <2>4
<1>7. QED BY <1>2, <1>4, <1>5, <1>6

-------------------------------------------------------------------------------
(* Theorems.                                                               *)

\* Rows, requests in flight and ids keep their types, whatever interleaves and dies.
THEOREM TypeCorrect == Spec => []TypeOK
BY Invariant, PTL DEF TypeInv

\* A role is only written by the request that made the workspace, or for someone who
\* managed members and held at least that role (canManageRole).
THEOREM RolesAreGivenFromAbove == Spec => RolesComeFromAbove
<1>1. TypeInv /\ [Next]_vars =>
        [\A w \in Workspaces, u \in Users :
           member'[w][u] \notin {None, member[w][u]} =>
             \E s \in Slots :
               /\ slot[s].w = w /\ slot[s].subject = u
               /\ \/ slot[s].op = "create_workspace"
                  \/ slot[s].self \in {"admin", "owner"} /\ Rank[member'[w][u]] <= Rank[slot[s].self]]_vars
  BY RoleStep
<1>2. QED BY <1>1, Invariant, PTL DEF Spec, RolesComeFromAbove

\* While requests come one at a time every workspace keeps an owner: the last-owner
\* checks of removal and demotion count rows that nobody else changes meanwhile.
THEOREM OwnersRemain == Spec => []OwnerRemainsInSequence
<1>1. CalmInv => OwnerRemainsInSequence
  BY IdleOK DEF CalmInv, OwnerRemainsInSequence, Quiet, Led, Unled, HasOwner, Owners
<1>2. QED BY <1>1, Invariant, PTL

\* While requests come one at a time, members and projects go before their workspace.
THEOREM NothingIsLeftBehind == Spec => []NothingOutlivesItsWorkspace
<1>1. CalmInv => NothingOutlivesItsWorkspace
  BY DEF CalmInv, NothingOutlivesItsWorkspace, MembersHome, ProjectsHome
<1>2. QED BY <1>1, Invariant, PTL

\* For any directory, the SQL scopes list exactly what access.ts lets a caller read when
\* the authorizer allows what the roles allow; under any other verdict the unscoped lists
\* miss nothing that can be read, and a project's list follows its reads (README.md:362).
THEOREM ListsAndReadsAgree == Spec => []ListsMatchReads
BY ListsMatch, Invariant, PTL DEF TypeInv

\* For any directory, a target a caller has no share in is answered as if it were not there.
THEOREM StrangersLearnNothing == Spec => []StrangersSeeNothing
BY StrangersAnswered, PTL

===============================================================================
