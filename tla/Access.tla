------------------------------- MODULE Access --------------------------------
(***************************************************************************)
(* Sessions, roles and assignments, and the way of a request through the   *)
(* middleware: authenticate, rbac, handler.  Each of them reads the        *)
(* database on its own, so everything may change between them.             *)
(*                                                                         *)
(* An operator directly before another one with the same parameters is a   *)
(* mutated form of it, used by mutation runs only.                         *)
(***************************************************************************)
EXTENDS Integers

CONSTANTS
  Subjects,       \* user accounts, all of them active
  Tokens,         \* session tokens; a login takes one nobody uses any more
  Handlers,       \* goroutines of the HTTP server
  Roles,
  SystemRoles,    \* seeded roles, which are not deleted
  PlatformAdmin,  \* the role that carries every permission
  Seeded,         \* the assignments of the first start, pairs of subject and role
  Lives           \* how often a role id may be created (bound)

Nobody == "nobody"

ASSUME SubjectsAssumption == Nobody \notin Subjects
ASSUME RolesAssumption ==
  /\ PlatformAdmin \in SystemRoles /\ SystemRoles \subseteq Roles
  /\ Seeded \subseteq Subjects \X SystemRoles
  /\ Lives \in Nat \ {0}

VARIABLES
  session,      \* session[t]: its owner, and "live", "expired" or "ended" (no row)
  role,         \* role[r]: the row, and which life of the id it belongs to
  assignments,  \* role_assignments, each with the life of the role it was made in (0: no row)
  request       \* request[h]: what handler h works on

accessVars == <<session, role, assignments, request>>

NoOp == [kind |-> "none", on |-> Nobody, with |-> Nobody, permissions |-> {}]
NoRequest == [phase |-> "none", token |-> Nobody, subject |-> Nobody, op |-> NoOp]
Grant(s, r, l) == [subject |-> s, role |-> r, life |-> l]

\* SeedRoles, seedUsers.
AccessInit ==
  /\ session = [t \in Tokens |-> [owner |-> Nobody, state |-> "ended"]]
  /\ role = [r \in Roles |-> [exists |-> r \in SystemRoles, permissions |-> {},
                              life |-> IF r \in SystemRoles THEN 1 ELSE 0]]
  /\ assignments = {Grant(g[1], g[2], 1) : g \in Seeded}
  /\ request = [h \in Handlers |-> NoRequest]

LifeOf(r) == IF role[r].exists THEN role[r].life ELSE 0

\* The permissions these requests need.
Permissions == {"manage_roles", "manage_users", "manage_profiles", "approve_profiles",
                "activate_profiles", "manage_tags"}

\* permissionForRequest; every other request needs a session only.
Needs(op) ==
  CASE op.kind = "createRole" -> {"manage_roles"}
    [] op.kind \in {"assign", "revoke"} -> {"manage_users"}
    [] op.kind = "createProfile" -> {"manage_profiles"}
    [] op.kind = "approve" -> {"approve_profiles"}
    [] op.kind = "activate" -> {"activate_profiles"}
    [] op.kind \in {"createAsset", "createTag"} -> {"manage_tags"}
    [] OTHER -> {}

\* SubjectHasPermission: one query over assignments and roles.
Holds(s, p) ==
  \E r \in Roles :
    /\ \E g \in assignments : g.subject = s /\ g.role = r
    /\ role[r].exists
    /\ r = PlatformAdmin \/ p \in role[r].permissions

HoldsAll(s, op) == \A p \in Needs(op) : Holds(s, p)

Alive(t) == session[t].state = "live"

-----------------------------------------------------------------------------
Busy(h) == request[h].phase # "none"

\* Login is public; the password is right.
Login(s, t) ==
  /\ session[t].state = "ended"
  /\ \A h \in Handlers : request[h].token # t
  /\ session' = [session EXCEPT ![t] = [owner |-> s, state |-> "live"]]
  /\ UNCHANGED <<role, assignments, request>>

Expires(t) ==
  /\ session[t].state = "live"
  /\ session' = [session EXCEPT ![t].state = "expired"]
  /\ UNCHANGED <<role, assignments, request>>

\* authenticate, GetSessionUser.
Arrive(h, t, op) ==
  /\ ~Busy(h)
  /\ Alive(t)
  /\ request' = [request EXCEPT ![h] = [phase |-> "known", token |-> t,
                                        subject |-> session[t].owner, op |-> op]]
  /\ UNCHANGED <<session, role, assignments>>

\* GetSessionUser removes an expired row when it meets it; the caller gets 401.
Pruned(t) ==
  /\ session[t].state = "expired"
  /\ session' = [session EXCEPT ![t].state = "ended"]
  /\ UNCHANGED <<role, assignments, request>>

\* rbac.
Admit(h) ==
  /\ request[h].phase = "known"
  /\ HoldsAll(request[h].subject, request[h].op)
  /\ request' = [request EXCEPT ![h].phase = "admitted"]
  /\ UNCHANGED <<session, role, assignments>>

\* 403, 404, 409, a failed statement, a client that is gone: no further change.
GivesUp(h) ==
  /\ Busy(h)
  /\ request' = [request EXCEPT ![h] = NoRequest]
  /\ UNCHANGED <<session, role, assignments>>

-----------------------------------------------------------------------------
Handling(h, kind) == request[h].phase = "admitted" /\ request[h].op.kind = kind
Deciding(h, kind) == request[h].phase = "checked" /\ request[h].op.kind = kind
On(h) == request[h].op.on
With(h) == request[h].op.with
Listed(h) == request[h].op.permissions
Checked(h) == request' = [request EXCEPT ![h].phase = "checked"]
Done(h) == request' = [request EXCEPT ![h] = NoRequest]

\* Logout, DeleteSession.
Logout(h) ==
  /\ Handling(h, "logout")
  /\ session' = [session EXCEPT ![request[h].token].state = "ended"]
  /\ Done(h)
  /\ UNCHANGED <<role, assignments>>

CreateRole(h) ==
  /\ Handling(h, "createRole")
  /\ ~role[On(h)].exists /\ role[On(h)].life < Lives
  /\ role' = [role EXCEPT ![On(h)] = [exists |-> TRUE, permissions |-> Listed(h),
                                      life |-> @.life + 1]]
  /\ Done(h)
  /\ UNCHANGED <<session, assignments>>

\* UpdateRolePermissions.
UpdateRole(h) ==
  /\ Handling(h, "updateRole")
  /\ role[On(h)].exists
  /\ role' = [role EXCEPT ![On(h)].permissions = Listed(h)]
  /\ Done(h)
  /\ UNCHANGED <<session, assignments>>

\* DeleteRole: the row is looked at before the transaction starts.
LookAtRole(h) ==
  /\ Handling(h, "deleteRole")
  /\ role[On(h)].exists /\ On(h) \notin SystemRoles
  /\ Checked(h)
  /\ UNCHANGED <<session, role, assignments>>

WithoutRoleRow(r) == assignments
WithoutRole(r) == {g \in assignments : g.role # r}

DeleteRole(h) ==
  /\ Deciding(h, "deleteRole")
  /\ role[On(h)].exists
  /\ role' = [role EXCEPT ![On(h)].exists = FALSE, ![On(h)].permissions = {}]
  /\ assignments' = WithoutRole(On(h))
  /\ Done(h)
  /\ UNCHANGED session

\* ON CONFLICT(subject, role_id) DO NOTHING; the role need not exist.
AssignRole(h) ==
  /\ Handling(h, "assign")
  /\ assignments' =
       IF \E g \in assignments : g.subject = On(h) /\ g.role = With(h)
       THEN assignments
       ELSE assignments \cup {Grant(On(h), With(h), LifeOf(With(h)))}
  /\ Done(h)
  /\ UNCHANGED <<session, role>>

RevokeRole(h) ==
  /\ Handling(h, "revoke")
  /\ assignments' = {g \in assignments : ~(g.subject = On(h) /\ g.role = With(h))}
  /\ Done(h)
  /\ UNCHANGED <<session, role>>

\* The steps of a handler in this module.
RoleHandlers(h) ==
  \/ Logout(h)
  \/ CreateRole(h)
  \/ UpdateRole(h)
  \/ LookAtRole(h)
  \/ DeleteRole(h)
  \/ AssignRole(h)
  \/ RevokeRole(h)

\* The requests Ops of users who log in with the tokens owner assigns to them.
AccessStep(Ops, owner) ==
  \/ \E t \in DOMAIN owner :
       \/ Login(owner[t], t)
       \/ Expires(t)
       \/ Pruned(t)
       \/ \E h \in Handlers, op \in Ops : Arrive(h, t, op)
  \/ \E h \in Handlers : Admit(h) \/ GivesUp(h) \/ RoleHandlers(h)

-----------------------------------------------------------------------------
\* A role created again under an old id grants nobody what was granted for the old
\* one, however deletions, assignments and creations interleave (DeleteRole removes
\* the assignments in the transaction of the role).  Assignments made while no such
\* role existed are the exception: AssignRole does not look.
NoInheritedGrants ==
  \A g \in assignments : role[g.role].exists => g.life \in {0, role[g.role].life}
=============================================================================
