-------------------------- MODULE AdministrationProofs -----------------------
(***************************************************************************)
(* Access control, role assignments and the registry for any number of     *)
(* users, sessions, concurrent requests, roles, assets and tags.           *)
(*                                                                         *)
(* Every step moves the request of at most one handler, in one of five     *)
(* ways (Move).  The invariants about requests in flight, which the        *)
(* properties need to be inductive, follow from that alone; those about    *)
(* the tables from the handlers that write them.                           *)
(***************************************************************************)
EXTENDS Administration, TLAPS

Phases == {"none", "known", "admitted", "checked"}

Requested == (UNION {d.requests : d \in Desks}) \cup {NoOp}

Request == [phase : Phases, token : Tokens \cup {Nobody}, subject : Subjects \cup {Nobody},
            op : Requested]

Assignment == [subject : Subjects, role : Roles, life : Nat]

\* The tables and requests of Access.
AccessTypes ==
  /\ session \in [Tokens -> [owner : Subjects \cup {Nobody}, state : {"live", "expired", "ended"}]]
  /\ role \in [Roles -> [exists : BOOLEAN, permissions : SUBSET Permissions, life : Nat]]
  /\ assignments \subseteq Assignment
  /\ request \in [Handlers -> Request]
  /\ desk \in Desks

Looks(h) ==
  LookAtRole(h) \/ LookAtProfile(h) \/ LookAtAsset(h) \/ LookForAsset(h) \/ LookAtTag(h)

\* The next request x of handler h: it ends, it has looked, it is admitted, or it
\* has just arrived.
Move(h, x) ==
  \/ x = NoRequest
  \/ Looks(h) /\ x = [request[h] EXCEPT !.phase = "checked"]
  \/ Admit(h) /\ x = [request[h] EXCEPT !.phase = "admitted"]
  \/ \E t \in Tokens, op \in desk.requests :
       Arrive(h, t, op) /\ x = [phase |-> "known", token |-> t,
                                subject |-> session[t].owner, op |-> op]

-----------------------------------------------------------------------------
(* Requests.                                                               *)

\* Whatever the desks may ask for is a well-formed operation.
LEMMA RequestedIsWellFormed ==
  ASSUME NEW op \in Requested
  PROVE  WellFormed(op)
<1>1. CASE op = NoOp
  <2>1. NoOp.kind = "none" /\ NoOp.permissions = {}
    BY DEF NoOp
  <2> QED
    BY <1>1, <2>1 DEF WellFormed
<1>2. CASE \E d \in Desks : op \in d.requests
  BY <1>2, DesksAssumption
<1>3. op \in UNION {d.requests : d \in Desks} \/ op = NoOp
  BY DEF Requested
<1> QED
  BY <1>1, <1>2, <1>3

\* The idle handler.
LEMMA NoRequestType == NoRequest \in Request /\ NoRequest.phase = "none"
  BY DEF NoRequest, Request, Requested, Phases

\* Every step moves at most one request, and in one of the ways of Move.
LEMMA RequestMoves ==
  ASSUME AccessTypes, AdminNext
  PROVE  \/ request' = request
         \/ \E h \in Handlers : \E x : Move(h, x) /\ request' = [request EXCEPT ![h] = x]
<1> DEFINE Moves(h) == \E x : Move(h, x) /\ request' = [request EXCEPT ![h] = x]
<1> SUFFICES request' = request \/ \E h \in Handlers : Moves(h)
  OBVIOUS
<1>1. ASSUME NEW h \in Handlers, Done(h) PROVE Moves(h)
  BY <1>1 DEF Done, Move
<1>2. ASSUME NEW h \in Handlers, Looks(h) PROVE Moves(h)
  <2>1. request' = [request EXCEPT ![h] = [request[h] EXCEPT !.phase = "checked"]]
    BY <1>2 DEF Looks, Checked, LookAtRole, LookAtProfile, LookAtAsset, LookForAsset, LookAtTag
  <2> QED
    BY <1>2, <2>1 DEF Move
<1>3. ASSUME NEW h \in Handlers, GivesUp(h) PROVE Moves(h)
  BY <1>3 DEF GivesUp, Move
<1>4. ASSUME NEW h \in Handlers, Admit(h) PROVE Moves(h)
  <2>1. request' = [request EXCEPT ![h] = [request[h] EXCEPT !.phase = "admitted"]]
    BY <1>4 DEF Admit
  <2> QED
    BY <1>4, <2>1 DEF Move
<1>5. ASSUME NEW h \in Handlers, NEW t \in DOMAIN desk.owner, NEW op \in desk.requests,
             Arrive(h, t, op)
      PROVE  Moves(h)
  <2>1. t \in Tokens
    BY DesksAssumption DEF AccessTypes
  <2>2. request' = [request EXCEPT ![h] = [phase |-> "known", token |-> t,
                                           subject |-> session[t].owner, op |-> op]]
    BY <1>5 DEF Arrive
  <2> QED
    BY <1>5, <2>1, <2>2 DEF Move
<1>6. ASSUME NEW h \in Handlers, RoleHandlers(h) PROVE Moves(h)
  BY <1>1, <1>2, <1>6 DEF RoleHandlers, Looks, Logout, CreateRole, UpdateRole, DeleteRole,
                          AssignRole, RevokeRole
<1>7. ASSUME NEW h \in Handlers, ProfileHandlers(h) PROVE Moves(h)
  BY <1>1, <1>2, <1>7 DEF ProfileHandlers, Looks, CreateProfile, ApproveProfile,
                          SetActiveProfile
<1>8. ASSUME NEW h \in Handlers, RegistryHandlers(h) PROVE Moves(h)
  BY <1>1, <1>2, <1>8 DEF RegistryHandlers, Looks, CreateAsset, DeleteAsset, CreateTag,
                          UpdateTag, DeleteTag
<1>9. CASE Ingest
  BY <1>9 DEF Ingest
<1>10. ASSUME NEW t, Login(desk.owner[t], t) \/ Expires(t) \/ Pruned(t)
       PROVE  request' = request
  BY <1>10, Zenon DEF Login, Expires, Pruned
<1> HIDE DEF Moves
<1>11. CASE AccessStep(desk.requests, desk.owner)
  <2>1. CASE \E t \in DOMAIN desk.owner :
               Login(desk.owner[t], t) \/ Expires(t) \/ Pruned(t)
    BY <1>10, <2>1
  <2>2. CASE \E t \in DOMAIN desk.owner, h \in Handlers, op \in desk.requests :
               Arrive(h, t, op)
    BY <1>5, <2>2
  <2>3. CASE \E h \in Handlers : Admit(h) \/ GivesUp(h) \/ RoleHandlers(h)
    BY <1>3, <1>4, <1>6, <2>3
  <2> QED
    BY <1>11, <2>1, <2>2, <2>3 DEF AccessStep
<1> QED
  BY <1>7, <1>8, <1>9, <1>11 DEF AdminNext

\* What a handler works on is well-formed.
LEMMA RequestTypes ==
  ASSUME AccessTypes, NEW h \in Handlers
  PROVE  request[h] \in Request /\ WellFormed(request[h].op)
  BY RequestedIsWellFormed DEF AccessTypes, Request

\* What a handler becomes in one of its steps.
LEMMA MoveTypes ==
  ASSUME AccessTypes, NEW h \in Handlers, NEW x, Move(h, x)
  PROVE  x \in Request
<1>1. request[h] \in Request
  BY RequestTypes
<1>2. CASE \E t \in Tokens, op \in desk.requests :
             x = [phase |-> "known", token |-> t, subject |-> session[t].owner, op |-> op]
  <2>1. PICK t \in Tokens, op \in desk.requests :
          x = [phase |-> "known", token |-> t, subject |-> session[t].owner, op |-> op]
    BY <1>2
  <2>2. op \in Requested
    BY DEF AccessTypes, Requested
  <2>3. session[t].owner \in Subjects \cup {Nobody}
    BY DEF AccessTypes
  <2> QED
    BY <2>1, <2>2, <2>3 DEF Request, Phases
<1>3. CASE x \in {[request[h] EXCEPT !.phase = "checked"], [request[h] EXCEPT !.phase = "admitted"]}
  BY <1>1, <1>3 DEF Request, Phases
<1> QED
  BY <1>2, <1>3, NoRequestType DEF Move

-----------------------------------------------------------------------------
(* Tables.  Which steps write which.                                       *)

\* Who writes roles and assignments (store roles and assignments handlers).
LEMMA RoleTablesMove ==
  ASSUME AdminNext
  PROVE  \/ UNCHANGED <<role, assignments>>
         \/ \E h \in Handlers :
              CreateRole(h) \/ UpdateRole(h) \/ DeleteRole(h) \/ AssignRole(h) \/ RevokeRole(h)
<1> DEFINE Goal == \/ UNCHANGED <<role, assignments>>
                   \/ \E h \in Handlers : \/ CreateRole(h) \/ UpdateRole(h) \/ DeleteRole(h)
                                          \/ AssignRole(h) \/ RevokeRole(h)
<1> SUFFICES Goal
  OBVIOUS
<1>1. ASSUME NEW h \in Handlers, RoleHandlers(h) PROVE Goal
  BY <1>1 DEF RoleHandlers, Logout, LookAtRole
<1>2. ASSUME NEW h \in Handlers, Admit(h) \/ GivesUp(h) PROVE Goal
  BY <1>2 DEF Admit, GivesUp
<1>3. ASSUME NEW t \in DOMAIN desk.owner,
             \/ Login(desk.owner[t], t) \/ Expires(t) \/ Pruned(t)
             \/ \E h \in Handlers, op \in desk.requests : Arrive(h, t, op)
      PROVE  Goal
  BY <1>3 DEF Login, Expires, Pruned, Arrive
<1>4. ASSUME NEW h \in Handlers, ProfileHandlers(h) \/ RegistryHandlers(h) PROVE Goal
  BY <1>4 DEF ProfileHandlers, RegistryHandlers
<1>5. CASE Ingest
  BY <1>5 DEF Ingest
<1> HIDE DEF Goal
<1>6. CASE AccessStep(desk.requests, desk.owner)
  BY <1>1, <1>2, <1>3, <1>6 DEF AccessStep
<1> QED
  BY <1>4, <1>5, <1>6 DEF AdminNext

\* Who writes assets, tags and readings (tag and asset handlers, ingest).
LEMMA RegistryMoves ==
  ASSUME AdminNext
  PROVE  \/ UNCHANGED registryVars
         \/ \E h \in Handlers :
              CreateAsset(h) \/ DeleteAsset(h) \/ CreateTag(h) \/ UpdateTag(h) \/ DeleteTag(h)
         \/ request' = request /\ \E t \in Tags : ReadingArrives(t) \/ ReadingStored(t)
<1>1. ASSUME NEW h \in Handlers, RegistryHandlers(h)
      PROVE  \/ UNCHANGED registryVars
             \/ CreateAsset(h) \/ DeleteAsset(h) \/ CreateTag(h) \/ UpdateTag(h) \/ DeleteTag(h)
  BY <1>1 DEF RegistryHandlers, LookAtAsset, LookForAsset, LookAtTag
<1> QED
  BY <1>1 DEF AdminNext, Ingest

\* Who writes profiles (ore profile handlers).
LEMMA ProfileMoves ==
  ASSUME AdminNext
  PROVE  \/ UNCHANGED profileVars
         \/ \E h \in Handlers : CreateProfile(h) \/ ApproveProfile(h) \/ SetActiveProfile(h)
<1>1. ASSUME NEW h \in Handlers, ProfileHandlers(h)
      PROVE  \/ UNCHANGED profileVars
             \/ CreateProfile(h) \/ ApproveProfile(h) \/ SetActiveProfile(h)
  BY <1>1 DEF ProfileHandlers, LookAtProfile
<1> QED
  BY <1>1 DEF AdminNext

\* A step that ends a request or is not a request's starts no decision.
LEMMA DecidingKept ==
  ASSUME NEW k \in Handlers, NEW kind, Deciding(k, kind)', request \in [Handlers -> Request],
         request' = request \/ \E h \in Handlers : Done(h)
  PROVE  Deciding(k, kind) /\ request'[k] = request[k]
  BY NoRequestType DEF Deciding, Done

\* A decision is taken up by one of the looks, and goes on unchanged.
LEMMA DecidingBegins ==
  ASSUME AccessTypes, AdminNext, NEW k \in Handlers, NEW kind, Deciding(k, kind)'
  PROVE  /\ request'[k].op = request[k].op
         /\ Deciding(k, kind) \/ (Looks(k) /\ Handling(k, kind))
<1>1. request \in [Handlers -> Request]
  BY DEF AccessTypes
<1>2. CASE request'[k] = request[k]
  BY <1>2 DEF Deciding
<1>3. ASSUME NEW x, Move(k, x), request'[k] = x
      PROVE  /\ request'[k].op = request[k].op
             /\ Deciding(k, kind) \/ (Looks(k) /\ Handling(k, kind))
  <2>1. x.phase = "checked" /\ x.op.kind = kind
    BY <1>3 DEF Deciding
  <2>2. Looks(k) /\ x = [request[k] EXCEPT !.phase = "checked"]
    BY <1>1, <1>3, <2>1, NoRequestType DEF Move, Request
  <2>3. request[k].phase = "admitted"
    BY <2>2 DEF Looks, LookAtRole, LookAtProfile, LookAtAsset, LookForAsset, LookAtTag, Handling
  <2> QED
    BY <1>1, <1>3, <2>1, <2>2, <2>3 DEF Handling, Request
<1> QED
  BY <1>1, <1>2, <1>3, RequestMoves

-----------------------------------------------------------------------------
(* Types.                                                                  *)

\* Sessions keep their type.
LEMMA SessionTypes ==
  ASSUME AccessTypes, AdminNext
  PROVE  session' \in [Tokens -> [owner : Subjects \cup {Nobody},
                                  state : {"live", "expired", "ended"}]]
<1> DEFINE Session == [owner : Subjects \cup {Nobody}, state : {"live", "expired", "ended"}]
           Goal == session' \in [Tokens -> Session]
<1> SUFFICES Goal
  OBVIOUS
<1>1. session \in [Tokens -> Session]
  BY DEF AccessTypes
<1>2. ASSUME NEW t \in DOMAIN desk.owner, Login(desk.owner[t], t) PROVE Goal
  <2>1. desk.owner[t] \in Subjects
    BY DesksAssumption DEF AccessTypes
  <2>2. [owner |-> desk.owner[t], state |-> "live"] \in Session
    BY <2>1
  <2> QED
    BY <1>1, <1>2, <2>2 DEF Login
<1>3. ASSUME NEW t PROVE /\ [session EXCEPT ![t].state = "expired"] \in [Tokens -> Session]
                         /\ [session EXCEPT ![t].state = "ended"] \in [Tokens -> Session]
  BY <1>1
<1>4. ASSUME NEW t, Expires(t) \/ Pruned(t) PROVE Goal
  <2>1. CASE Expires(t)
    BY <1>1, <2>1 DEF Expires
  <2>2. CASE Pruned(t)
    BY <1>1, <2>2 DEF Pruned
  <2> QED
    BY <1>4, <2>1, <2>2
<1>5. ASSUME NEW h \in Handlers, RoleHandlers(h) PROVE Goal
  BY <1>1, <1>3, <1>5 DEF RoleHandlers, Logout, CreateRole, UpdateRole, LookAtRole, DeleteRole,
                          AssignRole, RevokeRole
<1>6. ASSUME NEW h \in Handlers, Admit(h) \/ GivesUp(h) PROVE Goal
  BY <1>1, <1>6 DEF Admit, GivesUp
<1>7. ASSUME NEW t, NEW h \in Handlers, NEW op, Arrive(h, t, op) PROVE Goal
  BY <1>1, <1>7 DEF Arrive
<1>8. ASSUME NEW h \in Handlers, ProfileHandlers(h) \/ RegistryHandlers(h) PROVE Goal
  BY <1>1, <1>8 DEF ProfileHandlers, RegistryHandlers
<1>9. CASE Ingest
  BY <1>1, <1>9 DEF Ingest
<1> HIDE DEF Goal
<1>10. CASE AccessStep(desk.requests, desk.owner)
  BY <1>2, <1>4, <1>5, <1>6, <1>7, <1>10 DEF AccessStep
<1> QED
  BY <1>8, <1>9, <1>10 DEF AdminNext

\* Roles and assignments keep their types.
LEMMA RoleTableTypes ==
  ASSUME AccessTypes, AdminNext
  PROVE  /\ role' \in [Roles -> [exists : BOOLEAN, permissions : SUBSET Permissions, life : Nat]]
         /\ assignments' \subseteq Assignment
<1> DEFINE Role == [exists : BOOLEAN, permissions : SUBSET Permissions, life : Nat]
           Goal == role' \in [Roles -> Role] /\ assignments' \subseteq Assignment
<1> SUFFICES Goal
  OBVIOUS
<1>1. role \in [Roles -> Role] /\ assignments \subseteq Assignment
  BY DEF AccessTypes
<1>2. ASSUME NEW h \in Handlers, CreateRole(h) PROVE Goal
  <2>1. On(h) \in Roles /\ Listed(h) \subseteq Permissions
    BY <1>2, RequestTypes DEF CreateRole, Handling, WellFormed, On, Listed
  <2>2. [exists |-> TRUE, permissions |-> Listed(h), life |-> role[On(h)].life + 1] \in Role
    BY <1>1, <2>1
  <2> QED
    BY <1>1, <1>2, <2>1, <2>2 DEF CreateRole
<1>3. ASSUME NEW h \in Handlers, UpdateRole(h) PROVE Goal
  <2>1. On(h) \in Roles /\ Listed(h) \subseteq Permissions
    BY <1>3, RequestTypes DEF UpdateRole, Handling, WellFormed, On, Listed
  <2>2. [role[On(h)] EXCEPT !.permissions = Listed(h)] \in Role
    BY <1>1, <2>1
  <2> QED
    BY <1>1, <1>3, <2>1, <2>2 DEF UpdateRole
<1>4. ASSUME NEW h \in Handlers, DeleteRole(h) PROVE Goal
  <2>1. role' \in [Roles -> Role]
    BY <1>1, <1>4 DEF DeleteRole
  <2> QED
    BY <1>1, <1>4, <2>1 DEF DeleteRole, WithoutRole
<1>5. ASSUME NEW h \in Handlers, AssignRole(h) PROVE Goal
  <2>1. On(h) \in Subjects /\ With(h) \in Roles
    BY <1>5, RequestTypes DEF AssignRole, Handling, WellFormed, On, With
  <2>2. LifeOf(With(h)) \in Nat
    BY <1>1, <2>1 DEF LifeOf
  <2>3. Grant(On(h), With(h), LifeOf(With(h))) \in Assignment
    BY <2>1, <2>2 DEF Grant, Assignment
  <2> QED
    BY <1>1, <1>5, <2>3 DEF AssignRole
<1>6. ASSUME NEW h \in Handlers, RevokeRole(h) PROVE Goal
  BY <1>1, <1>6 DEF RevokeRole
<1>7. CASE UNCHANGED <<role, assignments>>
  BY <1>1, <1>7
<1> HIDE DEF Goal
<1> QED
  BY <1>2, <1>3, <1>4, <1>5, <1>6, <1>7, RoleTablesMove

\* All variables of the access control keep their types.
LEMMA AccessTypesPreserved ==
  ASSUME AccessTypes, AdminNext PROVE AccessTypes'
<1>1. request' \in [Handlers -> Request]
  <2>1. request \in [Handlers -> Request]
    BY DEF AccessTypes
  <2> QED
    BY <2>1, RequestMoves, MoveTypes
<1>2. desk' \in Desks
  BY DEF AccessTypes, AdminNext
<1> QED
  BY <1>1, <1>2, SessionTypes, RoleTableTypes DEF AccessTypes

\* Sessions, roles, assignments and requests keep their types; in particular every
\* assignment names a user (store/rbac.go, store/users.go).
LEMMA AccessTypesHold == AdminSpec => []AccessTypes
<1>1. AdminInit => AccessTypes
  <2> SUFFICES ASSUME AdminInit PROVE AccessTypes
    OBVIOUS
  <2>1. session \in [Tokens -> [owner : Subjects \cup {Nobody}, state : {"live", "expired", "ended"}]]
    BY DEF AdminInit, AccessInit
  <2>2. role \in [Roles -> [exists : BOOLEAN, permissions : SUBSET Permissions, life : Nat]]
    BY DEF AdminInit, AccessInit
  <2>3. assignments \subseteq Assignment
    BY RolesAssumption DEF AdminInit, AccessInit, Grant, Assignment
  <2>4. request \in [Handlers -> Request]
    BY NoRequestType DEF AdminInit, AccessInit
  <2> QED
    BY <2>1, <2>2, <2>3, <2>4 DEF AdminInit, AccessTypes
<1>2. AccessTypes /\ UNCHANGED adminVars => AccessTypes'
  BY DEF AccessTypes, adminVars, accessVars
<1> QED
  BY <1>1, <1>2, AccessTypesPreserved, PTL DEF AdminSpec

-----------------------------------------------------------------------------
(* Assignments.                                                            *)

\* An assignment made to a role that was there is one of the life the role is in.
GrantsAreCurrent ==
  \A g \in assignments : g.life # 0 => role[g.role].exists /\ g.life = role[g.role].life

\* Assignments stay those of the life of their role (DeleteRole, AssignRole).
LEMMA GrantsPreserved ==
  ASSUME AccessTypes, GrantsAreCurrent, AdminNext PROVE GrantsAreCurrent'
<1> DEFINE Role == [exists : BOOLEAN, permissions : SUBSET Permissions, life : Nat]
<1>1. /\ role \in [Roles -> Role] /\ \A g \in assignments : g.role \in Roles
      /\ assignments \subseteq Assignment
  BY DEF AccessTypes, Assignment
<1>2. ASSUME NEW h \in Handlers, CreateRole(h) PROVE GrantsAreCurrent'
  <2>1. /\ \A r \in Roles : r # On(h) => role'[r] = role[r]
        /\ ~role[On(h)].exists /\ assignments' = assignments
    BY <1>1, <1>2 DEF CreateRole
  <2> QED
    BY <1>1, <2>1 DEF GrantsAreCurrent
<1>3. ASSUME NEW h \in Handlers, UpdateRole(h) PROVE GrantsAreCurrent'
  <2>1. /\ \A r \in Roles : role'[r].exists = role[r].exists /\ role'[r].life = role[r].life
        /\ assignments' = assignments
    BY <1>1, <1>3 DEF UpdateRole
  <2> QED
    BY <1>1, <2>1 DEF GrantsAreCurrent
<1>4. ASSUME NEW h \in Handlers, DeleteRole(h) PROVE GrantsAreCurrent'
  <2>1. /\ \A r \in Roles : r # On(h) => role'[r] = role[r]
        /\ assignments' = {g \in assignments : g.role # On(h)}
    BY <1>1, <1>4 DEF DeleteRole, WithoutRole
  <2> QED
    BY <1>1, <2>1 DEF GrantsAreCurrent
<1>5. ASSUME NEW h \in Handlers, AssignRole(h) PROVE GrantsAreCurrent'
  <2>1. /\ role' = role
        /\ assignments' \subseteq assignments \cup {Grant(On(h), With(h), LifeOf(With(h)))}
    BY <1>5 DEF AssignRole
  <2>2. LET g == Grant(On(h), With(h), LifeOf(With(h)))
        IN  g.life # 0 => role[g.role].exists /\ g.life = role[g.role].life
    BY DEF Grant, LifeOf
  <2> QED
    BY <2>1, <2>2 DEF GrantsAreCurrent
<1>6. ASSUME NEW h \in Handlers, RevokeRole(h) PROVE GrantsAreCurrent'
  BY <1>6 DEF RevokeRole, GrantsAreCurrent
<1>7. CASE UNCHANGED <<role, assignments>>
  BY <1>7 DEF GrantsAreCurrent
<1> QED
  BY <1>2, <1>3, <1>4, <1>5, <1>6, <1>7, RoleTablesMove

\* However deletions, creations and assignments interleave, a role created again
\* under an old id grants nobody what was granted for the old one (DeleteRole).
THEOREM NoInheritedGrantsAlways == AdminSpec => []NoInheritedGrants
<1>1. AdminInit => GrantsAreCurrent
  <2> SUFFICES ASSUME AdminInit, NEW g \in assignments
               PROVE  role[g.role].exists /\ g.life = role[g.role].life
    BY DEF GrantsAreCurrent
  <2>1. PICK s \in Seeded : g = Grant(s[1], s[2], 1)
    BY DEF AdminInit, AccessInit
  <2>2. s[2] \in SystemRoles /\ s[2] \in Roles
    BY RolesAssumption
  <2> QED
    BY <2>1, <2>2 DEF Grant, AdminInit, AccessInit
<1>2. GrantsAreCurrent /\ UNCHANGED adminVars => GrantsAreCurrent'
  BY DEF GrantsAreCurrent, adminVars, accessVars
<1>3. GrantsAreCurrent => NoInheritedGrants
  BY DEF GrantsAreCurrent, NoInheritedGrants
<1> QED
  BY <1>1, <1>2, <1>3, GrantsPreserved, AccessTypesHold, PTL DEF AdminSpec

-----------------------------------------------------------------------------
(* Assets, tags and readings.                                              *)

RegistryTypes ==
  /\ asset \subseteq Assets
  /\ tagAsset \in [Tags -> Assets \cup {Nowhere}]
  /\ recorded \subseteq Tags /\ incoming \subseteq Tags /\ excused \subseteq Tags

\* What a handler has looked for is still so, or somebody has been excused for it.
AssetStillThere ==
  \A h \in Handlers : Deciding(h, "createTag") => With(h) \in asset \/ On(h) \in excused

AssetStillEmpty ==
  \A h \in Handlers : Deciding(h, "deleteAsset") =>
    \A t \in Tags : tagAsset[t] = On(h) => t \in excused

TagStillUnread ==
  \A h \in Handlers : Deciding(h, "deleteTag") => (On(h) \in recorded => On(h) \in excused)

TagStillThere == \A t \in incoming : Exists(t) \/ t \in excused

RegistryInv ==
  /\ RegistryTypes
  /\ AssetStillThere /\ AssetStillEmpty /\ TagStillUnread /\ TagStillThere
  /\ OrphansNeedARace

\* The step leaves the tables alone: only a look may begin a decision.
LEMMA LooksPreserve ==
  ASSUME AccessTypes, RegistryInv, AdminNext, UNCHANGED registryVars
  PROVE  RegistryInv'
<1> USE DEF registryVars
<1>1. RegistryTypes' /\ TagStillThere' /\ OrphansNeedARace'
  BY DEF RegistryInv, RegistryTypes, TagStillThere, OrphansNeedARace, Exists
<1>2. ASSUME NEW k \in Handlers, Deciding(k, "createTag")'
      PROVE  With(k)' \in asset' \/ On(k)' \in excused'
  <2>1. /\ request'[k].op = request[k].op
        /\ Deciding(k, "createTag") \/ (Looks(k) /\ Handling(k, "createTag"))
    BY <1>2, DecidingBegins
  <2>2. CASE Deciding(k, "createTag")
    BY <2>1, <2>2 DEF RegistryInv, AssetStillThere, On, With
  <2>3. CASE Looks(k) /\ Handling(k, "createTag")
    BY <2>1, <2>3 DEF Looks, LookAtRole, LookAtProfile, LookAtAsset, LookForAsset, LookAtTag,
                      Handling, With
  <2> QED
    BY <2>1, <2>2, <2>3
<1>3. ASSUME NEW k \in Handlers, Deciding(k, "deleteAsset")', NEW t \in Tags,
             tagAsset'[t] = On(k)'
      PROVE  t \in excused'
  <2>1. /\ request'[k].op = request[k].op
        /\ Deciding(k, "deleteAsset") \/ (Looks(k) /\ Handling(k, "deleteAsset"))
    BY <1>3, DecidingBegins
  <2>2. CASE Deciding(k, "deleteAsset")
    BY <1>3, <2>1, <2>2 DEF RegistryInv, AssetStillEmpty, On
  <2>3. CASE Looks(k) /\ Handling(k, "deleteAsset")
    BY <1>3, <2>1, <2>3 DEF Looks, LookAtRole, LookAtProfile, LookAtAsset, LookForAsset, LookAtTag,
                            Handling, Unreferenced, On
  <2> QED
    BY <2>1, <2>2, <2>3
<1>4. ASSUME NEW k \in Handlers, Deciding(k, "deleteTag")', On(k)' \in recorded'
      PROVE  On(k)' \in excused'
  <2>1. /\ request'[k].op = request[k].op
        /\ Deciding(k, "deleteTag") \/ (Looks(k) /\ Handling(k, "deleteTag"))
    BY <1>4, DecidingBegins
  <2>2. CASE Deciding(k, "deleteTag")
    BY <1>4, <2>1, <2>2 DEF RegistryInv, TagStillUnread, On
  <2>3. CASE Looks(k) /\ Handling(k, "deleteTag")
    BY <1>4, <2>1, <2>3 DEF Looks, LookAtRole, LookAtProfile, LookAtAsset, LookForAsset, LookAtTag,
                            Handling, On
  <2> QED
    BY <2>1, <2>2, <2>3
<1> QED
  BY <1>1, <1>2, <1>3, <1>4 DEF RegistryInv, AssetStillThere, AssetStillEmpty, TagStillUnread

\* A step that writes the tables begins no decision: the decisions after it were
\* under way before.
LEMMA DecisionsUnderWay ==
  ASSUME AccessTypes, request' = request \/ \E h \in Handlers : Done(h)
  PROVE  \A k \in Handlers : \A kind \in {"createTag", "deleteAsset", "deleteTag", "activate"} :
           Deciding(k, kind)' => Deciding(k, kind) /\ On(k)' = On(k) /\ With(k)' = With(k)
<1>1. request \in [Handlers -> Request]
  BY DEF AccessTypes
<1> QED
  BY <1>1, DecidingKept DEF On, With

\* A new asset has no tags yet (CreateAsset).
LEMMA CreateAssetPreserves ==
  ASSUME AccessTypes, RegistryInv, NEW h \in Handlers, CreateAsset(h) PROVE RegistryInv'
<1>1. On(h) \in Assets
  BY RequestTypes DEF CreateAsset, Handling, WellFormed, On
<1>2. /\ asset' = asset \cup {On(h)} /\ UNCHANGED <<tagAsset, recorded, incoming, excused>>
      /\ Done(h)
  BY DEF CreateAsset
<1>3. RegistryTypes' /\ TagStillThere' /\ OrphansNeedARace'
  BY <1>1, <1>2 DEF RegistryInv, RegistryTypes, TagStillThere, OrphansNeedARace, Exists
<1>4. AssetStillThere' /\ AssetStillEmpty' /\ TagStillUnread'
  BY <1>2, DecisionsUnderWay DEF RegistryInv, AssetStillThere, AssetStillEmpty, TagStillUnread
<1> QED
  BY <1>3, <1>4 DEF RegistryInv

\* Tags under an asset that disappears, and tags about to be created under it, are
\* excused by the decision that was under way (DeleteAsset).
LEMMA DeleteAssetPreserves ==
  ASSUME AccessTypes, RegistryInv, NEW h \in Handlers, DeleteAsset(h) PROVE RegistryInv'
<1>1. /\ asset' = asset \ {On(h)} /\ excused' = excused \cup Creating(On(h))
      /\ UNCHANGED <<tagAsset, recorded, incoming>> /\ Done(h)
      /\ Deciding(h, "deleteAsset")
  BY DEF DeleteAsset
<1>2. Creating(On(h)) \subseteq Tags
  BY RequestTypes DEF Creating, Deciding, WellFormed, On
<1>3. RegistryTypes'
  BY <1>1, <1>2 DEF RegistryInv, RegistryTypes
<1>4. TagStillThere'
  BY <1>1 DEF RegistryInv, TagStillThere, Exists
<1>5. OrphansNeedARace'
  <2> SUFFICES ASSUME NEW t \in Tags \ excused'
               PROVE  /\ Exists(t) => tagAsset[t] \in asset'
                      /\ t \in recorded => Exists(t)
    BY <1>1 DEF OrphansNeedARace, Exists
  <2>1. t \notin excused /\ tagAsset[t] # On(h)
    BY <1>1 DEF RegistryInv, AssetStillEmpty
  <2> QED
    BY <1>1, <2>1 DEF RegistryInv, OrphansNeedARace
<1>6. AssetStillThere'
  <2> SUFFICES ASSUME NEW k \in Handlers, Deciding(k, "createTag"), With(k) \notin asset'
               PROVE  On(k) \in excused'
    BY <1>1, DecisionsUnderWay DEF AssetStillThere
  <2>1. CASE With(k) = On(h)
    BY <1>1, <2>1 DEF Creating
  <2>2. CASE With(k) # On(h)
    BY <1>1, <2>2 DEF RegistryInv, AssetStillThere
  <2> QED
    BY <2>1, <2>2
<1>7. AssetStillEmpty' /\ TagStillUnread'
  BY <1>1, DecisionsUnderWay DEF RegistryInv, AssetStillEmpty, TagStillUnread
<1> QED
  BY <1>3, <1>4, <1>5, <1>6, <1>7 DEF RegistryInv

\* A tag gets an asset: the asset is there, or the tag is excused (CreateTag,
\* UpdateTag).
LEMMA TagMovedPreserves ==
  ASSUME AccessTypes, RegistryInv, NEW h \in Handlers, CreateTag(h) \/ UpdateTag(h)
  PROVE  RegistryInv'
<1>1. On(h) \in Tags /\ With(h) \in Assets
  BY RequestTypes DEF CreateTag, UpdateTag, Deciding, Handling, WellFormed, On, With
<1>2. /\ tagAsset' = [tagAsset EXCEPT ![On(h)] = With(h)] /\ UNCHANGED <<asset, recorded, incoming>>
      /\ excused' \in {excused, excused \cup {On(h)}} /\ Done(h)
      /\ Deleting("deleteAsset", With(h)) => On(h) \in excused'
  BY DEF CreateTag, UpdateTag
<1>3. With(h) \in asset \/ On(h) \in excused'
  BY DEF CreateTag, UpdateTag, RegistryInv, AssetStillThere
<1>4. tagAsset \in [Tags -> Assets \cup {Nowhere}] /\ Nowhere \notin Assets
  BY PlantAssumption DEF RegistryInv, RegistryTypes
<1>5. /\ tagAsset'[On(h)] = With(h)
      /\ \A t \in Tags : t # On(h) => tagAsset'[t] = tagAsset[t]
  BY <1>1, <1>2, <1>4
<1>6. RegistryTypes'
  BY <1>1, <1>2 DEF RegistryInv, RegistryTypes
<1>7. TagStillThere'
  BY <1>1, <1>2, <1>4, <1>5 DEF RegistryInv, RegistryTypes, TagStillThere, Exists
<1>8. OrphansNeedARace'
  <2> SUFFICES ASSUME NEW t \in Tags \ excused'
               PROVE  /\ tagAsset'[t] # Nowhere => tagAsset'[t] \in asset
                      /\ t \in recorded => tagAsset'[t] # Nowhere
    BY <1>2 DEF OrphansNeedARace, Exists
  <2>1. CASE t = On(h)
    BY <1>1, <1>3, <1>4, <1>5, <2>1
  <2>2. CASE t # On(h)
    BY <1>2, <1>5, <2>2 DEF RegistryInv, OrphansNeedARace, Exists
  <2> QED
    BY <2>1, <2>2
<1>9. AssetStillEmpty'
  <2> SUFFICES ASSUME NEW k \in Handlers, Deciding(k, "deleteAsset"), NEW t \in Tags,
                      tagAsset'[t] = On(k)
               PROVE  t \in excused'
    BY DecisionsUnderWay, <1>2 DEF AssetStillEmpty
  <2>1. CASE t = On(h)
    BY <1>2, <1>5, <2>1 DEF Deleting
  <2>2. CASE t # On(h)
    BY <1>2, <1>5, <2>2 DEF RegistryInv, AssetStillEmpty
  <2> QED
    BY <2>1, <2>2
<1>10. AssetStillThere' /\ TagStillUnread'
  BY <1>2, DecisionsUnderWay DEF RegistryInv, AssetStillThere, TagStillUnread
<1> QED
  BY <1>6, <1>7, <1>8, <1>9, <1>10 DEF RegistryInv

\* A tag disappears without readings, or is excused (DeleteTag).
LEMMA DeleteTagPreserves ==
  ASSUME AccessTypes, RegistryInv, NEW h \in Handlers, DeleteTag(h) PROVE RegistryInv'
<1>1. On(h) \in Tags
  BY RequestTypes DEF DeleteTag, Deciding, WellFormed, On
<1>2. /\ tagAsset' = [tagAsset EXCEPT ![On(h)] = Nowhere] /\ UNCHANGED <<asset, recorded, incoming>>
      /\ excused' \in {excused, excused \cup {On(h)}} /\ Done(h)
      /\ On(h) \in incoming => On(h) \in excused'
      /\ On(h) \in recorded => On(h) \in excused
  BY DEF DeleteTag, RegistryInv, TagStillUnread
<1>3. tagAsset \in [Tags -> Assets \cup {Nowhere}] /\ Nowhere \notin Assets
  BY PlantAssumption DEF RegistryInv, RegistryTypes
<1>4. /\ tagAsset'[On(h)] = Nowhere
      /\ \A t \in Tags : t # On(h) => tagAsset'[t] = tagAsset[t]
  BY <1>1, <1>2, <1>3
<1>5. RegistryTypes'
  BY <1>1, <1>2 DEF RegistryInv, RegistryTypes
<1>6. TagStillThere'
  BY <1>2, <1>4 DEF RegistryInv, RegistryTypes, TagStillThere, Exists
<1>7. OrphansNeedARace'
  BY <1>2, <1>4 DEF RegistryInv, OrphansNeedARace, Exists
<1>8. ASSUME NEW k \in Handlers, Deciding(k, "deleteAsset"), NEW t \in Tags, tagAsset'[t] = On(k)
      PROVE  t \in excused'
  <2>1. On(k) \in Assets
    BY <1>8, RequestTypes DEF Deciding, WellFormed, On
  <2> QED
    BY <1>2, <1>3, <1>4, <1>8, <2>1 DEF RegistryInv, AssetStillEmpty
<1>9. AssetStillEmpty'
  BY <1>2, <1>8, DecisionsUnderWay DEF AssetStillEmpty
<1>10. AssetStillThere' /\ TagStillUnread'
  BY <1>2, DecisionsUnderWay DEF RegistryInv, AssetStillThere, TagStillUnread
<1> QED
  BY <1>5, <1>6, <1>7, <1>9, <1>10 DEF RegistryInv

\* A reading that arrives finds its tag; when it is stored the tag is still there,
\* or it is excused (ingestOne).
LEMMA ReadingPreserves ==
  ASSUME AccessTypes, RegistryInv, request' = request, NEW t \in Tags,
         ReadingArrives(t) \/ ReadingStored(t)
  PROVE  RegistryInv'
<1>1. /\ UNCHANGED <<asset, tagAsset>>
      /\ excused' \in {excused, excused \cup {t}} /\ incoming' \subseteq incoming \cup {t}
      /\ recorded' \in {recorded, recorded \cup {t}}
      /\ recorded' # recorded => t \in incoming /\ (Deleting("deleteTag", t) => t \in excused')
      /\ t \in incoming' => Exists(t) \/ t \in incoming
  BY DEF ReadingArrives, ReadingStored
<1>2. RegistryTypes' /\ TagStillThere'
  BY <1>1 DEF RegistryInv, RegistryTypes, TagStillThere, Exists
<1>3. OrphansNeedARace'
  BY <1>1 DEF RegistryInv, TagStillThere, OrphansNeedARace, Exists
<1>4. TagStillUnread'
  BY <1>1, DecisionsUnderWay DEF RegistryInv, TagStillUnread, Deleting
<1>5. AssetStillThere' /\ AssetStillEmpty'
  BY <1>1, DecisionsUnderWay DEF RegistryInv, AssetStillThere, AssetStillEmpty
<1> QED
  BY <1>2, <1>3, <1>4, <1>5 DEF RegistryInv

\* Without foreign keys, a tag has its asset and a reading its tag unless the owner
\* was deleted at the very moment they were written, or UpdateTag named an asset
\* that is not there (DeleteAsset, CreateTag, UpdateTag, DeleteTag, ingestOne).
THEOREM OrphansNeedARaceAlways == AdminSpec => []OrphansNeedARace
<1>1. AdminInit => RegistryInv
  BY NoRequestType, PlantAssumption
     DEF AdminInit, RegistryInit, AccessInit, RegistryInv, RegistryTypes, AssetStillThere,
         AssetStillEmpty, TagStillUnread, TagStillThere, OrphansNeedARace, Deciding, Exists
<1>2. AccessTypes /\ RegistryInv /\ AdminNext => RegistryInv'
  BY RegistryMoves, LooksPreserve, CreateAssetPreserves, DeleteAssetPreserves, TagMovedPreserves,
     DeleteTagPreserves, ReadingPreserves
<1>3. RegistryInv /\ UNCHANGED adminVars => RegistryInv'
  BY DEF RegistryInv, adminVars, accessVars, registryVars, RegistryTypes, AssetStillThere,
         AssetStillEmpty, TagStillUnread, TagStillThere, OrphansNeedARace, Deciding, Exists, On, With
<1>4. RegistryInv => OrphansNeedARace
  BY DEF RegistryInv
<1> QED
  BY <1>1, <1>2, <1>3, <1>4, AccessTypesHold, PTL DEF AdminSpec

-----------------------------------------------------------------------------
(* Profiles.                                                               *)

Profile == [status : {"none", "draft", "approved", "active"}, approver : Subjects \cup {Nobody}]

Activatable(p) == \/ p = Baseline /\ profile[p].status = "active"
                  \/ profile[p].approver # Nobody

\* Exactly the approved profiles carry a name, and one that is about to become
\* active does; the baseline, which is nobody's draft, is the exception.
ProfileInv ==
  /\ profile \in [ProfileIds -> Profile]
  /\ \A p \in ProfileIds :
       profile[p].approver # Nobody <=> profile[p].status \in {"approved", "active"} /\ p # Baseline
  /\ profile[Baseline].status \in {"none", "active"}
  /\ \A h \in Handlers : Deciding(h, "activate") => Activatable(On(h))

ChangesUnderControl ==
  /\ active' # active => active' = Baseline \/ profile[active'].approver # Nobody
  /\ \A p \in ProfileIds : profile[p].approver # Nobody =>
       /\ profile'[p].approver = profile[p].approver
       /\ profile'[p].status \in {"approved", "active"}

\* A step keeps profiles consistent and moves them under change control only.
LEMMA ProfileStep ==
  ASSUME AccessTypes, ProfileInv, AdminNext
  PROVE  ProfileInv' /\ (UNCHANGED profileVars \/ ChangesUnderControl)
<1>1. CASE UNCHANGED profileVars
  <2>1. ASSUME NEW k \in Handlers, Deciding(k, "activate")'
        PROVE  Activatable(On(k))'
    <3>1. /\ request'[k].op = request[k].op
          /\ Deciding(k, "activate") \/ (Looks(k) /\ Handling(k, "activate"))
      BY <2>1, DecidingBegins
    <3>2. CASE Deciding(k, "activate")
      BY <1>1, <3>1, <3>2 DEF ProfileInv, profileVars, Activatable, On
    <3>3. CASE Looks(k) /\ Handling(k, "activate")
      <4>1. profile[On(k)].status \in {"approved", "active"}
        BY <3>3 DEF Looks, LookAtRole, LookAtProfile, LookAtAsset, LookForAsset, LookAtTag, Handling
      <4>2. On(k) \in ProfileIds
        BY <3>3, RequestTypes DEF Handling, WellFormed, On
      <4> QED
        BY <1>1, <3>1, <4>1, <4>2 DEF ProfileInv, profileVars, Activatable, On
    <3> QED
      BY <3>1, <3>2, <3>3
  <2> QED
    BY <1>1, <2>1 DEF ProfileInv, Activatable, profileVars
<1>2. ASSUME NEW h \in Handlers, CreateProfile(h) PROVE ProfileInv' /\ ChangesUnderControl
  <2>1. PICK p \in ProfileIds \ Shipped :
               profile[p].status = "none" /\ profile' = [profile EXCEPT ![p].status = "draft"]
    BY <1>2 DEF CreateProfile
  <2>2. Done(h) /\ active' = active
    BY <1>2 DEF CreateProfile
  <2>3. profile' \in [ProfileIds -> Profile]
    BY <2>1 DEF ProfileInv, Profile
  <2>4. /\ \A q \in ProfileIds : q # p => profile'[q] = profile[q]
        /\ profile'[p].status = "draft" /\ profile'[p].approver = profile[p].approver
        /\ profile[p].approver = Nobody /\ p # Baseline
    BY <2>1, ProfilesAssumption DEF ProfileInv, Profile
  <2>5. \A k \in Handlers : Deciding(k, "activate")' =>
          Deciding(k, "activate") /\ On(k)' = On(k) /\ On(k) \in ProfileIds
    BY <2>2, DecisionsUnderWay, RequestTypes DEF Deciding, WellFormed, On
  <2> QED
    BY <2>1, <2>2, <2>3, <2>4, <2>5, ProfilesAssumption
       DEF ProfileInv, Activatable, ChangesUnderControl
<1>3. ASSUME NEW h \in Handlers, ApproveProfile(h) PROVE ProfileInv' /\ ChangesUnderControl
  <2> DEFINE p == On(h)
  <2>1. p \in ProfileIds /\ With(h) \in Subjects /\ With(h) # Nobody
    BY <1>3, RequestTypes, SubjectsAssumption DEF ApproveProfile, Handling, WellFormed, On, With
  <2>2. /\ Done(h) /\ active' = active /\ profile[p].status = "draft"
        /\ profile' = [profile EXCEPT ![p] = [status |-> "approved", approver |-> With(h)]]
    BY <1>3 DEF ApproveProfile, Approvable
  <2>3. profile' \in [ProfileIds -> Profile]
    BY <2>1, <2>2 DEF ProfileInv, Profile
  <2>4. /\ \A q \in ProfileIds : q # p => profile'[q] = profile[q]
        /\ profile'[p].status = "approved" /\ profile'[p].approver # Nobody
        /\ profile[p].approver = Nobody /\ p # Baseline
    BY <2>1, <2>2 DEF ProfileInv, Profile
  <2>5. \A k \in Handlers : Deciding(k, "activate")' =>
          Deciding(k, "activate") /\ On(k)' = On(k) /\ On(k) \in ProfileIds
    BY <2>2, DecisionsUnderWay, RequestTypes DEF Deciding, WellFormed, On
  <2> HIDE DEF p
  <2> QED
    BY <2>1, <2>2, <2>3, <2>4, <2>5, ProfilesAssumption
       DEF ProfileInv, Activatable, ChangesUnderControl
<1>4. ASSUME NEW h \in Handlers, SetActiveProfile(h) PROVE ProfileInv' /\ ChangesUnderControl
  <2> DEFINE p == On(h)
  <2>1. p \in ProfileIds
    BY <1>4, RequestTypes DEF SetActiveProfile, Deciding, WellFormed, On
  <2>2. /\ Done(h) /\ active' = p /\ Activatable(p)
        /\ profile' = [profile EXCEPT ![p].status = "active"]
    BY <1>4 DEF SetActiveProfile, ProfileInv
  <2>3. profile' \in [ProfileIds -> Profile]
    BY <2>1, <2>2 DEF ProfileInv, Profile
  <2>4. /\ \A q \in ProfileIds : q # p => profile'[q] = profile[q]
        /\ profile'[p].status = "active" /\ profile'[p].approver = profile[p].approver
    BY <2>1, <2>2 DEF ProfileInv, Profile
  <2>5. \A k \in Handlers : Deciding(k, "activate")' =>
          Deciding(k, "activate") /\ On(k)' = On(k) /\ On(k) \in ProfileIds
    BY <2>2, DecisionsUnderWay, RequestTypes DEF Deciding, WellFormed, On
  <2> HIDE DEF p
  <2> QED
    BY <2>1, <2>2, <2>3, <2>4, <2>5, ProfilesAssumption
       DEF ProfileInv, Activatable, ChangesUnderControl
<1> QED
  BY <1>1, <1>2, <1>3, <1>4, ProfileMoves

\* Wherever the database starts, the plant switches only to a profile somebody
\* approved before or back to the shipped baseline, and an approval is neither withdrawn nor signed over (ApproveProfile, ActivateProfile).
THEOREM ChangeControlAlways == AdminSpec => ChangeControl
<1>1. AdminInit => ProfileInv
  <2> SUFFICES ASSUME AdminInit PROVE ProfileInv
    OBVIOUS
  <2>1. \A h \in Handlers : ~Deciding(h, "activate")
    BY NoRequestType DEF AdminInit, AccessInit, Deciding
  <2>2. /\ profile \in [ProfileIds -> Profile]
        /\ \A p \in ProfileIds :
             /\ profile[p].approver = Nobody
             /\ profile[p].status \in {"approved", "active"} => p = Baseline
        /\ profile[Baseline].status \in {"none", "active"}
    BY ProfilesAssumption DEF AdminInit, ProfilesInit, Profile, Unwritten
  <2> QED
    BY <2>1, <2>2 DEF ProfileInv
<1>2. ProfileInv /\ UNCHANGED adminVars => ProfileInv' /\ UNCHANGED profileVars
  BY DEF ProfileInv, adminVars, accessVars, profileVars, Activatable, Deciding, On
<1>3. AccessTypes /\ ProfileInv /\ [AdminNext]_adminVars => [ChangesUnderControl]_profileVars
  BY <1>2, ProfileStep
<1>4. ProfileInv /\ AccessTypes /\ [AdminNext]_adminVars => ProfileInv'
  BY <1>2, ProfileStep
<1>5. AdminSpec => [][ChangesUnderControl]_profileVars
  BY <1>1, <1>3, <1>4, AccessTypesHold, PTL DEF AdminSpec
<1> QED
  BY <1>5 DEF ChangeControl, ChangesUnderControl
=============================================================================
