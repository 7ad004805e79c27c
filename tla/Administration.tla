--------------------------- MODULE Administration ----------------------------
(***************************************************************************)
(* The administrative requests of the server behind its middleware.        *)
(***************************************************************************)
EXTENDS Profiles, Registry

CONSTANTS
  Desks      \* requests and token owners that are in use together (bound)

\* What the paths and bodies of the requests may name.
WellFormed(op) ==
  /\ op.permissions \subseteq Permissions
  /\ op.kind \in {"createRole", "updateRole", "deleteRole"} => op.on \in Roles
  /\ op.kind \in {"assign", "revoke"} => op.on \in Subjects /\ op.with \in Roles
  /\ op.kind \in {"approve", "activate"} => op.on \in ProfileIds
  /\ op.kind = "approve" => op.with \in Subjects
  /\ op.kind \in {"createAsset", "deleteAsset"} => op.on \in Assets
  /\ op.kind \in {"createTag", "updateTag"} => op.on \in Tags /\ op.with \in Assets
  /\ op.kind = "deleteTag" => op.on \in Tags

ASSUME DesksAssumption ==
  \A d \in Desks :
    /\ DOMAIN d.owner \subseteq Tokens
    /\ \A t \in DOMAIN d.owner : d.owner[t] \in Subjects
    /\ \A op \in d.requests : WellFormed(op)

VARIABLES
  desk       \* one of them, chosen once

adminVars == <<accessVars, profileVars, registryVars, desk>>

AdminInit ==
  /\ AccessInit /\ ProfilesInit /\ RegistryInit
  /\ desk \in Desks

AdminNext ==
  /\ \/ AccessStep(desk.requests, desk.owner) /\ UNCHANGED <<profileVars, registryVars>>
     \/ \E h \in Handlers : ProfileHandlers(h) /\ UNCHANGED registryVars
     \/ \E h \in Handlers : RegistryHandlers(h) /\ UNCHANGED profileVars
     \/ Ingest /\ UNCHANGED profileVars
  /\ UNCHANGED desk

AdminSpec == AdminInit /\ [][AdminNext]_adminVars
=============================================================================
