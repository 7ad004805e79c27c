------------------------------ MODULE Registry -------------------------------
(***************************************************************************)
(* Assets, tags and the readings that refer to them.  The tables have no   *)
(* foreign keys: the handlers look first and write afterwards.             *)
(*                                                                         *)
(* An operator directly before another one with the same parameters is a   *)
(* mutated form of it, used by mutation runs only.                         *)
(***************************************************************************)
EXTENDS Access

CONSTANTS
  Assets,
  Tags,
  Plant      \* the tags of the seeded catalogue and their assets, a function

Nowhere == "nowhere"

ASSUME PlantAssumption ==
  /\ Nowhere \notin Assets
  /\ DOMAIN Plant \subseteq Tags /\ \A t \in DOMAIN Plant : Plant[t] \in Assets

VARIABLES
  asset,      \* ids in the table assets
  tagAsset,   \* tags.asset_id of the tags there are, Nowhere for the others
  recorded,   \* tags telemetry_readings refers to
  incoming,   \* tags whose reading is between GetTag and InsertReading
  excused     \* tags and readings whose owner was changed while they were looked at (history)

registryVars == <<asset, tagAsset, recorded, incoming, excused>>

Exists(t) == tagAsset[t] # Nowhere

\* SeedRegistry.
RegistryInit ==
  /\ asset = {Plant[t] : t \in DOMAIN Plant}
  /\ tagAsset = [t \in Tags |-> IF t \in DOMAIN Plant THEN Plant[t] ELSE Nowhere]
  /\ recorded = {} /\ incoming = {} /\ excused = {}

\* Tags a request is about to create under asset a, requests about to delete x.
Creating(a) ==
  {On(h) : h \in {k \in Handlers : Deciding(k, "createTag") /\ With(k) = a}}
Deleting(kind, x) == \E h \in Handlers : Deciding(h, kind) /\ On(h) = x

CreateAsset(h) ==
  /\ Handling(h, "createAsset")
  /\ asset' = asset \cup {On(h)}
  /\ Done(h)
  /\ UNCHANGED <<tagAsset, recorded, incoming, excused>>

UnreferencedOrNot(a) == a \in Assets
Unreferenced(a) == \A t \in Tags : tagAsset[t] # a

\* DeleteAsset counts the tags, then deletes.
LookAtAsset(h) ==
  /\ Handling(h, "deleteAsset")
  /\ Unreferenced(On(h))
  /\ Checked(h)
  /\ UNCHANGED registryVars

DeleteAsset(h) ==
  /\ Deciding(h, "deleteAsset")
  /\ asset' = asset \ {On(h)}
  /\ excused' = excused \cup Creating(On(h))
  /\ Done(h)
  /\ UNCHANGED <<tagAsset, recorded, incoming>>

\* CreateTag looks for the asset, then inserts.
LookForAsset(h) ==
  /\ Handling(h, "createTag")
  /\ With(h) \in asset
  /\ Checked(h)
  /\ UNCHANGED registryVars

CreateTag(h) ==
  /\ Deciding(h, "createTag")
  /\ ~Exists(On(h))
  /\ tagAsset' = [tagAsset EXCEPT ![On(h)] = With(h)]
  /\ excused' = IF Deleting("deleteAsset", With(h)) THEN excused \cup {On(h)} ELSE excused
  /\ Done(h)
  /\ UNCHANGED <<asset, recorded, incoming>>

\* UpdateTag does not look for the asset.
UpdateTag(h) ==
  /\ Handling(h, "updateTag")
  /\ Exists(On(h))
  /\ tagAsset' = [tagAsset EXCEPT ![On(h)] = With(h)]
  /\ excused' = IF With(h) \notin asset \/ Deleting("deleteAsset", With(h))
                THEN excused \cup {On(h)} ELSE excused
  /\ Done(h)
  /\ UNCHANGED <<asset, recorded, incoming>>

\* DeleteTag counts the readings, then deletes.
LookAtTag(h) ==
  /\ Handling(h, "deleteTag")
  /\ On(h) \notin recorded
  /\ Checked(h)
  /\ UNCHANGED registryVars

DeleteTag(h) ==
  /\ Deciding(h, "deleteTag")
  /\ Exists(On(h))
  /\ tagAsset' = [tagAsset EXCEPT ![On(h)] = Nowhere]
  /\ excused' = IF On(h) \in incoming THEN excused \cup {On(h)} ELSE excused
  /\ Done(h)
  /\ UNCHANGED <<asset, recorded, incoming>>

\* ingestOne: GetTag, and later InsertReading (device token, no session).
ReadingArrives(t) ==
  /\ Exists(t) /\ t \notin incoming
  /\ incoming' = incoming \cup {t}
  /\ UNCHANGED <<asset, tagAsset, recorded, excused>>

ReadingStored(t) ==
  /\ t \in incoming
  /\ incoming' = incoming \ {t}
  /\ recorded' = recorded \cup {t}
  /\ excused' = IF Deleting("deleteTag", t) THEN excused \cup {t} ELSE excused
  /\ UNCHANGED <<asset, tagAsset>>

RegistryHandlers(h) ==
  /\ \/ CreateAsset(h)
     \/ LookAtAsset(h) \/ DeleteAsset(h)
     \/ LookForAsset(h) \/ CreateTag(h)
     \/ UpdateTag(h)
     \/ LookAtTag(h) \/ DeleteTag(h)
  /\ UNCHANGED <<session, role, assignments>>

Ingest ==
  /\ \E t \in Tags : ReadingArrives(t) \/ ReadingStored(t)
  /\ UNCHANGED <<session, role, assignments, request>>

-----------------------------------------------------------------------------
\* Without foreign keys: a tag has its asset and a reading its tag, unless the owner
\* was being deleted at the very moment they were written or UpdateTag named an
\* asset that is not there (DeleteAsset, CreateTag, DeleteTag, ingestOne).
OrphansNeedARace ==
  \A t \in Tags \ excused :
    /\ Exists(t) => tagAsset[t] \in asset
    /\ t \in recorded => Exists(t)
=============================================================================
