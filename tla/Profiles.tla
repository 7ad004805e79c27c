------------------------------ MODULE Profiles -------------------------------
(***************************************************************************)
(* Ore profiles: drafted, approved, activated by requests that read the    *)
(* profile in one statement and change it in another.                      *)
(*                                                                         *)
(* An operator directly before another one with the same parameters is a   *)
(* mutated form of it, used by mutation runs only.                         *)
(***************************************************************************)
EXTENDS Access

CONSTANTS
  ProfileIds,    \* NewID never returns one twice
  Shipped,       \* the demo profiles
  Baseline       \* the one of them EnsureDefaultProfile activates

NoProfile == "no profile"

ASSUME ProfilesAssumption ==
  NoProfile \notin ProfileIds /\ Shipped \subseteq ProfileIds /\ Baseline \in Shipped

VARIABLES
  profile,   \* profile[p]: status ("none": no row) and approver
  active     \* the meta row active_profile_id

profileVars == <<profile, active>>

Unwritten == [status |-> "none", approver |-> Nobody]

\* Either the first start of the service, whose seedAll writes no profile, or a
\* database EnsureDefaultProfile has filled, which only the tests call.  The
\* baseline is active then without anybody's approval.
ProfilesInit ==
  \/ profile = [p \in ProfileIds |-> Unwritten] /\ active = NoProfile
  \/ /\ profile = [p \in ProfileIds |->
                     IF p \in Shipped
                     THEN [Unwritten EXCEPT !.status = IF p = Baseline THEN "active" ELSE "draft"]
                     ELSE Unwritten]
     /\ active = Baseline

CreateProfile(h) ==
  /\ Handling(h, "createProfile")
  /\ \E p \in ProfileIds \ Shipped :
       /\ profile[p].status = "none"
       /\ profile' = [profile EXCEPT ![p].status = "draft"]
  /\ Done(h)
  /\ UNCHANGED active

ApprovableAlways(p) == profile[p].status # "none"
Approvable(p) == profile[p].status = "draft"

\* ApproveProfile: one conditional update.
ApproveProfile(h) ==
  /\ Handling(h, "approve")
  /\ Approvable(On(h))
  /\ profile' = [profile EXCEPT ![On(h)] = [status |-> "approved", approver |-> With(h)]]
  /\ Done(h)
  /\ UNCHANGED active

\* ActivateProfile reads the status ...
LookAtProfile(h) ==
  /\ Handling(h, "activate")
  /\ profile[On(h)].status \in {"approved", "active"}
  /\ Checked(h)
  /\ UNCHANGED profileVars

\* ... and SetActiveProfile writes without a condition; the profile that was active
\* before keeps its status.
SetActiveProfile(h) ==
  /\ Deciding(h, "activate")
  /\ profile' = [profile EXCEPT ![On(h)].status = "active"]
  /\ active' = On(h)
  /\ Done(h)

ProfileHandlers(h) ==
  /\ \/ CreateProfile(h)
     \/ ApproveProfile(h)
     \/ LookAtProfile(h)
     \/ SetActiveProfile(h)
  /\ UNCHANGED <<session, role, assignments>>

-----------------------------------------------------------------------------
\* Change control: the plant switches only to a profile somebody approved before,
\* or back to the baseline that was shipped as active, and an approval, once given,
\* is neither withdrawn nor signed over to another name by requests that race with
\* it (ApproveProfile, ActivateProfile).
ChangeControl ==
  [][/\ active' # active => active' = Baseline \/ profile[active'].approver # Nobody
     /\ \A p \in ProfileIds : profile[p].approver # Nobody =>
          /\ profile'[p].approver = profile[p].approver
          /\ profile'[p].status \in {"approved", "active"}]_profileVars
=============================================================================
