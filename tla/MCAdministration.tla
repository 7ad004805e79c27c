-------------------------- MODULE MCAdministration ---------------------------
(* Two users, two requests at a time.  The requests are offered in groups   *)
(* that change the same tables: roles and sessions; profiles, with a role   *)
(* being changed; assets, tags and readings.                                *)
EXTENDS Administration, TLC

RoleOp(kind, on, permissions) ==
  [kind |-> kind, on |-> on, with |-> Nobody, permissions |-> permissions]
Op(kind, on, with) == [kind |-> kind, on |-> on, with |-> with, permissions |-> {}]
OpOn(kind, on) == Op(kind, on, Nobody)

TwoRoles == {"platform_admin", "shift"}
OnlyAdmin == {"platform_admin"}
AdminIsAdmin == {<<"admin", "platform_admin">>}
OneTag == [t \in {"t1"} |-> "a1"]

RoleDesk ==
  {RoleOp("createRole", "shift", {"manage_users"}), RoleOp("updateRole", "shift", {}),
   OpOn("deleteRole", "shift"), Op("assign", "operator", "shift"),
   Op("revoke", "operator", "shift"), OpOn("logout", Nobody)}

ProfileDesk ==
  {OpOn("createProfile", Nobody), Op("approve", "p2", "admin")}
    \cup {Op("approve", "p1", by) : by \in Subjects}
    \cup {OpOn("activate", p) : p \in ProfileIds}

RegistryDesk ==
  {OpOn("createAsset", "a2"), Op("createTag", "t2", "a2"), Op("updateTag", "t1", "a2")}
    \cup {OpOn("deleteAsset", a) : a \in {"a1", "a2"}}
    \cup {OpOn("deleteTag", t) : t \in {"t1", "t2"}}

\* The administrator works with two tabs of one session.
TwoTabs(ops) == [requests |-> ops, owner |-> [t \in {"k1"} |-> "admin"]]

ThreeDesks ==
  {[requests |-> RoleDesk, owner |-> [k1 |-> "admin", k2 |-> "operator"]],
   TwoTabs(ProfileDesk), TwoTabs(RegistryDesk)}

Interchangeable == Permutations(Handlers)
=============================================================================
