------------------------------- MODULE Access -------------------------------
(***************************************************************************)
(* The collaborators and the teams sections: who has which role on the     *)
(* repository.  Both declare a list of names with a permission, in the     *)
(* words a grant takes (push, pull); GitHub reads a role back in others    *)
(* (write, read).                                                          *)
(*                                                                         *)
(* Collaborators live in two pools, the direct collaborators and the       *)
(* pending invitations, and a person moves from one to the other by        *)
(* accepting.  GitHub: [members, invites, emails, owner, born]; members    *)
(* and invites are partial functions from logins, an invitation being      *)
(* [id, role, expired].  Teams: a partial function from slugs to           *)
(* [role, source].                                                         *)
(***************************************************************************)
EXTENDS SectionData

CONSTANTS
  Permissions,      \* the words of a grant
  InvitationRoles   \* INVITATION_ROLES: the roles an invitation can carry

(* roleForPermission() and its inverse, which a role has only if a permission
   maps to it.                                                             *)
RoleFor(permission) == Canonical[permission]
Declarable(role) == \E p \in Permissions : RoleFor(p) = role
PermissionFor(role) == CHOOSE p \in Permissions : RoleFor(p) = role

LoginKey(name) == Canonical[name]
DeclaredLogins(d) == {LoginKey(n) : n \in DOMAIN d.entries}
EntryFor(d, login) == d.entries[CHOOSE n \in DOMAIN d.entries : LoginKey(n) = login]

AccessOp(role, name, id, val) == [role |-> role, name |-> name, id |-> id, val |-> val, drift |-> TRUE]

-----------------------------------------------------------------------------
(* Collaborators. *)

Invited(k, live) == k \in DOMAIN live.invites
Pending(k, live) == Invited(k, live) /\ ~live.invites[k].expired

Update(k, permission) == AccessOp("update", k, Unset, permission)
Cancel(k, live) == AccessOp("cancelInvitation", k, live.invites[k].id, Unset)

(* inviteDeclared(): an expired invitation is cancelled ahead of the fresh one. *)
Invite(k, permission, live) == If(Invited(k, live), Cancel(k, live)) \o <<Update(k, permission)>>

(* settleDeclared(): against the collaborator, else the pending invitation, else
   by inviting; a role no invitation can carry waits for the acceptance.   *)
SettleOps(k, permission, live) ==
  LET role == RoleFor(permission)
  IN  IF k \in DOMAIN live.members
      THEN If(live.members[k] # role, Update(k, permission))
      ELSE IF Pending(k, live)
      THEN If(live.invites[k].role # role /\ role \in InvitationRoles,
              AccessOp("updateInvitation", k, live.invites[k].id, role))
      ELSE Invite(k, permission, live)

(* Both pools are read before the walk: a declared login is undeclared in
   neither.                                                                *)
Undeclared(d, pool) == IF d.policy = "keep" THEN {} ELSE DOMAIN pool \ DeclaredLogins(d)
CollaboratorPlan(d, live) ==
  LET declared == Listed(DeclaredLogins(d))
      removed == Listed(Undeclared(d, live.members) \ {live.owner})
      cancelled == Listed(Undeclared(d, live.invites))
  IN  [failed |-> FALSE,
       ops |-> FlattenSeq([i \in DOMAIN declared |-> SettleOps(declared[i], EntryFor(d, declared[i]), live)])
               \o [i \in DOMAIN removed |-> AccessOp("remove", removed[i], Unset, Unset)]
               \o [i \in DOMAIN cancelled |-> Cancel(cancelled[i], live)]]

(* GitHub.  An invitation is addressed by its id; a PUT grants a collaborator,
   invites anyone else, and does not touch an invitation there is.         *)
HasInvitation(op, live) == Invited(op.name, live) /\ live.invites[op.name].id = op.id
CollaboratorAccepts(op, live) ==
  op.role \in {"updateInvitation", "cancelInvitation"} => HasInvitation(op, live)
CollaboratorAfter(op, live) ==
  CASE op.role = "update" /\ op.name \in DOMAIN live.members ->
         [live EXCEPT !.members[op.name] = RoleFor(op.val)]
    [] op.role = "update" /\ Invited(op.name, live) -> live
    [] op.role = "update" ->
         [live EXCEPT !.invites =
                        With(@, op.name, [id |-> live.born + 1, role |-> RoleFor(op.val), expired |-> FALSE]),
                      !.born = @ + 1]
    [] op.role = "updateInvitation" -> [live EXCEPT !.invites[op.name].role = op.val]
    [] op.role = "cancelInvitation" -> [live EXCEPT !.invites = Without(@, {op.name})]
    [] op.role = "remove" -> [live EXCEPT !.members = Without(@, {op.name})]

(* What the section promises, said without the plan: everyone declared has the
   role or is asked to take it, and nobody else but the owner has one.     *)
CollaboratorsMeet(d, live) ==
  /\ \A n \in DOMAIN d.entries :
       LET k == LoginKey(n)
           role == RoleFor(d.entries[n])
       IN  IF k \in DOMAIN live.members THEN live.members[k] = role
           ELSE Pending(k, live) /\ (live.invites[k].role = role \/ role \notin InvitationRoles)
  /\ d.policy = "delete" =>
       /\ DOMAIN live.members \subseteq DeclaredLogins(d) \cup {live.owner}
       /\ DOMAIN live.invites \subseteq DeclaredLogins(d)

(* The owner, the invitations sent by email, kept access, and a collaborator who
   is declared stays one throughout.                                       *)
CollaboratorsSpare(d, before, after) ==
  LET others == DOMAIN before.members \ DeclaredLogins(d)
  IN  /\ after.emails = before.emails
      /\ \A k \in others : d.policy = "keep" \/ k = before.owner =>
           k \in DOMAIN after.members /\ after.members[k] = before.members[k]
      /\ \A k \in DOMAIN before.members \ others : k \in DOMAIN after.members
      /\ \A k \in DOMAIN before.invites \ DeclaredLogins(d) : d.policy = "keep" =>
           Invited(k, after) /\ after.invites[k] = before.invites[k]

(* snapshot(): no owner, no email and no expired invitation; nothing at all when
   nobody is left.                                                         *)
CollaboratorSnapshot(live) ==
  LET members == DOMAIN live.members \ {live.owner}
      pending == {k \in DOMAIN live.invites : Pending(k, live)}
      RoleOf(k) == IF k \in members THEN live.members[k] ELSE live.invites[k].role
  IN  IF members \cup pending = {} THEN Unset
      ELSE [policy |-> "delete", entries |-> [k \in members \cup pending |-> PermissionFor(RoleOf(k))]]
(* A snapshot's one documented exception: an expired invitation is cancelled.  *)
ExpiredCancelled(op, live) == op.role = "cancelInvitation" /\ live.invites[op.name].expired

(* Others accept an invitation, let one expire, change or leave a role.      *)
CollaboratorEdits(live) ==
  {[live EXCEPT !.members = With(@, k, live.invites[k].role), !.invites = Without(@, {k})] :
     k \in {k \in DOMAIN live.invites : Pending(k, live)}}
  \cup {[live EXCEPT !.invites[k].expired = TRUE] : k \in DOMAIN live.invites}
  \cup {[live EXCEPT !.members[k] = "read"] : k \in DOMAIN live.members \ {live.owner}}
  \cup {[live EXCEPT !.members = Without(@, {k})] : k \in DOMAIN live.members \ {live.owner}}

-----------------------------------------------------------------------------
(* Teams: the listing says who has access, a probe per declared team says which
   role; access granted above the repository cannot be revoked here.       *)

Inherited(k, live) == live[k].source # "direct"
TeamDrifts(k, d, live) == k \in DOMAIN live => live[k].role # RoleFor(EntryFor(d, k))
TeamPlan(d, live) ==
  LET differing == Listed({k \in DeclaredLogins(d) : TeamDrifts(k, d, live)})
      revoked == Listed({k \in Undeclared(d, live) : ~Inherited(k, live)})
  IN  [failed |-> FALSE,
       ops |-> [i \in DOMAIN differing |-> AccessOp("grant", differing[i], Unset, EntryFor(d, differing[i]))]
               \o [i \in DOMAIN revoked |-> AccessOp("revoke", revoked[i], Unset, Unset)]]

TeamAfter(op, live) ==
  IF op.role = "revoke" THEN Without(live, {op.name})
  ELSE With(live, op.name, [role |-> RoleFor(op.val), source |-> "direct"])

TeamsMeet(d, live) ==
  /\ \A n \in DOMAIN d.entries :
       LoginKey(n) \in DOMAIN live /\ live[LoginKey(n)].role = RoleFor(d.entries[n])
  /\ d.policy = "delete" => \A k \in DOMAIN live \ DeclaredLogins(d) : Inherited(k, live)
TeamsSpare(d, before, after) ==
  \A k \in DOMAIN before \ DeclaredLogins(d) :
    d.policy = "keep" \/ Inherited(k, before) => k \in DOMAIN after /\ after[k] = before[k]

(* snapshot(): the direct teams whose role a declaration can name. *)
TeamSnapshot(live) ==
  LET read == {k \in DOMAIN live : ~Inherited(k, live) /\ Declarable(live[k].role)}
  IN  IF read = {} THEN Unset
      ELSE [policy |-> "keep", entries |-> [k \in read |-> PermissionFor(live[k].role)]]

TeamEdits(live) ==
  {Without(live, {k}) : k \in DOMAIN live} \cup {[live EXCEPT ![k].role = "read"] : k \in DOMAIN live}
=============================================================================
