-------------------------------- MODULE Roles --------------------------------
(***************************************************************************)
(* Roles and permissions of one company: the kernel's administration       *)
(* (services/kernel/src/routers/ikyomm/roles-permission) and the seeding   *)
(* of the default roles whenever a company or a member of it is created    *)
(* (packages/utils/src/functions/organization/rbac.ts).                    *)
(*                                                                         *)
(* A handler reads, decides, and writes later.  No index makes slugs       *)
(* unique; one makes the permission of a role for a resource unique.  What *)
(* a role allows on a resource is abstracted to where it comes from.       *)
(***************************************************************************)
EXTENDS Integers, FiniteSets

CONSTANTS
  Requests,
  Slugs,       \* slugs that are not empty
  None,        \* in place of a slug
  Defaults,    \* slugs of DEFAULT_ORGANIZATION_ROLES
  Resources,
  Managed,     \* resources every role has a fixed permission for
  Preset,      \* DEFAULT_ROLE_PERMISSION_PRESETS_BY_SLUG: the resources of each
  MaxId,       \* bound: roles ever created
  MaxEdits     \* bound: requests

Ids == 1..MaxId

\* Assumed of the constants; the run of ServicesMC evaluates it.
RolesAssumption ==
  /\ None \notin Slugs \cup {""} /\ "" \notin Slugs
  /\ Defaults \subseteq Slugs /\ IsFiniteSet(Defaults) /\ Managed \subseteq Resources
  /\ Preset \in [Defaults -> SUBSET Resources]
  /\ \A s \in Defaults : Managed \subseteq Preset[s]
  /\ MaxId \in Nat /\ MaxEdits \in Nat

VARIABLES
  role,      \* rbac_role: NoRole, or its slug and whether it stands as the defaults do
  perms,     \* rbac_role_permission of each role
  nextId,
  req,       \* what each request is doing
  edits,     \* bound
  crossed,   \* history: slugs two roles got from requests that crossed
  seeded     \* history: nothing was written since the defaults were seeded

vars == <<role, perms, nextId, req, edits, crossed, seeded>>

NoRole == [slug |-> None, std |-> FALSE]
Idle == [pc |-> "idle"]
Nothing == [ids |-> {}, slugs |-> {}]
Levels == {"none", "managed", "preset", "custom"}
NoPerms == [x \in Resources |-> "none"]

\* createRoleSlug: of a name without Latin letters and digits nothing is left.
Blank == ""
RoleSlug == Slugs \cup {Blank}
Row == {NoRole} \cup [slug: RoleSlug, std: BOOLEAN]

\* missed: slugs and ids written by others since the request's last read.
Grants == [Ids -> [Resources -> Levels]]
Rows == [Ids -> Defaults \cup {None}]
Missed == [ids: SUBSET Ids, slugs: SUBSET RoleSlug]
Request ==
       {Idle}
  \cup [pc: {"create"}, slug: RoleSlug, missed: Missed]
  \cup [pc: {"update"}, id: Ids, slug: RoleSlug \cup {None}, missed: Missed]
  \cup [pc: {"remove"}, id: Ids, missed: Missed]
  \cup [pc: {"insert", "change", "delete"}, id: Ids, on: Resources, missed: Missed]
  \cup [pc: {"roles"}, found: Rows, fix: SUBSET Defaults, missed: Missed]
  \cup [pc: {"perms"}, found: Rows, fix: SUBSET Defaults, missed: Missed, old: Grants]
  \cup [pc: {"failed"}, excused: BOOLEAN]

TypeOK ==
  /\ role \in [Ids -> Row] /\ perms \in Grants
  /\ nextId \in 1..MaxId + 1 /\ req \in [Requests -> Request] /\ edits \in 0..MaxEdits

----------------------------------------------------------------------------
(* What handlers look up *)

There(id) == role[id] # NoRole

\* findRoleSlugConflict: another role of the company has the slug.
Conflict(slug, id) == \E o \in Ids \ {id} : role[o].slug = slug

\* normalizeManagedRolePermission, mergeManagedRolePermissions
Level(x) == IF x \in Managed THEN "managed" ELSE "custom"

\* What a default role should have, by seedDefaultPermissionsForRoles.
Wanted(s) ==
  [x \in Resources |-> IF x \notin Preset[s] THEN "none"
                       ELSE IF x \in Managed THEN "managed" ELSE "preset"]

Enter(r, next) ==
  /\ req[r] = Idle /\ edits < MaxEdits
  /\ req' = [req EXCEPT ![r] = next]
  /\ edits' = edits + 1
  /\ UNCHANGED <<role, perms, nextId, crossed, seeded>>

\* The answer is given; others under way have missed what was written.
Leave(r, wrote, end) ==
  /\ req' = [q \in Requests |->
               IF q = r THEN end
               ELSE IF "missed" \in DOMAIN req[q]
               THEN [req[q] EXCEPT !.missed = [ids |-> @.ids \cup wrote.ids,
                                               slugs |-> @.slugs \cup wrote.slugs]]
               ELSE req[q]]
  /\ UNCHANGED edits

Touch(ids, slugs) == [ids |-> ids, slugs |-> slugs]
Slug(id) == IF There(id) THEN {role[id].slug} ELSE {}

----------------------------------------------------------------------------
(* Roles *)

\* create, its check; a conflict is answered 409 and nothing is written.
CreateRole(r) ==
  \E slug \in RoleSlug :
    ~Conflict(slug, 0) /\ Enter(r, [pc |-> "create", slug |-> slug, missed |-> Nothing])

\* Mutant: a new slug is not looked for among the others.
UpdateRoleUnseen(r) ==
  \E id \in Ids, slug \in RoleSlug \cup {None} :
    There(id) /\ Enter(r, [pc |-> "update", id |-> id, slug |-> slug, missed |-> Nothing])

\* update, its checks; no slug is checked if none is given, or an empty one.
UpdateRole(r) ==
  \E id \in Ids, slug \in RoleSlug \cup {None} :
    /\ There(id) /\ (slug \in Slugs => ~Conflict(slug, id))
    /\ Enter(r, [pc |-> "update", id |-> id, slug |-> slug, missed |-> Nothing])

RemoveRole(r) ==
  \E id \in Ids : There(id) /\ Enter(r, [pc |-> "remove", id |-> id, missed |-> Nothing])

Twice(r, id, slug) == IF Conflict(slug, id) /\ slug \in req[r].missed.slugs THEN {slug} ELSE {}

\* create, its transaction: the role and its permissions, the managed ones included.
InsertRole(r) ==
  /\ req[r].pc = "create" /\ nextId <= MaxId
  /\ \E some \in SUBSET (Resources \ Managed) :
       perms' = [perms EXCEPT ![nextId] =
                   [x \in Resources |-> IF x \in some \cup Managed THEN Level(x) ELSE "none"]]
  /\ role' = [role EXCEPT ![nextId] = [slug |-> req[r].slug, std |-> FALSE]]
  /\ nextId' = nextId + 1
  /\ crossed' = crossed \cup Twice(r, nextId, req[r].slug)
  /\ seeded' = FALSE
  /\ Leave(r, Touch({nextId}, {req[r].slug}), Idle)

\* update, its write: nothing if the role is gone by now.
SetRole(r) ==
  /\ req[r].pc = "update"
  /\ LET id == req[r].id
         slug == IF req[r].slug = None THEN role[id].slug ELSE req[r].slug
     IN  IF There(id)
         THEN /\ \E std \in {FALSE, role[id].std /\ role[id].slug = slug} :
                   role' = [role EXCEPT ![id] = [slug |-> slug, std |-> std]]
              /\ crossed' = crossed \cup Twice(r, id, slug)
              /\ seeded' = FALSE
              /\ Leave(r, Touch({id}, {role[id].slug, slug}), Idle)
         ELSE UNCHANGED <<role, crossed, seeded>> /\ Leave(r, Nothing, Idle)
  /\ UNCHANGED <<perms, nextId>>

\* remove, its delete; permissions go with the role.
DeleteRole(r) ==
  /\ req[r].pc = "remove"
  /\ LET id == req[r].id IN
       /\ role' = [role EXCEPT ![id] = NoRole]
       /\ perms' = [perms EXCEPT ![id] = NoPerms]
       /\ seeded' = FALSE
       /\ Leave(r, Touch({id}, Slug(id)), Idle)
  /\ UNCHANGED <<nextId, crossed>>

----------------------------------------------------------------------------
(* Permissions *)

\* create_permission: a managed one that is there is the answer.
CreatePermission(r) ==
  \E id \in Ids, x \in Resources :
    /\ There(id) /\ ~(x \in Managed /\ perms[id][x] # "none")
    /\ Enter(r, [pc |-> "insert", id |-> id, on |-> x, missed |-> Nothing])

UpdatePermission(r) ==
  \E id \in Ids, x \in Resources :
    perms[id][x] # "none" /\ Enter(r, [pc |-> "change", id |-> id, on |-> x, missed |-> Nothing])

\* remove_permission: a managed one is answered 400.
RemovePermission(r) ==
  \E id \in Ids, x \in Resources \ Managed :
    /\ perms[id][x] # "none"
    /\ Enter(r, [pc |-> "delete", id |-> id, on |-> x, missed |-> Nothing])

\* The write of each: an insert fails if the role is gone or has the permission; an update or
\* a delete of a permission that is gone does nothing.
WritePermission(r) ==
  /\ req[r].pc \in {"insert", "change", "delete"}
  /\ LET id == req[r].id
         x == req[r].on
         value == IF req[r].pc = "delete" THEN "none" ELSE Level(x)
     IN  IF There(id) /\ (req[r].pc = "insert" <=> perms[id][x] = "none")
         THEN /\ perms' = [perms EXCEPT ![id][x] = value]
              /\ seeded' = FALSE
              /\ Leave(r, Touch({id}, {}), Idle)
         ELSE UNCHANGED <<perms, seeded>> /\ Leave(r, Nothing, Idle)
  /\ UNCHANGED <<role, nextId, crossed>>

----------------------------------------------------------------------------
(* ensureDefaultOrganizationRoles, in the transaction that creates a member *)

\* The default roles there are, and those of them to be put right: a slug's row is compared
\* with the default, any row where two have the slug.
SeedRoles(r) ==
  \E fix \in SUBSET Defaults :
    LET found == [id \in Ids |-> IF role[id].slug \in Defaults THEN role[id].slug ELSE None]
        rows(s) == {id \in Ids : found[id] = s}
    IN  /\ \A s \in fix : \E id \in rows(s) : ~role[id].std
        /\ \A s \in Defaults \ fix : rows(s) # {} => \E id \in rows(s) : role[id].std
        /\ Enter(r, [pc |-> "roles", found |-> found, fix |-> fix, missed |-> Nothing])

\* The permissions those roles have by now.
SeedPermissions(r) ==
  /\ req[r].pc = "roles"
  /\ req' = [req EXCEPT ![r] = [pc |-> "perms", found |-> @.found, fix |-> @.fix,
                                missed |-> @.missed, old |-> perms]]
  /\ UNCHANGED <<role, perms, nextId, edits, crossed, seeded>>

Found(r) == {id \in Ids : req[r].found[id] # None}
Lacks(r, id) == {x \in Preset[req[r].found[id]] : req[r].old[id][x] = "none"}
NewSlugs(r) == Defaults \ {req[r].found[id] : id \in Found(r)}

\* An insert fails if the role is gone or has the permission by now.
InsertsFail(r) ==
  \E id \in Found(r) : \E x \in Lacks(r, id) : ~There(id) \/ perms[id][x] # "none"

\* The permissions of a role found once inserts, updates and deletes are done: those read
\* before are put right or deleted, those gone since stay gone.
Seeded(r, id) ==
  LET want == Wanted(req[r].found[id])
      had == req[r].old[id]
  IN  [x \in Resources |->
         IF x \in Lacks(r, id) THEN want[x]
         ELSE IF had[x] = "none" \/ perms[id][x] = "none" THEN perms[id][x]
         ELSE want[x]]

\* The writes and the commit.
SeedCommit(r) ==
  /\ req[r].pc = "perms" /\ ~InsertsFail(r)
  /\ \E place \in [NewSlugs(r) -> Ids] :
       LET fresh == {place[s] : s \in NewSlugs(r)}
       IN  /\ fresh = nextId..nextId + Cardinality(NewSlugs(r)) - 1
           /\ nextId' = nextId + Cardinality(fresh)
           /\ role' = [id \in Ids |->
                IF id \in fresh THEN [slug |-> CHOOSE s \in NewSlugs(r) : place[s] = id, std |-> TRUE]
                ELSE IF role[id].slug \in req[r].fix THEN [role[id] EXCEPT !.std = TRUE] ELSE role[id]]
           /\ perms' = [id \in Ids |->
                IF id \in fresh THEN Wanted(role'[id].slug)
                ELSE IF id \in Found(r) /\ There(id) THEN Seeded(r, id) ELSE perms[id]]
           /\ crossed' = crossed \cup UNION {Twice(r, place[s], s) : s \in NewSlugs(r)}
           /\ Leave(r, Touch(fresh \cup Found(r), NewSlugs(r)), Idle)
  /\ seeded' = (req[r].missed = Nothing)

\* A unique index or a foreign key refuses an insert: the member is not created either.
SeedFails(r) ==
  /\ req[r].pc = "perms" /\ InsertsFail(r)
  /\ Leave(r, Nothing, [pc |-> "failed", excused |-> req[r].missed.ids \cap Found(r) # {}])
  /\ UNCHANGED <<role, perms, nextId, crossed, seeded>>

Answered(r) ==
  /\ req[r].pc = "failed"
  /\ Leave(r, Nothing, Idle)
  /\ UNCHANGED <<role, perms, nextId, crossed, seeded>>

----------------------------------------------------------------------------
Init ==
  /\ role = [id \in Ids |-> NoRole] /\ perms = [id \in Ids |-> NoPerms] /\ nextId = 1
  /\ req = [r \in Requests |-> Idle] /\ edits = 0
  /\ crossed = {} /\ seeded = FALSE

Next ==
  \E r \in Requests :
    \/ CreateRole(r) \/ InsertRole(r) \/ UpdateRole(r) \/ SetRole(r)
    \/ RemoveRole(r) \/ DeleteRole(r)
    \/ CreatePermission(r) \/ UpdatePermission(r) \/ RemovePermission(r) \/ WritePermission(r)
    \/ SeedRoles(r) \/ SeedPermissions(r) \/ SeedCommit(r) \/ SeedFails(r) \/ Answered(r)

Spec == Init /\ [][Next]_vars

----------------------------------------------------------------------------
(* Properties *)

\* Two roles share a slug only if one was written between the other's check and its write:
\* no index stands behind the check.  An empty slug is not checked.
SlugsTellApart ==
  \A i, j \in Ids :
    i # j /\ role[i].slug \in Slugs /\ role[i].slug = role[j].slug => role[i].slug \in crossed

\* Every role keeps its managed permissions, unaltered, whatever is created, changed,
\* removed or seeded over it, and however that interleaves.
ManagedKept == \A id \in Ids, x \in Managed : There(id) => perms[id][x] = "managed"

\* A company whose defaults were just seeded, with no other write meanwhile, has every
\* default role as it should be and with exactly its permissions; seeding fails only if
\* another request wrote to one of those roles meanwhile.
DefaultsRestored ==
  /\ seeded => \A s \in Defaults :
       /\ \E id \in Ids : role[id].slug = s /\ role[id].std
       /\ \A id \in Ids : role[id].slug = s => perms[id] = Wanted(s) /\ (s \in crossed \/ role[id].std)
  /\ \A r \in Requests : req[r].pc = "failed" => req[r].excused
=============================================================================
