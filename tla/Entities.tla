------------------------------ MODULE Entities ------------------------------
(***************************************************************************)
(* Access entities, functions, named collections and workload entities:    *)
(* one kind of them is backed up while users change them, and restored to  *)
(* the same server, again and again until a restore succeeds.              *)
(*                                                                         *)
(* Ids are the UUIDs of access entities, and the names of entities; the    *)
(* number of an id is its place in listings.                               *)
(***************************************************************************)
EXTENDS Naturals, Functions, FiniteSets, FiniteSetsExt

CONSTANTS
    Ids,
    Kinds,
    Root,        \* in place of the parent of a workload: it has none,
    Resource,    \* or is a resource, the other type of workload entities
    Admin,       \* the name of the user that fix_admin_user looks for
    MaxChanges,  \* bound on what users do
    MaxFaults    \* bound on errors of ClickHouse, ZooKeeper and S3, and on crashes

ASSUME EntitiesAssumption ==
    /\ Ids \subseteq Nat \ {0} /\ Admin \in Ids
    /\ Root \notin Ids /\ Resource \notin Ids \cup {Root}
    /\ Kinds \subseteq {"replicated access", "local access", "function", "collection", "workload"}
    /\ MaxChanges \in Nat /\ MaxFaults \in Nat

Statement == [name : Ids, parent : Ids \cup {Root, Resource}, version : 0 .. 1]

VARIABLES
    kind,
    stored,    \* files or nodes of the entities that exist: id -> statement
    links,     \* nodes of names of replicated access entities: name -> UUID
    pc,
    listed,    \* entities the backup found: id -> statement
    toCopy,    \* listed entities whose files are still to be copied
    backup,    \* id -> statement
    existing,  \* entities the restore found: id -> statement
    todo,      \* ids still to be restored
    current,   \* the ids whose restore has begun: at most one
    unlinked,  \* UUIDs deleted by this restore to give their names to others
    touched,   \* ids users changed since the restore began
    changes,
    faults

serverVars == <<stored, links>>
backupVars == <<listed, toCopy, backup>>
restoreVars == <<existing, todo, current, unlinked>>
vars == <<kind, serverVars, pc, backupVars, restoreVars, touched, changes, faults>>

Nothing == [e \in {} |-> 0]

With(f, e, v) == [x \in DOMAIN f \cup {e} |-> IF x = e THEN v ELSE f[x]]

Without(f, gone) == [x \in DOMAIN f \ gone |-> f[x]]

Replicated == kind = "replicated access"

Children(e) == {c \in DOMAIN stored : stored[c].parent = e}

IsResource(s) == s.parent = Resource

-----------------------------------------------------------------------------
(* Users.  ClickHouse keeps names unique, and parents in place.             *)

Allowed(e, s) ==
    /\ Replicated => (s.name \in DOMAIN links => links[s.name] = e)
    /\ ~Replicated => s.name = e
    /\ kind # "workload" => s.parent = Root
    /\ kind = "workload" =>
          /\ s.parent # e
          /\ s.parent \in Ids => s.parent \in DOMAIN stored /\ stored[s.parent].parent = Root

\* Nodes a restore left half done are not changed by users.
Whole(e) == Replicated => stored[e].name \in DOMAIN links /\ links[stored[e].name] = e

LinksWith(e, s) ==
    IF Replicated THEN With(Without(links, {n \in DOMAIN links : links[n] = e}), s.name, e)
                  ELSE links

\* Names may be used again, UUIDs not.
Create(e) ==
    /\ e \notin DOMAIN stored /\ (Replicated => e \notin DOMAIN listed)
    /\ \E s \in Statement :
          /\ Allowed(e, s) /\ s.version = 0 /\ s.name \notin DOMAIN links
          /\ stored' = With(stored, e, s)
          /\ links' = LinksWith(e, s)

\* Settings are altered, a user is renamed, a workload moves to another parent.
Alter(e) ==
    /\ e \in DOMAIN stored /\ Whole(e)
    /\ \E s \in Statement \ {stored[e]} :
          /\ Allowed(e, s) /\ IsResource(s) = IsResource(stored[e])
          /\ stored' = [stored EXCEPT ![e] = s]
          /\ links' = LinksWith(e, s)

Drop(e) ==
    /\ e \in DOMAIN stored /\ Whole(e) /\ Children(e) = {}
    /\ stored' = Without(stored, {e})
    /\ links' = Without(links, {n \in DOMAIN links : links[n] = e})

Users ==
    /\ pc \notin {"no backup", "restored"}
    /\ changes < MaxChanges /\ changes' = changes + 1
    /\ \E e \in Ids :
          /\ Create(e) \/ Alter(e) \/ Drop(e)
          /\ touched' = IF pc \in {"restore", "relink"} THEN touched \cup {e} ELSE touched
    /\ UNCHANGED <<kind, pc, backupVars, restoreVars, faults>>

-----------------------------------------------------------------------------
(* The backup.                                                              *)

\* Functions come with their statements, the others are copied from their storage.
List ==
    /\ pc = "list"
    /\ listed' = stored
    /\ IF kind = "function" \/ stored = Nothing
       THEN backup' = stored /\ UNCHANGED toCopy /\ pc' = "stopped"
       ELSE UNCHANGED backup /\ toCopy' = DOMAIN stored /\ pc' = "copy"
    /\ UNCHANGED <<kind, serverVars, restoreVars, touched, changes, faults>>

\* The file of a workload entity has its type in its name.
Found(e) ==
    /\ e \in DOMAIN stored
    /\ kind = "workload" => IsResource(stored[e]) = IsResource(listed[e])

\* What is read at once: a file or a node.  One node may hold all workload entities.
Reads == {{e} : e \in toCopy} \cup IF kind = "workload" THEN {toCopy} ELSE {}

\* What is not found is skipped, or fails the backup.
SkipsMissing == kind = "workload"

Copy ==
    \E es \in Reads :
        LET found == {e \in es : Found(e)}
        IN  /\ pc = "copy" /\ es # {}
            /\ toCopy' = toCopy \ es
            /\ backup' = [x \in found \cup DOMAIN backup |-> IF x \in found THEN stored[x] ELSE backup[x]]
            /\ pc' = IF found # es /\ ~SkipsMissing THEN "no backup"
                     ELSE IF toCopy' = {} THEN "stopped" ELSE "copy"
            /\ UNCHANGED <<kind, serverVars, listed, restoreVars, touched, changes, faults>>

-----------------------------------------------------------------------------
(* The restore.                                                             *)

\* topologically_sort_workload_entities refuses the backup of a workload without its parent.
Orphans == {e \in DOMAIN backup : backup[e].parent \in Ids \ DOMAIN backup}

\* A listing that is not asked for again.
ListingOnce == IF existing = Nothing THEN stored ELSE existing

Listing == stored

\* Local access files are removed before those of the backup are downloaded.  So they are in
\* replicated mode, where they are no entities.  Backups have the names of their entities: of
\* one that lacks them (acl_meta) nothing is restored to ZooKeeper, with a warning.
Start ==
    /\ pc = "stopped"
    /\ pc' = IF backup = Nothing THEN "restored"
             ELSE IF Orphans # {} THEN "stopped" ELSE "restore"
    /\ stored' = IF kind = "local access" /\ backup # Nothing THEN Nothing ELSE stored
    /\ existing' = Listing
    /\ todo' = DOMAIN backup
    /\ current' = {} /\ unlinked' = {} /\ touched' = {}
    /\ UNCHANGED <<kind, links, backupVars, changes, faults>>

\* An error ends the command.
Fails ==
    /\ pc' = "stopped" /\ todo' = {} /\ current' = {}
    /\ UNCHANGED <<serverVars, unlinked>>

Begun(e) ==
    /\ current' = {e}
    /\ UNCHANGED <<pc, todo>>

Done(e) ==
    /\ todo' = todo \ {e} /\ current' = {}
    /\ pc' = IF todo' = {} THEN "restored" ELSE "restore"

\* Resources come before workloads, and parents before the workloads below them.
IsNext(e) ==
    IF current # {} THEN e \in current
    ELSE IF kind = "workload"
    THEN /\ \A f \in todo : IsResource(backup[f]) => IsResource(backup[e])
         /\ backup[e].parent \in todo => \A f \in todo : backup[f].parent \in todo
    ELSE e = Min(todo)

\* The statements of functions are those of the listing.
FunctionStatement(e) == {existing[e]}

CollectionStatement(e) == {stored[f] : f \in {e} \cap DOMAIN stored}

\* The file is not found: its name has the type of the entity, the path has not.
WorkloadStatement(e) == {}

ServerStatement(e) ==
    CASE kind = "function" -> FunctionStatement(e)
      [] kind = "collection" -> CollectionStatement(e)
      [] OTHER -> WorkloadStatement(e)

Same(e) == backup[e] \in ServerStatement(e)

\* DROP FUNCTION and DROP NAMED COLLECTION fail if there is none.
CanDrop(e) == Children(e) = {} /\ (kind = "workload" \/ e \in DOMAIN stored)

\* Workload entities cannot be replaced.
CanCreate(e) ==
    kind = "workload" => /\ e \notin DOMAIN stored
                         /\ backup[e].parent \in Ids => backup[e].parent \in DOMAIN stored

\* CREATE NAMED COLLECTION IF NOT EXISTS keeps one that exists, and so does copying of files.
Created(e) ==
    IF kind \in {"collection", "local access"} /\ e \in DOMAIN stored
    THEN stored ELSE With(stored, e, backup[e])

IsNew(e) == e \notin DOMAIN existing \/ kind = "local access"

RestoreByStatement(e) ==
    /\ ~Replicated /\ IsNext(e)
    /\ IF current = {e} \/ IsNew(e)
       THEN \/ /\ CanCreate(e) /\ stored' = Created(e) /\ Done(e)
               /\ UNCHANGED <<links, unlinked>>
            \/ ~CanCreate(e) /\ Fails
       ELSE \/ Same(e) /\ Done(e) /\ UNCHANGED <<serverVars, unlinked>>
            \/ /\ ~Same(e) /\ CanDrop(e) /\ IsResource(existing[e]) = IsResource(backup[e])
               /\ stored' = Without(stored, {e}) /\ Begun(e)
               /\ UNCHANGED <<links, unlinked>>
            \/ /\ ~Same(e) /\ (CanDrop(e) => IsResource(existing[e]) # IsResource(backup[e]))
               /\ Fails

\* The node of an entity is written first, then the node of the name it had when it was listed.
RestoreNode(e) ==
    /\ Replicated /\ IsNext(e) /\ current = {}
    /\ stored' = With(stored, e, backup[e])
    /\ Begun(e)
    /\ UNCHANGED <<links, unlinked>>

Holder(e) == {links[n] : n \in {listed[e].name} \cap DOMAIN links}

LinkIfAbsent(e) ==
    links' = IF listed[e].name \in DOMAIN links THEN links ELSE With(links, listed[e].name, e)

Link(e) == links' = With(links, listed[e].name, e)

\* The node of another entity of this name is deleted before the name is given away.
RestoreLink(e) ==
    /\ Replicated /\ current = {e}
    /\ \/ /\ Holder(e) \subseteq {e} /\ Link(e) /\ Done(e)
          /\ UNCHANGED <<stored, unlinked>>
       \/ /\ \E u \in (Holder(e) \ {e}) \cap DOMAIN stored :
                stored' = Without(stored, {u}) /\ unlinked' = unlinked \cup {u}
          /\ pc' = "relink"
          /\ UNCHANGED <<links, todo, current>>
       \/ /\ \E u \in Holder(e) \ {e} : u \notin DOMAIN stored
          /\ Fails

Restore ==
    /\ pc = "restore"
    /\ \E e \in todo : RestoreByStatement(e) \/ RestoreNode(e) \/ RestoreLink(e)
    /\ UNCHANGED <<kind, backupVars, existing, touched, changes, faults>>

Relink ==
    /\ pc = "relink"
    /\ \E e \in current : Link(e) /\ Done(e)
    /\ UNCHANGED <<kind, stored, backupVars, existing, unlinked, touched, changes, faults>>

\* fix_admin_user: nodes of the same user the name does not lead to are deleted, until an error.
Duplicates(l) == {u \in DOMAIN stored \ {l} : stored[u].name = Admin}

FixAdmin ==
    /\ pc = "stopped" /\ Replicated /\ Admin \in DOMAIN links
    /\ LET l == links[Admin]
       IN  /\ l \in DOMAIN stored /\ stored[l].name = Admin
           /\ \A u \in Duplicates(l) : stored[u] = stored[l]
           /\ \E gone \in SUBSET Duplicates(l) \ {{}} : stored' = Without(stored, gone)
    /\ UNCHANGED <<kind, links, pc, backupVars, restoreVars, touched, changes, faults>>

\* An error or a crash.
Fault ==
    /\ pc \in {"restore", "relink"}
    /\ faults < MaxFaults /\ faults' = faults + 1
    /\ Fails
    /\ UNCHANGED <<kind, backupVars, existing, touched, changes>>

-----------------------------------------------------------------------------
Consistent ==
    /\ \A e \in DOMAIN stored : Allowed(e, stored[e]) /\ stored[e].version = 0
    /\ Replicated => IsInjective([e \in DOMAIN stored |-> stored[e].name])

Init ==
    /\ kind \in Kinds
    /\ \E es \in SUBSET Ids : stored \in [es -> Statement]
    /\ links = IF Replicated
               THEN [n \in {stored[e].name : e \in DOMAIN stored} |->
                        CHOOSE e \in DOMAIN stored : stored[e].name = n]
               ELSE Nothing
    /\ Consistent
    /\ pc = "list"
    /\ listed = Nothing /\ toCopy = {} /\ backup = Nothing
    /\ existing = Nothing /\ todo = {} /\ current = {} /\ unlinked = {}
    /\ touched = {} /\ changes = 0 /\ faults = 0

Ends == pc \in {"no backup", "restored"}

Stop == Ends /\ UNCHANGED vars

Commands == List \/ Copy \/ Start \/ Restore \/ Relink

Next == Commands \/ FixAdmin \/ Users \/ Fault \/ Stop

\* A restore that failed is run again.
FairSpec == Init /\ [][Next]_vars /\ WF_vars(Commands)

-----------------------------------------------------------------------------
RestoredAs(e) ==
    /\ e \in DOMAIN stored /\ stored[e] = backup[e]
    /\ Replicated => backup[e].name \in DOMAIN links /\ links[backup[e].name] = e

\* Whatever earlier runs left behind, a restore that succeeds has brought back all entities:
\* their statements, and the names that lead to them.  Not so for those users changed
\* meanwhile, those renamed while they were copied, and a UUID whose name in the backup is
\* another than on the server, where its name is one of the backup: its node is deleted when
\* that one is restored, even if it was restored before (access.py:279).
SuccessBringsBack ==
    pc = "restored" =>
        \A e \in DOMAIN backup \ (touched \cup unlinked) :
            listed[e].name = backup[e].name => RestoredAs(e)

\* Workloads moved while they were copied, so that each comes after another.
Cycles == {es \in SUBSET DOMAIN backup \ {{}} : \A e \in es : backup[e].parent \in es}

\* A workload entity whose workloads keep it from being dropped, which has another type,
\* whose parent was not copied, or is below itself; and a name that leads to no node.
Hopeless ==
    \/ Orphans # {} \/ Cycles # {}
    \/ kind = "workload" /\ \E e \in DOMAIN backup \cap DOMAIN stored :
          Children(e) # {} \/ IsResource(stored[e]) # IsResource(backup[e])
    \/ Replicated /\ \E e \in DOMAIN backup : \E u \in Holder(e) \ {e} : u \notin DOMAIN stored

\* A restore that is repeated succeeds in the end, however often it was interrupted between
\* the deletion of an entity and its creation, unless something stands in its way for good.
RepeatedRestoreSucceeds == <>(Ends \/ []Hopeless)
=============================================================================
