---------------------------- MODULE EntitiesProofs ----------------------------
(***************************************************************************)
(* Proof that a restore of entities that succeeds has brought them back.   *)
(* Entities are restored one after another; what a restore has not come to *)
(* is as it was listed, unless users changed it, and what it has restored  *)
(* is never lost to the restore of another, unless names were exchanged.   *)
(***************************************************************************)
EXTENDS Entities, TLAPS

\* The names of replicated access entities lead to them.
Named ==
    \A e \in DOMAIN stored : stored[e].name \in DOMAIN links /\ links[stored[e].name] = e

\* Of two entities that were listed together, each has a name of its own.
ListedInv ==
    /\ pc = "list" => (Replicated => Named) /\ toCopy = {} /\ backup = Nothing
    /\ Replicated =>
          \A e, f \in DOMAIN listed : listed[e].name = listed[f].name => e = f
    /\ toCopy \subseteq DOMAIN listed
    /\ DOMAIN backup \subseteq DOMAIN listed

AsListed(e) ==
    /\ e \in DOMAIN stored <=> e \in DOMAIN existing
    /\ e \in DOMAIN stored => stored[e] = existing[e]

\* An entity that is still to be restored is as it was listed when the restore began, or
\* was removed by it; the node of a replicated one is written before its name.
Ahead(e) ==
    IF Replicated THEN e \in current => e \in DOMAIN stored /\ stored[e] = backup[e]
    ELSE IF e \in current \/ kind = "local access" THEN e \notin DOMAIN stored
    ELSE AsListed(e)

AheadInv ==
    pc \in {"restore", "relink"} =>
        /\ pc = "relink" => Replicated
        /\ todo \subseteq DOMAIN backup
        /\ current = {} \/ \E e \in todo : current = {e}
        /\ \A e \in todo \ touched : Ahead(e)

\* What a restore has behind it is as in the backup.
BehindInv ==
    /\ pc \in {"restore", "relink", "restored"} =>
          \A e \in DOMAIN backup \ (todo \cup touched \cup unlinked) :
              listed[e].name = backup[e].name => RestoredAs(e)
    /\ pc = "restored" => todo = {}

IInv == ListedInv /\ AheadInv /\ BehindInv

-----------------------------------------------------------------------------
(* What users do.                                                           *)

\* Users change one entity, and of the names only those that lead to it.
UserChange(e) ==
    /\ DOMAIN stored' \ {e} = DOMAIN stored \ {e}
    /\ \A f \in DOMAIN stored \ {e} : stored'[f] = stored[f]
    /\ Replicated => \A n \in DOMAIN links : links[n] # e => n \in DOMAIN links' /\ links'[n] = links[n]
    /\ Replicated /\ e \in DOMAIN stored' => stored'[e].name \in DOMAIN links' /\ links'[stored'[e].name] = e

LEMMA Linking ==
    ASSUME NEW e, NEW s, Replicated, s.name \in DOMAIN links => links[s.name] = e,
           links' = LinksWith(e, s)
    PROVE  /\ s.name \in DOMAIN links' /\ links'[s.name] = e
           /\ \A n \in DOMAIN links : links[n] # e => n \in DOMAIN links' /\ links'[n] = links[n]
<1> DEFINE others == Without(links, {n \in DOMAIN links : links[n] = e})
<1>1. links' = With(others, s.name, e)
  BY DEF LinksWith
<1>2. \A n \in DOMAIN links : links[n] # e => n \in DOMAIN others /\ others[n] = links[n]
  BY DEF Without
<1> HIDE DEF others
<1>3. /\ DOMAIN With(others, s.name, e) = DOMAIN others \cup {s.name}
      /\ With(others, s.name, e)[s.name] = e
      /\ \A x \in DOMAIN others \ {s.name} : With(others, s.name, e)[x] = others[x]
  BY DEF With
<1> QED BY <1>1, <1>2, <1>3

LEMMA UsersChangeOne ==
    ASSUME NEW e \in Ids, Create(e) \/ Alter(e) \/ Drop(e)
    PROVE  UserChange(e)
<1>1. CASE Create(e)
  <2>1. PICK s \in Statement :
            /\ Allowed(e, s) /\ s.name \notin DOMAIN links
            /\ stored' = With(stored, e, s)
            /\ links' = LinksWith(e, s)
    BY <1>1 DEF Create
  <2>2. /\ DOMAIN stored' = DOMAIN stored \cup {e}
        /\ stored'[e] = s
        /\ \A x \in DOMAIN stored \ {e} : stored'[x] = stored[x]
    BY <2>1 DEF With
  <2> QED BY <2>1, <2>2, Linking DEF UserChange
<1>2. CASE Alter(e)
  <2>1. PICK s \in Statement :
            /\ Allowed(e, s)
            /\ stored' = [stored EXCEPT ![e] = s]
            /\ links' = LinksWith(e, s)
    BY <1>2 DEF Alter
  <2>2. Replicated => (s.name \in DOMAIN links => links[s.name] = e)
    BY <2>1 DEF Allowed
  <2>3. e \in DOMAIN stored /\ DOMAIN stored' = DOMAIN stored /\ stored'[e] = s
    BY <1>2, <2>1 DEF Alter
  <2> QED BY <2>1, <2>2, <2>3, Linking DEF UserChange
<1>3. CASE Drop(e)
  BY <1>3 DEF Drop, UserChange, Without
<1> QED BY <1>1, <1>2, <1>3

\* What the others had been restored to, they still are.
LEMMA OthersKept ==
    ASSUME NEW e, UserChange(e), UNCHANGED <<kind, backup>>,
           NEW f \in DOMAIN backup \ {e}, RestoredAs(f)
    PROVE  RestoredAs(f)'
<1>1. f \in DOMAIN stored' /\ stored'[f] = backup[f]
  BY DEF UserChange, RestoredAs
<1>2. Replicated => backup[f].name \in DOMAIN links' /\ links'[backup[f].name] = f
  BY DEF UserChange, RestoredAs
<1> QED BY <1>1, <1>2 DEF RestoredAs, Replicated

LEMMA UsersKeep == ASSUME IInv, Users PROVE IInv'
<1>1. PICK e \in Ids :
          /\ Create(e) \/ Alter(e) \/ Drop(e)
          /\ touched' = IF pc \in {"restore", "relink"} THEN touched \cup {e} ELSE touched
  BY DEF Users
<1>2. UserChange(e)
  BY <1>1, UsersChangeOne
<1>3. /\ UNCHANGED <<kind, pc, listed, toCopy, backup, existing, todo, current, unlinked>>
      /\ pc # "restored"
  BY DEF Users, backupVars, restoreVars
<1>4. ListedInv'
  <2>1. pc = "list" => (Replicated => Named')
    BY <1>2 DEF UserChange, IInv, ListedInv, Named
  <2> QED BY <1>3, <2>1 DEF IInv, ListedInv, Replicated
<1>5. AheadInv'
  <2>1. ASSUME pc \in {"restore", "relink"}, NEW f \in todo \ touched'
        PROVE  Ahead(f)'
    <3>1. f # e /\ Ahead(f)
      BY <1>1, <2>1 DEF IInv, AheadInv
    <3> QED BY <1>2, <1>3, <3>1 DEF UserChange, Ahead, AsListed, Replicated
  <2> QED BY <1>3, <2>1 DEF IInv, AheadInv, Replicated
<1>6. BehindInv'
  <2>1. ASSUME pc \in {"restore", "relink"}, NEW f \in DOMAIN backup \ (todo \cup touched' \cup unlinked),
               listed[f].name = backup[f].name
        PROVE  RestoredAs(f)'
    <3>1. f # e /\ RestoredAs(f)
      BY <1>1, <2>1 DEF IInv, BehindInv
    <3> QED BY <1>2, <1>3, <2>1, <3>1, OthersKept
  <2> QED BY <1>3, <2>1 DEF IInv, BehindInv
<1> QED BY <1>4, <1>5, <1>6 DEF IInv

-----------------------------------------------------------------------------
(* The backup, and the begin of a restore.                                  *)

LEMMA NoEntities == DOMAIN Nothing = {}
BY DEF Nothing

LEMMA ListKeeps == ASSUME IInv, List PROVE IInv'
<1>1. listed' = stored /\ pc' \in {"stopped", "copy"} /\ kind' = kind
  BY DEF List
<1>2. Replicated => \A e, f \in DOMAIN stored : stored[e].name = stored[f].name => e = f
  BY DEF List, IInv, ListedInv, Named
<1>3. toCopy = {} /\ DOMAIN backup = {}
  BY NoEntities DEF List, IInv, ListedInv
<1>4. toCopy' \subseteq DOMAIN listed' /\ DOMAIN backup' \subseteq DOMAIN listed'
  BY <1>1, <1>3 DEF List
<1> QED BY <1>1, <1>2, <1>4 DEF IInv, ListedInv, AheadInv, BehindInv, Replicated

LEMMA CopyKeeps == ASSUME IInv, Copy PROVE IInv'
<1>1. PICK es \in Reads :
          LET found == {e \in es : Found(e)}
          IN  /\ pc = "copy"
              /\ toCopy' = toCopy \ es
              /\ backup' = [x \in found \cup DOMAIN backup |-> IF x \in found THEN stored[x] ELSE backup[x]]
              /\ pc' = IF found # es /\ ~SkipsMissing THEN "no backup"
                       ELSE IF toCopy' = {} THEN "stopped" ELSE "copy"
              /\ UNCHANGED <<kind, listed>>
  BY DEF Copy
<1>2. es \subseteq toCopy
  BY DEF Reads
<1>3. pc' \in {"no backup", "stopped", "copy"} /\ UNCHANGED <<kind, listed>>
  BY <1>1
<1>4. toCopy' \subseteq DOMAIN listed /\ DOMAIN backup' \subseteq DOMAIN listed
  BY <1>1, <1>2 DEF IInv, ListedInv
<1> QED BY <1>3, <1>4 DEF IInv, ListedInv, AheadInv, BehindInv, Replicated

LEMMA StartKeeps == ASSUME IInv, Start PROVE IInv'
<1>1. /\ pc' \in {"restored", "stopped", "restore"}
      /\ pc' = "restored" => DOMAIN backup = {}
      /\ UNCHANGED <<kind, backup, listed, toCopy>>
      /\ todo' = DOMAIN backup /\ current' = {}
  BY NoEntities DEF Start, backupVars
<1>2. ListedInv'
  BY <1>1 DEF IInv, ListedInv, Replicated
<1>3. AheadInv'
  <2>1. ASSUME pc' = "restore", NEW e PROVE Ahead(e)'
    <3>1. backup # Nothing /\ existing' = stored
      BY <2>1 DEF Start, Listing
    <3>2. IF kind = "local access" THEN DOMAIN stored' = {} ELSE stored' = stored
      BY <3>1, NoEntities DEF Start
    <3> QED BY <1>1, <3>1, <3>2 DEF Ahead, AsListed, Replicated
  <2> QED BY <1>1, <2>1 DEF AheadInv
<1>4. BehindInv'
  BY <1>1 DEF BehindInv
<1> QED BY <1>2, <1>3, <1>4 DEF IInv

LEMMA FixAdminKeeps == ASSUME IInv, FixAdmin PROVE IInv'
<1>1. pc = "stopped" /\ UNCHANGED <<kind, pc, listed, toCopy, backup>>
  BY DEF FixAdmin, backupVars
<1> QED BY <1>1 DEF IInv, ListedInv, AheadInv, BehindInv, Replicated

LEMMA FaultKeeps == ASSUME IInv, Fault PROVE IInv'
<1>1. pc' = "stopped" /\ UNCHANGED <<kind, listed, toCopy, backup>>
  BY DEF Fault, Fails, backupVars
<1> QED BY <1>1 DEF IInv, ListedInv, AheadInv, BehindInv, Replicated

-----------------------------------------------------------------------------
(* The restore of one entity.                                               *)

restoreFrame == UNCHANGED <<kind, backupVars, existing, touched>>

\* A restore that ends in an error promises nothing.
LEMMA FailsKeeps == ASSUME IInv, pc = "restore", Fails, restoreFrame PROVE IInv'
BY DEF Fails, restoreFrame, backupVars, IInv, ListedInv, AheadInv, BehindInv, Replicated

\* Restoring entity e leaves the others alone, but for a node it unlinks.
Spares(e) ==
    \A f \in (DOMAIN backup \cup todo) \ ({e} \cup unlinked') :
        /\ f \in DOMAIN stored' <=> f \in DOMAIN stored
        /\ f \in DOMAIN stored => stored'[f] = stored[f]

LinksSpared(e) == \A n \in DOMAIN links \ {listed[e].name} : n \in DOMAIN links' /\ links'[n] = links[n]

LEMMA StillBehind ==
    ASSUME IInv, restoreFrame, NEW e \in todo, Spares(e), unlinked \subseteq unlinked',
           Replicated => LinksSpared(e), pc \in {"restore", "relink"},
           NEW f \in DOMAIN backup \ (todo \cup touched \cup unlinked'), listed[f].name = backup[f].name
    PROVE  RestoredAs(f)'
<1>1. RestoredAs(f) /\ f # e
  BY DEF IInv, BehindInv
<1>2. f \in DOMAIN stored' /\ stored'[f] = backup[f]
  BY <1>1 DEF Spares, RestoredAs
<1>3. ASSUME Replicated PROVE backup[f].name \in DOMAIN links' /\ links'[backup[f].name] = f
  <2>1. listed[f].name # listed[e].name
    BY <1>1, <1>3 DEF IInv, ListedInv, AheadInv
  <2> QED BY <1>1, <1>3, <2>1 DEF LinksSpared, RestoredAs
<1> QED BY <1>2, <1>3 DEF restoreFrame, backupVars, RestoredAs, Replicated

\* The entity that is restored now.
LEMMA StatementKeeps == ASSUME IInv, pc = "restore", restoreFrame, NEW e \in todo, RestoreByStatement(e) PROVE IInv'
<1>1. ~Replicated /\ UNCHANGED <<kind, listed, toCopy, backup, existing, touched>>
  BY DEF RestoreByStatement, restoreFrame, backupVars
<1>2. current \in {{}, {e}}
  BY DEF RestoreByStatement, IsNext, IInv, AheadInv
<1>3. ListedInv /\ AheadInv /\ BehindInv
  BY DEF IInv
<1>4. e \in todo \ touched => Ahead(e)
  BY <1>3 DEF AheadInv
<1>5. ASSUME current = {e} \/ IsNew(e), CanCreate(e), stored' = Created(e), Done(e), UNCHANGED <<links, unlinked>>
      PROVE  IInv'
  <2>1. Spares(e)
    BY <1>5 DEF Created, With, Spares
  <2>2. e \notin touched => e \in DOMAIN stored' /\ stored'[e] = backup[e]
    BY <1>1, <1>4, <1>5 DEF Ahead, AsListed, IsNew, Created, With
  <2>3. current' = {} /\ todo' = todo \ {e} /\ pc' = IF todo' = {} THEN "restored" ELSE "restore"
    BY <1>5 DEF Done
  <2>4. ListedInv'
    BY <1>1, <1>3, <2>3 DEF ListedInv, Replicated
  <2>5. AheadInv'
    <3>1. ASSUME NEW f \in todo' \ touched PROVE Ahead(f)'
      <4>1. f # e /\ f \in todo /\ Ahead(f) /\ f \notin current
        BY <1>2, <1>3, <2>3, <3>1 DEF AheadInv
      <4>2. f \notin unlinked' =>
                /\ f \in DOMAIN stored' <=> f \in DOMAIN stored
                /\ f \in DOMAIN stored => stored'[f] = stored[f]
        BY <2>1, <4>1 DEF Spares
      <4> QED BY <1>1, <2>3, <4>1, <1>5 DEF Ahead, AsListed, Replicated, Created, With
    <3> QED BY <1>1, <1>3, <2>3, <3>1 DEF AheadInv
  <2>6. BehindInv'
    <3>1. ASSUME NEW f \in DOMAIN backup \ (todo' \cup touched \cup unlinked'), listed[f].name = backup[f].name
          PROVE  RestoredAs(f)'
      <4>1. CASE f = e
        BY <1>1, <2>2, <3>1, <4>1 DEF RestoredAs, Replicated
      <4>2. CASE f # e
        BY <1>1, <1>5, <2>1, <2>3, <3>1, <4>2, StillBehind
      <4> QED BY <4>1, <4>2
    <3> QED BY <1>1, <2>3, <3>1 DEF BehindInv
  <2> QED BY <2>4, <2>5, <2>6 DEF IInv
<1>6. ASSUME current # {e}, ~IsNew(e), Same(e), Done(e), UNCHANGED <<serverVars, unlinked>>
      PROVE  IInv'
  <2>1. e \notin touched => e \in DOMAIN stored /\ stored[e] = backup[e]
    <3>1. e \notin current /\ e \in DOMAIN existing /\ kind # "local access"
      BY <1>2, <1>6 DEF IsNew
    <3> QED
      BY <1>1, <1>4, <1>6, <3>1
      DEF Ahead, AsListed, Same, ServerStatement, FunctionStatement, CollectionStatement,
          WorkloadStatement
  <2>2. UNCHANGED <<stored, links, unlinked>> /\ Spares(e)
    BY <1>6 DEF serverVars, Spares
  <2>3. current' = {} /\ todo' = todo \ {e} /\ pc' = IF todo' = {} THEN "restored" ELSE "restore"
    BY <1>6 DEF Done
  <2>4. ListedInv'
    BY <1>1, <1>3, <2>3 DEF ListedInv, Replicated
  <2>5. AheadInv'
    <3>1. ASSUME NEW f \in todo' \ touched PROVE Ahead(f)'
      <4>1. Ahead(f) /\ f \notin current
        BY <1>2, <1>3, <2>3, <3>1 DEF AheadInv
      <4> QED BY <1>1, <2>2, <2>3, <4>1 DEF Ahead, AsListed, Replicated
    <3> QED BY <1>1, <1>3, <2>3, <3>1 DEF AheadInv
  <2>6. BehindInv'
    <3>1. ASSUME NEW f \in DOMAIN backup \ (todo' \cup touched \cup unlinked'), listed[f].name = backup[f].name
          PROVE  RestoredAs(f)'
      <4>1. CASE f = e
        BY <1>1, <2>1, <2>2, <3>1, <4>1 DEF RestoredAs, Replicated
      <4>2. CASE f # e
        BY <1>1, <2>2, <2>3, <3>1, <4>2, StillBehind
      <4> QED BY <4>1, <4>2
    <3> QED BY <1>1, <2>3, <3>1 DEF BehindInv
  <2> QED BY <2>4, <2>5, <2>6 DEF IInv
<1>7. ASSUME current # {e}, ~IsNew(e), stored' = Without(stored, {e}), Begun(e), UNCHANGED <<links, unlinked>>
      PROVE  IInv'
  <2>1. Spares(e) /\ e \notin DOMAIN stored'
    BY <1>7 DEF Without, Spares
  <2>2. current' = {e} /\ todo' = todo /\ pc' = pc
    BY <1>7 DEF Begun
  <2>3. ListedInv'
    BY <1>1, <1>3, <2>2 DEF ListedInv, Replicated
  <2>4. AheadInv'
    <3>1. ASSUME NEW f \in todo \ touched PROVE Ahead(f)'
      <4>1. CASE f = e
        BY <1>1, <2>1, <2>2, <4>1 DEF Ahead, Replicated
      <4>2. CASE f # e
        <5>1. Ahead(f) /\ f \notin current
          BY <1>2, <1>3, <3>1, <4>2 DEF AheadInv
        <5> QED BY <1>1, <1>7, <2>2, <4>2, <5>1 DEF Ahead, AsListed, Replicated, Without
      <4> QED BY <4>1, <4>2
    <3> QED BY <1>1, <1>3, <2>2, <3>1 DEF AheadInv
  <2>5. BehindInv'
    <3>1. ASSUME NEW f \in DOMAIN backup \ (todo \cup touched \cup unlinked'), listed[f].name = backup[f].name
          PROVE  RestoredAs(f)'
      BY <1>1, <1>7, <2>1, <3>1, StillBehind
    <3> QED BY <1>1, <2>2, <3>1 DEF BehindInv
  <2> QED BY <2>3, <2>4, <2>5 DEF IInv
<1>8. CASE Fails
  BY <1>8, FailsKeeps
<1> QED BY <1>2, <1>5, <1>6, <1>7, <1>8 DEF RestoreByStatement

LEMMA NodeKeeps == ASSUME IInv, pc = "restore", restoreFrame, NEW e \in todo, RestoreNode(e) PROVE IInv'
<1>1. /\ Replicated /\ current = {}
      /\ stored' = With(stored, e, backup[e])
      /\ current' = {e} /\ UNCHANGED <<pc, todo, links, unlinked>>
      /\ UNCHANGED <<kind, listed, toCopy, backup, existing, touched>>
  BY DEF RestoreNode, Begun, restoreFrame, backupVars
<1>2. Spares(e) /\ LinksSpared(e) /\ e \in DOMAIN stored' /\ stored'[e] = backup[e]
  BY <1>1 DEF Spares, LinksSpared, With
<1>3. ListedInv'
  BY <1>1 DEF IInv, ListedInv, Replicated
<1>4. AheadInv'
  BY <1>1, <1>2 DEF IInv, AheadInv, Ahead, Replicated
<1>5. BehindInv'
  <2>1. ASSUME NEW f \in DOMAIN backup \ (todo \cup touched \cup unlinked'), listed[f].name = backup[f].name
        PROVE  RestoredAs(f)'
    BY <1>1, <1>2, <2>1, StillBehind
  <2> QED BY <1>1, <2>1 DEF BehindInv
<1> QED BY <1>3, <1>4, <1>5 DEF IInv

\* The name of an entity whose node is restored is made to lead to it.
LEMMA LinkKeeps ==
    ASSUME IInv, pc \in {"restore", "relink"}, restoreFrame, NEW e \in todo,
           Replicated, current = {e}, Link(e), Done(e), UNCHANGED <<stored, unlinked>>
    PROVE  IInv'
<1>1. /\ UNCHANGED <<kind, listed, toCopy, backup, existing, touched, stored, unlinked>>
      /\ current' = {} /\ todo' = todo \ {e} /\ pc' = IF todo' = {} THEN "restored" ELSE "restore"
      /\ links' = With(links, listed[e].name, e)
  BY DEF Done, Link, restoreFrame, backupVars
<1>2. Spares(e) /\ LinksSpared(e) /\ listed[e].name \in DOMAIN links' /\ links'[listed[e].name] = e
  BY <1>1 DEF Spares, LinksSpared, With
<1>3. e \notin touched => e \in DOMAIN stored /\ stored[e] = backup[e]
  BY DEF IInv, AheadInv, Ahead
<1>4. ListedInv'
  BY <1>1 DEF IInv, ListedInv, Replicated
<1>5. AheadInv'
  BY <1>1 DEF IInv, AheadInv, Ahead, Replicated
<1>6. BehindInv'
  <2>1. ASSUME NEW f \in DOMAIN backup \ (todo' \cup touched \cup unlinked'), listed[f].name = backup[f].name
        PROVE  RestoredAs(f)'
    <3>1. CASE f = e
      BY <1>1, <1>2, <1>3, <2>1, <3>1 DEF RestoredAs
    <3>2. CASE f # e
      BY <1>1, <1>2, <2>1, <3>2, StillBehind
    <3> QED BY <3>1, <3>2
  <2> QED BY <1>1, <2>1 DEF BehindInv
<1> QED BY <1>4, <1>5, <1>6 DEF IInv

LEMMA RestoreLinkKeeps == ASSUME IInv, pc = "restore", restoreFrame, NEW e \in todo, RestoreLink(e) PROVE IInv'
<1>1. Replicated /\ current = {e}
  BY DEF RestoreLink
<1>2. CASE Link(e) /\ Done(e) /\ UNCHANGED <<stored, unlinked>>
  BY <1>1, <1>2, LinkKeeps
<1>3. ASSUME NEW u \in Holder(e) \ {e}, stored' = Without(stored, {u}), unlinked' = unlinked \cup {u},
             pc' = "relink", UNCHANGED <<links, todo, current>>
      PROVE  IInv'
  <2>1. UNCHANGED <<kind, listed, toCopy, backup, existing, touched>>
    BY DEF restoreFrame, backupVars
  <2>2. Spares(e) /\ LinksSpared(e)
    BY <1>3 DEF Spares, LinksSpared, Without
  <2>3. ListedInv'
    BY <1>3, <2>1 DEF IInv, ListedInv, Replicated
  <2>4. AheadInv'
    BY <1>1, <1>3, <2>1 DEF IInv, AheadInv, Ahead, Replicated, Without
  <2>5. BehindInv'
    <3>1. ASSUME NEW f \in DOMAIN backup \ (todo \cup touched \cup unlinked'), listed[f].name = backup[f].name
          PROVE  RestoredAs(f)'
      BY <1>3, <2>2, <3>1, StillBehind
    <3> QED BY <1>3, <2>1, <3>1 DEF BehindInv
  <2> QED BY <2>3, <2>4, <2>5 DEF IInv
<1>4. CASE Fails
  BY <1>4, FailsKeeps
<1> QED BY <1>2, <1>3, <1>4 DEF RestoreLink

LEMMA RestoreKeeps == ASSUME IInv, Restore PROVE IInv'
<1>1. pc = "restore" /\ restoreFrame
  BY DEF Restore, restoreFrame
<1> QED BY <1>1, StatementKeeps, NodeKeeps, RestoreLinkKeeps DEF Restore

LEMMA RelinkKeeps == ASSUME IInv, Relink PROVE IInv'
<1>1. PICK e \in current : Link(e) /\ Done(e)
  BY DEF Relink
<1>2. pc = "relink" /\ restoreFrame /\ UNCHANGED <<stored, unlinked>>
  BY DEF Relink, restoreFrame
<1>3. e \in todo /\ current = {e}
  BY <1>1, <1>2 DEF IInv, AheadInv
<1>4. Replicated
  BY <1>2 DEF IInv, AheadInv
<1> QED BY <1>1, <1>2, <1>3, <1>4, LinkKeeps

-----------------------------------------------------------------------------
(* The theorem.                                                             *)

LEMMA InitEstablishes == Init => IInv
<1> SUFFICES ASSUME Init PROVE IInv
  OBVIOUS
<1>1. DOMAIN listed = {} /\ DOMAIN backup = {}
  BY NoEntities DEF Init
<1>2. ASSUME Replicated, NEW e \in DOMAIN stored
      PROVE  stored[e].name \in DOMAIN links /\ links[stored[e].name] = e
  <2>1. links = [n \in {stored[f].name : f \in DOMAIN stored} |->
                     CHOOSE f \in DOMAIN stored : stored[f].name = n]
    BY <1>2 DEF Init
  <2>2. PICK f \in DOMAIN stored : f = links[stored[e].name] /\ stored[f].name = stored[e].name
    BY <1>2, <2>1
  <2>3. f = e
    BY <1>2, <2>2 DEF Init, Consistent, IsInjective
  <2> QED BY <1>2, <2>1, <2>2, <2>3
<1>3. ListedInv
  BY <1>1, <1>2 DEF Init, ListedInv, Named
<1> QED BY <1>1, <1>3 DEF Init, IInv, AheadInv, BehindInv

\* Whatever earlier runs left behind, whatever other entities users change meanwhile: a
\* restore that succeeds has brought back every entity of the backup, with its statement
\* and the name that leads to it (_restore_replicated, and the restore methods of the
\* classes of entities, which drop what differs before they create it).
THEOREM RestoreBringsBack == FairSpec => []SuccessBringsBack
<1>1. IInv /\ [Next]_vars => IInv'
  <2> SUFFICES ASSUME IInv, [Next]_vars PROVE IInv'
    OBVIOUS
  <2>1. CASE UNCHANGED vars
    BY <2>1 DEF vars, serverVars, backupVars, restoreVars, IInv, ListedInv, Named, AheadInv, Ahead, AsListed,
                BehindInv, RestoredAs, Replicated
  <2> QED BY <2>1, ListKeeps, CopyKeeps, StartKeeps, RestoreKeeps, RelinkKeeps, FixAdminKeeps, UsersKeep,
             FaultKeeps DEF Next, Commands, Stop
<1>2. IInv => SuccessBringsBack
  BY DEF IInv, BehindInv, SuccessBringsBack
<1> QED BY <1>1, <1>2, InitEstablishes, PTL DEF FairSpec
=============================================================================
