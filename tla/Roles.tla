------------------------------- MODULE Roles --------------------------------
(***************************************************************************)
(* The security descriptors of the objects (GenericItem.security and       *)
(* inheritRoles): an object that inherits its roles holds a copy of the    *)
(* descriptor of its parent, so that every method that creates, updates,   *)
(* moves, copies or restores an object, or changes the roles of its        *)
(* parent, has to keep the copies together.                                *)
(*                                                                         *)
(* A method is called on the copy of an object that the request was        *)
(* dispatched to, which may be older than what is stored.                  *)
(***************************************************************************)
EXTENDS Integers, FiniteSets

CONSTANTS
  Users,
  Administrators,  \* the members of the administrators group
  MemberOf,    \* the groups of each user
  Acls,        \* the descriptors given: functions of some users and groups
  RootAcl,
  MaxObjects,  \* bound: the objects
  MaxCalls     \* bound: the calls

NO_ACCESS == 0
READER == 1
AUTHOR == 2
CONTENT_CO == 4
COORDINATOR == 8
AllRoles == {NO_ACCESS, READER, AUTHOR, CONTENT_CO, COORDINATOR}

ASSUME RolesAssumption ==
  /\ Administrators \subseteq Users /\ DOMAIN MemberOf = Users
  /\ RootAcl \in Acls
  /\ \A acl \in Acls : \A p \in DOMAIN acl : acl[p] \in AllRoles
  /\ MaxObjects \in Nat /\ MaxCalls \in Nat

VARIABLES
  tree,      \* the stored objects
  held,      \* the copy of the object that a user's request was sent to
  calls,     \* the number of calls so far
  outdated   \* a call has written the roles of a copy that was outdated

rolesVars == <<tree, held, calls, outdated>>

Sets == INSTANCE FiniteSetsExt

RootFolder == 0
NoCopy == [id |-> -1]
NoRoles == <<>>

Stored(id, pid, folder, inherits, security, owner) ==
  [id |-> id, pid |-> pid, folder |-> folder, inheritRoles |-> inherits,
   security |-> security, owner |-> owner, level |-> 0]

-----------------------------------------------------------------------------
(* permsresolver.get_access and GenericItem._apply_security.               *)

get_access(item, user) ==
  IF user \in Administrators THEN COORDINATOR
  ELSE IF user \in DOMAIN item.security THEN item.security[user]
  ELSE Sets!Max({NO_ACCESS} \cup {item.security[g] :
                               g \in MemberOf[user] \cap DOMAIN item.security})

\* The ids above each object, and its own.
Line(t) ==
  LET up[i \in DOMAIN t] == {i} \cup IF i = RootFolder THEN {} ELSE up[t[i].pid]
  IN up

Under(t, i) == {j \in DOMAIN t \ {i} : i \in Line(t)[j]}

MutantApplyBelow(t, item) ==
  [j \in DOMAIN t |->
     IF t[j].pid = item.id /\ t[j].inheritRoles
     THEN [t[j] EXCEPT !.security = item.security] ELSE t[j]]

MutantApplyToAll(t, item) ==
  [j \in DOMAIN t |-> IF j \in Under(t, item.id)
                     THEN [t[j] EXCEPT !.security = item.security] ELSE t[j]]

\* Every object under item, hidden ones as well, is written with the roles of
\* its parent, if it inherits them.
ApplyBelow(t, item) ==
  LET acl[j \in Under(t, item.id) \cup {item.id}] ==
        IF j = item.id THEN item.security
        ELSE IF t[j].inheritRoles THEN acl[t[j].pid] ELSE t[j].security
  IN [j \in DOMAIN t |-> IF j \in Under(t, item.id)
                         THEN [t[j] EXCEPT !.security = acl[j]] ELSE t[j]]

MutantFromParent(item, parent) == item

FromParent(item, parent) ==
  IF item.inheritRoles THEN [item EXCEPT !.security = parent.security] ELSE item

\* The tree with item written into it.
Saved(t, item) ==
  [i \in DOMAIN t \cup {item.id} |-> IF i = item.id THEN item ELSE t[i]]

-----------------------------------------------------------------------------
RolesTypeOK ==
  /\ \A i \in DOMAIN tree :
       /\ tree[i].id = i
       /\ tree[i].security \in Acls /\ tree[i].inheritRoles \in BOOLEAN
       /\ i # RootFolder => tree[i].pid \in DOMAIN tree \ {i}
  /\ calls \in 0 .. MaxCalls /\ outdated \in BOOLEAN

RolesInit ==
  /\ tree = [i \in {RootFolder} |->
               Stored(i, -1, TRUE, FALSE, RootAcl, "system")]
  /\ held = [u \in Users |-> NoCopy]
  /\ calls = 0 /\ outdated = FALSE

Visible(i, u) == tree[i].level = 0 /\ get_access(tree[i], u) # NO_ACCESS
NewNode == Cardinality(DOMAIN tree)
HasRoom(n) == NewNode + n <= MaxObjects

\* The request is dispatched to an object (db.get_item).
Dispatched(u, i) ==
  /\ held[u] = NoCopy /\ calls < MaxCalls /\ Visible(i, u)
  /\ held' = [held EXCEPT ![u] = tree[i]]
  /\ calls' = calls + 1
  /\ UNCHANGED <<tree, outdated>>

Same(self) ==
  /\ tree[self.id].security = self.security
  /\ tree[self.id].inheritRoles = self.inheritRoles

\* Called(u, t, writes) ends the call of u: what it leaves is t, and writes
\* tells whether it wrote the roles of its copy.
Called(u, t, writes) ==
  /\ tree' = t /\ held' = [held EXCEPT ![u] = NoCopy]
  /\ UNCHANGED calls
  /\ outdated' = (outdated \/ (writes /\ ~Same(held[u])))

\* A copy cannot be written back if the object was moved since.
Unmoved(self) == tree[self.id].pid = self.pid

\* The request fails.
Refused(u) == held[u] # NoCopy /\ Called(u, tree, FALSE)

\* What the user chose in the roles tab of the form.
Chosen(item, role, inherits, acl) ==
  IF role # COORDINATOR THEN item
  ELSE [item EXCEPT !.inheritRoles = inherits,
                    !.security = IF inherits THEN @ ELSE acl]

\* basecontainer.create and append_to; the parent is written as it was read.
CreateIn(u, folder, inherits, acl) ==
  LET parent == held[u]
      role   == get_access(parent, u)
      new    == Chosen(Stored(NewNode, parent.id, folder, TRUE, NoRoles, u),
                       role, inherits, acl)
      item   == IF role = COORDINATOR THEN FromParent(new, parent)
                ELSE [new EXCEPT !.inheritRoles = TRUE,
                                 !.security = parent.security]
  IN /\ parent # NoCopy /\ parent.folder /\ HasRoom(1)
     /\ role # READER /\ Unmoved(parent)
     /\ Called(u, Saved(Saved(tree, parent), item), TRUE)

MutantRestorePrevious(item, old) == item

\* A user that is no coordinator does not change the roles.
RestorePrevious(item, old) ==
  [item EXCEPT !.security = old.security, !.inheritRoles = old.inheritRoles]

\* baseitem.update and Item.update.
UpdateRoles(u, inherits, acl) ==
  LET self == Chosen(held[u], get_access(held[u], u), inherits, acl)
      old  == tree[held[u].id]
      role == get_access(old, u)
      changed == \/ self.inheritRoles # old.inheritRoles
                 \/ ~self.inheritRoles /\ self.security # old.security
      item == IF role # COORDINATOR THEN RestorePrevious(self, old)
              ELSE IF changed /\ self.id # RootFolder
              THEN FromParent(self, tree[self.pid])
              ELSE self
      t    == IF role = COORDINATOR /\ changed THEN ApplyBelow(tree, item)
              ELSE tree
  IN /\ held[u] # NoCopy /\ (held[u].id = RootFolder => ~inherits)
     /\ role > READER /\ Unmoved(self)
     /\ Called(u, Saved(t, item), role = COORDINATOR)

\* An object that gets another parent does not inherit any more.
Detached(item, pid) == [item EXCEPT !.pid = pid, !.inheritRoles = FALSE]

\* Movable.move_to.
MoveTo(u, target) ==
  LET self == held[u] IN
  /\ self # NoCopy /\ self.id # RootFolder
  /\ tree[target].folder /\ tree[target].level = 0
  /\ self.id \notin Line(tree)[target]
  /\ get_access(self, u) > AUTHOR /\ get_access(tree[target], u) > READER
  /\ Unmoved(self)
  /\ Called(u, Saved(tree, Detached(self, target)), TRUE)

\* The objects that are copied with a folder: those that the user can see, in
\* folders that he can see.
CopiedWith(u, i) ==
  {j \in Under(tree, i) :
     \A k \in Line(tree)[j] \ Line(tree)[i] : Visible(k, u)}

\* Cloneable.copy_to: copies get new ids; which of them has which is left open.
CopyTo(u, target) ==
  LET self  == held[u]
      below == CopiedWith(u, self.id)
      ids   == NewNode .. NewNode + Cardinality(below)
      from  == CHOOSE f \in [ids -> below \cup {self.id}] :
                 /\ \A n \in ids : f[n] = self.id <=> n = NewNode
                 /\ \A j \in below : \E n \in ids : f[n] = j
      copyOf(j) == CHOOSE n \in ids : from[n] = j
      clone   == [Detached(self, target) EXCEPT !.id = NewNode, !.owner = u]
      copy(n) == [tree[from[n]] EXCEPT !.id = n, !.pid = copyOf(@), !.owner = u]
  IN /\ self # NoCopy /\ self.id # RootFolder
     /\ tree[target].folder /\ tree[target].level = 0
     /\ self.id \notin Line(tree)[target]
     /\ get_access(tree[target], u) > READER
     /\ HasRoom(1 + Cardinality(below))
     /\ Called(u, [i \in DOMAIN tree \cup ids |->
                     IF i \in DOMAIN tree THEN tree[i]
                     ELSE IF i = NewNode THEN clone ELSE copy(i)], TRUE)

Relevel(t, ids, n) ==
  [j \in DOMAIN t |-> IF j \in ids THEN [t[j] EXCEPT !.level = @ + n] ELSE t[j]]

\* Removable.recycle, of the object as it is stored.
RecycleIn(u) ==
  LET self_ == tree[held[u].id]
      role  == get_access(self_, u)
  IN /\ held[u] # NoCopy /\ self_.id # RootFolder
     /\ role > AUTHOR \/ (role = AUTHOR /\ self_.owner = u)
     /\ Called(u, Relevel(tree, Under(tree, self_.id) \cup {self_.id}, 1),
               FALSE)

\* Bound: no folder is restored into one below it, which only the write of an
\* outdated copy can have made visible. The code does not look, and neither
\* folder is in the tree any more.
StaysInTree(i, target) == i \notin Line(tree)[target]

\* DeletedItem._restore, for one of the objects that were recycled: into the
\* folder it was in, or into one that is given (restore_to), where it is visible
\* however often it was recycled.
RestoreIn(u, i, target) ==
  \E level \in {0, tree[i].level - 1} :
    /\ level = 0 \/ target = tree[i].pid
    /\ tree[i].level > 0 /\ tree[tree[i].pid].level < tree[i].level
    /\ tree[target].folder /\ tree[target].level = 0
    /\ get_access(tree[target], u) > READER /\ calls < MaxCalls
    /\ StaysInTree(i, target)
    /\ tree' = Saved(Relevel(tree, Under(tree, i), -1),
                   [Detached(tree[i], target) EXCEPT !.level = level])
    /\ calls' = calls + 1
    /\ UNCHANGED <<held, outdated>>

RolesNext ==
  \E u \in Users :
    \/ Refused(u)
    \/ \E i \in DOMAIN tree : Dispatched(u, i) \/ MoveTo(u, i) \/ CopyTo(u, i)
    \/ \E inherits \in BOOLEAN, acl \in Acls :
         /\ inherits => acl = RootAcl
         /\ \/ UpdateRoles(u, inherits, acl)
            \/ \E folder \in BOOLEAN : CreateIn(u, folder, inherits, acl)
    \/ RecycleIn(u)
    \/ \E i, target \in DOMAIN tree : RestoreIn(u, i, target)

RolesSpec == RolesInit /\ [][RolesNext]_rolesVars
-----------------------------------------------------------------------------
(* Properties.                                                             *)

\* An object that inherits its roles has those of its parent, whatever was
\* created, moved, copied, recycled or restored, unless a call wrote the roles
\* of an outdated copy.
InheritedRolesMatch ==
  ~outdated =>
    \A i \in DOMAIN tree :
      tree[i].inheritRoles => tree[i].security = tree[tree[i].pid].security

Caller == {u \in Users : held[u] # NoCopy /\ held'[u] = NoCopy}

\* Only a user who was coordinator of the object, or of one above it, changes
\* its roles.
RolesChangedByCoordinators ==
  [][~outdated' =>
       \A i \in DOMAIN tree :
         tree'[i].security # tree[i].security =>
           \E u \in Caller : \E j \in Line(tree)[i] :
             get_access(tree[j], u) = COORDINATOR]_rolesVars

\* An object that does not inherit keeps its roles while a call is made on
\* another one.
OwnRolesStay ==
  [][~outdated' =>
       \A i \in DOMAIN tree \ {held[u].id : u \in Caller} :
         ~tree[i].inheritRoles => /\ tree'[i].security = tree[i].security
                                  /\ ~tree'[i].inheritRoles]_rolesVars

\* Roles go down the tree, change by those who may change them, and stay where
\* inheritance ends.
RolesGoDown ==
  []InheritedRolesMatch /\ RolesChangedByCoordinators /\ OwnRolesStay
=============================================================================
