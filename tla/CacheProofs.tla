---------------------------- MODULE CacheProofs ----------------------------
(***************************************************************************)
(* Theorems about the two caches: the descriptor cache, for any number of  *)
(* paths, files, objects and descriptors, and, at the end, the cache of    *)
(* resources in memory, for any number of ticks and contents.              *)
(***************************************************************************)
EXTENDS FileDescriptorCache, ResourceCache, FiniteSetTheorems, TLAPS

\* Every use is counted, and an entry without uses does not exist.
Counted(p) ==
    /\ storage[p].use_count = Cardinality(Users(p)) + leaked[p]
    /\ storage[p].handle = NoFd <=> storage[p].use_count = 0

\* A cached handle is open on a file, and belongs to one path only: release
\* could otherwise take one path's uses from another's.
Owned(p) == storage[p].handle # NoFd =>
    /\ fdtable[storage[p].handle] \in Inodes
    /\ \A q \in Paths : storage[q].handle = storage[p].handle => q = p

\* An object has its path's handle, open on the file it was opened for.
Backed(f) == files[f].state # "none" =>
    /\ files[f].fd = storage[files[f].path].handle
    /\ files[f].inode = fdtable[files[f].fd]

CacheInv ==
    /\ TypeOK
    /\ \A p \in Paths : Counted(p) /\ Owned(p)
    /\ \A f \in Files : Backed(f)
    /\ NoDescriptorLost

\* The fields of an object under construction or live.
LEMMA ObjectType ==
    ASSUME TypeOK, NEW f \in Files, files[f].state # "none"
    PROVE  /\ files[f] \in FileObject
           /\ files[f].state \in {"aquired", "live"}
           /\ files[f].path \in Paths /\ files[f].fd \in Fds
           /\ files[f].inode \in Holders
<1>1. files[f] \in {NoFile} \cup FileObject BY DEF TypeOK
<1>2. files[f] # NoFile BY DEF NoFile
<1> QED BY <1>1, <1>2 DEF FileObject

\* The users of a path are finitely many.
LEMMA UsersFinite == ASSUME NEW p PROVE IsFiniteSet(Users(p))
<1>1. Users(p) \subseteq Files BY DEF Users
<1> QED BY <1>1, FS_Subset, ConstantsAssumption

\* An object that begins to use a path is one user more.
LEMMA UserJoins ==
    ASSUME NEW f \in Files, NEW p \in Paths,
           files[f].state = "none",
           files'[f].state # "none", files'[f].path = p,
           \A g \in Files : g # f => files'[g] = files[g]
    PROVE  /\ Cardinality(Users(p)') = Cardinality(Users(p)) + 1
           /\ \A q \in Paths : q # p => Users(q)' = Users(q)
<1>1. Users(p)' = Users(p) \cup {f} /\ f \notin Users(p) BY DEF Users
<1>2. \A q \in Paths : q # p => Users(q)' = Users(q) BY DEF Users
<1>3. Cardinality(Users(p) \cup {f}) = Cardinality(Users(p)) + 1
  BY <1>1, UsersFinite, FS_AddElement
<1> QED BY <1>1, <1>2, <1>3

\* An object that goes is one user less.
LEMMA UserLeaves ==
    ASSUME NEW f \in Files, NEW p \in Paths,
           files[f].state # "none", files[f].path = p,
           files'[f].state = "none",
           \A g \in Files : g # f => files'[g] = files[g]
    PROVE  /\ Cardinality(Users(p)') = Cardinality(Users(p)) - 1
           /\ \A q \in Paths : q # p => Users(q)' = Users(q)
<1>1. Users(p)' = Users(p) \ {f} /\ f \in Users(p) BY DEF Users
<1>2. \A q \in Paths : q # p => Users(q)' = Users(q) BY DEF Users
<1>3. Cardinality(Users(p) \ {f}) = Cardinality(Users(p)) - 1
  BY <1>1, UsersFinite, FS_RemoveElement
<1> QED BY <1>1, <1>2, <1>3

\* The number of users is a number, and none means no user.
LEMMA UsersCount ==
    ASSUME NEW p
    PROVE  /\ Cardinality(Users(p)) \in Nat
           /\ Cardinality(Users(p)) = 0 => Users(p) = {}
BY UsersFinite, FS_CardinalityType, FS_EmptySet

-----------------------------------------------------------------------------
LEMMA CacheInit == Init => CacheInv
<1> SUFFICES ASSUME Init PROVE CacheInv
  OBVIOUS
<1>1. TypeOK
  BY ConstantsAssumption DEF Init, TypeOK, Absent, Entry, NoFile, Holders, Fds, NoFd
<1>2. ASSUME NEW p \in Paths PROVE Counted(p) /\ Owned(p)
  <2>1. Users(p) = {} BY DEF Init, Users, NoFile
  <2> QED BY <2>1, FS_EmptySet DEF Init, Counted, Owned, Absent
<1>3. \A f \in Files : Backed(f) BY DEF Init, Backed, NoFile
<1>4. NoDescriptorLost
  BY ConstantsAssumption DEF Init, NoDescriptorLost
<1> QED BY <1>1, <1>2, <1>3, <1>4 DEF CacheInv

\* A hit is one more use of the same descriptor.
LEMMA CacheHit ==
    ASSUME CacheInv, NEW f \in Files, NEW p \in Paths, AquireCached(f, p)
    PROVE  CacheInv'
<1> TypeOK /\ Counted(p) /\ Owned(p) BY DEF CacheInv
<1> DEFINE h == storage[p].handle
<1>1. storage[p] \in Entry /\ storage[p] # Absent
  BY DEF TypeOK, AquireCached
<1>2. h \in Fds /\ fdtable[h] \in Inodes
  <2>1. h # NoFd
    BY <1>1 DEF Counted, Entry, Absent
  <2> QED BY <1>1, <2>1 DEF Owned, Entry
<1>3. /\ storage' = [storage EXCEPT ![p] = OneMore(storage[p])]
      /\ files' = [files EXCEPT ![f] = [state |-> "aquired", path |-> p,
                                        fd |-> h, inode |-> fdtable[h]]]
      /\ files[f].state = "none"
      /\ UNCHANGED <<fdtable, dir, len, leaked, replaced>>
  BY DEF AquireCached, Aquired, Wanted
<1> HIDE DEF h
<1>4. /\ OneMore(storage[p]) \in Entry
      /\ OneMore(storage[p]).handle = h
      /\ OneMore(storage[p]).use_count = storage[p].use_count + 1
  BY <1>1 DEF OneMore, Entry, h
<1>5. \A q \in Paths : storage'[q].handle = storage[q].handle
  BY <1>3, <1>4 DEF TypeOK, h
<1>6. TypeOK'
  <2>1. [state |-> "aquired", path |-> p, fd |-> h, inode |-> fdtable[h]]
            \in FileObject
    BY <1>2 DEF FileObject, Holders
  <2> QED BY <1>3, <1>4, <2>1 DEF TypeOK
<1>7. ASSUME NEW q \in Paths PROVE Counted(q)'
  <2>1. /\ Cardinality(Users(p)') = Cardinality(Users(p)) + 1
        /\ \A r \in Paths : r # p => Users(r)' = Users(r)
    BY <1>3, UserJoins DEF TypeOK
  <2>2. Counted(q) BY DEF CacheInv
  <2>3. Counted(p)'
    <3>1. storage'[p] = OneMore(storage[p]) /\ leaked'[p] = leaked[p]
      BY <1>3 DEF TypeOK
    <3>2. leaked[p] \in Nat /\ Cardinality(Users(p)) \in Nat /\ h # NoFd
      BY <1>2, UsersCount DEF TypeOK, Fds, NoFd
    <3> QED BY <1>4, <2>1, <3>1, <3>2 DEF Counted
  <2>4. CASE q # p
    BY <1>3, <2>1, <2>2, <2>4 DEF Counted, TypeOK
  <2> QED BY <2>3, <2>4
<1>8. ASSUME NEW q \in Paths PROVE Owned(q)'
  BY <1>3, <1>5 DEF CacheInv, Owned
<1>9. ASSUME NEW g \in Files PROVE Backed(g)'
  <2>1. CASE g = f BY <1>3, <1>5, <2>1 DEF Backed, TypeOK, h
  <2>2. CASE g # f
    BY <1>3, <1>5, <2>2, ObjectType DEF CacheInv, Backed, TypeOK
  <2> QED BY <2>1, <2>2
<1>10. NoDescriptorLost'
  BY <1>3, <1>5 DEF CacheInv, NoDescriptorLost
<1> QED BY <1>6, <1>7, <1>8, <1>9, <1>10 DEF CacheInv

\* A miss opens a descriptor that no path and no object had.
LEMMA CacheMiss ==
    ASSUME CacheInv, NEW f \in Files, NEW p \in Paths, NEW fd \in Fds,
           AquireOpen(f, p, fd)
    PROVE  CacheInv'
<1> TypeOK /\ Counted(p) BY DEF CacheInv
<1>1. /\ fdtable' = [fdtable EXCEPT ![fd] = dir[p]]
      /\ storage' = [storage EXCEPT ![p] = [use_count |-> 1, handle |-> fd]]
      /\ replaced' = [replaced EXCEPT ![p] = FALSE]
      /\ files' = [files EXCEPT ![f] = [state |-> "aquired", path |-> p,
                                        fd |-> fd, inode |-> fdtable'[fd]]]
      /\ UNCHANGED <<dir, len, leaked>>
      /\ storage[p] = Absent /\ fdtable[fd] = "free" /\ files[f].state = "none"
  BY DEF AquireOpen, Aquired, Wanted, LowestFree
<1>2. dir[p] \in Inodes /\ fdtable'[fd] = dir[p]
  BY <1>1 DEF AquireOpen, Wanted, TypeOK
<1>3. Cardinality(Users(p)) = 0 /\ leaked[p] = 0 /\ Users(p) = {}
  BY <1>1, UsersCount DEF Counted, Absent, TypeOK
<1>4. ASSUME NEW q \in Paths PROVE storage[q].handle # fd
  BY <1>1, <1>4, ConstantsAssumption DEF CacheInv, Owned, Fds, NoFd
<1>5. TypeOK'
  <2>1. [state |-> "aquired", path |-> p, fd |-> fd, inode |-> fdtable'[fd]]
            \in FileObject
    BY <1>2 DEF FileObject, Holders
  <2>2. [use_count |-> 1, handle |-> fd] \in Entry BY DEF Entry
  <2> QED BY <1>1, <1>2, <2>1, <2>2 DEF TypeOK, Holders
<1>6. ASSUME NEW q \in Paths PROVE Counted(q)'
  <2>1. /\ Cardinality(Users(p)') = Cardinality(Users(p)) + 1
        /\ \A r \in Paths : r # p => Users(r)' = Users(r)
    BY <1>1, UserJoins DEF TypeOK
  <2>2. Counted(q) BY DEF CacheInv
  <2>3. Counted(p)'
    <3>1. /\ storage'[p] = [use_count |-> 1, handle |-> fd]
          /\ leaked'[p] = 0 /\ fd # NoFd
      BY <1>1, <1>3 DEF TypeOK, Fds, NoFd
    <3> QED BY <1>3, <2>1, <3>1 DEF Counted
  <2>4. CASE q # p
    BY <1>1, <2>1, <2>2, <2>4 DEF Counted, TypeOK
  <2> QED BY <2>3, <2>4
<1>7. ASSUME NEW q \in Paths PROVE Owned(q)'
  <2>1. CASE q = p
    BY <1>1, <1>2, <1>4, <2>1 DEF Owned, TypeOK
  <2>2. CASE q # p
    BY <1>1, <1>4, <2>2 DEF CacheInv, Owned, TypeOK, Entry
  <2> QED BY <2>1, <2>2
<1>8. ASSUME NEW g \in Files PROVE Backed(g)'
  <2>1. CASE g = f BY <1>1, <1>2, <2>1 DEF Backed, TypeOK
  <2>2. CASE g # f
    <3> SUFFICES ASSUME files[g].state # "none" PROVE Backed(g)'
      BY <1>1, <2>2 DEF Backed, TypeOK
    <3>1. files[g].path \in Paths /\ files[g].path # p
      BY <1>3, ObjectType DEF Users
    <3>2. files[g].fd # fd BY <1>4, <3>1 DEF CacheInv, Backed
    <3>3. files[g].fd \in Fds BY ObjectType
    <3> QED BY <1>1, <2>2, <3>1, <3>2, <3>3 DEF CacheInv, Backed, TypeOK
  <2> QED BY <2>1, <2>2
<1>9. NoDescriptorLost'
  <2> SUFFICES ASSUME NEW g \in Fds, fdtable'[g] \in Inodes
               PROVE  \E q \in Paths : storage'[q].handle = g
    BY DEF NoDescriptorLost
  <2>1. CASE g = fd BY <1>1, <2>1 DEF TypeOK
  <2>2. CASE g # fd
    <3>1. PICK q \in Paths : storage[q].handle = g
      BY <1>1, <2>2 DEF CacheInv, NoDescriptorLost, TypeOK
    <3>2. q # p BY <1>1, <3>1 DEF Absent, Fds, NoFd
    <3> QED BY <1>1, <3>1, <3>2 DEF TypeOK
  <2> QED BY <2>1, <2>2
<1> QED BY <1>5, <1>6, <1>7, <1>8, <1>9 DEF CacheInv

\* A step that changes an object without changing what it uses.
LEMMA CacheKeeps ==
    ASSUME CacheInv, TypeOK', NEW f \in Files,
           files[f].state # "none", files'[f].state # "none",
           files'[f].path = files[f].path, files'[f].fd = files[f].fd,
           files'[f].inode = files[f].inode,
           \A g \in Files : g # f => files'[g] = files[g],
           UNCHANGED <<storage, fdtable, leaked>>
    PROVE  CacheInv'
<1>1. ASSUME NEW p \in Paths PROVE Users(p)' = Users(p)
  BY DEF Users
<1>2. \A p \in Paths : Counted(p)' /\ Owned(p)'
  BY <1>1 DEF CacheInv, Counted, Owned
<1>3. \A g \in Files : Backed(g)' BY DEF CacheInv, Backed
<1>4. NoDescriptorLost' BY DEF CacheInv, NoDescriptorLost
<1> QED BY <1>2, <1>3, <1>4 DEF CacheInv

\* A failed constructor's use goes from the object to the leaked ones.
LEMMA CacheLeak ==
    ASSUME CacheInv, NEW f \in Files, StatFails(f) PROVE CacheInv'
<1> TypeOK BY DEF CacheInv
<1>0. PICK p \in Paths : p = files[f].path
  BY ObjectType DEF StatFails
<1>1. /\ files' = [files EXCEPT ![f] = NoFile]
      /\ leaked' = [leaked EXCEPT ![p] = leaked[p] + 1]
      /\ files[f].state = "aquired"
      /\ UNCHANGED <<storage, fdtable, dir, len, replaced>>
  BY <1>0 DEF StatFails
<1>3. TypeOK' BY <1>1, <1>0 DEF TypeOK
<1>4. ASSUME NEW q \in Paths PROVE Counted(q)'
  <2>1. /\ Cardinality(Users(p)') = Cardinality(Users(p)) - 1
        /\ \A r \in Paths : r # p => Users(r)' = Users(r)
    BY <1>1, <1>0, UserLeaves DEF TypeOK, NoFile
  <2>2. Counted(q) /\ Counted(p) BY <1>0 DEF CacheInv
  <2>3. Counted(p)'
    <3>1. leaked'[p] = leaked[p] + 1 /\ leaked[p] \in Nat
      BY <1>1, <1>0 DEF TypeOK
    <3>2. Cardinality(Users(p)) \in Nat BY UsersCount
    <3> QED BY <1>1, <2>1, <2>2, <3>1, <3>2 DEF Counted
  <2>4. CASE q # p BY <1>1, <1>0, <2>1, <2>2, <2>4 DEF Counted, TypeOK
  <2> QED BY <2>3, <2>4
<1>5. \A q \in Paths : Owned(q)' BY <1>1 DEF CacheInv, Owned
<1>6. ASSUME NEW g \in Files PROVE Backed(g)'
  BY <1>1 DEF CacheInv, Backed, TypeOK, NoFile
<1>7. NoDescriptorLost' BY <1>1 DEF CacheInv, NoDescriptorLost
<1> QED BY <1>3, <1>4, <1>5, <1>6, <1>7 DEF CacheInv

\* The end of an object gives one use back; the last one closes.
LEMMA CacheDestroy ==
    ASSUME CacheInv, NEW f \in Files, files[f].state # "none", Destroy(f),
           UNCHANGED <<dir, len, leaked, replaced>>
    PROVE  CacheInv'
<1> TypeOK BY DEF CacheInv
<1>0. PICK p \in Paths : p = files[f].path
  BY ObjectType
<1>1. PICK h \in Fds : h = files[f].fd
  BY ObjectType
<1>2. /\ storage[p].handle = h /\ h # NoFd
      /\ Counted(p) /\ Owned(p) /\ storage[p] \in Entry
  BY <1>0, <1>1 DEF CacheInv, Backed, Fds, NoFd, TypeOK
<1>3. files' = [files EXCEPT ![f] = NoFile] BY DEF Destroy
<1>4. IF storage[p].use_count = 1
      THEN /\ storage' = [storage EXCEPT ![p] = Absent]
           /\ fdtable' = [fdtable EXCEPT ![h] = "free"]
      ELSE /\ storage' = [storage EXCEPT ![p] = OneLess(storage[p])]
           /\ UNCHANGED fdtable
  <2>1. PICK q \in Paths :
            /\ storage[q].handle = h
            /\ IF LastUse(storage[q])
               THEN /\ storage' = [storage EXCEPT ![q] = Erased(storage[q])]
                    /\ fdtable' = Closed(h)
               ELSE /\ storage' = [storage EXCEPT ![q] = OneLess(storage[q])]
                    /\ UNCHANGED fdtable
    BY <1>1, <1>2 DEF Destroy, Release
  <2>2. q = p BY <1>2, <2>1 DEF Owned
  <2> QED BY <2>1, <2>2 DEF LastUse, Erased, Closed
<1>5. /\ Cardinality(Users(p)') = Cardinality(Users(p)) - 1
      /\ \A r \in Paths : r # p => Users(r)' = Users(r)
  BY <1>0, <1>3, UserLeaves DEF TypeOK, NoFile
<1>6. /\ Cardinality(Users(p)) \in Nat \ {0} /\ leaked[p] \in Nat
      /\ leaked'[p] = leaked[p]
  <2>1. f \in Users(p) BY <1>0 DEF Users
  <2> QED BY <2>1, UsersCount DEF TypeOK
<1>7. \A q \in Paths : q # p => storage'[q] = storage[q]
  BY <1>4 DEF TypeOK
<1>8. CASE storage[p].use_count = 1
  <2>1. /\ storage'[p] = Absent
        /\ fdtable' = [fdtable EXCEPT ![h] = "free"]
    BY <1>4, <1>8 DEF TypeOK
  <2>2. Users(p)' = {}
    <3>1. Cardinality(Users(p)') = 0 BY <1>2, <1>5, <1>6, <1>8 DEF Counted
    <3>2. IsFiniteSet(Users(p)')
      <4>1. Users(p)' \subseteq Files BY DEF Users
      <4> QED BY <4>1, FS_Subset, ConstantsAssumption
    <3> QED BY <3>1, <3>2, FS_EmptySet
  <2>3. TypeOK'
    <3>1. Absent \in Entry BY DEF Absent, Entry
    <3>2. storage' = [storage EXCEPT ![p] = Absent] BY <1>4, <1>8
    <3> QED BY <1>3, <2>1, <3>1, <3>2 DEF TypeOK, Holders
  <2>4. ASSUME NEW q \in Paths PROVE Counted(q)'
    <3>1. Counted(p)'
      BY <1>2, <1>5, <1>6, <1>8, <2>1 DEF Counted, Absent
    <3>2. CASE q # p
      BY <1>5, <1>7, <3>2 DEF CacheInv, Counted, TypeOK
    <3> QED BY <3>1, <3>2
  <2>5. ASSUME NEW q \in Paths, q # p, storage[q].handle # NoFd
        PROVE  storage[q].handle # h /\ storage[q].handle \in Fds
    BY <1>2, <2>5 DEF Owned, TypeOK, Entry
  <2>6. ASSUME NEW q \in Paths PROVE Owned(q)'
    <3>1. CASE q = p BY <2>1, <3>1 DEF Owned, Absent
    <3>2. CASE q # p
      BY <1>7, <2>1, <2>5, <3>2 DEF CacheInv, Owned, Absent, TypeOK
    <3> QED BY <3>1, <3>2
  <2>7. ASSUME NEW g \in Files PROVE Backed(g)'
    <3> SUFFICES ASSUME files'[g].state # "none" PROVE Backed(g)'
      BY DEF Backed
    <3>1. g # f /\ files'[g] = files[g] BY <1>3 DEF TypeOK, NoFile
    <3>2. PICK q \in Paths : q = files[g].path BY <3>1, ObjectType
    <3>3. q # p BY <2>2, <3>1, <3>2 DEF Users
    <3>4. files[g].fd = storage[q].handle /\ files[g].inode = fdtable[files[g].fd]
          /\ files[g].fd \in Fds
      BY <3>1, <3>2, ObjectType DEF CacheInv, Backed
    <3>5. files[g].fd # h BY <2>5, <3>3, <3>4 DEF Fds, NoFd
    <3> QED BY <1>7, <2>1, <3>1, <3>2, <3>3, <3>4, <3>5 DEF Backed, TypeOK
  <2>8. NoDescriptorLost'
    <3> SUFFICES ASSUME NEW g \in Fds, fdtable'[g] \in Inodes
                 PROVE  \E q \in Paths : storage'[q].handle = g
      BY DEF NoDescriptorLost
    <3>1. g # h /\ fdtable[g] \in Inodes
      BY <2>1, ConstantsAssumption DEF TypeOK
    <3>2. PICK q \in Paths : storage[q].handle = g
      BY <3>1 DEF CacheInv, NoDescriptorLost
    <3> QED BY <1>2, <1>7, <3>1, <3>2
  <2> QED BY <2>3, <2>4, <2>6, <2>7, <2>8 DEF CacheInv
<1>9. CASE storage[p].use_count # 1
  <2>1. /\ OneLess(storage[p]) \in Entry
        /\ OneLess(storage[p]).handle = h
        /\ OneLess(storage[p]).use_count = storage[p].use_count - 1
        /\ storage[p].use_count > 1
    BY <1>2, <1>6, <1>9 DEF OneLess, Entry, Counted
  <2>2. storage'[p] = OneLess(storage[p]) /\ UNCHANGED fdtable
    BY <1>4, <1>9 DEF TypeOK
  <2>3. TypeOK'
    <3>1. storage' = [storage EXCEPT ![p] = OneLess(storage[p])]
      BY <1>4, <1>9
    <3> QED BY <1>3, <2>1, <2>2, <3>1 DEF TypeOK
  <2>4. \A q \in Paths : storage'[q].handle = storage[q].handle
    BY <1>2, <1>7, <2>1, <2>2
  <2>5. ASSUME NEW q \in Paths PROVE Counted(q)'
    <3>1. Counted(p)'
      BY <1>2, <1>5, <1>6, <2>1, <2>2 DEF Counted
    <3>2. CASE q # p
      BY <1>5, <1>7, <3>2 DEF CacheInv, Counted, TypeOK
    <3> QED BY <3>1, <3>2
  <2>6. \A q \in Paths : Owned(q)' BY <2>2, <2>4 DEF CacheInv, Owned
  <2>7. ASSUME NEW g \in Files PROVE Backed(g)'
    <3> SUFFICES ASSUME files'[g].state # "none" PROVE Backed(g)'
      BY DEF Backed
    <3>1. g # f /\ files'[g] = files[g] BY <1>3 DEF TypeOK, NoFile
    <3>2. files[g].path \in Paths BY <3>1, ObjectType
    <3> QED BY <2>2, <2>4, <3>1, <3>2 DEF CacheInv, Backed
  <2>8. NoDescriptorLost' BY <2>2, <2>4 DEF CacheInv, NoDescriptorLost
  <2> QED BY <2>3, <2>5, <2>6, <2>7, <2>8 DEF CacheInv
<1> QED BY <1>8, <1>9

\* The file system and the rest of the process own no cached descriptor.
LEMMA CacheEnvironment == ASSUME CacheInv, Environment PROVE CacheInv'
<1> TypeOK BY DEF CacheInv
<1>1. ASSUME UNCHANGED <<storage, files, fdtable, leaked>>, TypeOK' PROVE CacheInv'
  <2>1. \A p : Users(p)' = Users(p) BY <1>1 DEF Users
  <2> QED BY <1>1, <2>1 DEF CacheInv, Counted, Owned, Backed, NoDescriptorLost
<1>2. ASSUME NEW p \in Paths, Unlink(p) PROVE CacheInv'
  <2>1. TypeOK' BY <1>2 DEF Unlink, TypeOK
  <2> QED BY <1>1, <1>2, <2>1 DEF Unlink
<1>3. ASSUME NEW p \in Paths, NEW inode \in Inodes, Replace(p, inode)
      PROVE  CacheInv'
  <2>1. TypeOK' BY <1>3 DEF Replace, TypeOK
  <2> QED BY <1>1, <1>3, <2>1 DEF Replace
<1>4. ASSUME NEW inode \in Inodes, NEW n \in Lengths, Resize(inode, n)
      PROVE  CacheInv'
  <2>1. TypeOK' BY <1>4, ConstantsAssumption DEF Resize, TypeOK
  <2> QED BY <1>1, <1>4, <2>1 DEF Resize
<1>5. ASSUME NEW fd \in Fds, NEW x \in {"free", "other"},
             fdtable[fd] \in {"free", "other"},
             fdtable' = [fdtable EXCEPT ![fd] = x],
             UNCHANGED <<storage, files, dir, len, leaked, replaced>>
      PROVE  CacheInv'
  <2>1. TypeOK' BY <1>5 DEF TypeOK, Holders
  <2>2. fdtable[fd] \notin Inodes /\ x \notin Inodes
    BY <1>5, ConstantsAssumption
  <2>3. \A p : Users(p)' = Users(p) BY <1>5 DEF Users
  <2>4. ASSUME NEW p \in Paths PROVE Counted(p)' /\ Owned(p)'
    <3>1. Counted(p)' BY <1>5, <2>3 DEF CacheInv, Counted
    <3>2. storage[p].handle \in Fds \cup {NoFd} BY DEF TypeOK, Entry
    <3>3. Owned(p)' BY <1>5, <2>2, <3>2 DEF CacheInv, Owned, TypeOK
    <3> QED BY <3>1, <3>3
  <2>5. ASSUME NEW g \in Files PROVE Backed(g)'
    <3> SUFFICES ASSUME files[g].state # "none" PROVE Backed(g)'
      BY <1>5 DEF Backed
    <3>1. files[g].path \in Paths /\ files[g].fd \in Fds BY ObjectType
    <3>2. fdtable[files[g].fd] \in Inodes
      BY <3>1 DEF CacheInv, Backed, Owned, Fds, NoFd
    <3> QED BY <1>5, <2>2, <3>1, <3>2 DEF CacheInv, Backed, TypeOK
  <2>6. NoDescriptorLost'
    BY <1>5, <2>2 DEF CacheInv, NoDescriptorLost, TypeOK
  <2> QED BY <2>1, <2>4, <2>5, <2>6 DEF CacheInv
<1>6. ASSUME NEW fd \in Fds, OpenOther(fd) PROVE CacheInv'
  BY <1>5, <1>6 DEF OpenOther, LowestFree
<1>7. ASSUME NEW fd \in Fds, CloseOther(fd) PROVE CacheInv'
  BY <1>5, <1>7 DEF CloseOther
<1> QED BY <1>2, <1>3, <1>4, <1>6, <1>7 DEF Environment

\* The size is read once the descriptor is held.
LEMMA CacheStat == ASSUME CacheInv, NEW f \in Files, Stat(f) PROVE CacheInv'
<1> TypeOK BY DEF CacheInv
<1>1. PICK of \in FileObject : of = files[f] /\ of.state = "aquired"
  BY ObjectType DEF Stat
<1>2. of.path \in Paths /\ of.fd \in Fds /\ of.inode \in Holders
  BY <1>1, ObjectType
<1>3. PICK inode \in Inodes : inode = dir[of.path]
  BY <1>1, <1>2 DEF Stat, TypeOK
<1> DEFINE new == [state |-> "live", path |-> of.path, fd |-> of.fd,
                   inode |-> of.inode, named |-> inode, size |-> len[inode],
                   offset |-> 0]
<1>4. files' = [files EXCEPT ![f] = new] BY <1>1, <1>3 DEF Stat
<1>5. new \in FileObject
  BY <1>2, <1>3, ConstantsAssumption DEF FileObject, TypeOK
<1>6. UNCHANGED <<storage, fdtable, dir, len, leaked, replaced>> BY DEF Stat
<1>7. TypeOK' BY <1>4, <1>5, <1>6 DEF TypeOK
<1>8. files'[f] = new /\ \A g \in Files : g # f => files'[g] = files[g]
  BY <1>4 DEF TypeOK
<1> QED BY <1>1, <1>6, <1>7, <1>8, CacheKeeps

\* Sending a part moves the object's own offset.
LEMMA CacheSendPart ==
    ASSUME CacheInv, NEW f \in Files, NEW sent \in 1..MaxLen,
           SendPart(f, sent)
    PROVE  CacheInv'
<1> TypeOK BY DEF CacheInv
<1>1. PICK of \in FileObject : of = files[f] /\ of.state = "live"
  BY ObjectType DEF SendPart, Sending
<1>2. of \in [state: {"live"}, path: Paths, fd: Fds, inode: Holders,
              named: Inodes, size: 0..MaxLen, offset: 0..MaxLen]
  BY <1>1 DEF FileObject
<1>3. of.offset + sent \in 0..MaxLen
  BY <1>1, <1>2, ConstantsAssumption DEF SendPart, Sending, SizeLeft
<1> DEFINE new == [of EXCEPT !.offset = of.offset + sent]
<1>4. files' = [files EXCEPT ![f] = new] BY <1>1 DEF SendPart
<1>5. new \in FileObject BY <1>2, <1>3 DEF FileObject
<1>6. UNCHANGED <<storage, fdtable, dir, len, leaked, replaced>>
  BY DEF SendPart, Sending
<1>7. TypeOK' BY <1>4, <1>5, <1>6 DEF TypeOK
<1>8. files'[f] = new /\ \A g \in Files : g # f => files'[g] = files[g]
  BY <1>4 DEF TypeOK
<1>9. /\ new.state = of.state /\ new.path = of.path /\ new.fd = of.fd
      /\ new.inode = of.inode
  BY <1>2
<1> HIDE DEF new
<1> QED BY <1>1, <1>6, <1>7, <1>8, <1>9, CacheKeeps

LEMMA CacheStep == CacheInv /\ [Next]_vars => CacheInv'
<1> SUFFICES ASSUME CacheInv, [Next]_vars PROVE CacheInv'
  OBVIOUS
<1>1. CASE UNCHANGED vars
  <2>1. \A p : Users(p)' = Users(p) BY <1>1 DEF vars, Users
  <2> QED BY <1>1, <2>1 DEF vars, CacheInv, TypeOK, Counted, Owned, Backed,
                           NoDescriptorLost
<1>2. ASSUME NEW f \in Files, Construct(f) PROVE CacheInv'
  BY <1>2, CacheHit, CacheMiss, CacheStat, CacheLeak DEF Construct
<1>3. ASSUME NEW f \in Files, Abandon(f) PROVE CacheInv'
  BY <1>3, CacheDestroy DEF Abandon
<1>4. ASSUME NEW f \in Files, Send(f) PROVE CacheInv'
  BY <1>4, CacheSendPart, CacheDestroy DEF Send, SendLast, Sending
<1> QED BY <1>1, <1>2, <1>3, <1>4, CacheEnvironment DEF Next

\* The invariant of the cache.
THEOREM CacheInvariant == Spec => []CacheInv
<1> QED BY CacheInit, CacheStep, PTL DEF Spec

\* A use count is the number of objects that use the descriptor and of failed
\* constructors that never gave it back.
THEOREM UseCountCorrect == Spec => []UseCountExact
<1>1. CacheInv => UseCountExact BY DEF CacheInv, UseCountExact, Counted
<1> QED BY <1>1, CacheInvariant, PTL

\* The descriptor an object sends from stays open on the file it was opened
\* for, whatever else opens and closes descriptors.
THEOREM HandleCorrect == Spec => []HandleStaysOpen
<1>1. ASSUME CacheInv PROVE HandleStaysOpen
  <2> SUFFICES ASSUME NEW f \in Files, files[f].state # "none"
               PROVE  /\ files[f].inode \in Inodes
                      /\ fdtable[files[f].fd] = files[f].inode
    BY DEF HandleStaysOpen
  <2>1. files[f].path \in Paths /\ files[f].fd \in Fds
    BY <1>1, ObjectType DEF CacheInv
  <2> QED BY <1>1, <2>1 DEF CacheInv, Backed, Owned, Fds, NoFd
<1> QED BY <1>1, CacheInvariant, PTL

\* No descriptor is lost: release closes what it erases.
THEOREM NoDescriptorLostCorrect == Spec => []NoDescriptorLost
<1>1. CacheInv => NoDescriptorLost BY DEF CacheInv
<1> QED BY <1>1, CacheInvariant, PTL

-----------------------------------------------------------------------------
\* A cached descriptor is open on the file its name leads to, and the size of
\* an object is of the file it sends, while the name is not given away.
Current(p) == storage[p].handle # NoFd =>
    fdtable[storage[p].handle] = dir[p] \/ replaced[p]
Sized(f) == files[f].state = "live" =>
    files[f].named = files[f].inode \/ replaced[files[f].path]

SizeInv == CacheInv /\ (\A p \in Paths : Current(p)) /\ (\A f \in Files : Sized(f))

LEMMA SizeInit == Init => SizeInv
BY CacheInit DEF Init, SizeInv, Current, Sized, Absent, NoFile

\* What CacheInv says of handles, in the terms the steps need.
LEMMA Handles ==
    ASSUME CacheInv
    PROVE  /\ \A p \in Paths : storage[p] \in Entry
           /\ \A p \in Paths : storage[p].handle # NoFd =>
                  storage[p].handle \in Fds /\ fdtable[storage[p].handle] \in Inodes
           /\ \A f \in Files : files[f].state # "none" =>
                  /\ files[f].path \in Paths /\ files[f].fd = storage[files[f].path].handle
                  /\ files[f].fd # NoFd /\ files[f].inode = fdtable[files[f].fd]
<1> TypeOK BY DEF CacheInv
<1>1. \A p \in Paths : storage[p] \in Entry BY DEF TypeOK
<1>2. ASSUME NEW p \in Paths, storage[p].handle # NoFd
      PROVE  storage[p].handle \in Fds /\ fdtable[storage[p].handle] \in Inodes
  BY <1>1, <1>2 DEF Entry, CacheInv, Owned
<1>3. ASSUME NEW f \in Files, files[f].state # "none"
      PROVE  /\ files[f].path \in Paths /\ files[f].fd = storage[files[f].path].handle
             /\ files[f].fd # NoFd /\ files[f].inode = fdtable[files[f].fd]
  BY <1>3, ObjectType DEF CacheInv, Backed, Fds, NoFd
<1> QED BY <1>1, <1>2, <1>3

\* A name is given away, a file grows or shrinks, other descriptors come and go.
LEMMA SizeEnvironment ==
    ASSUME SizeInv, Environment
    PROVE  (\A p \in Paths : Current(p)') /\ (\A f \in Files : Sized(f)')
<1> CacheInv /\ TypeOK BY DEF SizeInv, CacheInv
<1>1. ASSUME NEW p \in Paths, UNCHANGED <<storage, files, fdtable>>,
             replaced' = [replaced EXCEPT ![p] = TRUE],
             \A q \in Paths : q # p => dir'[q] = dir[q]
      PROVE  (\A q \in Paths : Current(q)') /\ (\A f \in Files : Sized(f)')
  <2>1. replaced'[p] /\ \A q \in Paths : q # p => replaced'[q] = replaced[q]
    BY <1>1 DEF TypeOK
  <2>2. \A q \in Paths : Current(q)' BY <1>1, <2>1 DEF SizeInv, Current
  <2>3. \A f \in Files : Sized(f)'
    BY <1>1, <2>1, Handles DEF SizeInv, Sized
  <2> QED BY <2>2, <2>3
<1>2. ASSUME NEW p \in Paths, Unlink(p)
      PROVE  (\A q \in Paths : Current(q)') /\ (\A f \in Files : Sized(f)')
  BY <1>1, <1>2 DEF Unlink, TypeOK
<1>3. ASSUME NEW p \in Paths, NEW inode \in Inodes, Replace(p, inode)
      PROVE (\A q \in Paths : Current(q)') /\ (\A f \in Files : Sized(f)')
  BY <1>1, <1>3 DEF Replace, TypeOK
<1>4. ASSUME NEW fd \in Fds, fdtable[fd] \in {"free", "other"},
             NEW x, fdtable' = [fdtable EXCEPT ![fd] = x],
             UNCHANGED <<storage, files, dir, replaced>>
      PROVE (\A q \in Paths : Current(q)') /\ (\A f \in Files : Sized(f)')
  <2>1. fdtable[fd] \notin Inodes BY <1>4, ConstantsAssumption
  <2>2. \A q \in Paths : storage[q].handle # NoFd =>
            fdtable'[storage[q].handle] = fdtable[storage[q].handle]
    BY <1>4, <2>1, Handles DEF TypeOK
  <2> QED BY <1>4, <2>2 DEF SizeInv, Current, Sized
<1>5. ASSUME NEW inode \in Inodes, NEW n \in Lengths, Resize(inode, n)
      PROVE (\A q \in Paths : Current(q)') /\ (\A f \in Files : Sized(f)')
  BY <1>5 DEF Resize, SizeInv, Current, Sized
<1>6. ASSUME NEW fd \in Fds, OpenOther(fd) \/ CloseOther(fd)
      PROVE (\A q \in Paths : Current(q)') /\ (\A f \in Files : Sized(f)')
  BY <1>4, <1>6 DEF OpenOther, CloseOther, LowestFree
<1> QED BY <1>2, <1>3, <1>5, <1>6 DEF Environment

\* An object that uses a name which is cached.
LEMMA SizeHit ==
    ASSUME SizeInv, NEW f \in Files, NEW p \in Paths, AquireCached(f, p)
    PROVE  (\A q \in Paths : Current(q)') /\ (\A g \in Files : Sized(g)')
<1> CacheInv /\ TypeOK BY DEF SizeInv, CacheInv
<1>1. /\ files'[f].state = "aquired"
      /\ \A g \in Files : g # f => files'[g] = files[g]
      /\ UNCHANGED <<fdtable, dir, replaced>>
  BY DEF AquireCached, Aquired, TypeOK
<1>2. \A q \in Paths : storage'[q].handle = storage[q].handle
  BY Handles DEF AquireCached, OneMore, TypeOK, Entry
<1> QED BY <1>1, <1>2 DEF SizeInv, Current, Sized

\* An object that opens the file: nobody used the name.
LEMMA SizeMiss ==
    ASSUME SizeInv, NEW f \in Files, NEW p \in Paths, NEW fd \in Fds, AquireOpen(f, p, fd)
    PROVE  (\A q \in Paths : Current(q)') /\ (\A g \in Files : Sized(g)')
<1> CacheInv /\ TypeOK BY DEF SizeInv, CacheInv
<1>1. /\ files'[f].state = "aquired"
      /\ \A g \in Files : g # f => files'[g] = files[g]
      /\ fdtable' = [fdtable EXCEPT ![fd] = dir[p]] /\ fdtable[fd] = "free"
      /\ storage' = [storage EXCEPT ![p] = [use_count |-> 1, handle |-> fd]]
      /\ replaced' = [replaced EXCEPT ![p] = FALSE]
      /\ storage[p].handle = NoFd /\ UNCHANGED dir
  BY DEF AquireOpen, Aquired, TypeOK, LowestFree, Absent
<1>2. Current(p)' BY <1>1 DEF Current, TypeOK
<1>3. ASSUME NEW q \in Paths, q # p PROVE Current(q)'
  <2>1. storage'[q] = storage[q] /\ replaced'[q] = replaced[q] BY <1>1, <1>3 DEF TypeOK
  <2>2. storage[q].handle # NoFd => fdtable'[storage[q].handle] = fdtable[storage[q].handle]
    BY <1>1, Handles, ConstantsAssumption DEF TypeOK
  <2> QED BY <1>1, <2>1, <2>2 DEF SizeInv, Current
<1>4. ASSUME NEW g \in Files PROVE Sized(g)'
  <2> SUFFICES ASSUME g # f, files[g].state = "live" PROVE Sized(g)'
    BY <1>1 DEF Sized
  <2>1. files[g].path \in Paths /\ files[g].path # p BY <1>1, Handles
  <2>2. replaced'[files[g].path] = replaced[files[g].path] BY <1>1, <2>1 DEF TypeOK
  <2> QED BY <1>1, <2>2 DEF SizeInv, Sized
<1> QED BY <1>2, <1>3, <1>4

\* An object that goes, and with it perhaps the entry.
LEMMA SizeDestroy ==
    ASSUME SizeInv, NEW f \in Files, files[f].state # "none", Destroy(f),
           UNCHANGED <<dir, replaced>>
    PROVE  (\A q \in Paths : Current(q)') /\ (\A g \in Files : Sized(g)')
<1> CacheInv /\ TypeOK BY DEF SizeInv, CacheInv
<1> DEFINE h == files[f].fd
<1>1. /\ files'[f].state = "none" /\ \A g \in Files : g # f => files'[g] = files[g]
  BY DEF Destroy, TypeOK, NoFile
<1>2. PICK p \in Paths :
          /\ storage[p].handle = h
          /\ \/ /\ storage' = [storage EXCEPT ![p] = Absent]
                /\ fdtable' = [fdtable EXCEPT ![h] = "free"]
             \/ /\ storage' = [storage EXCEPT ![p] = OneLess(storage[p])]
                /\ UNCHANGED fdtable
  <2>1. \E p \in Paths : storage[p].handle = h BY Handles
  <2> QED BY <2>1 DEF Destroy, Release, Erased, Closed
<1>3. ASSUME NEW q \in Paths PROVE Current(q)'
  <2>1. CASE q = p
    BY <1>2, <2>1, Handles DEF SizeInv, Current, Absent, OneLess, TypeOK, Entry
  <2>2. CASE q # p
    <3>1. storage'[q] = storage[q] BY <1>2, <2>2 DEF TypeOK
    <3>2. storage[q].handle # NoFd => storage[q].handle # h
      BY <1>2, <2>2 DEF CacheInv, Owned
    <3>3. storage[q].handle # NoFd => fdtable'[storage[q].handle] = fdtable[storage[q].handle]
      BY <1>2, <3>2, Handles DEF TypeOK
    <3> QED BY <3>1, <3>3 DEF SizeInv, Current
  <2> QED BY <2>1, <2>2
<1> QED BY <1>1, <1>3 DEF SizeInv, Sized

LEMMA SizeStep == SizeInv /\ [Next]_vars => SizeInv'
<1> SUFFICES ASSUME SizeInv, [Next]_vars PROVE SizeInv' OBVIOUS
<1>1. CacheInv' BY CacheStep DEF SizeInv
<1> CacheInv /\ TypeOK BY DEF SizeInv, CacheInv
<1> DEFINE Goal == (\A q \in Paths : Current(q)') /\ (\A g \in Files : Sized(g)')
<1>2. CASE UNCHANGED vars BY <1>1, <1>2 DEF vars, SizeInv, Current, Sized
<1>3. ASSUME NEW f \in Files, Stat(f) PROVE Goal
  <2>1. /\ files'[f].named = dir[files[f].path] /\ files'[f].inode = files[f].inode
        /\ files'[f].path = files[f].path /\ files[f].state # "none"
        /\ \A g \in Files : g # f => files'[g] = files[g]
        /\ UNCHANGED <<storage, fdtable, dir, replaced>>
    BY <1>3 DEF Stat, TypeOK
  <2>2. Sized(f)' BY <2>1, Handles DEF SizeInv, Current, Sized
  <2> QED BY <2>1, <2>2 DEF SizeInv, Current, Sized
<1>4. ASSUME NEW f \in Files, StatFails(f) PROVE Goal
  <2>1. /\ files'[f].state = "none" /\ \A g \in Files : g # f => files'[g] = files[g]
        /\ UNCHANGED <<storage, fdtable, dir, replaced>>
    BY <1>4 DEF StatFails, TypeOK, NoFile
  <2> QED BY <2>1 DEF SizeInv, Current, Sized
<1>5. ASSUME NEW f \in Files, NEW sent \in 1..MaxLen, SendPart(f, sent) PROVE Goal
  <2>1. PICK of \in FileObject : of = files[f] /\ of.state = "live"
    BY <1>5, ObjectType DEF SendPart, Sending
  <2>2. of \in [state: {"live"}, path: Paths, fd: Fds, inode: Holders,
                named: Inodes, size: 0..MaxLen, offset: 0..MaxLen]
    BY <2>1 DEF FileObject
  <2>3. /\ files' = [files EXCEPT ![f] = [of EXCEPT !.offset = of.offset + sent]]
        /\ UNCHANGED <<storage, fdtable, dir, replaced>>
    BY <1>5, <2>1 DEF SendPart, Sending
  <2>4. /\ files'[f].named = of.named /\ files'[f].inode = of.inode
        /\ files'[f].path = of.path
        /\ \A g \in Files : g # f => files'[g] = files[g]
    BY <2>2, <2>3 DEF TypeOK
  <2> QED BY <2>1, <2>3, <2>4 DEF SizeInv, Current, Sized
<1>6. ASSUME NEW f \in Files, Abandon(f) PROVE Goal
  BY <1>6, SizeDestroy DEF Abandon
<1>7. ASSUME NEW f \in Files, NEW sent \in 1..MaxLen, SendLast(f, sent) PROVE Goal
  BY <1>7, SizeDestroy DEF SendLast, Sending
<1>8. ASSUME Next PROVE Goal
  BY <1>3, <1>4, <1>5, <1>6, <1>7, <1>8, SizeHit, SizeMiss, SizeEnvironment
     DEF Next, Construct, Send
<1> QED BY <1>1, <1>2, <1>8 DEF SizeInv

\* A file is sent with its own size, unless its name was given to another file
\* while the descriptor was cached: the constructor takes the descriptor from
\* the cache and the size from the name.
THEOREM SizeCorrect == Spec => []SizeIsOfHandle
<1>1. SizeInv => SizeIsOfHandle BY DEF SizeInv, SizeIsOfHandle, Sized
<1> QED BY <1>1, SizeInit, SizeStep, PTL DEF Spec

-----------------------------------------------------------------------------
\* The memory cache.

\* Contents are stamped in the order in which they are written.
StampsGrow ==
    /\ \A v \in 0..written : stamped[v] <= clock
    /\ ~backdated => \A v, w \in 0..written : v <= w => stamped[v] <= stamped[w]

\* The file holds what was written last, and the call knows it did.
FileIsLast == file # NoFileThere =>
    /\ file.version = written /\ written > 0
    /\ file.mtime = stamped[written]
    /\ pc # "idle" => written \in current

\* The time a resource under construction has read is not newer than what the
\* file holds or will hold.
SeenIsOld == pc = "content" =>
    /\ seen <= clock
    /\ ~backdated /\ file # NoFileThere => seen <= file.mtime

EntryWritten == entry # NoEntry => entry.version <= written

MemoryInv ==
    /\ MemoryTypeOK /\ StampsGrow /\ FileIsLast /\ SeenIsOld /\ EntryWritten
    /\ NeverStampedTooLate

\* An entry is not the absence of one, nor a file its absence.
LEMMA Records ==
    /\ NoEntry \notin Resource /\ NoFileThere \notin File
    /\ \A f \in File : f.version \in Versions /\ f.mtime \in Times /\ f \in Resource
    /\ \A r \in Resource : r.version \in Versions /\ r.mtime \in {0} \cup Times
BY DEF NoEntry, NoFileThere, File, Resource, Versions, Times

LEMMA Numbers ==
    Versions \subseteq Nat /\ Times \subseteq Nat \ {0} /\ 0 \in Versions
BY BoundsAssumption DEF Versions, Times

LEMMA MemoryBegins == ASSUME MemoryInit PROVE MemoryInv
<1>1. 0 \in Versions /\ 1 \in Times
  BY BoundsAssumption DEF Versions, Times
<1>2. MemoryTypeOK BY <1>1 DEF MemoryInit, MemoryTypeOK
<1>3. StampsGrow
  <2>1. 0..written = {0} BY DEF MemoryInit
  <2> QED BY <1>1, <2>1 DEF MemoryInit, StampsGrow
<1> QED BY <1>2, <1>3
        DEF MemoryInit, MemoryInv, FileIsLast, SeenIsOld, EntryWritten,
            NeverStampedTooLate

\* Time passes, and files are written and removed, between any two questions.
LEMMA MemoryKernel ==
    ASSUME MemoryInv,
           Tick \/ Remove \/ \E t \in Times : Write(t)
    PROVE  MemoryInv'
<1> USE Numbers DEF MemoryInv
<1>1. CASE Tick
  <2>1. MemoryTypeOK' BY <1>1, BoundsAssumption DEF Tick, server, MemoryTypeOK, Times
  <2>2. clock \in Nat /\ written \in Nat /\ \A v \in 0..written : stamped[v] \in Nat
    BY BoundsAssumption DEF MemoryTypeOK, Versions, Times
  <2>3. StampsGrow' BY <1>1, <2>2 DEF Tick, StampsGrow
  <2>4. SeenIsOld'
    <3>1. seen \in Nat BY DEF MemoryTypeOK
    <3> QED BY <1>1, <2>2, <3>1 DEF Tick, server, SeenIsOld
  <2> QED BY <1>1, <2>1, <2>3, <2>4
          DEF Tick, server, FileIsLast, EntryWritten, NeverStampedTooLate
<1>2. CASE Remove
  BY <1>2 DEF Remove, server, MemoryTypeOK, StampsGrow, FileIsLast, SeenIsOld,
     EntryWritten, NeverStampedTooLate
<1>3. ASSUME NEW t \in Times, Write(t) PROVE MemoryInv'
  <2>1. /\ written' = written + 1 /\ written' \in Versions
        /\ file' = [version |-> written', mtime |-> t]
        /\ stamped' = [stamped EXCEPT ![written'] = t]
        /\ current' = current \cup {written'}
        /\ backdated' = (backdated \/ t < clock) /\ t <= clock
        /\ UNCHANGED <<clock, server>>
    BY <1>3, BoundsAssumption DEF Write, MemoryTypeOK, Versions
  <2>0. ~backdated' => ~backdated /\ ~(t < clock) BY <2>1
  <2>2. MemoryTypeOK' BY <2>1 DEF MemoryTypeOK, server, File
  <2>3. \A v \in 0..written : /\ v \in Versions /\ stamped'[v] = stamped[v]
                              /\ stamped[v] \in Nat
    BY <2>1, BoundsAssumption DEF MemoryTypeOK, Versions, Times
  <2>4. stamped'[written'] = t BY <2>1 DEF MemoryTypeOK
  <2>5. written \in Nat /\ clock \in Nat /\ t \in Nat
    BY DEF MemoryTypeOK
  <2>6. \A v \in 0..written' : v \in 0..written \/ v = written'
    BY <2>1, <2>5
  <2>7. StampsGrow'
    <3>1. \A v \in 0..written' : stamped'[v] <= clock'
      BY <2>1, <2>3, <2>4, <2>5, <2>6 DEF StampsGrow
    <3>2. ASSUME ~backdated', NEW v \in 0..written', NEW w \in 0..written', v <= w
          PROVE  stamped'[v] <= stamped'[w]
      <4>1. ~backdated /\ t = clock BY <2>0, <2>1, <2>5, <3>2
      <4>2. CASE w = written'
        BY <2>1, <2>4, <2>5, <3>1, <4>1, <4>2
      <4>3. CASE w \in 0..written
        <5>1. v \in 0..written BY <2>5, <3>2, <4>3
        <5> QED BY <2>3, <3>2, <4>1, <4>3, <5>1 DEF StampsGrow
      <4> QED BY <2>6, <4>2, <4>3
    <3> QED BY <3>1, <3>2 DEF StampsGrow
  <2>8. FileIsLast' BY <2>1, <2>4, <2>5 DEF FileIsLast
  <2>9. SeenIsOld'
    <3>1. seen \in Nat BY DEF MemoryTypeOK
    <3>2. file'.mtime = t BY <2>1
    <3>3. pc' = pc /\ seen' = seen /\ clock' = clock BY <2>1 DEF server
    <3> QED BY <2>0, <2>1, <2>5, <3>1, <3>2, <3>3 DEF SeenIsOld
  <2>10. /\ EntryWritten'
         /\ entry # NoEntry => entry.version \in 0..written
    BY <2>1, <2>5, Records DEF EntryWritten, server, MemoryTypeOK, Versions
  <2>11. NeverStampedTooLate'
    BY <2>1, <2>3, <2>10 DEF NeverStampedTooLate, server
  <2> QED BY <2>2, <2>7, <2>8, <2>9, <2>10, <2>11
<1> QED BY <1>1, <1>2, <1>3

\* The questions of a call.
LEMMA MemoryCall ==
    ASSUME MemoryInv,
           Call \/ Exists \/ Changed \/ Time \/ Content
    PROVE  MemoryInv'
<1> USE Numbers, Records DEF MemoryInv
<1>1. CASE Call
  BY <1>1 DEF Call, kernel, MemoryTypeOK, StampsGrow, FileIsLast, SeenIsOld,
     EntryWritten, NeverStampedTooLate
<1>2. CASE Exists
  BY <1>2 DEF Exists, Return, kernel, MemoryTypeOK, StampsGrow, FileIsLast, SeenIsOld,
     EntryWritten, NeverStampedTooLate
<1>3. CASE Changed
  <2>1. /\ pc = "changed" /\ pc' \in {"idle", "time"}
        /\ result' \in {result, Nothing, entry.version}
        /\ UNCHANGED <<entry, seen, current, kernel>>
    BY <1>3 DEF Changed, Return
  <2>2. result' \in Versions \cup {Nothing}
    <3>1. CASE entry \in Resource BY <2>1, <3>1 DEF MemoryTypeOK
    <3>2. CASE entry = NoEntry
      BY <2>1, <3>2 DEF MemoryTypeOK, NoEntry, Nothing
    <3> QED BY <3>1, <3>2 DEF MemoryTypeOK
  <2> QED BY <2>1, <2>2 DEF kernel, MemoryTypeOK, StampsGrow, FileIsLast, SeenIsOld,
          EntryWritten, NeverStampedTooLate
<1>4. CASE Time
  <2>1. [version |-> Empty, mtime |-> 0] \in Resource
    BY DEF Resource, Empty
  <2>2. MemoryTypeOK' BY <1>4, <2>1 DEF Time, Return, kernel, MemoryTypeOK, Nothing
  <2>3. file # NoFileThere => file.mtime <= clock
    <3>1. written \in 0..written BY DEF MemoryTypeOK, Versions
    <3> QED BY <3>1 DEF FileIsLast, StampsGrow
  <2> QED BY <1>4, <2>2, <2>3 DEF Time, Return, kernel, MemoryTypeOK, StampsGrow,
          FileIsLast, SeenIsOld, EntryWritten, NeverStampedTooLate, Empty
<1>5. CASE Content
  <2>0. PICK v \in Readable :
            /\ entry' = [version |-> v, mtime |-> Stamp(seen)]
            /\ Return(v)
    BY <1>5 DEF Content
  <2>1. /\ entry' = [version |-> v, mtime |-> seen]
        /\ result' = v /\ pc = "content" /\ pc' = "idle"
        /\ UNCHANGED <<seen, current, kernel>>
    BY <1>5, <2>0 DEF Content, Return, Stamp
  <2>2. /\ v \in Versions /\ v <= written
        /\ v # Empty => file # NoFileThere /\ v = written /\ file.mtime = stamped[v]
    BY <2>0 DEF Readable, MemoryTypeOK, FileIsLast, Empty, Versions
  <2>3. MemoryTypeOK' BY <2>1, <2>2 DEF kernel, MemoryTypeOK, Resource
  <2>4. ~backdated /\ v # Empty => seen <= stamped[v]
    BY <2>1, <2>2 DEF SeenIsOld
  <2> QED BY <2>1, <2>2, <2>3, <2>4 DEF kernel, StampsGrow, FileIsLast,
          SeenIsOld, EntryWritten, NeverStampedTooLate
<1> QED BY <1>1, <1>2, <1>3, <1>4, <1>5

LEMMA MemoryStep ==
    ASSUME MemoryInv, [MemoryNext]_memoryVars PROVE MemoryInv'
<1>1. CASE UNCHANGED memoryVars
  BY <1>1 DEF memoryVars, MemoryInv, MemoryTypeOK, StampsGrow, FileIsLast, SeenIsOld,
     EntryWritten, NeverStampedTooLate
<1> QED BY <1>1, MemoryKernel, MemoryCall DEF MemoryNext

\* An entry is never stamped later than the content it holds.
THEOREM StampCorrect == MemorySpec => []NeverStampedTooLate
<1>1. MemoryInv => NeverStampedTooLate BY DEF MemoryInv
<1>2. MemoryInit => MemoryInv BY MemoryBegins
<1>3. MemoryInv /\ [MemoryNext]_memoryVars => MemoryInv' BY MemoryStep
<1> QED BY <1>1, <1>2, <1>3, PTL DEF MemorySpec

\* Only within one tick is a content returned that the file no longer has.
LEMMA StaleStep ==
    ASSUME MemoryInv, [MemoryNext]_memoryVars, ~backdated,
           pc # "idle", pc' = "idle", result' \in Versions \ current
    PROVE  result' = Empty \/ (file # NoFileThere /\ stamped[result'] = file.mtime)
<1> USE Numbers, Records DEF MemoryInv
<1> result' # Nothing BY DEF Nothing
<1>1. CASE Exists BY <1>1 DEF Exists, Return
<1>2. CASE Changed
  <2>1. /\ file # NoFileThere /\ result' = entry.version
        /\ ~(file.mtime > entry.mtime)
    BY <1>2 DEF Changed, Return, Grown
  <2>2. entry \in Resource BY <2>1 DEF MemoryTypeOK, NoEntry, Nothing
  <2>3. SUFFICES ASSUME entry.version # Empty PROVE stamped[entry.version] = file.mtime
    BY <2>1
  <2>4. /\ file.mtime = stamped[written] /\ file.mtime \in Nat
        /\ entry.mtime \in Nat /\ entry.version \in 0..written
        /\ written \in 0..written
        /\ entry.mtime <= stamped[entry.version]
        /\ stamped[entry.version] \in Nat
    <3>1. file \in File BY <2>1 DEF MemoryTypeOK
    <3> QED BY <2>1, <2>2, <2>3, <3>1
            DEF FileIsLast, MemoryTypeOK, EntryWritten, NeverStampedTooLate, Versions,
                Times
  <2>5. stamped[entry.version] <= stamped[written]
    BY <2>4 DEF StampsGrow, MemoryTypeOK, Versions
  <2> QED BY <2>1, <2>4, <2>5
<1>3. CASE Time BY <1>3 DEF Time, Return
<1>4. CASE Content
  BY <1>4 DEF Content, Readable, Return, FileIsLast
<1> QED BY <1>1, <1>2, <1>3, <1>4
        DEF MemoryNext, Tick, Write, Remove, Call, server, memoryVars

\* A content the file did not have during the call was written within the same
\* tick as the one it has now, or found empty.
THEOREM StaleCorrect == MemorySpec => StaleOnlyWithinTick
<1>1. MemoryInv /\ [MemoryNext]_memoryVars =>
          [~backdated /\ pc # "idle" /\ pc' = "idle" /\ result' \in Versions \ current =>
              \/ result' = Empty
              \/ file # NoFileThere /\ stamped[result'] = file.mtime]_memoryVars
  BY StaleStep
<1>2. MemoryInit => MemoryInv BY MemoryBegins
<1>3. MemoryInv /\ [MemoryNext]_memoryVars => MemoryInv' BY MemoryStep
<1> QED BY <1>1, <1>2, <1>3, PTL DEF MemorySpec, StaleOnlyWithinTick
=============================================================================
