------------------------ MODULE FileDescriptorCache ------------------------
(***************************************************************************)
(* cache::file_descriptor, the process-wide table of open files by path    *)
(* with a use count each, and the io::unix_file objects that take their    *)
(* descriptors from it and send them with sendfile.  Two responses that    *)
(* send the same path share one descriptor, each with an offset of its     *)
(* own.                                                                    *)
(*                                                                         *)
(* Server threads other than the loop are not involved, but the file       *)
(* system belongs to everyone: between the open() and the stat() of one    *)
(* constructor a file may be replaced, removed or resized, and the rest of *)
(* the process opens and closes descriptors that share the same numbers.   *)
(***************************************************************************)
EXTENDS Integers, FiniteSets

CONSTANTS
    Paths,     \* the names of files the server is asked for
    Inodes,    \* the files those names may lead to
    Missing,   \* what a name leads to when it is gone
    Files,     \* the unix_file objects
    NumFds,    \* descriptors the process may have
    MaxLen,    \* bound: units of content of a file
    Lengths,   \* bound: the lengths files are given
    MaxLeaks   \* bound: constructors that fail per path

Fds == 0 .. (NumFds - 1)
NoFd == -1
Holders == Inodes \cup {"free", "other"}

ASSUME ConstantsAssumption ==
    /\ IsFiniteSet(Files)
    /\ {"free", "other"} \cap Inodes = {}
    /\ Missing \notin Inodes
    /\ NumFds \in Nat /\ MaxLen \in Nat /\ MaxLeaks \in Nat
    /\ Lengths \subseteq 0..MaxLen

VARIABLES
    storage,   \* [Paths]: handle_use_count, Absent when there is none
    files,     \* [Files]: the unix_file objects and how far each is
    fdtable,   \* [Fds]: the kernel's descriptor table
    dir,       \* [Paths]: the inode a name leads to, or Missing
    len,       \* [Inodes]: length of the file
    leaked,    \* [Paths]: history, uses no object gives back
    replaced   \* [Paths]: history, renamed over or removed since opened

vars == <<storage, files, fdtable, dir, len, leaked, replaced>>

Absent == [use_count |-> 0, handle |-> NoFd]
Entry == [use_count: Nat, handle: Fds \cup {NoFd}]

\* `inode' is the open file and `named' the one whose size was read.
NoFile == [state |-> "none"]
FileObject ==
    [state: {"aquired"}, path: Paths, fd: Fds, inode: Holders]
        \cup [state: {"live"}, path: Paths, fd: Fds, inode: Holders,
              named: Inodes, size: 0..MaxLen, offset: 0..MaxLen]

TypeOK ==
    /\ storage \in [Paths -> Entry]
    /\ files \in [Files -> {NoFile} \cup FileObject]
    /\ fdtable \in [Fds -> Holders]
    /\ dir \in [Paths -> Inodes \cup {Missing}]
    /\ len \in [Inodes -> 0..MaxLen]
    /\ leaked \in [Paths -> Nat]
    /\ replaced \in [Paths -> BOOLEAN]

Init ==
    /\ storage = [p \in Paths |-> Absent]
    /\ files = [f \in Files |-> NoFile]
    /\ fdtable = [fd \in Fds |-> "free"]
    /\ dir \in [Paths -> Inodes \cup {Missing}]
    /\ len \in [Inodes -> Lengths]
    /\ leaked = [p \in Paths |-> 0]
    /\ replaced = [p \in Paths |-> FALSE]

Constructing == \E f \in Files : files[f].state = "aquired"

\* The kernel hands out the lowest free number.
LowestFree(fd) == /\ fdtable[fd] = "free"
                  /\ \A g \in Fds : fdtable[g] = "free" => fd <= g

-----------------------------------------------------------------------------
\* unix_file::unix_file: aquire, then stat64 by name.  The dispatcher has just
\* seen a regular file too large for the memory cache.

Wanted(f, p) ==
    /\ files[f].state = "none" /\ ~Constructing
    /\ dir[p] # Missing /\ len[dir[p]] > 0

Aquired(f, p, fd) ==
    files' = [files EXCEPT ![f] = [state |-> "aquired", path |-> p, fd |-> fd,
                                   inode |-> fdtable'[fd]]]

\* Operators named Wrong... are plausible mistakes in the code, kept to show
\* which property each would break; no specification uses them.
WrongOneMore(e) == e
OneMore(e) == [e EXCEPT !.use_count = @ + 1]

AquireCached(f, p) ==
    /\ Wanted(f, p) /\ storage[p] # Absent
    /\ storage' = [storage EXCEPT ![p] = OneMore(@)]
    /\ UNCHANGED <<fdtable, dir, len, leaked, replaced>>
    /\ Aquired(f, p, storage[p].handle)

\* An open() that fails keeps nothing: the constructor throws.
AquireOpen(f, p, fd) ==
    /\ Wanted(f, p) /\ storage[p] = Absent
    /\ LowestFree(fd)
    /\ fdtable' = [fdtable EXCEPT ![fd] = dir[p]]
    /\ storage' = [storage EXCEPT ![p] = [use_count |-> 1, handle |-> fd]]
    /\ replaced' = [replaced EXCEPT ![p] = FALSE]
    /\ UNCHANGED <<dir, len, leaked>>
    /\ Aquired(f, p, fd)

\* The size is that of the file the name leads to now.
Stat(f) ==
    /\ files[f].state = "aquired" /\ dir[files[f].path] # Missing
    /\ LET of == files[f]
           inode == dir[of.path]
       IN  files' = [files EXCEPT ![f] =
               [state |-> "live", path |-> of.path, fd |-> of.fd,
                inode |-> of.inode, named |-> inode, size |-> len[inode],
                offset |-> 0]]
    /\ UNCHANGED <<storage, fdtable, dir, len, leaked, replaced>>

\* The constructor throws, so no destructor gives the use back.
StatFails(f) ==
    /\ files[f].state = "aquired" /\ dir[files[f].path] = Missing
    /\ files' = [files EXCEPT ![f] = NoFile]
    /\ leaked' = [leaked EXCEPT ![files[f].path] = @ + 1]
    /\ UNCHANGED <<storage, fdtable, dir, len, replaced>>

-----------------------------------------------------------------------------
\* unix_file::~unix_file and release, which finds the entry by its handle.

WrongLastUse(e) == e.use_count <= 2
LastUse(e) == e.use_count = 1

WrongErased(e) == [e EXCEPT !.use_count = 0]
Erased(e) == Absent

WrongOneLess(e) == [e EXCEPT !.use_count = @ - 2]
OneLess(e) == [e EXCEPT !.use_count = @ - 1]

WrongClosed(fd) == fdtable
Closed(fd) == [fdtable EXCEPT ![fd] = "free"]

Release(fd) ==
    \/ \E p \in Paths :
        /\ storage[p].handle = fd
        /\ IF LastUse(storage[p])
           THEN /\ storage' = [storage EXCEPT ![p] = Erased(@)]
                /\ fdtable' = Closed(fd)
           ELSE /\ storage' = [storage EXCEPT ![p] = OneLess(@)]
                /\ UNCHANGED fdtable
    \/ /\ \A p \in Paths : storage[p].handle # fd
       /\ UNCHANGED <<storage, fdtable>>

Destroy(f) ==
    /\ Release(files[f].fd)
    /\ files' = [files EXCEPT ![f] = NoFile]

\* The response is abandoned with its channel, or its file is copied into a
\* memory_buffer.
Abandon(f) ==
    /\ files[f].state = "live" /\ ~Constructing
    /\ Destroy(f)
    /\ UNCHANGED <<dir, len, leaked, replaced>>

WrongSizeLeft(f) == files[f].offset
SizeLeft(f) == files[f].size - files[f].offset

Finished(f, written) == written = SizeLeft(f)

\* send_to_fd: sendfile64 from the object's own offset writes what the socket
\* takes, of what the open file still has.  When the file is too short it
\* writes nothing, which fill_channel takes for a full socket.
Sending(f, written) ==
    /\ files[f].state = "live" /\ ~Constructing
    /\ files[f].inode \in Inodes
    /\ written <= SizeLeft(f)
    /\ files[f].offset + written <= len[files[f].inode]
    /\ UNCHANGED <<dir, len, leaked, replaced>>

SendPart(f, written) ==
    /\ Sending(f, written) /\ ~Finished(f, written)
    /\ files' = [files EXCEPT ![f].offset = @ + written]
    /\ UNCHANGED <<storage, fdtable>>

SendLast(f, written) ==
    /\ Sending(f, written) /\ Finished(f, written)
    /\ Destroy(f)

-----------------------------------------------------------------------------
\* The file system and the rest of the process.

\* A name is given to another file (rename over it), or to one again.
Replace(p, inode) ==
    /\ dir[p] # inode
    /\ dir' = [dir EXCEPT ![p] = inode]
    /\ replaced' = [replaced EXCEPT ![p] = TRUE]
    /\ UNCHANGED <<storage, files, fdtable, len, leaked>>

Unlink(p) ==
    /\ dir[p] # Missing
    /\ Constructing => leaked[p] < MaxLeaks
    /\ dir' = [dir EXCEPT ![p] = Missing]
    /\ replaced' = [replaced EXCEPT ![p] = TRUE]
    /\ UNCHANGED <<storage, files, fdtable, len, leaked>>

Resize(inode, n) ==
    /\ len[inode] # n
    /\ len' = [len EXCEPT ![inode] = n]
    /\ UNCHANGED <<storage, files, fdtable, dir, leaked, replaced>>

\* Sockets, and files the memory cache reads.
OpenOther(fd) ==
    /\ LowestFree(fd)
    /\ fdtable' = [fdtable EXCEPT ![fd] = "other"]
    /\ UNCHANGED <<storage, files, dir, len, leaked, replaced>>

CloseOther(fd) ==
    /\ fdtable[fd] = "other"
    /\ fdtable' = [fdtable EXCEPT ![fd] = "free"]
    /\ UNCHANGED <<storage, files, dir, len, leaked, replaced>>

-----------------------------------------------------------------------------
Environment ==
    \/ \E p \in Paths : Unlink(p) \/ \E inode \in Inodes : Replace(p, inode)
    \/ \E inode \in Inodes, n \in Lengths : Resize(inode, n)
    \/ \E fd \in Fds : OpenOther(fd) \/ CloseOther(fd)

Construct(f) ==
    \/ \E p \in Paths :
        AquireCached(f, p) \/ \E fd \in Fds : AquireOpen(f, p, fd)
    \/ Stat(f) \/ StatFails(f)

Send(f) == \E written \in 1..MaxLen : SendPart(f, written) \/ SendLast(f, written)

Next ==
    \/ \E f \in Files : Construct(f) \/ Abandon(f) \/ Send(f)
    \/ Environment

Spec == Init /\ [][Next]_vars

\* The loop finishes the constructor it is in, and writes while the socket
\* and the file let it.
Fairness == \A f \in Files : WF_vars(Stat(f) \/ StatFails(f)) /\ SF_vars(Send(f))

FairSpec == Spec /\ Fairness

-----------------------------------------------------------------------------
\* Properties.

Users(p) == {f \in Files : files[f].state # "none" /\ files[f].path = p}

\* A use count is the number of objects that use the descriptor and of failed
\* constructors that never gave it back; an entry without uses does not exist
\* (aquire, release).
UseCountExact ==
    \A p \in Paths :
        /\ storage[p].use_count = Cardinality(Users(p)) + leaked[p]
        /\ storage[p].handle = NoFd <=> storage[p].use_count = 0

\* The descriptor an object sends from stays open on the file it was opened
\* for: its number is not closed and handed out again under the object
\* (release, which finds the entry by number).
HandleStaysOpen ==
    \A f \in Files : files[f].state # "none" =>
        /\ files[f].inode \in Inodes
        /\ fdtable[files[f].fd] = files[f].inode

\* No descriptor is lost: an open file of the server's is in the cache
\* (release closes what it erases).
NoDescriptorLost ==
    \A fd \in Fds : fdtable[fd] \in Inodes =>
        \E p \in Paths : storage[p].handle = fd

\* The size that is sent is that of the open file, unless the name was given
\* to another file after the cached descriptor was opened (the constructor
\* takes the descriptor from the cache and the size from the name).
SizeIsOfHandle ==
    \A f \in Files : files[f].state = "live" =>
        files[f].named = files[f].inode \/ replaced[files[f].path]

\* A file is sent to its end or abandoned, unless it was empty when its size
\* was read or the open file has nothing beyond what was sent: then
\* fill_channel waits for a socket that is not full (send_to_fd).
SentToTheEnd == \A f \in Files :
    files[f].state = "live" ~>
        \/ files[f].state # "live"
        \/ files[f].size = 0
        \/ len[files[f].inode] <= files[f].offset
=============================================================================
