----------------------------- MODULE Dispatcher -----------------------------
(***************************************************************************)
(* dispatcher_impl::process_request and what it calls: a complete request  *)
(* is answered by the first route that matches, or else by what its path   *)
(* leads to on disk.  The code asks the file system once per decision      *)
(* (exists, is_directory, is_regular_file, file_size, then the content or  *)
(* the descriptor and the size), and other processes may put something     *)
(* else at the path between any two questions.  Requests are taken one at  *)
(* a time, on the loop's thread; one path, chosen at the start, stands for *)
(* all, since nothing but the process ties two of them together.           *)
(***************************************************************************)
EXTENDS Integers, FiniteSets, Sequences

CONSTANTS
    Routes,     \* what the program may register: [method, matches, handler]
    Paths,      \* what may be asked for: [slash, jpg]
    Asked,      \* the methods it is asked for with
    Page,       \* the page size, in units of content
    CopyLimit,  \* 2000000: pictures below it are copied
    MaxSize,    \* bound: units of content of a file
    MaxRoutes,  \* bound: routes of a dispatcher
    MaxChanges  \* bound: what else a path leads to during a call

Passable == {"Get", "Post", "Put", "Delete", "Head"}
Methods == Passable \cup {"other"}
Handlers == {"sync", "async"}
Route == [method: Methods, matches: BOOLEAN, handler: Handlers]

\* Whether a path ends in a slash and whether it names a picture.
Path == [slash: BOOLEAN, jpg: BOOLEAN]

ASSUME ConstantsAssumption ==
    /\ Routes \subseteq Route /\ Paths \subseteq Path /\ Asked \subseteq Methods
    /\ Page \in Nat /\ CopyLimit \in Nat
    /\ MaxSize \in Nat /\ MaxRoutes \in Nat /\ MaxChanges \in Nat

\* What may be at a path; "denied" is what the process may not look at, and
\* "other" a device or a socket.  Whether a file or a directory can be opened
\* depends on its mode and on the descriptors the process has left.
Entry == [kind: {"missing", "denied", "other"}, size: {0}, opens: {FALSE}]
             \cup [kind: {"dir"}, size: {0}, opens: BOOLEAN]
             \cup [kind: {"regular"}, size: 0..MaxSize, opens: BOOLEAN]

NoAnswer == [by |-> "nobody", size |-> 0]
Answer == [by: {"nobody", "sync", "async", "redirect", "listing", "memory",
                "file", "not_found"},
           size: 0..MaxSize]

VARIABLES
    routes,    \* the route_map
    disk,      \* what the path leads to
    path,      \* the path asked for
    method,    \* the method of the request in hand
    pc,        \* "idle", the next question, or "terminated"
    seen,      \* history: what the path has led to during the call
    cached,    \* the size of what the memory cache has for the path, if it has
    held,      \* history: `cached' when the call began
    answer     \* the last answer

vars == <<routes, disk, path, method, pc, seen, cached, held, answer>>

TypeOK ==
    /\ routes \in Seq(Routes)
    /\ disk \in Entry
    /\ path \in Paths /\ method \in Methods
    /\ pc \in {"idle", "route", "exists", "directory", "folder", "regular", "size",
               "memory", "open", "stat", "terminated"}
    /\ seen \subseteq Entry
    /\ cached = {} \/ \E n \in 0..MaxSize : cached = {n}
    /\ held = {} \/ \E n \in 0..MaxSize : held = {n}
    /\ answer \in Answer

Init ==
    /\ routes = <<>>
    /\ disk \in Entry
    /\ path \in Paths /\ method = "other"
    /\ pc = "idle"
    /\ seen = {}
    /\ cached = {} /\ held = {}
    /\ answer = NoAnswer

-----------------------------------------------------------------------------
\* The program and other processes.

AddRoute(r) ==
    /\ pc = "idle" /\ Len(routes) < MaxRoutes
    /\ routes' = Append(routes, r)
    /\ UNCHANGED <<disk, path, method, pc, seen, cached, held, answer>>

\* What changes between two calls is in Call's choice of the entry.
Change(e) ==
    /\ pc \notin {"idle", "terminated"} /\ e # disk
    /\ Cardinality(seen \cup {e}) <= MaxChanges + 1
    /\ disk' = e
    /\ seen' = seen \cup {e}
    /\ UNCHANGED <<routes, path, method, pc, cached, held, answer>>

-----------------------------------------------------------------------------
\* process_request.  Every step asks one question.

Asking(question) == pc = question /\ UNCHANGED <<routes, disk, path, method>>
Ask(question) == pc' = question /\ UNCHANGED answer
Reply(by, size) == pc' = "idle" /\ answer' = [by |-> by, size |-> size]
calls == <<seen, cached, held>>

Call(m, e) ==
    /\ pc = "idle"
    /\ method' = m
    /\ disk' = e
    /\ pc' = "route"
    /\ seen' = {e}
    /\ held' = cached
    /\ answer' = NoAnswer
    /\ UNCHANGED <<routes, path, cached>>

\* get_user_handler, asked only for passable methods.
Matches(r) == r.method = method /\ r.matches

Matching(i) == Matches(routes[i]) /\ \A j \in 1..(i - 1) : ~Matches(routes[j])

PassRequest ==
    /\ Asking("route") /\ method \in Passable
    /\ \E i \in 1..Len(routes) :
           Matching(i) /\ Reply(routes[i].handler, 0)
    /\ UNCHANGED calls

NoRoute ==
    /\ Asking("route")
    /\ method \in Passable => \A i \in 1..Len(routes) : ~Matching(i)
    /\ Ask("exists")
    /\ UNCHANGED calls

\* is_disk_resource is noexcept: an error that exists() throws ends the
\* process.
Exists ==
    /\ Asking("exists")
    /\ CASE disk.kind = "denied" -> Ask("terminated")
         [] disk.kind = "missing" -> Reply("not_found", 0)
         [] OTHER -> Ask("directory")
    /\ UNCHANGED calls

WrongIsDirectory(kind) == kind # "regular"
IsDirectory(kind) == kind = "dir"

\* From here on whatever is thrown becomes a 404.
Directory ==
    /\ Asking("directory")
    /\ CASE disk.kind = "denied" -> Reply("not_found", 0)
         [] IsDirectory(disk.kind) -> Ask("folder")
         [] OTHER -> Ask("regular")
    /\ UNCHANGED calls

\* take_folder, with list_directory for folder_cb, which catches the error of a
\* directory_iterator that cannot be made.
Folder ==
    /\ Asking("folder")
    /\ CASE ~path.slash -> Reply("redirect", 0)
         [] path.slash /\ disk.kind = "dir" /\ disk.opens -> Reply("listing", 0)
         [] OTHER -> Reply("not_found", 0)
    /\ UNCHANGED calls

IsRegular ==
    /\ Asking("regular")
    /\ IF disk.kind = "regular" THEN Ask("size") ELSE Reply("not_found", 0)
    /\ UNCHANGED calls

WrongFits(size) == (path.jpg \/ size < CopyLimit) \/ size <= Page
Fits(size) == (path.jpg /\ size < CopyLimit) \/ size <= Page

\* file_size of what is no file is an error.
ShouldCopy ==
    /\ Asking("size")
    /\ CASE disk.kind # "regular" -> Reply("not_found", 0)
         [] disk.kind = "regular" /\ Fits(disk.size) -> Ask("memory")
         [] OTHER -> Ask("open")
    /\ UNCHANGED calls

\* read_file of what cannot be opened yields no bytes and no error.
WrongContentOf(e) == IF e.opens THEN e.size + 1 ELSE 1
ContentOf(e) == IF e.opens THEN e.size ELSE 0

\* A resource without content counts as none.
WrongServed(n) == IF n > 1 THEN Reply("memory", n) ELSE Reply("not_found", 0)
Served(n) == IF n > 0 THEN Reply("memory", n) ELSE Reply("not_found", 0)

\* take_file_from_memory.  The cache reads the file, or has an entry it takes
\* for fresh, whatever the file holds by now; what is no file any more is
\* dropped, cached without content, or throws first.
TakeFromMemory ==
    /\ Asking("memory")
    /\ \/ /\ disk.kind = "regular"
          /\ cached' = {ContentOf(disk)} /\ Served(ContentOf(disk))
       \/ /\ disk.kind \notin {"missing", "denied"}
          /\ \E n \in cached : Served(n)
          /\ UNCHANGED cached
       \/ /\ disk.kind # "regular"
          /\ cached' \in {cached, {}, {0}} /\ Reply("not_found", 0)
    /\ UNCHANGED <<seen, held>>

\* take_unix_file: the descriptor, which the cache may still have when the path
\* cannot be opened, and then the size by name.
Open ==
    /\ Asking("open")
    /\ \/ Ask("stat")
       \/ ~disk.opens /\ Reply("not_found", 0)
    /\ UNCHANGED calls

Stat ==
    /\ Asking("stat")
    /\ IF disk.kind \in {"missing", "denied"} THEN Reply("not_found", 0)
                                              ELSE Reply("file", disk.size)
    /\ UNCHANGED calls

Next ==
    \/ \E r \in Routes : AddRoute(r)
    \/ \E e \in Entry : Change(e)
    \/ \E m \in Asked, e \in Entry : Call(m, e)
    \/ PassRequest \/ NoRoute \/ Exists \/ Directory \/ Folder \/ IsRegular
    \/ ShouldCopy \/ TakeFromMemory \/ Open \/ Stat

Spec == Init /\ [][Next]_vars

-----------------------------------------------------------------------------
\* Properties.

SeenKinds == {e.kind : e \in seen}

\* A 404 has a reason: during the call the path led to nothing that can be
\* served or to something that could not be opened then, its kind changed
\* between two questions, or the memory cache held it empty when the call
\* began (process_request, take_disk_resource and the exceptions they catch).
NotFoundHasReason ==
    answer.by = "not_found" =>
        \/ 0 \in held
        \/ \E e \in seen : ~e.opens \/ (e.kind = "regular" /\ e.size = 0)
        \/ {"dir", "regular"} \subseteq SeenKinds

\* Files and directories are served only from a path that led to one during
\* the call, whatever happened to it since (take_disk_resource).
ServedWasThere ==
    /\ answer.by \in {"memory", "file"} => "regular" \in SeenKinds
    /\ answer.by \in {"redirect", "listing"} => "dir" \in SeenKinds

\* Content beyond a page is read into memory only for a small picture, or when
\* the file had fitted a page earlier in the call (should_copy).
LargeIsNotCopied ==
    answer.by = "memory" /\ answer.size > Page =>
        \/ path.jpg /\ \E e \in seen : e.kind = "regular" /\ e.size < CopyLimit
        \/ \E e \in seen : e.kind = "regular" /\ e.size <= Page

\* What is sent from memory is a content the path led to during the call, in a
\* file that could be opened, or the one the cache held when the call began;
\* what other calls and failed reads leave behind is never sent
\* (take_file_from_memory, aquire).
ContentWasThere ==
    answer.by = "memory" =>
        \/ answer.size \in held
        \/ \E e \in seen : e.kind = "regular" /\ e.opens /\ e.size = answer.size
=============================================================================
