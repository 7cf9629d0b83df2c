# A verification project for Viking

Viking is a C++ HTTP server library: a program registers routes, calls
`init()` and `run()`, and one thread serves every connection from an epoll
loop. Answers come from handlers (at once, or later through a `std::future`),
from small files kept in memory, or from large files sent with `sendfile`.

This directory holds TLA+ modules translated from the library's source, TLC
configurations that check them on small instances, and proofs that TLAPS checks
for every value of the constants. Paths below are relative to `src/` in
the repository's own tree (`src/io/...`), unless they name `doc/` or `test/`.

    tlc -config IoScheduler_polite.cfg IoSchedulerMC.tla      # one run
    tlapm IoSchedulerProofs.tla                               # one proof

`PROJECT.json` lists the runs, the theorems, the hazards, and for every
definition the lines it stands for.


## 1. The system

| component | source | state | operations |
|---|---|---|---|
| event loop | `io/schedulers/io_scheduler.cpp` | the channels, and of each the socket, the flags, the queue and the cookie | `run`, `add`, `add_new_connections`, `process_read`, `process_write`, `fill_channel`, `remove` |
| epoll wrapper | `io/schedulers/sys_epoll.cpp` | the kernel's event mask per channel, the list of scheduled channels | `schedule`, `update`, `remove`, `await` |
| schedule item | `io/schedulers/sched_item.cpp` | a deque of buffers and the wish to keep the connection | `put_back`, `put_after_first_intact`, `replace_front`, `remove_front`, `is_front_async` |
| buffers | `io/buffers/*` | bytes left, an offset, or a future | `send_to_fd`, `size_left`, `intact`, `is_ready`, `from` (mmap) |
| sockets | `io/socket/*` | a descriptor | `accept`, `read_some`, `write_some`, `bind`, `listen` |
| descriptor cache | `cache/file_descriptor.cpp` | path to descriptor and use count | `aquire`, `release` |
| memory cache | `cache/resource_cache.cpp`, `misc/resource.cpp` | path to content and time of last write | `aquire` |
| request context | `http/engine.cpp` | the bytes read, the request so far | `operator()` and the parser's callbacks |
| parser | `http/parser.c` (vendored) | an automaton, the bytes of a header it counted, marks where a text began | `http_parser_execute`, `http_parser_pause`, `http_parser_parse_url` |
| dispatcher | `http/dispatcher/dispatcher.cpp` | the routes; the context in each channel's cookie | `handle_connection`, `process_request`, `take_*`, `handle_barrier`, `will_remove` |
| responses | `http/response.cpp`, `http/response_serializer.cpp` | fields, body, type | construction, compression, serialising |
| server | `server/server.cpp` | port, backlog, stop flag | `init`, `run`, `freeze`, `set_config`, `add_route` |
| JSON | `json/*` (jsoncpp, vendored) | the tree, the reader's stack, errors and pending comments | `OurReader::parse`, `FastWriter`, `StyledWriter`, `BuiltStyledStreamWriter` |
| the rest | `misc/*`, `http/util.cpp`, `http/routeutility.cpp`, `http/directory_listing.cpp`, `inl/*` | a global configuration, constant tables | pure functions |

How they interact. `server::run` calls `scheduler::run` for ever. The loop
awaits epoll, and for each event calls back into the dispatcher: `on_read` makes
a `schedule_item` of a request that is complete, `on_barrier` turns a ready
future into bytes, `on_remove` deletes the half-read request in the channel's
cookie. The channel's queue is what `process_write` drains into the
socket. `take_unix_file` puts a `unix_file` into the queue, which takes its
descriptor from the process-wide descriptor cache and gives it back when it is
destroyed, wherever that happens. Everything runs on the loop's thread, except
the threads behind futures. The peers, the kernel and other processes that
change files are concurrent with it.

What is hard here:

* **Interleaving with the kernel.** A channel switches between edge and level
  triggering while its peer sends, reads and leaves. A wakeup can be lost
  between the last `write` and `epoll_ctl`.
* **Lifetime.** `remove` frees a channel in the middle of `run`'s handling of
  its event.
* **Ordering.** Answers of one connection are queued by rules that depend on
  the type of the front buffer; the queue decides whether the connection stays.
* **Partial work.** Sends stop anywhere, requests arrive in any pieces, and each
  read parses everything again.
* **Shared descriptors.** Two transfers share one descriptor, files are replaced
  under them, numbers are reused, constructors throw half way.
* **Stale caches.** Files change between the questions the memory cache asks.
* **Input cut anywhere.** The parser is given pieces and may be paused; what it
  marked and counted must be taken up where it was.
* **Set-up in any order.** Servers are made, moved, configured, started and
  destroyed by the program, which fails half way when a port is taken meanwhile.
* **Errors inside nesting.** After an error the JSON reader looks for the end of
  each container it was in; depth, offsets and comments pass through that.

What makes each part correct is listed under `hazards` in `PROJECT.json`, at the
line where it can go wrong, with the property that would show it.


## 2. Modules

    ScheduleItem --- IoScheduler --- IoSchedulerStream ... refines ... ResponseStream
                                          |
                              IoSchedulerMC, IoSchedulerProofs

    RequestContext --- RequestContextMC, RequestContextProofs
    Dispatcher --- DispatcherMC, DispatcherProofs
    FileDescriptorCache, ResourceCache --- CacheProofs
    Response --- ResponseProofs
    Server --- ServerProofs

    HttpChars --- HttpUrl --- HttpParser --- HttpParserMC, HttpParserProofs
        |
    JsonValue --- JsonReader --- JsonReaderProofs
        |              |
    JsonWriter ---- JsonMC

In each module the definitions named `Wrong...` are plausible mistakes in the
code (a missing update, an off-by-one, a swapped order). No specification uses
them; each shows that a property would notice the mistake.

### ScheduleItem

`io::schedule_item` as operators on a record `[buffers, keep]`. A buffer has a
type (`memory`, `file`, `async`), the number of the request it answers, its size
and what is left of it in abstract units, and for a future whether it is ready.
`PutBack` takes over the other item's wish to keep the connection;
`PutAfterFirstIntact` does not, inserts before the first intact buffer and in
reverse order, as the code does with `rbegin`.

### IoScheduler

One variable per field of a channel (`chan`, `queue`, `flags`, `ctx`), per
piece of kernel state (`mask`, `rdy`, `inbuf`, `outbuf`), and per peer (`peer`,
`asked`, `received`). The loop is `cur`, `pc` and `batch`: `Await` takes
what epoll reports of all ready channels at once, `TakeEvent` begins an
event (and makes the channel edge triggered), and the handlers follow. One
iteration of `process_write`'s loop is one action, so the environment acts
between any two system calls, as it does in reality.

| action | code |
|---|---|
| `Await`, `TakeEvent` | `run`, lines 61-69 |
| `AcceptEvent` | `add_new_connections`, `add`, `epoll::schedule` |
| `TerminateEvent` | `run`, 74-77 |
| `ReadClosed`, `ReadPart`, `ReadRequest` | `process_read`, `dispatcher::handle_connection` |
| `WriteEvent`, `WriteAfterRemove` | `run`, 81-84, with a channel that lives or was freed |
| `BarrierClosed`, `BarrierOpen` | `process_write`, 125-140 |
| `DoItYourself`, `Fill*`, `WriteFails` | `fill_channel`, `write_some`, `send_to_fd` |
| `DrainAndKeep`, `DrainAndClose`, `NothingToWrite` | `process_write`, 142-154 |
| `Rearm` | `process_write`, 160-161 |
| `Connect`, `Send`, `Receive`, `Leave`, `Complete`, `JoinOne` | peers, network, threads |

The kernel's ready list is modelled as Linux has it: a change of the socket, or
`EPOLL_CTL_MOD`, puts a channel on the list if its mask asks for what is true;
`epoll_wait` reports what is true now and keeps level-triggered channels.
`WriteAfterRemove` is the use of a freed channel. It is undefined, so
the model lets the program go on or crash, and remembers it in `touched`.
`WriteFails` has two causes: the peer reset the connection, or a file at the front
of the queue cannot be sent (`sendfile` fails with EIO or EBADF, or the `mmap` of what is
to be copied fails). The second removes the channel of a peer that stays, in the middle of its answer,
with whatever is queued behind it.

What a request is answered with is a constant (`Responses`): shapes the
dispatcher builds, a memory buffer, header-file-ending, or a lone async buffer.
An async item's keep wish is an uninitialised member in the code
(`sched_item.h`); nothing reads it before it is overwritten, because
`put_after_first_intact` ignores it.

### ResponseStream

What the scheduler promises each peer, without epoll, events or buffer kinds:
answers are sequences of units, handed over in order and once, and the
connection closes only after the last pending unit of an answer that does not
keep it, or within an answer a part of which is a file (`Abandon`, `filed`), which may fail. An answer
made of memory is never cut short for a peer that stays. `IoSchedulerStream` maps the queue of a channel to the sequence of
units it holds and states `KeepsPromise == Stream!Spec`. It is claimed `InTurn`: when no
answer is asynchronous, or the peers await their answers. A peer that pipelines can
have an asynchronous answer put in front of one that was queued before it
(`put_after_first_intact`); TLC shows that `KeepsPromise` fails then.

### FileDescriptorCache

`storage` is the table of the code. Each `unix_file` goes from `aquired`
(descriptor taken) to `live` (size read by name), and ends by being sent or
abandoned; `Release` finds the entry by descriptor number. The
kernel's descriptor table gives out the lowest free number, to the cache or to
anything else in the process. Files are renamed over, unlinked and resized at
any time. `inode` and `named` remember which file the descriptor and the size
belong to; `leaked` counts constructors that threw after `aquire`.

### RequestContext

A request is a sequence of tokens (the head up to Content-Length, each digit,
the end of the head, each unit of body, the last chunk of a chunked one), cut between any
two. Each `Read` parses
the whole buffer from its start, and `Parsed` is the effect of all callbacks:
`Url` sets, `Length` inserts once, `Body` appends. A buffer can hold the start of a
second request behind one that was answered too early, and `insert` keeps the first
request's length then too. A head that has not arrived
leaves `request::method` unassigned, and so does one whose method is not in
`method_map` (`unknown`), so `Read` tries every value. `is_complete` passes the length through the
`int` of `atoi` and compares it as a `std::size_t` (`Atoi`: from `IntRange` on a length
becomes negative, which is above every body, or less than it was). It looks the field up under
the one spelling "Content-Length" and knows nothing of chunks, so for it a body behind `content-length`
or in chunks has no length, and the request is complete with its head. `split` records
which parts of a request have been parsed more than once.

### ResourceCache

One call of `aquire` for one path is up to four questions to the file system,
one action each, with writes, renames over, backdating and removal between them.
Contents are numbered in the order in which they are written. A file that cannot be
opened is read as empty and cached so (`Readable`).

### Dispatcher

`process_request` and what it calls, for one path. Each question asked of the
file system is an action (`Exists`, `Directory`, `Folder`, `IsRegular`,
`ShouldCopy`, `TakeFromMemory`, `Open`, `Stat`); between any two, `Change` puts
something else at the path. `PassRequest` and `NoRoute` are the search
through the routes, collapsed to its result, so no property is about its order. `Exists` ends the process when the path may not be looked
at, because `is_disk_resource` is `noexcept`; everything later becomes a 404.
An entry of the file system also says whether it can be opened (`opens`): its mode or the
descriptors left may forbid that. A directory that cannot be listed and a file whose descriptor cannot be
had are answered 404; one that cannot be read has no content, is cached so, and is answered 404 too.
`cached` abstracts `ResourceCache` to the size of its entry, served
whatever the file holds by now. Two variables are history: `seen` has all that the path led to
during the call, `held` what the cache had when it began.

### Response

`http::response` from its construction to what the serializer makes of it.
A body is a content in a coding (`none`, `deflate`, `gzip`, or `cut gzip`, a
gzip stream that did not fit `compressBound` bytes); a Content-Length is the body
it was measured on, so that a wrong measure cannot be right by chance. What follows a header is
a body and the four octets of `make_ending` (`Ending`), which the code puts behind every body, a file's
too, and does not count in Content-Length: the parser of whoever reads the answer
must skip them, as Viking's own does. `set` may write any field, Content-Length and
Content-Encoding too (`SetLength`, `SetEncoding`). `SerializeLater` serialises an answer that was awaited,
whose wish to keep the connection nobody asks for.
`Initialised` is `init()`, which constructors and assignments end with and
setters do not. `meant` is the content last given, `late` says that a setter was
used or a compressed body replaced.

### Server

The front: `web::server` objects and the `server_impl`s they own, the listening
socket that `init()` makes, the configuration all servers of the process share,
`run()` and `freeze()`. `init()` is three actions (`NewSocket`, `Bind`,
`Listen`), because another process may bind or listen between them; `run()` is
`Check` and `Poll`, because `freeze()` may come in between. `m_max_pending` is
`Uninitialised` until `set_config` was called, `Move` forgets the implementation
it replaces, and a socket whose `bind` or `listen` failed stays in `sock`
because nothing deletes it. `Listen` hands over `m_max_pending` as it is; the model has `init()` before
`set_config` too, and no property is about the value.

### HttpChars, HttpUrl, HttpParser

`http_parser_execute`, one action per character and `case`, with
`REEXECUTE` as a change of the state that keeps `p`, and the inner loops over
field names and values with their own position (`start`). `Leftover` ends
a piece at any character, `Resume` and `Eof` are the embedder's. `parser` is
`struct http_parser`; `marks` are the local variables that remember where a
text began; `out` is what the callbacks were given, pieces of one text put together. A
callback of each kind may pause the parser. `HttpUrl` is the URL automaton, which
`http_parser_execute` steps through and `http_parser_parse_url` runs over a whole
URL. Its loops are recursive functions of the number of characters read (`Scanned`,
`ParseHost`), over a record of the automaton's state, the field last met, the fields, and the
state the host will be read from (`host`: the code's `found_at`).
Offsets and lengths are 16 bits wide (`FieldRange`), although a header may be longer, so
`AcceptedUrlIsSplit` is about targets these can describe; and it asks no split of a path
that CONNECT is given, for which `http_parser_parse_url` wants a host and a port. `HttpParserMC` makes
the streams, and what must be announced of them, from the parts of messages,
so that no expectation is taken from the parser.

Facts the streams hold the code to: a method outside
CONNECT, MKCOL, SUBSCRIBE, REPORT, POST and LOCK is taken whatever its second character
(`GXT` is GET); `M-SEARCH` is never recognised, because its entry in the
table is spelled with blanks; `message_begin` is also announced for a
line end before a response. A name or value counts its first character once more
when the piece ends inside it, and the trailers of a message stay counted for the
next: `extra` in `HeaderIsCounted`. The order of the code's `if`s is in the guards: those
of one `CASE` exclude each other, since TLA+ leaves open which of two that hold is
taken. Viking itself calls neither
`http_parser_pause` nor `http_parser_parse_url`, and gives the parser the whole
buffer anew at each read (`RequestContext`); it relies on what a single call announces.

### JsonValue, JsonReader, JsonWriter

A value is a tree: a function from paths to nodes with type, payload,
comments and offsets. A number is an integer or a decimal `int * 10^exp`, so that
reading and writing it can be compared exactly. `JsonReader` is
`OurReader`: one action reads one token and does what the code does with it.
`levels` are the calls of `readObject` and `readArray` that are open, `path` is
the top of `nodes_`, `phase` is where the code is between two tokens.
`recoverFromError` is the phase `recover`. Tokens, numbers, escapes and comments
are operators on characters. Two variables are history: `seen`, the comments that were
collected, and `replaced`, whether a member was given a second value: the code reads it
into the node of the first, and the comments inside that one go with it, so `CommentsKept`
is about documents where this does not happen. `JsonWriter` gives the text each writer
makes of a tree, from which `JsonMC` makes documents that must be read back as the tree.

What the reader accepts beyond JSON is written down in `JsonMC` (`Odds`): `-` for 0,
leading zeros, `1.`, a comma behind the last member of an object whose name is
empty, any token for the comma behind a comment, `1 x` although `failIfExtra`. What
it refuses: a comment in an empty array or before a colon. A comment that is attached
and does not begin with a slash (a quote that is not allowed
falls through to the case of a comment) makes `setComment` throw. What does not survive being
written and read: the type of a number, names behind a NUL with the
styled writers, a null that is alone where nulls are dropped, and whatever
follows a `//` comment where there is no indentation.


## 3. Runs

| run | instance | states | what it shows |
|---|---|---|---|
| `polite` | 2 peers, 2 requests each, all kinds of answers, `EPOLL_CTL_ADD` may fail, FIN and reset | 734 645 | `NoTouchAfterRemove`, `ArmedForQueue`, `NoLostWakeup`, `ClosedOnlyOnRequest`, `WaitsOnlyForLeavers` |
| `pipelined` | 1 peer, 3 requests without waiting, memory and file answers, buffer of 3 | 38 876 | `KeepsPromise` (refinement of `ResponseStream`), `Drains` |
| `live` | 2 peers, 1 request each, all kinds of answers, fairness | 171 714 | `Served`, `Accepted`, `DepartedAreRemoved` |
| `fd` | 2 names, 2 files, 2 objects, 2 descriptors, fairness | 348 768 | `UseCountExact`, `HandleStaysOpen`, `NoDescriptorLost`, `SizeIsOfHandle`, `SentToTheEnd` |
| `context_pieces` | 2 requests out of 11, cut anywhere, an `int` below 3 | 1 104 558 | `ExactUnlessSplit`, `WholeIsAnswered` |
| `context_values` | 1 request | - | a counterexample to `HeaderValueWhole` |
| `resource_cache` | 3 ticks, 3 contents | 17 165 | `NeverStampedTooLate`, `StaleOnlyWithinTick` |
| `answers` | 3 paths, up to 2 of 4 routes, 2 changes a call, files of 0-3 units | 5 297 355 | `NotFoundHasReason`, `ServedWasThere`, `LargeIsNotCopied`, `ContentWasThere` |
| `response_built` | 3 contents, 3 edits | 184 812 | `LengthIsBody`, `ContentIsSent`, `KeptAsAnnounced` |
| `parser` | 743 streams, 2 cuts and 1 pause anywhere, headers of at most 110 bytes, 8-bit lengths | 557 633 | `AnnouncedAsSent`, `HeaderIsCounted`, `AssertsHold`, `AcceptedUrlIsSplit`, `Finishes` |
| `json` | 7 943 documents | 65 742 | `AcceptedAsMeant`, `ReadAsMeant`, `OffsetsNest`, `CommentsKept`, `Finishes` |
| `server` | 2 objects, 2 implementations, 2 sockets, a port and a privileged one, another process | 968 107 | `ListensWhereAsked`, `ListenersAreOwned`, `StartedServersListen`, `FreezeIsHeard` |

**Bounds.** The send buffer (`Room`) is smaller than the largest answer, so every
run has partial sends and full sockets. Two connections are enough for one
channel's handling to fall between another's, for several events in one
batch and for several accepts in one event; three requests in a row give a queue
with an answer being sent, one waiting and one arriving. Two descriptors for two
objects make numbers be reused at once; two names on two files make shared,
renamed and resized descriptors. Three ticks and contents are a stale entry, its
successor and a write during the read. `MaxRequests`, `MaxLeaks`, `MaxLen`,
`MaxTime` and `MaxVersion` bound counters that have no bound in the code, and so
do `MaxRoutes`, `MaxChanges` and `MaxEdits`. Two changes during a call let the path lead
elsewhere and back; three edits let a response be compressed, replaced, and
replaced or relabelled again. File sizes lie below, at and beyond a
page (1) and reach the limit for pictures (3). `HTTP_MAX_HEADER_SIZE` and
`ULLONG_MAX` are narrowed so that streams of a few characters lie at both sides of them, and
the widths of JSON's integers (4, 7 and 8 bits) likewise; the code takes them from
`parser.h` and the compiler and treats them alike. `IntRange` is 3, so a length of 2 fits an `int`, 3 is negative as one and 6 is 0, with bodies small enough to be cut
everywhere. Two cuts and a pause make a
piece that begins and ends inside one text. Words of up to three tokens, alone and
behind `[`, `{` and `{"a":`, have every token behind every state of the JSON reader.
Two implementations and two sockets are a server and one that takes its place, or a
socket lost and the one made instead. The
scheduler's and the request context's runs do not check deadlock: once all
requests are sent and answered, or every peer has gone, the system rightly rests.
Nor do those of `Dispatcher`, `Response`, the parser and the JSON reader: the process
may end, a response is sent once, and a stream or a document comes to its end. In
`Server` and `FileDescriptorCache` objects, sockets and leaks run out.

**Symmetry** is used in `polite` only, over the connections: its properties are safety.

**Fairness.** `WF(Loop)`: the process is scheduled, and `server::run` calls
`scheduler::run` for ever (`epoll_wait` returns after 1000 ms at the latest, so
the loop never sleeps past something that is ready). `WF(Receive)`: TCP delivers to
a peer that stays, which takes it. `WF(Complete)`, `WF(JoinOne)`: the threads of
handlers finish. In `FileDescriptorCache`, `WF` of the constructor's second half,
and `SF(Send)` of each object: whenever the socket has room again the loop
writes (this is what `Served` and `Drains` show), so a send that is possible again
and again happens, although a resize may make it impossible in between. In `Server`,
`WF` of the steps of `init()` and `run()` that the thread is in: a system call and
a pass of the loop return. In `HttpParser` and `JsonReader`, `WF(Next)`: the
embedder goes on until the stream has ended, and `parse` is one call.
Nothing is assumed of peers' requests or of other processes.

### What the runs say about the code

* `context_values` finds that a field's value keeps its first piece when a read
  ends inside it: a Content-Length of 13 read as 1 makes the request complete after
  one unit of body.

More disagreements, read off the code and not worth a run:

* `remove` destroys a channel's queue with its futures, and the destructor of a future of
  `std::async`, the kind `test/test.cpp:62` returns, waits for its thread, and the
  loop with it; README.md:15 promises that other clients do not wait.
  `WaitsOnlyForLeavers` says that this happens only for a peer that has left.
* A response never carries the configured max-age (`misc/settings.h:31`,
  `test/test.cpp:33`). `init` (`http/response.cpp:165`) asks `get(..., true)` for the
  request's fields, and `get` then looks among the response's own. The same call never finds the
  request's Connection, so every answer says `Close` unless a handler sets the
  field. The scheduler's runs have file answers that keep the connection all the same: a
handler that sets the field has them, and they are the harder case.
* `run` reads and answers a request while an earlier answer is scheduled, which
  `doc/io_sched_algorithm.txt:27` rules out (the answers still leave in order, see
  `KeepsPromise`).
* Nothing reads `allow_directory_listing` (`misc/settings.h:32`): a directory is
  listed whatever it says.

Restrictions that are in the properties because the code needs them:

* `NoTouchAfterRemove` holds for peers that await their answers (`Polite`). A peer
  that pipelines can get an event for reading and writing together, whose read
  half drains the queue and closes: `run` then goes on to write through a
  freed channel. `pipelined` contains such behaviours (see `touched` in `Drains`).
* `Accepted` needs as many descriptors as peers. With fewer, `accept` fails, and
  the edge-triggered acceptor only tries again when another peer connects.
* `DepartedAreRemoved` needs `EPOLL_CTL_ADD` to succeed: a failure is ignored and
  leaves a channel that epoll never reports.
* `ClosedOnlyOnRequest` excepts asynchronous answers, whose wish to keep the
  connection is ignored, and files that could not be sent, in the step that finds it out (`FileUnsent`):
  the connection is then closed within the answer. `KeepsPromise` allows the same.
* `WaitsOnlyForLeavers` excepts peers that pipeline an asynchronous answer behind a file
  which then fails: the channel goes with the future that is queued, although the peer stays. It does not happen to
  peers that await their answers.
* `ExactUnlessSplit` holds up to the first request whose head was parsed before it
  was whole, whose body was parsed twice, whose method is unknown, or which has a body that
  its method cannot have or that `is_complete` finds no length of: one in chunks, one whose field is spelled
  otherwise, or one longer than an `int` holds. Beyond it, bytes of one request end up in another.
* `WholeIsAnswered`, that a whole request gets an answer, is true of all of these
  but the last: for a length that `atoi` makes negative the server waits for ever.
* `UseCountExact` counts the uses lost to constructors that throw after `aquire`:
  such a descriptor stays open for ever. So it finds a wrong count, and not this loss.
* `SizeIsOfHandle` excepts names that were given to another file while the old one
  is cached: the old content is then sent with the new file's size.
* `SentToTheEnd` excepts files that were empty when their size was read or have been
  cut short: `sendfile` writes 0, which the loop takes for a full socket, and
  the transfer never ends.
* The memory cache notices only larger times: two writes in a tick of the
  file system's clock, and files made older (renamed, copied with their time), are
  served stale, and an empty content may be served at any time, because a file that could not be
  read, or not be found any more, is cached as one. `StaleOnlyWithinTick` says that nothing else is stale.
* `NotFoundHasReason` accepts an empty file, one that the memory cache held empty,
  what could not be opened, and a path whose kind changed during the call: all of them are answered 404.
  `ContentWasThere` accepts what the cache held when the call began, stale or not.
* `ContentIsSent` excepts three things. A response that was compressed and is
  assigned another body keeps its Content-Encoding and is not compressed
  again: a text goes out plain under it, a resource goes out empty.
  Setters change the body, or a field about it, without measuring it. A body that is short or does not
  compress (`Tight`), for a peer that accepts
  gzip only, is cut, because the output buffer has `compressBound` bytes.
* `LengthIsBody` is about the body that was measured: the octets of `make_ending` follow it, uncounted.
* `KeptAsAnnounced`: an awaited answer may announce a connection that is kept, and its
  item does not carry that wish.
* `ListensWhereAsked` excepts ports the process may not bind: `bind` passes over
  every error but EADDRINUSE, and `listen` then takes a port of the kernel's choice.
* `ListenersAreOwned` speaks of ports that were asked for. A second `init()` of a server
  on a port of the kernel's choice leaves the first acceptor listening there; on a
  port that was bound it fails, because the server's own acceptor has it.
* `StartedServersListen` speaks of a server that an object still has: one that is moved over goes on listening
  with nobody to stop it (`ListenersAreOwned` counts it as allocated).
* `FreezeIsHeard` speaks of a loop that has begun: `run` forgets an earlier `freeze`.
* `HeaderIsCounted` excepts characters that the code counts twice (`extra`), so a
  header may be refused a few characters early, depending on how it was cut.
* `CommentsKept` excepts a comment whose place a later one on the same line takes.
* A path that may not be looked at, and a file response returned by a handler,
  make an exception leave a `noexcept` function: `terminated` in both modules.
* When a drained keep-alive connection deletes its context, a request that was
  partly read goes with it, and so does whatever one read has beyond
  a complete request.


## 4. Proofs

`tlapm` checks every step. The theorems hold for any number of connections,
peers' requests, buffers, files, names, descriptors, ticks, routes, cuts and contents.
They assume only the named assumptions of the modules: that the sets of connections and of
objects are finite, that a stream has a type `http_parser_init` takes and a length, that
`Acceptor`, `NoChan` and `Missing` are not among what they are told from, that bounds are
natural numbers (and a connection has at least one request), of `Responses` that an async
buffer comes alone (`pass_request` is its only source), and of `Requests` that more digits write
no smaller number, that a length that is written is the body's, and that no chunked body has one.

* **`TypeCorrect`** (`IoSchedulerProofs`): `Spec => []TypeOK`. Lemmas about the queue's
  operators come first; each handler has a step.
* **`ArmedCorrect`**: `Spec => []ArmedForQueue`. This is not inductive: inside a
  handler `flags`, `mask` and `queue` disagree. `LoopInv` adds what is true there:
  a channel being written to is open (`WriterOpen`); one that is not open has
  no flags, mask or queue (`Closed`); an open one has its flags in the kernel
  or is about to (`Armed`, by `cur` and `pc`). `HandleLocal` shows that handling
  one channel leaves the others alone, so each handler is checked for its own
  channel only (`HandleOwn`).
* **`WakeupCorrect`** (`IoSchedulerProofs`): `NoLostWakeup` alone is not inductive,
  because `run` handles the read half of an event before the write half. `Awake` says of
  every open channel that `process_write` does not hold that all that epoll
  would report of it is in the events still to be handled, or it is on the ready list. The
  read half clears what it read and may leave the rest because an event of a peer that is
  gone is one for termination (`ReadPartWakes`, which rests on `LoopInv`); every way
  out of `process_write` updates epoll or removes the channel; and room is an edge only
  for a full send buffer, so none may be fuller than full (`Fits`).
* **`WaitsCorrect`, `ClosedCorrect`** (`IoSchedulerProofs`), action properties, on top of
  `WakeInv`. `Reasoned`: an event still to be handled has a reason that lasts, so a
  read event with nothing to read is one of a peer that is gone. `Wishes`: what is queued
  was answered, and the queue's wish is the last answer's unless that one was asynchronous.
  Then only two of the ways to remove a channel concern a peer that stays (`RemovedWhileUp`): the drain
  of its queue, which takes no future along (`DrainWaitsForNothing`), and a file at its front that
  fails. Nothing is queued behind that file if peers await their answers, because then an
  asynchronous answer is alone in its queue (`Origin`).
* **`NoTouchCorrect`** (`IoSchedulerProofs`, for `Polite`): the argument is that a
  peer that awaits its answer has sent nothing more, so an event for reading and
  writing is also one for termination, and then `run` does neither. `Quiescent`
  makes it inductive; it rests on `LoopInv`, because epoll reports writing only to
  a channel with something queued.
* **`StreamCorrect`** (`IoSchedulerProofs`, for `InTurn`): `Spec => KeepsPromise`, the
  refinement. `StreamInv` adds to what is known of the loop that a complete request which is
  still unread is one without an answer (`Counted`), so a polite peer's queue is empty when its
  answer is put there, and any other's is appended to with `put_back` (`EnqueueUnits`). The lemmas
  on `Units` say how the flattened queue moves when a buffer is put back, replaced,
  partly sent or removed; they are proved by induction over the queue's length
  (`NaturalInduction`). `SourceInv` adds that a file in the queue belongs to an answer that has
  a file, so that one which fails is a close `ResponseStream` allows (`Origin`). Then each action of the
  loop is an answer, a hand-over of
  some leading units, a close or a stutter of `ResponseStream`, for its connection,
  and no step of the others.
* **`ExactCorrect`, `WholeCorrect`, `TypeCorrect`** (`RequestContextProofs`), from
  `ContextInv`: as long as all that was answered is what was sent, the buffer, the wire and
  what the peer still has to send are together the tokens of its newest request
  (`UnderWay`), or nothing is under way (`Idle`). What a context that waits has read
  (`Reading`) is then known from the length of its buffer: its Content-Length is never more
  than the real one, because a cut-off number is smaller, and its body, once all has been read, is at least
  the whole one, because a repeated parse appends it again. A context waits only if some
  value its method may have has it wait (`Waits`). So a request whose length an `int` holds (`AtoiFits`) is
  complete for the code no later than it is in fact (`WholeCorrect`), and if its head and body were
  parsed once, its method is known and its length is found, no earlier (`ExactCorrect`). What a parse selects from a buffer
  (`OfKind`) is a recursive function; its lemmas are inductions over the buffer.
* **`NotFoundCorrect`, `ServedCorrect`, `CopiedCorrect`, `ContentCorrect`, `TypeCorrect`**
  (`DispatcherProofs`), from `DispatchInv`: the history of the call contains what the path
  leads to now, and the cache is as it was when the call began until the call reads it
  (`Noted`); and the question that is asked next rests on answers that were true when
  they were given (`Grounds`), although the path may lead elsewhere by now.
* **`UseCountCorrect`, `HandleCorrect`, `NoDescriptorLostCorrect`**
  (`CacheProofs`), from one invariant `CacheInv`: counts are
  cardinalities of sets of users plus leaks (`Counted`), an entry's handle is
  an open file and no other entry's (`Owned`, which is why releasing by number finds the
  right entry), and an object's descriptor is its path's (`Backed`). The
  lemmas on `Users` say how its cardinality moves when an object comes or goes.
* **`SizeCorrect`** (the same module): the constructor takes the descriptor from the
  cache and the size from the name, so what must hold between them is that a cached
  descriptor is open on the file its name leads to, unless the name was given to
  another file meanwhile (`Current`). `SizeInv` adds this to `CacheInv`.
* **`StampCorrect`, `StaleCorrect`** (the same module, about `ResourceCache`, whose specification
  has names of its own for that: `MemorySpec`), from `MemoryInv`: stamps grow
  with contents while nothing is backdated, the file is the last content written, and the
  time a resource was given is no newer than what the file holds when it is read
  (`SeenIsOld`, where the order of the two questions in `resource::resource` matters).

* **`ListensCorrect`, `OwnedCorrect`, `StartedCorrect`** (`ServerProofs`), from
  `ServerInv`: an implementation belongs to at most one object and is allocated as long as one has it
  (`ObjectsOwn`, which rests on `Moved` taking it from the object it was moved from); the call the thread
  is in works on an
  implementation and a socket that nobody else has (`CallKnown`), which
  holds only because the thread that deletes and moves is the one in `init()`;
  the acceptor of a scheduler listens on the port of its implementation, or on one
  of the kernel's choice, or was closed with it (`AcceptorsListen`); and no two schedulers have one
  acceptor (`AcceptorsDiffer`), so what is closed when one server is destroyed is no other's.
* **`LengthCorrect`, `ContentCorrect`, `KeptCorrect`** (`ResponseProofs`), from
  `ResponseInv`: until a setter changes the body or the field, the length in the response is that of the body
  as `body()` picks it; and until that or a replaced body, the body is what was meant in
  the coding announced (`Faithful`), and what no compression has touched is plain
  (`Untouched`), which is what lets the next assignment compress what it puts in.
* **`CountedCorrect`, `AssertsCorrect`, `TypeCorrect`** (`HttpParserProofs`), for any
  streams, limits, cuts and pauses, from `ParserInv`. `HeaderIsCounted` is nearly inductive
  (`Counts`), but which position has been counted depends on the loop that is running, so
  `Placed` ties the loops to the states; it also gives that nothing is wrong within a call.
  `Sound` says of each state what the assertions of a later one rest on: a chunk's
  size is below `ULLONG_MAX` because `TooLong` refuses the digit before the sum would
  wrap, a body that is left has a length that is neither 0 nor unknown, the chunk states
  are reached of chunked messages only, and the header state in a value is one that the loop over
  values knows. `MarksFit` says that only the text a state reads is marked, so no more
  than one is where a piece ends. Each of the actions has a lemma; most are one of a few
  ways to end a step (`Behind`, `Failed`, `Arrived`, `Stopped`).
* **`SplitsWhole`** (`HttpParserProofs`), for every URL shorter than `FieldRange`, whatever its
  characters: if `http_parser_parse_url` accepts it, no character belongs to two fields,
  and only delimiters belong to none. The fields tile what was read (`Whole`), which each character keeps
  because a field that goes on ends where reading stands (`ScanInv`, `HostInv`), and one that begins was
  not there before: `UrlMet` and `HostMet` say which fields may have been met in
  each state, and neither automaton comes back to a field it left (an address keeps its
  zone, and HOST is emptied before it is read a second time). The host is cut into USERINFO, HOST and
  PORT within the authority, so the fields around it are not touched.
* **`UrlCorrect`** (`HttpParserProofs`): `Spec => []AcceptedUrlIsSplit`, for any streams of
  characters, limits, cuts and pauses, from `UrlInv` and `ParserInv`. `SplitsWhole` says what an accepted split
  is; what is left is that a path is accepted once `http_parser_execute` took it. `ReadInv`: inside
  a target the parser's state is where `parse_url_char` comes to over what callbacks were
  given of it and what was read since (`Target`), although the text is announced in pieces, at every
  cut, and a pause may come between; behind it, what was announced does not lead to
  `s_dead` (`HeardInv`). A path meets neither a schema nor a host (`PathIsSplit`), so none of
  the checks behind the loop refuses it. The actions outside of a target keep this because they are
  `Ordinary` or `Failing`. Its one hypothesis is that a stream's text is a sequence of
  characters, which TLC cannot evaluate of a string as an assumption.
* **`DepthIsBounded`, `RefusalsAreReported`** (`JsonReaderProofs`), for any documents,
  features and limits, with the tokens, numbers and comments left unexpanded: the
  argument does not depend on them. `Nesting` keeps the number of open calls at most
  the depth counted, with one more in `readValue`; an error leaves the depth too high, never
  too low, so the bound holds and the limit is met early at worst. `Reporting` says that
  from the first error on the reader recovers or returns a failure until the end, so
  `parse` returns false if and only if there is an error to show.
* **`OffsetsCorrect`** (`JsonReaderProofs`): `Spec => []OffsetsNest`, for any documents,
  features and limits, from `LaidInv`. The token that was read is where the text says,
  begins behind what was read before, and has neither a space nor a punctuation character
  at its ends unless it is one (`TokenAt`; its automata are followed for that
  much). The tree has the containers of each of its values (`Placing`), and of a value it
  is known whether it is being read, is about to be or is done (`Reading`, `Waiting`, `Done`):
  one being read starts before all it contains and has no end yet, one that is done
  has both, and all that is done ends before `current`. So a value read next is behind its
  siblings, and the bracket that closes a container is behind its members.
* **`CommentsCorrect`** (`JsonReaderProofs`): `Spec => []CommentsKept`, from `CollectedInv`,
  which rests on `LaidInv`. Every comment that was collected is in the tree, or a later one
  took its place, or it is a part of the text that waits for the next value (`Noted`).
  The text that waits replaces the comment before the value that is read next, so that
  value must be new: nothing is in it and no comment is before it (`Fresh`). For the
  elements of an array that follows from their being counted (`Counted`); for a member it is
  what `replaced` excludes. `setComment` drops a line end behind a comment and
  `normalizeEOL` unifies those inside it, and neither takes a part that was collected away.

What stays with TLC: liveness (`Served`, `Accepted`, `DepartedAreRemoved`, `Drains`,
`SentToTheEnd`, `FreezeIsHeard`, `Finishes`) and all that rests on fairness; and what the
parser and the JSON reader make of characters (`AnnouncedAsSent`; the
first half of `AcceptedAsMeant`, `ReadAsMeant`). These compare with a meaning and are
stated over the documents and streams of `JsonMC` and `HttpParserMC`, which are finite
families made for checking. Induction over data is done where
it is needed over sets of naturals (`NaturalInduction`, from the well-foundedness of
`Nat`), because the library's induction theorems take an operator, which the provers cannot instantiate.
`TypeOK` of a module that no theorem is about is checked with its first run while a module is
being changed, not by a run of its own.


## 5. Not modelled, and the plan

Abstracted: bytes outside the parsers (units and tokens stand for them), header
wording, MIME types, logging. A read that drains the socket is one step. A close with
unread data may be turned into a reset by the kernel, and the peer may then lose
what it had not yet received; the model keeps it. Write accesses of `freeze` from
another thread are atomic, which the code does not ask for.

Left out for good:

* of jsoncpp: the conversions and editing of `Value` (`asInt`, `resize`, `removeMember`,
  `Path`), which only the program that uses it calls; `StyledStreamWriter`, which lays out
  as `StyledWriter`; and `Reader`, of which `OurReader` is the successor;
* `misc/string_util.*`: pure functions without state or failure that others depend on;
* `misc/date.h`, `misc/debug.h`: wrappers of the C library;
* the generated MIME table, the HTML of directory listings, and zlib;
* `io/schedulers/resolution.*` and `file_container.*`, which nothing uses;
* `mmap`'s offset in `io/buffers/utils.cpp:40`, which must be a multiple of the page size
  and is not made one: it is other than 0 only when a file system refuses `sendfile`
  after a part was sent, and none does.

What would come next, in order: `RequestContext` and `Dispatcher` composed with
`IoScheduler`, for the request that a drained connection drops and for what pipelined
requests become; and for the parser, what `AnnouncedAsSent` compares with streams made of parts, as
an invariant over any stream.
