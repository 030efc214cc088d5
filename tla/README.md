# A verification of webserv

webserv is an HTTP/1.1 server in C++98: one process, one thread, one event loop
over `select`, `poll` or `epoll`, and CGI scripts run as child processes. This
directory holds a TLA+ model of it, the TLC configurations that check the model,
and TLAPS proofs. Paths below are relative to the repository's root; the program
is under `src/`.

## Inventory

| part | state | operations | interacts with |
|---|---|---|---|
| `ServerCluster` | `clients_` (descriptor → session), `sockets_`, `run_` | `Run`, `CheckClients_`, `KillAllClients_`, accept callback, `StopHandler` | everything below |
| `EventManager` + multiplexers | `rd_sockets_`, `wr_sockets_`, `fds_to_delete_`, epoll's interest list | `TryRegisterCallback`, `DeleteCallback`, `CheckOnce` | calls the callbacks of sessions, CGI processors, listeners |
| `ChildProcessesManager` | `child_processes_` (pid → deadline, exit callback) | `TryRunChildProcess`, `KillChildProcess`, `CheckOnce` | calls `CGIProcessor::ChildProcessDoneCb` |
| `ClientSession` | `session_state_`, `connection_closed_`, `last_activity_time_`, builder, `response_processor_` | `ProcessNewData`, `PrepareResponse`, `OnReadyToSendToClientCb::Call`, `ResponseSentCleanup` | request builder, server, event manager |
| `CGIProcessor` | `state_`, `child_process_description_`, output buffer | constructor, output and exit callbacks, destructor | event manager, child manager, session |
| `RequestBuilder` / `RequestParser` | builder state, buffer and read position, request under construction | `Build`, `Reset`, one function per state | session |
| `RqTarget`, `SyntaxChecker`, `http` | none | parse, validate, percent-decode, normalise | request builder |
| `Server`, `Location` | configuration | choose a location, choose a processor | session |
| `FileProcessor`, `DirectoryProcessor`, `RedirectProcessor`, `ErrorProcessor` | the file system | GET, POST, DELETE; listing; redirect; error page | session |
| `SendPackage` (strings, files) | position in the data, chunk buffer | `AddData`, `AllDataSent`, `PrepareNextChunk` | session |
| `cgi`, `Response` | none | parse a script's output, put a response on the connection | CGI processor, session |
| `ParsedConfig` and the builders | parsed configuration | blocks and settings of a file; refusal, nesting and inheritance | start-up |

What is hard here: callbacks hold references to objects that other callbacks
destroy; they are deleted one round late while descriptors are reused at once; a
batch of events was decided before its first handler ran; a CGI answer needs two
notifications that come in either order, race a deadline, an idle timeout and a
client that leaves; an epoll descriptor has a single interest that two users
overwrite; the request builder must give the same result however the bytes are
cut into receives; `bad_alloc` may leave the loop anywhere; a target, a file of
settings or a script's output is taken apart at one place and put together at
another, and what follows (a redirect's target, the next response of the
connection, the server that wins) depends on both agreeing. `PROJECT.json` lists
each hazard with its line and the properties that would catch it.

## Modules

| module | models |
|---|---|
| `EventManager` | the two callback tables, delayed deletion, epoll's interest, what is watched, the dispatch order of the three multiplexers |
| `ChildProcessesManager` | the table of children with deadlines, kill and waitpid, and the processes themselves |
| `ServerCluster` | the whole running server: `Run`'s loop, the handlers of sessions and CGI processors, clients, time and SIGINT; states the properties and the refinement |
| `HttpService` | the abstract service: sessions that take a request, work, answer and end |
| `ServerCluster_proofs` | the inductive invariant `IInv`, type correctness, `NoDanglingCallback`; a script's life from fork to reaping: `CgiInv` and the theorems about children |
| `Descriptors_proofs` | descriptors, registrations and deletions: `DescriptorsInv` and its theorems; that without faults no session is given up without a reason; and that the cluster implements `HttpService` |
| `MCServerCluster` | the symmetry used by the runs |
| `RequestBuilder` | `RequestBuilder` and `RequestParser` as `ClientSession` drives them over one connection; states the reference a request is judged by |
| `RequestBuilder_proofs` | its type, the limit on bodies, and that `Build()` gets on |
| `Lists_proofs` | facts about sequences those proofs need: least elements, pieces of a flattened sequence, what a fold leaves, heads and ends |
| `Answers_proofs` | the answers: the inductive invariant `InPlace` and its three theorems |
| `MCRequestBuilder` | the requests the clients of the runs send |
| `MCAnswers` | the same, with what the theorems about the answers ask of them, for the run `requests` |
| `Uploads` | several sessions on one file system: uploads, downloads in chunks, deletions |
| `Uploads_proofs` | the inductive invariant and the theorems about it |
| `RqTarget` | request targets: parsing, validation, normalisation, percent encoding, and the redirect a directory sends |
| `Configuration` | `ParsedConfig` reading a file line by line, and the builders of its four levels with what each refuses and inherits |
| `CgiMessages` | what scripts write, `ParseCgiResponse`, `Response::Dump`, and a client that reads the connection back |
| `Texts_proofs` | targets: where a path leads through decoding, collapsing of slashes and removal of dots; absolute form. Configuration: the locations built are those the file opens, in its order |
| `MCTexts` | the three together, with the pieces their texts are made of |
| `Sites` | the choice of server, location, path and processor, every answer of the processors, and a client that follows what it is sent |
| `Sites_proofs` | where a request goes: the server, the location, the types of everything on the way; that its answer lies in its directory; which script is run |
| `MCSites` | the configurations, files and requests of its run |

`ServerCluster` and `RequestBuilder` meet in `ClientSession::ProcessNewData`: the
first takes what a receive means to the builder (a complete request or not) as a
choice, the second is that choice, with the rest of the server reduced to "the
response has been sent". `Uploads` takes the same session from the side of the
files: of the builder it keeps the body's stream and path, of the response the file
that is sent, and lets several sessions meet on one path.

### How state and actions correspond to the code

A callback object is nothing but a reference to the object it serves, so the
tables `rd` and `wr` hold that referent: a client (its `ClientSession`), a child
(the `CGIProcessor` that runs it) or the listener. `toDel` is `fds_to_delete_`;
`ep` is the kernel's interest list, used by epoll only; `ready` is the batch the
multiplexer returned and has not dispatched yet. `FlushDeletions` is the first
half of `EventManager::CheckOnce_`, `RegisterRead`/`RegisterWrite` are
`TryRegisterCallback` for the two types, refused when the slot is taken or when
`"register" \in Faults` (a failing `epoll_ctl`).

`child`, `hold` and `data` are the operating system's side of a script: the state
of the process, whether anybody still holds the writing end of its socket pair
(a grandchild may), and whether unread output is there. `kids`/`kage` are
`child_processes_` with the time since registration, `todo` and `reapedNow` the
iteration and the local vector of `CheckOnce_`.

`phase` is the place in `ServerCluster::Run`: `flush` → `poll` → `dispatch` →
`kill` → `wait` → `clients` → `flush`. Each handler is one action (`AcceptCb`,
`RecvCb`, `SendCb`, `CgiReadCb`, and `ChildDoneCb` inside `WaitLoop`) because one
thread runs it to its end; the world (`Connect`, `ClientSends`, `ClientCloses`,
`ProcessStep`, `Tick`, `SigInt`) acts between any two of them. `CheckClients` does
the loop's third part as a whole, with the destructors it runs: a processor's
destructor deletes its callbacks only if `child_process_description_` is set, and
kills the child.

Abstractions: a receive yields one segment, and whether it completes a request,
and whether the request is answered at once or runs a script, is a choice (the
request builder and the routing decide it); a response is 1..`MaxUnits` units,
each write passes some of them; ages are counted in clock units with the idle
limit `KeepAlive` and the script deadline `CgiTimeout`. The order in which the
waitpid loop visits children, and epoll reports descriptors, is arbitrary.

Bounds: each client connects once and sends at most `MaxSegs` segments; process
ids are not handed out twice; `EPOLL_MAX_EVENTS` and `FD_SETSIZE` are not
reached; `bad_alloc` strikes between handlers, not inside one.

### The request builder

A symbol is one byte, or the word at the head of a line that gives the line its
meaning: `GET`, `POST`, `POSTcgi` (a POST to a location that is not a static path),
`FOO` (no method), `LONG` (a target over its limit); `host`, `cl1`, `chunked`, `bad`
(a field whose name is no token). CR, LF, NUL, the digits of a chunk size and any
other byte (`x`) are symbols of their own, so a cut may fall between any two bytes
that the parser tells apart. `script` is what the client sends, a sequence of
requests; `Receive` hands over any non-empty piece of what it may have sent by now
and starts `Build()`, whose loop is one action per state function; `LeaveBuild` is
the loop's exit. `buf` and `pos` are `buf_` and `element_end_idx_`; `rq.body` is
what has been written to `body_stream`; `bb` is `BodyBuilder`. `ResponseSent` is
`ResponseSentCleanup` with `RequestBuilder::Reset`; `uploaded` says that the file
of the upload location exists, which it does not at first.

`Reference` says what a request deserves, read off it as a whole: a list of checks
in the order of the documentation of the limits, the first that fails gives the
status. It knows nothing of buffers, positions and states.

Integers keep their width: `AsInt` and `AsSize` are the conversions between
`unsigned int`, `int` and `size_t`, with `IntRange` and `SizeRange` values; the sum
of chunk sizes wraps. The limit of a CGI request is read uninitialised
(`HeadersValidationResult`), so `MaxBodySizes` is every value an `int` may hold.

Three switches describe the client and the system: `FinalLine` (a chunked body ends
with an empty line, as RFC 9112 says), `SplitChunkEnds` (a receive may end inside
the CRLF after a chunk) and `FilesFail` (the file of a body cannot be opened).
The first two are off in the passing runs because each of them is a finding. With
the third, an upload is answered 500, but the body of a script's request ends the
server (`TmpFileFails`, `ended`): the name of its temporary file is logged before it
is checked, an unset `maybe` throws, and only `main` catches. `AnswersAreRight` says
that nothing else ends the server, and `CompleteRequestIsAnswered` that a complete
request is answered or was this one.

Left out: the text of targets, versions and header values (`RqTarget`,
`SyntaxChecker`), methods the location forbids, and two pieces of dead code
(`Build` without data, `TryToExtractBodyContent_`). What a refused request leaves
in the builder is not modelled: its session is closed with it.

### Files

A path names a file, and a session that has a file open keeps it when the name is
gone: `dir` is the directory, a file is the number of the request that created it,
`data` how much of it has reached the disk, `whole` that its upload was completed.
`path`, `complete` and `out` are `rq_.body.path`, `transfer_complete` and the file
of `body_stream`; `pending` is what the stream has buffered. `PostBegins` is
`PrepareBody_`, `BodyEnds` the end of the body together with
`FileProcessor::ProcessPost_` (one call of the receive callback), `Destroyed` the
destructor of the session with `~BodyStorage`, and `Finish` is
`ResponseSentCleanup` with `Reset`; after an error response, which carries
`Connection: Close`, it ends the session. `Send` is one call of the write callback:
`file`, `pos`, `eof`, `chunk` are the `ifstream` and chunk of `SendFilePackage`,
where the end of the file is met by the read that cannot fill the buffer.
`acked` and `spoiled` are history: what the last 201 at a path was for, and at
which paths an upload and its unfinished file lost each other (a DELETE took the
file, or the upload was refused and `Reset` forgot the path).

Left out: CGI bodies in temporary files, directories, the response's header (its
sending only delays the file), reads and removals that fail.

### Texts

`RqTarget`, `Configuration` and `CgiMessages` share no state; `MCTexts` lets one
work at a time. A word is a sequence of symbols: one for each character the code
looks for (`/`, `%`, `.`, `:`, a hexadecimal digit, a blank, CR, LF), one for a run of
characters it never looks into (`http`, `80`, `Status`).

`Target` is the constructor of `RqTarget`: `Parts` cuts off scheme, user, host, port,
path, query and fragment in the code's order, `Validate` and `Normal` follow;
`TargetCode` is the status `TrySetRqTarget_` gives. `DotStep` is one pass of the loop of
`RemoveDotSegments_`, folded as often as the path is long. The action `Redirect` is
`DirectoryProcessor`'s: the client asks for `ToStr` of the target with a slash.

`Configuration` reads a file a line at a time (`Setting`, `OpenBlock`, `CloseBlock`,
`Comment`, `OtherLine` are the branches of `ParsedConfig`'s constructor); `open` is the
chain of its recursive calls. A line is a record of its kind, key and values, the
splitting into words having been done. `EndOfFile` is `ConfigBuilder::Build`:
`ConfigOk` refuses what the builders refuse, `BuildHttp` is what they return.
`client_max_body_size` keeps its widths: `IntWidth` bits for `int` and `unsigned`,
`Shift` for KB, MB and GB, scaled down together (8 bits; 2, 4 and 6) so that 4 GB is
still the first size that wraps to 0.

`ParseCgiResponse` takes the whole output of a script; `ScriptEnds` parses it, fills in
the headers of `ServerCluster::FillResponseHeaders` and appends `Dump` to what the
connection has carried, until an answer says `Connection: Close`.

### Sites

`cluster` is a configuration as `Configuration` builds it, `listener` the address of
the client's connection and `dest` the `RequestDestination` of its session. `ReadHead`
is `ChooseServerCb::Call` with the part of `PrepareBody_` that makes the file of an
upload; `Process` is `ProcessNewData` with the processor's constructor, which in all
cases but a script gives the answer at once; `ResponseSent` is `ResponseSentCleanup`,
which keeps the server and forgets location and path. `disk` is the files and
directories, by paths relative to the working directory; `Canonical` is what the
operating system makes of repeated slashes. An answer says which file is sent, listed,
made, removed or run, or which target the client is sent to. `FollowRedirect` and
`FollowLink` are the client going on from an answer, with the link resolved against
the target it asked (RFC 3986). A host is a word of labels and dots, and one symbol
stands for a label, which is never empty.

`Symbols` is the alphabet of all words; `SitesAssumption` says of a configuration what
the builders let pass (`LocationConfigs`, `ServerNames`, `ServerConfigs`): routes are
not empty, a wildcard stands at one end of a name only and never alone, an extension is
a dot with something behind it, and a location runs scripts when the first `/cgi-bin/`
of its route ends it (`IsCgiLocation`; the targets are searched the same way).
`PathsAssumption` says that the file system names a file in one way and that what a
client types begins with a slash and has no two in a row, as `RqTarget` sees to.

Left out: files that cannot be read, an alias of `/` alone or with two slashes in front
(`UpdatePath` drops the first character and goes on from the root of the file system),
the text of pages.

## Runs

| run | asks |
|---|---|
| `cluster_epoll` | two clients, one child, three descriptors to share under epoll, and registrations, receives and sends that fail at any time: requests keep somebody who answers them, notifications are armed, stale deletions do not hit new users, CGI answers are complete, children and exit callbacks keep their processor |
| `cluster_requests` | three segments on one connection, two children, responses of up to three units, under poll: the session returns to reading after each answer; refinement of `HttpService`; a session is given up only for a reason |
| `cluster_select` | `select`'s ascending scan, and `bad_alloc` with `KillAllClients_`: no destroyed object is called and no closed descriptor is watched |
| `cluster_live` | under fairness every request ends, every script ends, SIGINT stops the loop |
| `cluster_fds` | two clients and one descriptor: the waiting client is accepted in the end |
| `requests` | every kind of request line, header section and body, at, under and over each limit, and up to three requests sent without waiting, cut anywhere: the answer and the stored body are the reference's, each request is read from where the last one ended, the limit holds, `Build()` returns, a complete request is answered or, for a script whose temporary file cannot be opened, ends the server; and for the well-written ones the inductive invariant behind the theorems about the answers |
| `uploads` | two connections upload, download and delete one path, in pieces, giving up at any time: bodies never meet in one file, what is given up is removed, what was stored stays, downloads have the length they announced and end |
| `texts` | every target of up to eight pieces is served as what its segments mean, an absolute target as its path, and a redirect (of a target whose host holds no escapes) leads to the same directory and not to a redirect; every configuration file of up to nine lines, out of four palettes, is built in its order with the settings of the innermost block, or refused; every connection of up to four writes of scripts is read by the client as it was written |
| `sites` | every three virtual servers out of nine lists of names and every three locations out of eleven, with 7 hosts and 16 targets, and one server where files are uploaded, deleted, listed and run: requests go to the best server and location, what they touch lies in the location's directory, redirects and links lead on, scripts are those named |
| `request_split`, `uploads_lost`, `site_script` | violations: see findings |

Why the bounds of the cluster runs are enough: the hazards need two users of one descriptor (two
clients, or a client and a script, with four descriptors for listener, two
sessions and one socket pair: exhaustion and reuse both happen), one deadline and
one idle timeout that can fall in the same round (both limits 1), and a batch
with a reader and a writer. Permuting clients and children is sound for the
safety runs: none of them compares two of them in an order. The liveness runs use
no symmetry.

Why the bounds of the request runs are enough: a line of at most `LineLimit` = 5
symbols, a section of 6, 3 headers, a limit of 2 on the body are each small enough
to be met exactly, missed by one and exceeded by one, and large enough to put a
CRLF into a body and a word and a wrong byte into a line. Sizes are 16 values for
`size_t` and 8 for `int`: two hexadecimal digits overflow, as seventeen do in the
program. The state kept from one request to the next shows in the second, and what
is left in the buffer in the third.

Why the bounds of `uploads` are enough: an upload meets at most one other user of
its path at a time in each of the situations the properties tell apart, so two
sessions suffice, and paths do not influence each other, so one does. Four requests
allow an upload, a DELETE, a second upload and a download or a DELETE of that. A
file of 0 to 3 bytes with chunks of 2 is shorter than a chunk, exactly one, and
longer; a body of 4 is the first that is refused.

Why the bounds of `texts` are enough: two dots, a segment, and slashes before,
between and after them need six pieces, an escape that decodes to part of another
escape three; a target over `LengthLimit` is among them. Three nested blocks and their
ends take six lines, which leaves three for settings on different levels and a
neighbour. Two answers on a connection need two writes each: headers, and a body.

Why the bounds of `sites` are enough: a better, a worse and an equal server (or
location) is all the folds of `ChooseServer` and `ChooseLocation` can meet; three
of them come in every order. Routes and aliases come with and without a slash at the
end, names as themselves, with a leading and with a trailing wildcard.

`CHECK_DEADLOCK FALSE` is set in the configurations of the requests because the client stops
sending, in those of the uploads because every request was sent, and in every configuration of the cluster because the server stops after
SIGINT and the other actors run out of steps.

Fairness (`Fairness` in `ServerCluster`): the loop goes on (`WF(LoopStep)`: one
thread, handlers that do not block, and a poll that returns within ten seconds),
time passes (`WF(Tick)`), and a process sent SIGKILL dies. For the builder
(`FairSpec`): the loop of `Build()` runs on (`WF(Build)`) and the session writes its
response (`WF(ResponseSent)`); clients may stop at any byte. For downloads, the write
callback is called (`WF(Send)`) unless the session is destroyed, which the idle
limit does to a session whose client does not read. Nothing is assumed of
clients, of scripts, or of when a client's socket can be written.

## Findings

`request_split`: when a receive ends between the CR and the LF after a chunk, one
byte is left in the buffer; `BuildBodyChunkContent_` keeps its state and does not
move `element_end_idx_`, `CanBuild_` sees a byte to read, and `Build()` loops for
ever, and with it the only thread.

`uploads_lost`: a body knows its file by path alone. When the unfinished file of one
client is deleted by a second and the path uploaded again, the first is answered 201
for the other's file when its body ends, and removes the other's file, stored or
not, when its client leaves instead.

`site_script`: the additional path of a script is put between its directory and its
name, so `/cgi-bin/script.py/additional/path`, a valid path in
`docs/cgi_documentation.md`, looks for `cgi-bin/additional/path/script.py`.

Found while modelling, without a run of their own (the properties say where they
leave them out). Of requests:

- The builder ends a chunked body at the line `0`; the empty line after it stays in the
  buffer, and the next request of the connection is answered 400 (`AnswersAreRight` is
  violated with `FinalLine = TRUE`).
- A POST with `Content-Length: 0` is complete with its headers, but the builder wants one
  more byte before it finds out (`CompleteRequestIsAnswered` is violated by a client
  that sends such a request).
- `client_max_body_size` goes through `unsigned int`, `int` and `size_t`; from 2 GB on (the
  default configuration has 3 GB) the limit is almost 2^64 (`BodyWithinLimit` is violated
  with a `BodyLimit` of three quarters of `IntRange`).
- `bad_alloc` between `waitpid` and the erase of `children_to_delete` leaves a reaped
  child in `child_processes_`: past its deadline, every round sends SIGKILL to a
  process id that may belong to somebody else. `OnlyChildrenAreKilled` holds without
  `bad_alloc` and is violated with it (`Faults = {"alloc"}`).
- The body limit of a CGI request is an uninitialised `int`
  (`HeadersValidationResult`); `RequestBuilder` takes any value for it.
- `PrepareBody_` logs the name of a temporary file (`http/RequestBuilder.cpp:345`) before
  it asks whether there is one (`:346`). `LOG` evaluates its arguments at every level,
  `*` of an unset `maybe` throws `std::runtime_error`, `ServerCluster.cpp:118` catches
  `bad_alloc` only and `main.cpp:33` everything: when the file cannot be opened (no
  descriptor is free, say) a POST to a script ends the server for all its clients, and
  the 500 of `:348` is never sent. Files of uploads are checked before they are used.
- A file that cannot be opened when its answer is sent (`ClientSession.cpp:165`; it was
  there when the answer was made) leaves a 200 with a `Content-Length` and no body, on
  a connection that stays open.
- The sum of the chunk sizes wraps in a `size_t`, and a body over the limit is
  written: a client needs a chunk size near 2^64, which `MCRequestBuilder` does not
  send; `LimitHolds` below names it as `NoChunkWraps`.
- A body refused in the middle leaves its partial file, and the temporary file of a
  CGI request's body stays for ever: `Reset` replaces the path before the
  destructor has used it.
- A file that is still being uploaded is sent to its new end, past the
  `Content-Length` that was announced.

Of targets:

- A query that contains `://` is taken for the end of a scheme and refused
  (`http/RqTarget.cpp:177`, against the comment at `RqTarget.h:15`).
- `%3F` and `%2F` are decoded (against `RqTarget.h:28`), the host is decoded and not encoded
  again by `ToStr`, and letters after a literal `%` are turned to upper case.
- The host of an absolute target does not replace the one of the header
  (`RqTarget.h:22`). A redirect of a target near 8192 bytes leads to 414.

Of scripts:

- `ExtractStatus` looks one character too far: `Status: 404 Not Found` is answered 500
  (`http/cgi/cgi.cpp:70`).
- Header names are compared with their case, so `content-length` of a script is sent
  beside the server's; lines that end in CRLF are answered 500; a wrong length a script
  announces is passed on.
- Answers without a body carry no `Content-Length` though the connection stays open.
- `IsCgiLocation` wants the slash of `/cgi-bin/`; `docs/cgi_documentation.md:39` and
  `conf/webserv_comments.conf:32` leave it out. `:60` of the same page says 403 for an
  extension that is not allowed, `:91` and the code 501.
- `CheckFileExtension` looks at the sixth character from the end before the beginning of
  a shorter name (`utils/file_utils.cpp:76`). With short strings kept inside the string
  object those are the upper bytes of its length, zeros, and never a slash, as `Sites`
  takes it.
- An allowed extension without an interpreter (`GetInterpreterByExt`) is answered 500.

Of configurations:

- `client_max_body_size 4 GB` is 0, and negative sizes are accepted
  (`LocationConfigBuilder.cpp:168`).
- `index`, `limit_except` and `cgi_extension` on two lines keep the first line, twice
  (`vals[0]` in a loop). `location = {` reads `vals[1]` of one.
- With an alias that does not end in a slash (the default is `/docs`) the root of the
  location with `autoindex` is redirected to itself for ever, and its index is looked
  for as `docsindex.html`. A subdirectory without a slash and without `autoindex` is
  answered 403 before its index is found.
- A wildcard server name replaces a better one before it (`Server.cpp:147`); a `Host` with
  a port matches no name.
- A method that is not allowed is answered 404 where the log says 405.
- A listing asked by a bare route such as `/x` has links that lead one level too high.

## Proofs

`ServerCluster_proofs` proves, for any set of clients, children and descriptors,
every multiplexer and every combination of faults (assumptions: the ones named in
the modules - distinct referents, the listener's descriptor is a descriptor,
limits are naturals):

- `TypeCorrect`: `Spec => []TypeOK`;
- `NoDanglingCallbackHolds`: `Spec => []NoDanglingCallback`;
- `Inductive`: `Spec => []IInv`, on which both rest.

`NoDanglingCallback` speaks of the moment of dispatch only and is not inductive.
`IInv` says why it holds: every registered callback either has its object or is
queued for deletion (`RdInv`, `WrInv`); the queue is empty when the batch is
formed (`PollInv`), and no handler queues the deletion of an event that is still
in the batch (`ReadyInv`) - for a session's writer because only its own handler
deletes it, for a CGI's reader because a writer of the same descriptor would
belong to a session, and no descriptor serves both (`FdsInv`). A pending response
belongs to a busy session whose processor has let its child go, so destroying the
processor after the response deletes nothing but what is already gone. `EpInv`
says epoll watches registered events only; `ConnInv`, `ProcInv` and `FreshInv` tie
sessions, processors and process ids together. There is one lemma per action and
one step per conjunct; `Answers` collects what the three events of a child's life
do to the tables.

Its second part adds `CgiInv` to `IInv`, one conjunct per process id: output noted
as read belongs to a script that cannot write any more (`OutputOver`), an exit noted
belongs to a child that was reaped with status 0 (`ExitSeen`), what the wait loop has
noted was reaped (`Noted`), a child that runs is in the table and owned (`Tracked`),
and an entry of the table that is not noted as reaped is an unreaped child with its
processor (`EntryLive`). Between two wait loops nothing is noted as reaped. From it:

- `CgiAnswerIsCompleteHolds` and `ChildrenAreTrackedHolds`, with any of the faults;
- `ChildCallbacksAreLiveHolds` and `OnlyChildrenAreKilledHolds`, under
  `"alloc" \notin Faults`: an allocation that fails in the wait loop loses what was
  noted, and the entry of a reaped child stays in the table.

`Descriptors_proofs` adds `DescriptorsInv`, for any multiplexer and any of the faults. A
number that is handed out again is the hazard: `DistinctInv` says an open descriptor has
one use, `FreeInv` that a free one has no callback and no deletion pending whenever
descriptors may be handed out (before the batch and while it is dispatched),
`DeletionInv` that no deletion waits for a reader that is needed, `BatchInv` what is still
to come in the batch, `WatchInv` and `ServedInv` what wakes a session. `FreeInv` is the
heart: sessions are destroyed only after the batch and their deletions are flushed
before the next one; inside a batch a descriptor is freed only by the end of a response,
whose write event was not in the batch that prepared it, so what its processor queued has
been flushed (`BatchInv`). From it:
`NoStaleDeletionHolds`, `WatchedFdsAreOpenHolds`, `SessionsAreWatchedHolds` and
`EveryRequestIsServedHolds`.

The module ends with `CloseIsJustifiedHolds`, `Spec => CloseIsJustified` when
`Faults = {}`. `ClosingInv` says that what was true when the batch and the wait loop were
formed is still true at their later steps: a session whose read event is in the batch can
still be read (`BatchReadable`), and a child the wait loop has yet to come to is still in
the table and not noted (`TodoTracked`). The slots a registration needs are free by
`DescriptorsInv` (`WriterSlotFree`).

Its last part proves `ImplementsServiceHolds`: `Spec => ImplementsService`. A step
of the loop moves one session, or none (`OneMoves`, `NobodyMoves`), except
`CheckClients`, which may give several up and maps to `Drop`. That an answer starts only
from a request needs `DoneInv` and `GoneInv`; that a response once begun is not replaced
needs `NotYetAnswered` and `DeletionInv`.

`RequestBuilder_proofs` proves, for any set of clients whose bytes are the module's
symbols, any limits and any widths (`LimitsAssumption`, `SwitchesAssumption`,
`ScriptsAssumption`):

- `TypeCorrect`: `Spec => []TypeOK`; the parts with content are that the builder
  never takes more of a body than is left (`MovedIsTyped`), that a line is taken
  from inside the buffer (`StopInBuffer`, `LineIsTaken`) and that a Content-Length
  is read only when it is a number (`HeadersStatusIsTyped`);
- `LimitHolds`: with `2 * BodyLimit < IntRange`,
  `Spec /\ []NoChunkWraps => []BodyWithinLimit`: the `int` of the limit and the
  wrapping sum are the only ways past the limit. `BodyWithinLimit` is not
  inductive: `LimitInv` adds what is announced of the body but not yet written, for
  each state of the builder, and that nothing is written before the headers end;
- `BuildAdvances`: each pass of the loop of `Build()` leaves it, or shortens the
  buffer, or brings the request to a later stage, or scans further into the buffer
  - a well-founded order - unless the buffer holds one symbol after the data of a
  chunk: `request_split` is the only way `Build()` can run for ever.

`Answers_proofs` proves, for any clients, limits and widths as above and every way
`recv()` may cut the bytes, the one inside the CRLF after a chunk (`SplitChunkEnds`)
and files that cannot be opened (`FilesFail`), one of which ends the server, included:

- `BuilderIsInPlace`: `Spec => []InPlaceIfWellWritten`, the inductive invariant;
- `RequestsAreFound`: `Spec => [](ClientWritesWell => RequestsStartWhereTheLastEnded)`;
- `AnswersAreDeserved`: `Spec => [](ClientWritesWell => AnswersAreRight)`, if
  `NumbersFit`: the answers are the reference's, and no request ends the server but one
  for a script whose temporary file cannot be opened.

They are about each client that writes well, whatever the others send.
`ClientWritesWell` is what makes a sequence of bytes a sequence of requests at all: no
line contains the end of a line, a field is not given twice, `Content-Length` is the
length of the body, there are chunks exactly when `Transfer-Encoding` says so, a chunk
size that is a number is the length of its data and not 0, and a chunked body ends
with the line `0` (without the empty line after it, see the findings). Everything the
server has to refuse remains possible: unknown methods, long lines, bad fields,
missing hosts, chunk sizes that are no numbers, bodies over the limit. `NumbersFit`
keeps the limit within `int` and the bodies within `size_t`; the findings say what
happens outside. `MCAnswers` states (`TheoremsApply`), and TLC evaluates, that in the run
`requests` the numbers fit and 568 of the 613 scripts are well written; the run checks
the inductive invariant, `InPlaceIfWellWritten`.

The inductive invariant is `InPlace`. The buffer is a piece of what the client sends
(`Occurs`), and starts at byte `Taken` of it; for each state of the builder a formula
(`LinePlace`, `HeaderPlace`, `AfterPlace`, `RegularPlace`, `ChunkSizePlace`,
`ChunkContentPlace`, `EndPlace`) says which byte of the current request that is, what
has been put into `rq` of the part before it, and that the checks of the reference on
that part did not fail; `Scanned` says that no line ends in what has been scanned, so
that the scan may resume in the middle. `RightStatus` says the first check that fails
is the reference's. The argument goes along the stream: where the current request ends
the next begins, and the wire of a request is its line, headers and body one after the
other (`FlattenSeq` unfolded a piece at a time). Where a fact has to be proved for all
prefixes of a sequence, it is proved by taking the least number at which it fails
(`Lists_proofs`), since the library's induction theorems cannot be used.

`Uploads_proofs` proves, for any sessions and paths, any limit, chunk size and number
of requests (`LimitsAssumption`, `NoneAssumption`):

- `TypeCorrect`, `WritersApart`, `NothingIsLeftBehind`, `StoredFilesAreKept`: the four
  invariants of the run `uploads`, from `Inductive`: `Spec => []IInv`. None of them is
  inductive alone. `Phases` says when a session has a stream and a path and that its
  file is then unfinished, `PathsLead` that the path still names the stream's file
  unless it is spoiled (so what the destructor removes is the session's own),
  `FilesKnown` that a new file is nobody's, `BodiesInLimit` and `ReadersInside` bound
  what is written and read;
- `DownloadsAreWhole`: `Spec => UnchangedFilesAreSentAsAnnounced`, an action property.
  `DownloadsExact` says that what was sent and what is left of the chunk is what was
  read, and that the end of the file is not met before the announced length; a step
  that ends the response then has read no more than the file's length and no less
  than what was announced.

`Sites_proofs` proves, for any alphabet, file system and requests and any
configurations the builders let pass (`SitesAssumption`, and for the last theorem
`PathsAssumption`):

- `TypeCorrect`: `Spec => []TypeOK`;
- `RequestsGoWhereTheyBelong`: `Spec => []RequestsGoToTheirSite`;
- `NothingOutsideIsServed`: `Spec => []ServedIsInside`;
- `PlainScriptsAreRunHolds`: `Spec => []PlainScriptsAreRun`;
- `LinksLeadOnHolds`: `Spec => LinksLeadOn`, an action property.

`MatchHostName`, `ChooseServer` and `ChooseLocation` fold over a list with what they
have seen so far. `FoldExists` (from `Lists_proofs`) gives the sequence of values such
a fold runs through, and three invariants are carried along it, again by the least
place at which one fails: the name held is `NameAmong` those passed, fits and is
the last that does (or the exact one); the server held is `ServerAmong` those passed
with the best of their names, and the first of equals; the location held is
`FoundAmong`, exact before prefix and longer before shorter. `WorthIs` equates the
comparisons of the code (`compare` from an offset, lengths) with `Worth`, which splits
the host. The invariant of the state machine is `Placement`, `TypeOK` with the property
itself: it is inductive because `ReadHead` is the only step to `read` besides `Refused`.

For `ServedIsInside` a word is taken one symbol after the other (`WordsInduction`, the
induction of `Lists_proofs` over its beginnings): `CanonicalUnfolds` says what one more
symbol does, `CanonicalBelow` that `u/r` is, canonically, the directory `u`, a slash and
something, `CanonicalSettles` that canonical words stay as they are (the path of a
script is made canonical twice). `PathIsPlaced`, that a request which may be answered
has the path its target is mapped to, is the invariant; the rest is one lemma for each
processor.

`PlainScriptsAreRun` needs no invariant of its own: that a request was read where it
belongs says that its target begins with the route (`LocationFits`). Then the only
`/cgi-bin/` of the target is the one at the end of the route, so that
`ScriptLocDetails` cuts it there (`ScriptIsRest`), an extension ends the name exactly
when it begins at the last dot (`ExtensionIs`), and the path that is put together from
four parts is the file's, however many slashes stand in it (`ScriptFile`, from
`CanonicalSlash` and `CanonicalName`: a name without slashes may be taken out of a word
before it is made canonical).

`LinksLeadOn` relates an answer to the request that follows it, so that the invariant
`Leading` has to keep what happened in between: `Led` that an answer a client can follow
came from the location its request still leads to (`Went`), and that a redirect means a
place without a slash and a listing one with it (`Leads`); `ReadWent` the same of a
request just read; `DiskIsPlain` that new files get canonical names too. Targets remain
targets when they are followed (`TargetSlashed`, `LinkIsTarget`), which is why the link
upwards never leads above the root. What the property says is then a fact about words:
how `UpdatePath` maps a target that goes on from another (`PlaceGrows`), and what
`Canonical` makes of the result (`CanonicalJoined`); one lemma for each kind of step,
`RedirectLeads`, `LinkLeads` and `LinkUpLeads`.

`Texts_proofs` proves, for targets of any length over any pieces (`TargetAssumption`):

- `PathsLeadWhereTheySay`: `TgSpec => []PathsAreResolved`;
- `HostsAreLeftOut`: `TgSpec => []AbsoluteFormAgrees`;

and, for files of any lines (only the fields of a line are looked at):

- `FilesAreReadInOrder`: `CfSpec => []FileIsReadInOrder`.

For targets the invariant is only that a target is a word (`IsText`), redirected ones included; the
properties are facts about what the functions of `RqTarget` compute for every word. The
code decodes a path, rewrites the case of its escapes, collapses its slashes and then
removes its dots in a loop; the property decodes one segment after the other and walks
up and down a tree with them. `LaysOut` says how a text lies on the next one: the place
each of its places ends at there, slashes on slashes (all but those a slash follows),
and behind each slash the same segment but for the case of its letters. Decoding lays a
path out (`SegmentsDecoded`), so do the rewriting (`CaseLays`) and the collapsing
(`CollapseLays`), and texts laid out on one another lead to the same place
(`LayersAgree`). In the last text the loop is followed turn by turn: it stands before a
segment with the names of the walk so far in its output (`Before`), or before the slash
that a last segment of dots leaves (`AtDots`), or is at the end, or has left the tree
(`KeepsGoing`); since a turn always takes a segment, the turns the model gives it are
enough (`WalkedOut`). `OriginValid` is the other half: what is cut into path, query and
fragment and validated part by part is what is well-formed as a whole.
`AbsoluteParts` takes the parsers one by one: what is left after the port is the word
without its host, and parsing goes on alike.

For the file the invariant `IsRead` says of the lines read so far (`ReadSoFar`) that as
many blocks are open as the lines leave open, never fewer than none (`IsBalanced`), and
that the blocks on the stack name, one after the other, the locations the lines have
opened (`Calls`). What a block names includes what the blocks in it name, to any depth,
which a recursion over the tree would say; instead `IsListed` keeps, for every block ever
made (`IsForest`: each of blocks made before), the list of its locations, and a new block
only adds an entry (`ForestGrows`). A setting, a block's beginning and its end then leave
the list of the stack as it was or add the one location a line opens (`SettingKeeps`,
`OpeningKeeps`, `ClosingKeeps`); that an end appends the block to its parent is what the
last of them needs, and what the mutant `NestReversed` breaks. When the file ends and is
accepted, the builders take the locations from a tree of exactly three levels, whose list
is then that of the lines (`BuiltInOrder`).

Recursive functions and `FlattenSeq` (itself one) are turned into sequences of values
(`DotsRun`, `WalkExists`), since the library's induction theorems cannot be used, and
facts about all places of a text are proved with `Induction` of `Lists_proofs`, which
speaks of a set of numbers instead of an operator.

Model-checked only:

- `SettingsAreInnermost` of `Configuration`: `FindSetting` is `SelectSeq`, which the
  provers know nothing of, and the values it finds would have to be traced to the lines
  around each block of the tree;
- `RedirectsLeadOn`: that `PercentDecode` takes back what `PercentEncode` did depends on
  how the bytes that can only be written as escapes are named, which the model does only
  for the digits its targets use;
- `ScriptsAreReadAsWritten`, which writes numbers out (`ToString`), an operator the
  provers know nothing of;
- `CompleteRequestIsAnswered` and `BuildReturns` with the other liveness properties,
  which need `ENABLED`.

## Not modelled

The logger, the HTML and MIME types of pages, the environment of scripts
(`cgi::GetEnv` copies the request), files that cannot be read or opened once an answer
is being sent, the exception of a temporary file in the composed `ServerCluster`
(where what the builder makes of the bytes is a choice; `RequestBuilder` has it), the
splitting of a configuration line into words and IPv4 addresses, `SyntaxChecker` (a
verdict on a line in `RequestBuilder`), the ownership types of `utils`: formatting and
plain I/O outside the loop's control. Static destruction at exit and the window
between `Init` and `Run`.

## Plan

Done: the event loop with sessions, scripts and child processes, the request
builder, uploads and downloads, targets, configuration, messages of scripts, and the
way from a request to its answer. What would come next:

1. `Uploads` with CGI bodies in temporary files, and reads that fail.
2. `SyntaxChecker` against the grammar of RFC 9112, `GetEnv` against that of CGI.
3. Proofs: `SettingsAreInnermost` of `Configuration`.
