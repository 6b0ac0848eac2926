# A TLA+ model of napoleon-http

napoleon-http is a small HTTP/1.1 server in C: one process, one thread, one
connection at a time, with an application behind it that serves redirects, an
echo API and two directories of static files. Those directories are part of the
repository: an example page, a documentation page and the API documentation, whose
scripts run in the browser. This project models the parts of server and pages
that carry logic, checks them with TLC on small instances, and proves
all of the safety properties with TLAPS for every value of their constants.

The repository's own `src/` directory is inside `src/` here, so paths in this
document begin with `src/src/`, `src/app/`, `src/ports/`, `src/include/`,
`src/docs/` and `src/public/`.

## The system

| Component | Code | State it keeps | Operations |
|---|---|---|---|
| Startup | `src/src/main.c`, `src/app/app.c`, `src/src/filesystem/filesystem.c`, `src/ports/posix/fs_posix.c` | folders, the port | `main`, `fs_ensure_dir`, `posix_mkdir`, `app_init`, socket, bind, listen |
| Accept loop | `src/src/server.c`, `src/src/core/http_core.c` | the connection at hand and its heap blocks | `server_start`, `http_handle_connection` |
| Reading a request | `src/src/http/http_parser.c`, `src/src/reader.c` | a growing buffer, counts of bytes read | `read_until_double_crlf`, `read_body`, `read_some`, `read_all` |
| Parsing the head | `src/src/http/http_parser.c`, `http_request.c` | strings and headers of the request | `http_parse_request_line`, `http_parse_request_headers`, the Content-Length scan, `http_request_clear` |
| Response | `src/src/http/http_response.c` | the head in a fixed buffer, bytes written so far | `http_send_response`, `write_all`, `http_response_clear` |
| Adapter | `src/src/adapters/adapter_http_app.c` | none | `adapter_http_app`, `http_response_make_redirect` |
| Redirect registry | `src/src/router/redirect_registry.c` | a table of rules | `redirect_add`, `redirect_lookup` |
| Static files | `src/src/router/router_static.c`, `src/ports/posix/fs_posix.c` | an open file and a buffer per request | `static_router_handle`, `build_rel_path`, `resolve_under_root`, `posix_stat`, `posix_open`, `posix_read_all`, `posix_close` |
| Dispatch and API | `src/app/app.c`, `src/src/router/router_api.c`, `route_handlers.c` | static tables built once | `app_handle_client`, `api_router_handle`, `handle_route_echo` |
| Example page | `src/public/index.js` | a picture and its placeholder | `initExamplePage` and two listeners |
| Documentation page | `src/docs/index.js` | refs, `localStorage`, the address | filter, theme, sections, echo forms, toasts |
| Search panel | `src/docs/doxygen/search/search.js`, `cookie.js`, `menu.js` | the panel, two timers, the result list, a session cookie | class `SearchBox`, class `SearchResults`, `createResults`, `init_search` |
| Table of files | `src/docs/doxygen/dynsections.js` | rows displayed, icons | `toggleFolder`, `toggleLevel` |

The scripts of the API documentation are generated by doxygen and kept in the
repository, as the pages under `docs/doxygen` are; they are modelled because the server ships
them and they hold most of the repository's JavaScript.

The parts of the server interact by calls only. `main` makes the two folders, sets up the
application and calls `server_start`, which accepts a connection and calls
`http_handle_connection`. That reads and parses the request into a heap object,
passes it through the adapter to `app_handle_client`, sends the response and
cleans up. `app_handle_client` asks the redirect registry, then the API router,
then each static router. Nothing is shared between threads, for there is one.
What runs concurrently with the server is outside it: clients, which decide when
and in which pieces bytes arrive and whether they read what is sent, whoever
edits the served directories, and other servers started in the same directory.
The pages meet the server in their requests only, and each other in what the browser
keeps: to open one page is to leave another, with its timers and requests.

What is hard here, and what the properties are about:

* a request arrives in segments of any size, and ends or breaks anywhere;
* four C functions share one buffer that `realloc` may move;
* a block is owned by the request, by the response, or by nobody, depending on
  the route, and every allocation may fail;
* a file changes between `lstat`, `open` and the reads, and the path it is found under is
  computed in two passes and guarded in a third;
* there are no timeouts, so whether anybody is served depends on every client
  before;
* ties between redirect rules are decided by running variables of a loop;
* servers that start together check for the same folders and then create them;
* in the pages, timers, script loads, answers, events and keys come in any order, and the
  state they meet may have been rebuilt since they were started.

Where each of these bites is listed line by line under `hazards` in
`PROJECT.json`, with the properties that would show it going wrong.

## The modules

### The server

**RequestReader** is `http_parse_request` with its two loops, one step per
`read()`. Bytes are counted and not represented: a request is the length of its
head, the bytes after it and its Content-Length. `HeadFound`, `HeadGrow` and
`HeadGiveUp` are the three ends of one iteration of `read_until_double_crlf`;
`BodyBegin`, `BodyRead` and `BodyCopy` are `read_body` before, in and after its
`read_all`. The client sends any number of bytes at a time, closes its sending
side or resets the connection. `read()` takes what is there and fits, blocks on
nothing, reports zero at the end of the stream and on a request for no bytes.
A retry after `EINTR` changes nothing and has no step.

**RequestIntake** is what reading a request promises: at one moment the request is
accepted with a body of a definite length or rejected. `AcceptedBody` says which
bodies are possible. `RequestReader` implements it (`ImplementsIntake`), and
`HttpServer` uses it in place of the loops, so the composition does not pay for
their detail.

**HeaderParser** is the loop over header lines (limit, drop, allocation failure),
the Content-Length scan and `http_request_clear`. A line is its name, whether it
has a colon, the number `atoll` makes of its value, and the number it makes of the
line read from its first character on (`leads`). The buffer goes on after
the blank line, because memory does: what follows is body bytes, or whatever was
there. The request line's parser returns the index of its LF; `LineFeed` models
what follows from that. How a line is split into tokens and trimmed is
abstracted, but for this: in a line without a colon the name takes up all of it, the
length left for the value wraps, and the value is the line after it (`Leads`). A field
`Content-Length` followed by `7: x` announces 7. Lines that begin with blanks are left
out; the blanks would shift where that value begins.

**HttpServer** composes the accept loop with `http_handle_connection` and all it
calls, for any number of clients. The labels of `pc` are the program's statements
and its `goto` labels (`clearRes`, `clearReq`, `freeBuff`, `close`). The heap is
the set `live` of blocks allocated and not freed, each tagged with its connection;
freeing or reading a block that is not in it sets `heapFault`. The route of a
request decides where the response body lives: nowhere (redirect), in the
request itself (echo with a body), in a block the response owns (echo without a
body, file), or in static text. What `static_router_handle` answers depends on the
directory and not on the request, so `HandleFile` may answer with the file, with an empty
body, with a text or with an error; the text for a path that is not there goes with a block
`statPath`, which `posix_stat` allocates and nobody frees. `http_send_response` writes the head as one unit
(how it comes about is in `ResponseHead`) and then the body, through a socket that holds `SocketRoom` units for a slow
reader.

**ConnectionService** is what the server promises, without heap, buffers and statements: clients
are served one after the other in the order in which they came; an answer is decided on for a
body that `RequestIntake` allows, and an echo is exactly as long as that body; and a connection
ends with the whole answer, or with nothing because a call failed before there was one, or
because it was reset. `HttpServer` implements it (`ImplementsService`).

**StaticRouter** is `static_router_handle` over the POSIX port, one step per system
call, with an editor that exchanges, deletes and resizes files in between.
Content is a number of bytes. A path is a sequence of the four pieces that its rules tell
apart: slash, "..", the mark in front of a query or fragment, other text. `RelLength` and
`RelPath` are the two passes of `build_rel_path`, `Climbs` is what `resolve_under_root`
refuses, and `OpensUnderRoot` follows the path that is left, level by level.

**RedirectTable** is the promise of the redirect registry: a lookup is one step whose
answer is described by which rule is best. **RedirectRegistry** is the code: two
loops with running variables, one iteration per step, which implements it.

**Startup** is `main` in any number of servers started in one directory. `StatDir` and
`MakeDir` are the two system calls of `fs_ensure_dir`; `AppInit` and `Bind` follow. A file at
a folder's path goes both ways: `lstat` is asked for `./public/`, answers ENOTDIR, which
counts as not found, and it is `mkdir` that refuses, unless the file has gone meanwhile. Every
call may fail, servers are killed and started again, and somebody else makes, removes
and replaces the folders.

**ResponseHead** is the part of `http_send_response` that puts the head together in its
2048-byte buffer. A line is its length, which is what `snprintf` returns whether or
not it fits. **Program** composes the two: the server that got the port sends responses, and
its buffer goes when it is killed.

### The pages

**SearchIndex** is the search data and what follows from it alone: the file a word is looked up
in, the rows that match, and where the arrow keys lead (`NavDown`, `NavUp`). A letter is
a number. **SearchBox** is the panel: one action per handler, timer and script. The panel's
own state is the record `box`, and the methods that handlers call (`Activate`, `FocusOn`,
`Hide`) are functions of it, so that a handler is their composition; the focus is part of
it because moving it runs handlers. Scripts are requested in order and run in any order,
or never.

**FolderTree** is the table of files: rows are paths in the tree, and an icon says open or
closed independently of what is displayed. **DocsPage** is the documentation page between
its `await`s; what Vue renders from a ref is the ref. **PublicPage** is the picture of
the example page, the event that tells about it, and the script that may come before,
between or after.

**Site** composes the four pages in one browser tab. `Open` leaves whatever is there and
loads a page: `localStorage` and the session cookie stay, nothing else does.

### Proofs and instances

Modules ending in `_proofs` hold the theorems: one each for **RequestReader**,
**HeaderParser**, **HttpServer**, **StaticRouter**, **RedirectRegistry**, **Program** and
**Site**, and **ConnectionService_proofs**, which goes on from **HttpServer_proofs** with the
refinement and with what is left of liveness. The `MC*` modules give the constants small values and contain nothing else.

Some definitions are marked `Seeded fault` and are named after the definition
before which they stand, with a suffix (`MayGrow_OldSize`). They are plausible bugs
of that piece of code. No specification uses them; `PROJECT.json` pairs each with
a property that TLC finds violated when the fault takes its original's place. They
are there to show that the property can fail.

## What is checked

| Run | Instance | Properties | Shows |
|---|---|---|---|
| `request_reader` | chunks of 4 bytes, limit 13 (3 chunks), body limit 14; heads of 4, 5, 12 and 13 bytes, tails of 0, 5, 16, lengths 0, 3, 30 | `ReadsAreSound`, `BufferBounded`, `BodyCopyIsSound`, `BodyIndependentOfSegments`, `PromptHeadIsRead`, `ReadingEnds`, `ImplementsIntake` | buffer arithmetic, independence from segmentation, termination |
| `header_parser` | room for 3 headers; heads of up to 4 of 6 kinds of line, up to 2 lines after | `HeadersComeFromTheHead`, `LengthIsAnnounced`, `NoStringLost` | which headers are kept, which length counts, what is freed |
| `http_server` | 2 clients, 5 kinds of request, up to symmetry of the clients | `HeapSafe`, `OnlyForgottenBlocksStay`, `WholeResponseOrNone`, `ImplementsService` | ownership on every path, whole responses, in the order of arrival |
| `http_server_live` | 2 clients, 2 kinds of request | `EveryoneServed` | service of everyone behind cooperative clients |
| `static_router` | 2 files of up to 4 bytes, limit 3, up to 3 edits, 12 shapes of path | `ServedWithinLimits`, `ExactWhenQuiet`, `NothingHeld`, `ErrorsHaveACause`, `OpensUnderRoot`, `HandlingEnds` | the window between `lstat` and the last read; the path rules |
| `redirect_registry` | tables of up to 3 rules, 3 paths | `RulesAreSane`, `ImplementsTable` | the loops find the best rule |
| `program` | 3 servers, 2 folders, 2 interventions; a head of 17 bytes with a last line of 3, lines of 3, 4 and 7, up to 2 extra headers | `RootsExist`, `SomebodyServes`, `HeadIsWhole` | the race at the start; the arithmetic of the head |
| `site` | 2 sections with 2 files and 1, 3 words, 2 scripts under way, 6 rows of files on 3 levels, 2 requests per form, 1 toast | `PictureOrPlaceholder`, `DocsPageAgrees`, `AnswersAreComplete`, `NoSearchSwallowed`, `SectionIsRemembered`, `IconsTellTheTruth`, `ArrowKeysFollowOrder` | the pages under every order of timers, loads, answers and keys |

Each run with invariants also checks its module's `TypeOK`. The bounds are chosen so that each
boundary has a value on either side of it.

* In `request_reader`, 12 bytes is the largest head and 13 one more; a head of 4 or 5
  bytes fits or just does not fit in the first chunk; a tail of 16 exceeds what the
  buffer can hold after the head, and the lengths are below, between and above what
  the tail delivers and the body limit.
* In `header_parser`, four fields are one more than there is room for, so the last one is
  dropped, and the first one has the line feed, which leaves two that may compete for
  the length. A Content-Length without a colon may stand before each kind of line and
  before the end; `Beyond` is a number that no line makes.
* In `static_router`, sizes 0, 3 and 4 are empty, at the limit and above it; three edits
  suffice for a change in each of the windows lstat-open, open-read and read-read. The
  paths have no, one, two and three slashes in front of "..", which is where the two
  skipped slashes run out, a query before and after it, and names that only contain it.
* In `redirect_registry`, three rules are the fewest for which "preferred" must be
  transitive, the two rule paths are one a prefix of the other, and the paths asked for
  add one that continues inside a segment.
* In `program`, two of three servers may throw each other out at one folder and the third be
  caught at the other; two interventions are a kill and a restart, or a folder removed
  and made again. The lines add up to heads that fit, that fill the buffer to the byte,
  and that do not.
* In `site`, a section lacks the first letter of a word, so its search finds no file; a row
  has two members and two names begin alike, so that the arrow keys have to pass folded and
  unfolded rows; two scripts under way are enough to overtake. The bounds on scripts,
  requests and toasts stand in the guards of `Search`, `SendEcho` and `Copy`.
* Two clients suffice for the accept loop because a connection meets the others only in
  the queue and in what its predecessor left behind.

Deadlock is checked in `site`, where the user can always do something. It is off in the other
runs because every modelled program may stop: a request is done, a client never sends
again, all servers have exited.

### Fairness

The server's one thread runs whenever it is not blocked in a system call: weak
fairness of the reader, the parser, the file handler or the lookup. In `HttpServer`
the fair action is `Unblocked /\ ServerNext`, so that reading is not forced while
the bytes it waits for have not come. Nothing is assumed of clients or of the
editor in any `Spec`. What `EveryoneServed` needs of clients is its premise
`Cooperative`: each one finishes its request, closes or is reset, and reads its
response; a connection also counts as served when `SIGPIPE` has killed the process (the run
`peer_gone`), since nothing serves it after that. The premise is needed, since the code has no timeouts: a client that
connects and stays silent stops the server for everyone. The fairness of `HeaderParser`
and `RedirectRegistry` carries no liveness property of its own; that their loops end
is what `ParsingEnds` and `LookupsEnd` say.
`Program` and `Site` assume none: their properties are about what may never happen.

### Where the code disagrees with its documentation

Four runs check a sentence of the documentation and find it violated.

* `segmented_head`: `HTTP_MAX_HEADERS_BUFFER` is documented as a bound on the size of
  the header section. The buffer grows after every read, full or not, so the bound
  is on the number of reads: with the shipped values the 16th segment is the last.
* `first_header`: `http_parse_request_line` is documented to return the index of the
  first character after the request line, and returns that of its LF. The name of
  the first header begins with that LF, and in a request without headers the blank
  line is taken for a header.
* `peer_gone`: `write_all` is documented to return -1 on an error. Nothing ignores
  `SIGPIPE`, so the error a reset connection causes ends the process instead.
* `stat_path`: the caller of `resolve_under_root` must free the path it gets.
  `posix_stat` does not when the file does not exist. `OnlyForgottenBlocksStay` counts these
  paths over the whole life of the server.

More divergences were met and have no run of their own, because a property states what does hold
or because nothing in the repository promises otherwise.

* `content_length` of the request is documented as the parsed header and is the number of
  body bytes found, which may be larger if the client sent more than it announced together
  with the head (`BodyIndependentOfSegments` states what does hold).
* The header strings are documented to be freed by `http_request_clear()`; if an allocation
  fails in the header loop they are not (`NoStringLost` and `OnlyForgottenBlocksStay` state
  exactly what is lost).
* `posix_mkdir` is documented to take an existing directory for success
  (`src/ports/posix/fs_posix.c:294`, `src/include/filesystem/filesystem.h:165`) and returns
  -1. Two servers started together may both find no folder; the second one then exits.
  `SomebodyServes` shows that one is always left.
* `resolve_under_root` refuses every component that begins with "..", also a file named
  `..a`.
* A path that is the mount's prefix with a query right behind it (`/docs?x`) is neither
  redirected nor served.
* The reason phrase of status 405 is "Not Implemented".
* In the search panel, closing the results, leaving the field or pressing Escape in the results
  does not stop the timer of a search or a script under way: the results open
  again over an empty field. Two scripts that arrive in the wrong order leave the older
  search's results on the screen; `AnswersAreComplete` is about the case that no older
  script comes after.
* `OnSearchSelectKey` lets the index count one beyond the last section. A search from there
  throws a TypeError; `Search` and `SelectDone` model what has happened until then.
* `OnSearchFieldChange` strips all blanks from the text and `Search` the leading ones, so a word
  with a blank in it is searched for again at every key. Words have no blanks in the
  model.
* After a resize the icon of the section list does not listen for keys any more (`icon`).
* The filter of the documentation page looks for blocks of type `p` and `echo`;
  `sections.json` has `paragraph`, `echoGet` and `echoPost`, so text in paragraphs is
  never found (`BlockMatches`).

## What is proved

The theorems hold for all values of the constants that satisfy the assumptions of
the module; TLC evaluates those assumptions in the runs. Every safety property of the runs is
proved, and the three refinements; only liveness is left to TLC, and what it rests on is
proved too (see the end of this section). In each module
`IInv` is the inductive invariant; it is stronger than the properties that follow from it
because none of them says enough about the steps in between.

**RequestReader** assumes `SizesAssumption` (a chunk is at least one byte and not
larger than the head limit, which is not larger than the body limit; the shipped
values are 250, 4096, 4096) and `RequestsAssumption` (a head has at least the four
bytes of its double CRLF). The inductive invariant `IInv` joins the type invariant
with what is known in each phase: in the head loop the buffer is exactly `chunks`
chunks and not full (`AtHead`); in the body loop it has room for all that is due
(`AtBody`); and throughout, no more has been read than sent. The invariants to be proved speak
of the final state; what carries them there is that a body loop that ended early did
so because the client had closed after exactly those bytes (`AtBody`, `AtDone`).
From `IInv` follow

* `TypeCorrect`, `ReadsSound`, `BufferIsBounded`, `BodyCopySound` and
  `SegmentsDoNotMatter`: the invariants of the run;
* `PromptHeads`: if the whole head was on the wire before the first read, every read so far has
  filled its chunk (`Prompt`), so another chunk fits as long as the head is not complete
  (`AnotherChunk`), and a failure is final (`GivenUp`);
* `ReaderImplementsIntake`: each step of the loops is a step of `RequestIntake` or
  none.

**RedirectRegistry** assumes that paths are sequences and that the capacity is a
number. Its `IInv` joins `TypeOK`, `RulesAreSane`, `BestSoFar` and two facts about
the loops: no rule seen in the first loop is the exact one, and as long as there is
no best rule its length is zero. The lemmas about `Preferred` (transitive, total,
asymmetric) carry the step in which the best rule changes; `RulesAreSane` is
needed for the other one, because only a rule with a non-empty path beats a length
of zero. From it follow `TypeCorrect`, `TableStaysSane`, `BestIsBest`, and
`RegistryImplementsTable`: both loops together are one atomic choice. Two theorems say what that
choice is worth. `LookupIsDecided`: as soon as one rule matches a path, exactly one is to be
chosen (a greatest length, among those a greatest priority, among those a greatest index; each
exists because a set of bounded numbers has a largest one, `Largest`). `AnswersAreStable`: a
lookup changes its answer only for paths that a new rule matches, and to this rule, and never
from an exact one.

**HeaderParser** assumes natural limits, at least one header, and that no field line
is the blank one. Its `IInv` has four parts: the buffer (`TextSound`: fields, none
blank, then a blank line), the loop (`LoopSound`: header k was made of line k, and
lines are dropped only once the array is full), the strings (`StringsSound`: two for
each header until the request is cleared, reachable unless an allocation failed) and
the scan (`ScanSound`: the last match among the headers passed has set the length).
The last three properties below are not inductive alone: that a field-like line in the
body has no effect, for one, needs `LoopSound`, because only the line number tells a
field of the head from one that follows it. From it follow `TypeCorrect`,
`HeadersOfTheHead`, `LengthOfTheBody` and `StringsAreFreed`: the four invariants of
the run, for every number of fields and every `HTTP_MAX_HEADERS`.

**HttpServer** assumes that a client is not `NoClient` and that sizes are numbers
(`ServerAssumption`). `IInv` says what holds between any two statements of a connection:
what the variables point to at each place (`PlaceSound`), who owns the parts of the
response (`ReplySound`), that what the variables name is allocated and that nothing else
is but the blocks the code forgets (`HeapSound`: header strings of a connection on which parsing
failed, the path of `posix_stat` of one that asked for a file), which client is served and which wait
(`QueueSound`), how far the response has got, and that there is none before the request is handled (`ProgressSound`) and that handling begins
when nothing more of the request is due (`AnswerSound`). `HeapSound` is the part that makes the
heap properties inductive: a block that is freed is one that a variable names. From it follow
`TypeCorrect`, `HeapIsSafe`, `ForgottenBlocksAreKnown`, `WholeOrNone` and `AnswersFollow`, for any
number of clients and any requests. `ServerImplementsService` maps each step to one step of
`ConnectionService` or none. `IInv` does not say enough for it, because it knows what has been
allocated and not why: `AnswerKnown` adds that what is handled is a body `RequestIntake` allows, kept in a block of its own unless it is
empty, and that a connection that ends without a failure has been given all of its answer,
whether it was reset or not.

**StaticRouter** assumes that limits are numbers, that no file is called "dir" or "none", and
that request paths consist of the four pieces. `IInv` says at each system call which blocks
are held and which size is at hand. `ErrorsHaveACause` needs that the two passes of
`build_rel_path` agree for every path (`PassesAgree`), which rests on where the path ends
(`EndIsInPath`). From it follow `TypeCorrect`, `ServedWithin`, `NothingIsHeld` and
`ErrorsAreCaused`, for files of any size and any number of edits. Two more need an invariant
of their own. `ExactAnswers` rests on `QuietSound`: as long as nobody edits, what `lstat` saw is
still there and is what was opened and measured. `StaysUnderRoot` rests on the check of
`resolve_under_root` refusing every path with a component "..": without one, the walk along the
path never goes up (`NotRefused`). The level reached after each component is a recursive
function; that it exists and is never negative is shown by a smallest counterexample.

**Program** assumes numbers and at least one server. For the start, `IInv` says that the folders a
server has passed are there unless one was removed, and that if nothing was disturbed a
server that was thrown out leaves one behind that is ahead of it; `SomebodyServes` is the
end of that chain. For the head it says that the bytes written are those of the lines seen
and leave room for the last one. From it follow `TypeCorrect`, `RootsAreThere`, `OneServes`
and `HeadsAreWhole`, for any number of servers and folders and any sizes.

**Site** assumes what the search files, the table and the sections look like: names in a file begin
with its letter, and names with a common beginning stand together; a row's folder is a row;
section ids are not empty. Each page has its invariant, and a step is a step of one page or
loads one. `PanelSound` is the interesting one. That the list stays *together* (`ListSound`:
between two rows displayed all are) is what makes `NavUp` right, which looks up the members
under another row number than it goes to; it holds because matching rows stand together
in their file (`MatchingTogether`). That a search remembered and not displayed is the newest
one and on its way (`QuietIsOnItsWay`) is what `NoSearchSwallowed` needs, and every
method of the panel must keep it (`Activated`, `Focused`, `ResultsClosed`). From `IInv` follow
`TypeCorrect`, `PictureSettles`, `DocsAgree`, `SearchIsComplete`, `SearchIsAnswered`,
`SessionRemembers`, `IconsAreRight` and `ArrowsAreRight`, for every search index, tree and
number of scripts and requests.

### What is left of liveness

Only model-checked are the liveness properties `ReadingEnds`, `HandlingEnds` and
`EveryoneServed`: liveness under fairness and `ENABLED` are out of the prover's reach. What it
takes apart from those two is proved, for every value of the constants.

* *Nothing goes on for ever.* `StepsLeft` counts the steps a component may still take; it is a
  number of at most `MostSteps`, each step lowers it, and nothing but new work (a lookup asked for,
  a connection accepted) raises it:
  `BoundedWork` for the reader (the loops end however few bytes come at a time) and for a file
  request (also while the file grows), `ParsingEnds`, `LookupsEnd`, and `ConnectionsEnd` for a
  connection from `accept` to `close`. `EveryStepCounts` goes on to the queue: with
  `Place * (MostSteps + 1)` added for those in front, the count of everyone who waits falls with
  each step of the server; `accept` moves all up one place, which is worth more than
  the new connection costs. It needs that whoever waits is in the queue (`AllInLine`), and once.
* *Nothing waits without need.* `NeverWaitsForMore`: once nothing more of the request is due, no
  `read` of the reader blocks. `WaitsForItsClientOnly`: if the server can neither go on nor has
  been killed, either nobody is there or the client it serves owes bytes or has not read what
  was written. It is the premise `Cooperative` of `EveryoneServed` that excludes the latter.

From these, liveness follows by weak fairness of a step that is possible whenever `CanGoOn`
holds; that `CanGoOn` implies `ENABLED` of that step is the part that is read off the guards.

## Not modelled

* `http_mime.c`, `http_send_text`, `fs_seek`, `fs_read_some`, `redirect_registry_clear`,
  `server_stop` and `eraseSetting`: nothing calls them.
* The order redirect, API, static in `app_handle_client` and the scan of the API's routes: a few
  comparisons without state. `HttpServer` takes a request's kind of answer as given.
* The failure of the headers array for a redirect with a joined target
  (`src/src/adapters/adapter_http_app.c:151`): the shipped rules join no targets.
* The tables of methods, media types, status codes, reason phrases and file extensions;
  argument parsing, which exits on any error; splitting a header line into trimmed tokens.
* Log output, the debug flag, and the fuzz harnesses.
* `resize.js`, `menudata.js`, `clipboard.js`, `jquery.js` and the menu of `menu.js`: layout in
  pixels, data, a copy button, a vendored library. `toggleVisibility`, `toggleInherit` and the
  code folding of `dynsections.js` flip one element each.
* The search panel on the page of the table of files: it is there and does not move in the model,
  where it is the same as on the other pages. The branch of the search for letters beyond
  the basic plane, which is never taken.

What could follow: the dispatch of `app_handle_client` over `RedirectTable`.
