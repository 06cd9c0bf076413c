# Verification of the NE302 web server and of the game it serves

The repository holds two programs. One is an HTTP/1.0 and HTTP/1.1 server written in
C: one thread that takes a request from the library librequest, parses it with a
hand-written recursive descent parser, checks it, and either forwards it to php-fpm
over FastCGI or serves a static file. The other is the largest thing it serves: a game
in JavaScript, under `www/game.com`, where one builds stations around planets and
defends them from waves of ships. This directory models both in TLA+, checks the
models with TLC and proves their main invariants with TLAPS. They share nothing but
the repository, and no module of one uses a module of the other.

Paths below are relative to the repository; `answer.c:254` is line 254 of
`src/answer.c` there, `game.js:15` line 15 of `www/game.com/src/game.js`; `Build.js`,
`Enemy.js` and the other files with a capital are under `objects` there.

1. [The system](#1-the-system)
2. [The modules](#2-the-modules)
3. [The runs](#3-the-runs)
4. [Where the code and the documents differ](#4-where-the-code-and-the-documents-differ)
5. [The proofs](#5-the-proofs)
6. [What is not modelled, and the plan](#6-what-is-not-modelled-and-the-plan)

## 1. The system

### Components

| component | source | state it keeps | operations |
|---|---|---|---|
| main loop | src/server.c | the request in hand, its answer record | one turn: take, parse, dispatch, end, keep or close |
| parser | src/parser.c | the tree under construction | one function per production of allrfc.abnf, `parseur()` |
| parse tree | utils/tree.c | nodes with name, start, 16-bit length, children; global `rootTree` | create, add, temporary node, `move_childs`, `purgeTree`, free |
| tree search API | src/api.c, utils/manip.c | none | `searchTree`, `getElementValue`, `get_first_value` |
| semantic checks | src/semantic.c, src/populate_headers.c | the request's header record, populated as it is checked | `getstatus` and its five checks |
| static file service | src/answer.c | the open FILE, the answer record | `send_data`, `send_response` |
| answer's header fields | src/response_headers.c | none | `send_headers` |
| FastCGI client | utils/fastcgi.c | a socket, a record buffer, the list of buffered records | `sendFCGI` |
| string helpers | utils/manip.c, src/answer.c, src/semantic.c | none | URL decoding, dot segments, `isAccepted` |
| MIME table | utils/mime.c | none | type of a file name or of its first bytes |
| librequest | lib/ (binary) | one slot per client, at most ten | `getRequest`, `writeDirectClient`, `endWriteDirectClient`, `requestShutdownSocket` |
| page of the game | music.js, speech.js, loadingscreen.js, Settings.js, Storage.js, lib/player-small.js | the settings and their copies in localStorage, the loading, what plays and what is said | open, load, start, toggle a setting, speak |
| game loop, construction, tutorial | game.js, Mouse.js, View.js, gui.js, buttons.js, Build.js, Tutorial.js, WaveManager.js, base.js | the game's state, pointer flags, the construction under way, the mission, the timer of the waves | events, `frame`, `update`, `render`, `Game.init` |
| orbitals and lines | orbital.js, SystemGenerator.js, graphics.js, utils.js | the list of orbitals, the canvases of their orbits, who is online | generate, build, update, destroy, draw |
| enemy ships and weapons | Enemy.js, Rocket.js, objects/orbital | the ships, the cells of a grid they are in, rockets, energy | spawn, update, destroy, shoot |

### How they interact

    client <-> librequest -- getRequest --> main loop -- parseur --> parse tree
                   ^                            |
                   |                            +-- ".php" in the path --> FastCGI client <-> php-fpm
                   |                            |
                   |                            +-- getstatus >= 300 ----> send_headers
                   |                            |
                   +---- writeDirectClient -----+-- otherwise -----------> send_data, send_response <-> files

All calls are synchronous and there is one thread. What runs beside it is outside
the process: the clients, which connect and leave at any time; php-fpm, which may
refuse, answer in any number of records, or die; and whoever changes the files
being served. The components share the process, hence its descriptors, and the
tree of the request.

In the game, the browser runs one handler at a time: presses, keys and resizes come
between two frames, and `frame()` asks for the next frame before anything else, then
runs as many ticks as are due (`update`, up to 60) and draws once (`render`). A tick
updates the components one after the other, in the order of game.js; they meet in
global variables:

    events --> Mouse, gameState --+
                                  v
    frame --> update (1..60 times): loading screen, or
              base? View, Gui, Tutorial, Build, then unless paused
              clickNearest, orbitals, waves, ships, lasers, rockets; Mouse.update
          --> render: orbits, ships, lines (sets online), Gui, Tutorial

What a tick reads (who is online, the orbit measured, the flags of the pointer) was often
written by an earlier tick, frame or game; what a click means was drawn by the last
frame.

### What is hard in it

- **Interleaving with the outside.** A file removed, replaced, truncated or extended
  between `access`, `fopen`, `ftell` and each `fread`; a client that leaves while it
  is served; php-fpm that dies between two records.
- **What is announced before it is known.** The header fields (length, range,
  connection) are sent before the body is read and before php-fpm has answered.
- **Two paths, one decision.** `getstatus` with `send_data`, and `sendFCGI`, decide
  apart from one another whether a connection is kept.
- **Failures that continue.** `connect` may fail and the request is still written to
  descriptor -1; a failing `write` makes an unsigned length grow.
- **Limits.** Descriptors, `int` positions against `long` sizes, 16-bit tree lengths.
- **A single reader.** Every wait of the one thread is a wait of every client.
- **What the game keeps from earlier.** A cost checked at a click and paid frames later;
  an orbit measured in one tick and built on in another; a panel drawn once and clicked
  in any tick; canvases and cells that must follow what is destroyed; a second game in
  the same page.
- **Lists that change under the loop.** Orbitals and ships are destroyed inside the loop
  that updates them, the last taking the place of the one lost.
- **A browser that refuses.** Music before the first click, localStorage, a page closed at
  any time.

`PROJECT.json` lists each such place at its line with the properties that watch it.

### What makes each component correct

- main loop: one request at a time; each one taken is answered once; its connection
  is then kept only for a client that asked for it, and freed otherwise; no request
  ends in silence.
- semantic checks: a request that is accepted has every field its callers switch
  on; the status is the one rulesSemantic.md asks for, the first of several; a range is
  what was asked.
- static file service: one well-formed response per request whatever happens to the
  file; a client of a kept connection knows where the response ends; a range never
  exceeds what was announced and comes from its position; descriptors are returned.
- FastCGI client: the script's output reaches the client byte for byte in order,
  with a whole status line, and with its length on a kept connection; the request
  ends whatever becomes of php-fpm.
- parser: a request of allrfc.abnf is accepted; the nodes the rest of the server looks
  up are what their rules denote; the parse ends, stays within the text received, and
  frees what it allocates, once.
- tree search and string helpers: see the plan.
- page of the game: what plays is what the settings say; a page that opens finds the
  settings as they were left; loading ends, with every sound whole.
- game loop: what is under construction can be paid and belongs to the game being played,
  is built where it was shown; one release does one thing; the tutorial can be gone
  through, in peace; the simulation runs with a base.
- orbitals: no orbital lost or doubled by a destruction, all updated, planets never
  destroyed; a station is online when it can be reached from the base; the lines drawn
  are those of what exists.
- ships: each in the list once and in its cell once, updated once per tick, removed when
  its hp are spent.

## 2. The modules

| module | models | kind |
|---|---|---|
| `CTypes` | the integer types of the build, with `IntMax` and `LongMod` for their widths | operators |
| `Http` | enumerations and header records of src/headers.h, `send_status`, `send_headers`; the client's view of what is written | operators |
| `StaticFile` | `send_data` and `send_response` of answer.c | state machine |
| `Semantic` | semantic.c and populate_headers.c | operators |
| `GetStatus` | one call of `getstatus` on any request | state machine |
| `FastCgi` | `sendFCGI` and all it calls | state machine |
| `Grammar` | expressions of a grammar, and what they denote in ABNF | operators |
| `Alphabet` | the symbols a text is made of | operators |
| `Abnf` | the rules of allrfc.abnf that concern a request | operators |
| `Calls` | what the functions of parser.c are made of: the tests of a character, the loops, the nodes of tree.c | operators |
| `Productions` | the functions of parser.c, one definition each | operators |
| `Parser` | `parseur()` and the tree it leaves | state machine |
| `ParserGrammar` | `Parser` compared with `Abnf` | properties |
| `HttpService` | what the main loop promises | abstract state machine |
| `Server` | the main loop, composed of `StaticFile` and `FastCgi` | state machine |
| `Page` | the page of the game: settings, loading, music, voice | state machine |
| `Exo` | the loop of the game: pointer, construction, tutorial, base | state machine |
| `Lists` | the removal that puts the last in the place of the one removed | operators |
| `Orbits` | the orbitals, the lines of their orbits and between them | state machine |
| `Swarm` | the enemy ships, their cells, and what is fired at them | state machine |
| `MC*` | values for the constants | instances |
| `*Proofs` | theorems about the module they extend; `ServerProofs` also has those about `GetStatus` | proofs |

### StaticFile

One action per system call, since others may change the file between two of them:
`Access`, `Fopen`/`FopenFails`, `Ftell`, then the dispatch on method and range
(`Head`, `WholeFile`, `RangeRefused`, `RangeServed`), one action per `fread`
(`ReadRange`, `ReadChunk`, `ReadIdentity`), and `SendResponse` when `send_data`
returned false. `Post` answers 405 before any call. `Replace` and `Resize` are the
others: a rename over the path leaves the open FILE with its old content, a truncation
changes what the next read delivers.

A file is its length; a directory, which `fopen "rb"` opens, is a node that no byte
can be read from and whose end is wherever the file system says (`DirTell`). What is
written is the record `out`: not bytes but what decides how a client delimits
them (framing announced, length, bytes of body sent, last chunk, Connection field)
and whether they came in an order that forms a response (`malformed`). `unclosed` and
`stale` are history variables: responses that left a FILE open, and whether the open
file changed since it was measured. `Begin` and `End` stand for the main loop.

### Semantic and GetStatus

A parse tree is the record of the nodes the checks look up (`Trees`). Each
`populate_*` and `check*` function is an operator on the request record, in the order
the code calls them, with `transfert_encoding.initialized` and the zero of an
enumeration where a field is read before it is populated. `populate_ranges` keeps
`atoi`'s cut of a long to an int, the sign taken for a negative start, and the
absent `-`. `GetStatus` judges one request of `Requests_t`; `Ruling` is the status its rules ask
for, by the lines of rulesSemantic.md and without a look at the code; its specification is
`JudgeSpec`, so that `ServerProofs` can extend it beside `Server`.

### FastCgi

`CreateSocket` (no descriptor left, refused, connected), one `WriteSocket` per
`write` — the `while (len)` loop with its partial writes, and with the wrap-around
that a return of -1 causes on an unsigned length — then one action per record read
(`ReadStdout`, `ReadOther`, `EndRequest`, `ReadShort`), `SendLength`, one `Flush` per
buffered record, `Shutdown`. `PeerGone` is php-fpm leaving at any moment of the
exchange. The script's output is a sequence of positions: a header section of
`script.header` bytes, then a body, with an optional `Status: ` at
`script.status`; a piece of it is an interval, so a lost, repeated or reordered
byte shows as `reply.torn`. Reads past a buffer (`strstr` on a record not ended by a
zero byte, the copy of a body shorter than its Content-Length) are choices over what
the process may find there, a fault included where the source may be unmapped.
What `strstr` could find in the part of the record buffer that still holds PARAMS or
a STDERR record is taken not to hold `Status: `.

### Parser

A function of parser.c is called with the node it adds to and reads the text from
`get_start` of that node: all that it needs to know of its caller is where that node starts
and how long it is so far. In `Calls` it is a function of these two numbers, whose value says
what it did: the new length or `None`, how many children it added, which of the nodes that
are looked up later, and what it lost or freed twice. `e & d`, `e | d`, `Opt`, `Star` and
`Plus` are the ways in which parser.c calls one function after another: choices are ordered
and never taken back, and a repetition takes all it can. `Productions` has the functions, one
definition each. They refer to one another without a cycle, so nothing is recursive but the
loops, which are recursive functions on the number of turns; that is what lets the prover
reason about them.

Starts, lengths and counts of children are `uint16_t`, with `LenMod` values. A node starts
where its parent ends so far and is as long as its children together, both cut to 16 bits.
A loop adds a child at least each turn: one of more than `LenMod` turns makes the count of
children 0 again, `realloc` to 0 bytes frees their array, and the child is written before it.
`Overflow` stands for that, and the state `"overflow"` for what follows, which C leaves
undefined. Built with gcc, the parser crashes on a path of 32 768 slashes (an empty segment
follows each), on 32 768 signs `-` in the name of a host (`unreserved` leaves the node it tried
for a letter and a digit and adds another: `AfterEmpty`; 32 767 signs are taken) and on
65 536 spaces before a value, does not return from a `Connection` field
of 16 384 times `,z`, and takes 65 000 spaces. Whether librequest lets a request of that size
through is not known: it is not in the repository as source. The count of the root's own
children is not followed: it has one for each field, of three symbols at least.

The rules of allrfc.abnf are in `Abnf`, and `Grammar!Ends` says what a rule denotes: all the
ends a match may have, in every way of matching it. `ParserGrammar` compares the two.

A text is a sequence of symbols of `Alphabet`: a character of each kind the grammar tells
apart, or a word (`Host`, `chunked`, `HTTP`, ...) that stands for its letters in any
case. The text of a request is ended by a zero byte, as parser.c relies on, and `rest` is
what memory holds after it; beyond `rest` nothing matches. `strchr` finds the zero byte
in every list of valid characters, so `tchar`, `unreserved`, `sub_delims` and `HEXDIG`
match it and a parse may go on into `rest`.

`Rule` is a function that makes a node; `Tmp` a temporary node, whose children
`move_childs` hands over when all of it matched. A `Mark` stands where the code never
frees such a node (`Lost`) or uses the array of children after it was handed over and
freed (`FreedTwice`); the latter is undefined behaviour, and the process aborts or the
parse goes on. `IPv6address` is one function of nine blocks, each a definition of its own.
`HTTP_message` is the state machine: `StartLine`, `HeaderField` once per field,
`EmptyLine`, `MessageBody`. A field whose line does not end where it stopped is given
back and ends the loop.

The model was compared with parser.c, compiled with allocation counted, on the 7 083
requests of the run that are shorter than `LenMod`, those of `Crowded` aside: verdict, place
of the nodes, memory lost and abort are the same.

### Server and HttpService

`Server` instantiates `StaticFile` as `SF` and `FastCgi` as `FC` over its own
variables; `fds`, the descriptors of the process, is the same variable in both.
`GetRequest` is everything between the return of `getRequest()` and the first system
call of the path chosen (`Dispatch`); `ServeStatic`, `Forward` and `Await` are steps
of the services; `BadRequest`, `Refuse` and the three `End` actions are the rest of a
turn. `EndRequest` models `endWriteDirectClient` and, unless the connection is kept,
`requestShutdownSocket`. Of librequest only the slots are modelled: free, ready
(a request can be taken from it), busy. A client may `Leave` while it is served, and
what is written to it is then lost: librequest ignores SIGPIPE, as the shipped binary
shows, so no write kills the process. `sockets` is a history variable, the number of
calls of `socket()` that succeeded, counted from the free descriptors the call finds and
not from what becomes of `fds`.

`HttpService` is the specification of the whole: a connection is free, ready or busy;
`Take` requires that none is busy; `Answer` leaves it ready or free; only a request
being served can take the process down (`Die`); and a request taken is eventually
answered or the process dies of it. `Server` implements it with `conn <- slot` and
`up <- (cpc # "crashed")`: the run `MCServer` checks `ImplementsHttpService`, and
`ServerProofs!Refinement` proves its safety part for every instance.

### Page

`Open` runs the scripts and takes the settings from localStorage, each read failing or
not; `Close` leaves nothing but `store`. `FirstTick`, `generateMusic`, `generateSound` and
`Title` are the branches of `LoadingScreen.update()`, one per tick. A wave is the number
of channels that were in the mix when `createWave()` was called (`src`). `play()` may be
refused only before the first gesture of a page that plays nothing (`Allowed`). `wanted`
is a history variable: the setting as it was last stored. What the game itself says
(`Announce`) and the end of its tutorial, which unchecks the box, come from `Exo` at any
time.

### Exo

The events (`MouseDown`, `MouseUp`, `KeyPress`, `Resize`) are taken between two frames;
`Frame` starts one of several ticks, and `step` goes through the components in the order
of game.js: `LoadingUpdate`, or `CheckBase`, `ViewUpdate`, `GuiUpdate`, `TutorialUpdate`,
`SelectHost`/`MeasureOrbit`/`SelectOrbitSize`, `ClickNearest`, `OrbitalsUpdate`,
`WaveUpdate`, `FieldUpdate`, `MouseUpdate`, then `Render`. Positions are choices: what the
pointer is over is chosen where a component looks, since the pointer moves between
any two handlers and the orbitals in each tick. As in `Mouse.js:64`, `MouseUp` does not ask whether a
button is down: a second button may be released after the first.

`FieldThrows` is `FieldUpdate` when `EnemyShip.update()` throws, at `Enemy.js:61`, `:66` or
`:153`: the rest of the tick, the other ticks of the frame and `render()` are skipped, and so is
`lastTick` (`game.js:62`), which only makes the next frame longer. The flags of the pointer are
not reset and nothing is drawn. Which ship is out of the grid is in `Swarm`; here the exception
may come whenever ships are out.

`drawn`, `panel`, `cut`, `dragged` and `used` are history variables: the orbit and the buttons
of the last frame, whether an exception has cut one short since, whether the current
press has moved the view, what the current release was used for. An orbital or a
construction carries the number of its game, so that one left over shows.

### Orbits

An orbital is its rank of creation, with a type, a host and the `label` it got, the length
of the list at that time; `orbitals` is the list. `Update` is one call of `t.update()` by
`forEach`, whose length is taken before (`length`) and whose list may shrink (`Destroy`).
`cache` is the set of orbits drawn into the canvas that a host keeps. `getComlines` is a
recursion over one shared list: `todo` is its stack, and which pairs are too far apart is
chosen when they are looked at (`apart`). What ships do is `Fire`: they spend the hp of
what `Targetable` lets them aim at.

### Swarm

`instances` is the list and `partitions` the grid of cells; the position of a ship is the
cell it falls in, or `Out`. A move or a push leads to any cell, and out of the grid from
a cell at its border only. `partition[s]` is `Null`, a cell or JavaScript's `Undefined`,
which `getPartition()` answers beyond the grid; an exception is a step to `thrown`, from
which the next frame goes on. The hp of a ship are spent or not. One action per module
(`Laser`, `Beam`, `Rocket`, `Emp`, `Lightning`), each paying its energy. A destroyed ship
stays in its cell, as in the code.

`Lists!SwapRemove` is the removal both use (`Enemy.js:62`, `Enemy.js:143`,
`orbital.js:44`).

## 3. The runs

`tlc -config X.cfg M`. State counts are those of distinct states.

| run | states | what it shows |
|---|---|---|
| `MCStaticFile` | 77 319 | three requests of any method, version and range for one path, with one change of the file between any two system calls: all properties of `StaticFile` |
| `MCGetStatus` | 52 674 | every combination of fields with a few Range fields, and every Range field of up to two specs |
| `MCFastCgi` | 132 825 | two requests in a row, php-fpm doing anything |
| `MCServer` | 405 052 | two clients, three requests among thirteen messages that between them take every way through the loop; both services, the descriptors they share; the refinement of `HttpService` |
| `MCParser` | 36 326 | some seven thousand requests, each through `HTTP_message`: all properties of `Parser` and `ParserGrammar` |
| `MCPage` | 145 297 | a page opened and closed at any time: all properties of `Page` |
| `MCExo` | 3 983 237 | two games in one page, events in any order between frames of one or two ticks, which an exception may cut short: all properties of `Exo` |
| `MCOrbits` | 2 147 223 | systems of up to six orbitals, built, destroyed and linked in any way: all properties of `Orbits` |
| `MCSwarm` | 399 831 | a wave over two cells and beyond, under all five modules: all properties of `Swarm` |

and one run per disagreement of section 4, each with one property.

### Properties

`StaticFile`: `OpenFiles` (no path but 416 loses a descriptor), `WellFormedResponse`
(exactly when the tokens form one response), `KeepAliveDelimited` (exactly which
answers leave a kept client without an end), `ConnectionAnnounced` (the field sent is
the decision taken after), `BodyFollowsFile` (`RangeNoOverrun`, `RangePosition` and
`ChunksFollowFile`), `EventuallyAnswered`. `GetStatus`: `AcceptedIsServable`,
`StatusFollowsRules` (the status is the one of `Ruling` but in three cases, and in each of
these exactly), `RangeAsAsked`. `FastCgi`: `ReplyIsWhole` (`OutputInOrder`,
`StatusLineWhole` and `KeptReplyDelimited`), `CrashesExplained`, `EventuallyAnswered`.
`Server`: `DescriptorsAccounted` (descriptors against the history of `socket()`, the files left
open and the one in hand; at most one for each request taken), `NeverSilent`, `KeptAsAsked`,
`ImplementsHttpService`.
`Parser`: `ParsesTheGrammar` (`NodesAreTheirRules` and `WellFormedIsAccepted`),
`ReadsPastTheEnd` (the text's end is passed exactly when the header section came
incomplete, and never in a version, a length or the value of a field), `HeapHandled`
(which requests lose a node or free an array twice), `ChildrenAreCounted` (no count of
children overflows in a request of less than half the values of a length), `NeverReadAgain`.

`Page`: `HeardAsAsked` (`MusicAsSet`: what plays is what the box says, and a game started
has its music; `OneVoice`: a new text cancels what is left of the last), `WaveIsWhole`,
`SettingsSurvive`, `Loaded`. `Exo`: `PendingIsAffordable` (minerals cannot become
negative), `OfThisGame`, `TutorialCanBeFollowed` (`TutorialGoesOn` and
`TutorialIsPeaceful`), `SimulationHasBase`, `PlayedAsDrawn` (`ClickedAsDrawn` and
`BuiltAsDrawn`, unless an exception has cut a frame short since), `ReleaseDoesOneThing` (`OneUse`,
with a release kept by an exception, and `PanNeverClicks`, with a second button, as the only
exceptions), `LostIsNoticed`.
`Orbits`: `SystemStands` (`SunIsFirst`, `PlanetsStand` and `LeftOutByALoss`),
`OnlineIsConnected` (exactly the stations a chain of lines leads to),
`LinesAreOfTheLiving`. `Swarm`: `InItsCellOnce`, `UpdatedOnce`, `SpentAreRemoved` (unless
a ship is out of the grid).

Each state machine but `GetStatus` has one `TypeOK`: the runs of `Server` and
`Parser` check it; those of `StaticFile`, `FastCgi`, `Page`, `Exo`, `Orbits` and `Swarm`,
where it says that no count becomes negative (descriptors, bytes left, subtitles' times,
minerals, energy), are proved.

Several of these are stated with their exact exceptions: the exceptions are the
code's known weak points, and the property says that there is no other.

Each property a run checks has a mutant of the code it breaks under (a dropped guard, a missing
`fclose`, an element linked in front of the list, ...); the mutated forms are the
operators named `<definition>_<change>`, defined next to what they mutate and used
nowhere else.

### Bounds, and why they are enough

- **Integer widths.** `IntMax` is 3 to 15 and `LongMod` 16 to 64, so that the cut of a
  long to an int, a negative length as an unsigned long and the wrap-around of
  `len -= w` happen within a few steps. Nothing in the code depends on a width
  otherwise, and the proofs hold for all.
- **Buffers.** `BUFFER_SIZE` is 2, `BIG_BUFFER_SIZE` 3, `MAX_STREAM_SIZE` 4 against files
  of 0, 1 and 5 bytes: empty files, a part of a buffer, several buffers, a last short
  one, and both sides of the limit of a range.
- **Ranges.** The ten of `MCRanges`: absent end, no `-`, last byte, one past, far past,
  inverted, suffix, negative end, a start near `INT_MAX`.
- **Descriptors.** `MaxFds` is 1 or 2: one leak is enough to reach the limit of 1, and the
  second request then meets it; of `MCServer`, a socket and a file left open reach 2, and
  the third request meets it (`MCServer_FilesStillServed` has 1, and two requests).
- **`MaxRequests`, `MaxTaken`.** What one request leaves to the next is a descriptor
  and a connection; two or three requests in a row show both.
- **`MaxChurn` = 1.** One change between any two calls. Two changes within one request
  add no branch of the code: each call sees the file as it is then.
- **Records.** Three at most, of 0, 1 or 3 bytes with a header section of 0, 2 or 5
  and a status at 0, 2 or nowhere: a header in one record, over several, absent, a
  status at the start, inside or past the first record. `Overread` is how far a search
  past a buffer runs.
- **Requests of `MCParser`.** One part of the request varies and takes every text of up to
  three or four symbols, the ones that part tells apart among them: target, version,
  method, each of the seven fields and a field of any other name; IPv6 addresses of up to
  eight groups with `::` anywhere and the tail a group, an IPv4 address or nothing; all
  pairs of five fields; three requests cut anywhere with four contents of the memory after
  them; and requests on both sides of `LenMod` = 64, which
  wrap, their last field at every position around it; and paths, blanks and hosts of signs on both
  sides of what a count of children holds, or half of it (`Crowded`). What is repeated without limit in the grammar
  is met zero, one and several times.
- **Messages of `MCServer`.** One per way through the loop: not parsed; GET, HEAD, POST,
  asked to close, no host, not acceptable, a satisfiable range and one past the end; and
  for php HTTP/1.1, HTTP/1.0 keep-alive, an unknown version, a POST with a body shorter than
  announced. A php request without host takes the way of the one with (`server.c:52`).

- **`MCPage`.** One track of two channels, two sounds of one: a board that is done in one
  call and one that is not; texts of one and two sentences; a subtitle that lives one
  tick. `MaxSubtitles` bounds what is announced at once.
- **`MCExo`.** Two games, so that one follows another; frames of one or two ticks, since what
  one tick leaves to the next is met at the second; two buttons, of which one costs all
  the minerals of the start; `MaxMinerals` is that start, which the income may bring back
  after each construction; three missions, the first told by itself, the last one ending the tutorial; one wave; times
  of 0 or 1 tick; orbits of distance 0 and 1. Exceptions are not bounded: each tick with ships
  may end in one.
- **`MCOrbits`.** A star, a planet with a moon or without, two mining stations and up to two
  more: chains of two lines, two ways to one station, labels that two orbitals share,
  losses at the start, in the middle and at the end of the list. One planet is enough:
  others differ from it only by not being the base, as the moon.
- **`MCSwarm`.** Two ships, two cells, one of which is at the border: neighbours in a cell,
  a ship that leaves, one that comes back. Energy for three shots, a lightning that stops
  at its first target.

The bounds stop the model of the server, not the server: after the last request nothing is left to
do, so the cfgs of the server's modules say `CHECK_DEADLOCK FALSE`. That a request never gets stuck is
`EventuallyAnswered` and the liveness part of `ImplementsHttpService`. The runs of the
game check deadlock: there is always a next frame.

No symmetry is used: liveness is checked in the runs that could use it.

### Fairness

- `Parser` needs none: its steps are calls that return, and `NeverReadAgain` says that the
  one loop over them reads on, in a text that ends.
- The server is one thread and nothing it does outside `read` waits for anybody: weak
  fairness of its own steps, taken together (`Step \/ End`, `Own \/ End`,
  `Loop \/ ServeStatic \/ Forward`).
- `read` on the php-fpm socket has no timeout (`fastcgi.c:28`). That a request comes
  back at all rests on php-fpm, which ends each request or its connection
  (`request_terminate_timeout`, or its death): weak fairness of
  `EndRequest \/ PeerGone`. This is an assumption on the environment; the code has nothing
  to fall back on.
- In the game, `frame()` asks for the next frame before it does anything (`game.js:52`), so
  that frames go on after an exception too: weak fairness of the ticks of the loading
  screen (`LoadingTick`), of the steps of a frame (`Animation`), and of those of the
  tick (`Ticks`) in a game that is not paused for ever. A page in the background has no
  frames: the properties are about one that is shown. `Orbits` needs none.
- Nothing is assumed of the player, the browser's answers, the clients or of those who change files: that a file changes or
  a client leaves is possible, never certain.

## 4. Where the code and the documents differ

Three differences have a run each (the `violation` runs), which finds a trace; the
quotations are in `PROJECT.json` under `findings`.

| run | what the trace shows | against |
|---|---|---|
| `MCStaticFile_LengthIsBodyLength` | an HTTP/1.0 GET announces the size and sends an empty body: no seek back from the end (`answer.c:265`) | rfc7230, 3.3.2 |
| `MCServer_FilesStillServed` | sockets that are shut down but not closed make `fopen` fail (`fastcgi.c:386`, `answer.c:255`) | README.md:39 |
| `MCSwarm_PartitionIsArray` | a ship led or pushed out of the grid has no array of neighbours: the frame throws at every tick while it is out and, once it is back, until a new game; nothing is drawn (`Enemy.js:217`, `:66`, `:61`) | Enemy.js:215, `@return {Array}` |

Others are visible in the models and have no run of their own:

- `answer.c:297`, `:309`: a last position absent or equal to the size makes a 206 announce
  one byte more than it sends, against rfc7233, 2.1.
- `semantic.c:74` looks up `Content-Length` where the node is `Content_Length`: every
  HTTP/1.0 keep-alive request gets 400, one with a length too, against rulesSemantic.md:76
  (`LengthUnseen` says when).
- `semantic.c:51`: HTTP/0.9 and versions that do not exist get 505, against
  rulesSemantic.md:5, which has 400 for them (`CalledUnsupported`).
- `parser.c:1574`: a field of a known name whose value goes on after what its production
  takes (`Host: %`, `Content-Length: 1 z`) makes the whole request a bad one; the line is
  not read again as any other field, against allrfc.abnf:520 and parser.c:1396.
- `fastcgi.c:362`: a second record after one with `Status: ` dereferences NULL, against
  README.md:39 (`CrashesExplained` says when).
- `server.c:52`: a .php path skips `getstatus` and its Host check, against
  rulesSemantic.md:68.
- `answer.c:294`, `:302`: both 416 answers return without `fclose`, against README.md:43
  (no known leaks); `OpenFiles` says that no other path does.
- `populate_headers.c:130`: `bytes=-N`, the last N bytes in rfc7233, is served as `bytes=0-N`
  (`RangeAsAsked` says so).
- `answer.c:255`: when `fopen` fails after `access`, header fields are sent without a
  status line (`WellFormedResponse` says that this is the only case).
- `answer.c:245`, `:290`: 415 and 416 on a kept connection announce no length of their own
  (`KeepAliveDelimited` lists them).
- `populate_headers.c:43` looks up `Transfer-Encoding` under a name the parser never
  gives, so rulesSemantic.md:32 is not enforced; `semantic.c:67` tests
  `.initialized`, which is always set by then, so rulesSemantic.md:78 is not either, nor :62 for
  a length beside a coding (`CodingUnseen` says when).
- `populate_headers.c:134`: `bytes=0-0` cannot be asked for (`RangeAsAsked` excepts a
  last position of 0).
- `fastcgi.c:312`: the version is sent before php-fpm is known to be there, so a client may
  get half a status line (`StatusLineWhole` says when).
- `fastcgi.c:303`: the body is copied with the length announced, past its end if it is
  shorter (`CrashesExplained`).
- `server.c:55`: `endWriteDirectClient` is called even if nothing was written, which
  lib/request.h:120 rules out (`NeverSilent` says when).
- `parser.c:256`: HEXDIG takes its letters in upper case only, where ABNF takes both
  (`WellFormedIsAccepted` uses the upper case alone); `parser.c:1426`: the protocol's name
  is taken in any case, where RFC 7230 has it in capitals (`NodesAreTheirRules`).
- `parser.c:539`: a host that starts with an IPv4 address and goes on as a name is cut there,
  and the request refused (`CutShort`).
- `parser.c:663` (in `ls32`), the IPv6 blocks and `parser.c:1511` lose temporary nodes, against
  README.md:43; `parser.c:1010`: an IPv6 host of one to six groups that ends in `::` frees an
  array twice, which aborts the process (`HeapHandled`).
- `parser.c:138`, `:230`, `:241`, `:266`: `strchr` finds the zero byte (`ReadsPastTheEnd`).
- `tree.c:72`: the count of children overflows on a long request (`ChildrenAreCounted` says
  that it takes 2^15 - 1 bytes at least, what follows the request in memory included); slashes,
  and the signs of a host's name (`parser.c:221` adds two children for each), come that near.
- `graphics.js:57`: two orbitals around one host may have the same label once one was
  destroyed, and the orbit of one of them is then not drawn (`LinesAreOfTheLiving` says
  that no other is missing).
- `Enemy.js:143`: a destroyed ship stays in its cell for ever, and goes on pushing those
  that come near (`InItsCellOnce`).
- `Mouse.js:64`: a release is one of any button. Press one, press another, move the view,
  release one: after a tick the release of the other is a click (`PanNeverClicks` says that
  only then).
- `game.js:91`: a frame that an exception cuts short keeps its click and its release for the next
  and draws nothing, so that they meet buttons, prompts and orbits that were not shown, and
  a release that selected an orbital may choose a host after (`ClickedAsDrawn`, `BuiltAsDrawn`
  and `OneUse` say that only then).
- `game.js:30`: rockets survive a new game, which clears lasers and ships.
- `game.js:15`: the space bar leaves the loading screen without a game when the base was
  lost: for one tick a click on a button's place starts a construction (`SimulationHasBase`
  says that no more than that happens).
- `orbital.js:44`: a tick in which an orbital is destroyed leaves one out
  (`LeftOutByALoss`).
- `server.c:43`: the 400 for a request that does not parse is a status line without
  the empty line that ends a header section.

## 5. The proofs

`tlapm M.tla` checks the proofs of `M`. All of them hold for every value of the
constants that satisfies the named `ASSUME` of the modules, which are types and ranges but
for these:

- `WidthAssumption` (`CTypes`): a long holds at least the values of an int;
- `NumberAssumption` and `GetStatusAssumption`: the numbers written in a request are
  integers, and the trees are of the shapes the lookups can leave;
- `FastCgiAssumption`: the record buffer holds a header and a content in an `int`;
- `ServicesAssumption` (`Server`): what the two services ask of the constants they share,
  so that what is proved of each can be used in the composition;
- `PageAssumption`: players of a board have as many channels, as the data have;
- `InputsAssumption` (`Parser`): a request is a sequence of the alphabet without a zero byte,
  and what follows it in memory is one with or without;
- `OrbitsAssumption`: what is generated fits the bound;
- `ExoAssumption`: there is a button for a satellite, and the last mission ends the
  tutorial.

TLC evaluates all of them in the runs.

| module | theorem | property |
|---|---|---|
| `StaticFileProofs` | `TypeCorrect` | `TypeOK` |
| | `DescriptorsAccounted` | `OpenFiles` |
| | `OneWellFormedResponse` | `WellFormedResponse` |
| | `NoRangeOverrun` | `RangeNoOverrun` |
| | `RangeFromPosition` | `RangePosition` |
| | `ChunkedBody` | `ChunksFollowFile` |
| | `BodyIsOfTheFile` | `BodyFollowsFile`, the three above |
| | `ClientIsTold` | `ConnectionAnnounced` |
| | `KeptConnectionIsDelimited` | `KeepAliveDelimited` |
| `FastCgiProofs` | `TypeCorrect` | `TypeOK` |
| | `OutputDelivered` | `OutputInOrder` |
| | `StatusLineGiven` | `StatusLineWhole` |
| | `KeptReplyHasLength` | `KeptReplyDelimited` |
| | `ReplyDelivered` | `ReplyIsWhole`, the three above |
| | `TwoCrashes` | `CrashesExplained` |
| `ServerProofs` | `Refinement` | safety part of `ImplementsHttpService` |
| | `TypeCorrect` | `TypeOK` |
| | `DescriptorsShared` | `DescriptorsAccounted` |
| | `NoSilentEnd` | `NeverSilent` |
| | `KeepsAsAsked` | `KeptAsAsked` |
| | `PromisesKept` | `WellFormedResponse`, `BodyFollowsFile`, `ReplyIsWhole`, `CrashesExplained`, in the loop |
| | `AcceptedCanBeServed` | `AcceptedIsServable` of `GetStatus` |
| | `RulesFollowed` | `StatusFollowsRules` of `GetStatus` |
| | `RangeIsServedAsAsked` | `RangeAsAsked` of `GetStatus` |
| `ParserProofs` | `TypeCorrect` | `TypeOK` |
| | `ZeroByteIsClaimed` | `ReadsPastTheEnd` |
| | `CountsHold` | `ChildrenAreCounted` |
| | `ReadOnce` | `NeverReadAgain` |
| `PageProofs` | `TypeCorrect` | `TypeOK` |
| | `WavesAreWhole` | `WaveIsWhole` |
| | `HeardAsSet` | `HeardAsAsked` |
| | `SettingsKept` | `SettingsSurvive` |
| `ExoProofs` | `TypeCorrect` | `TypeOK` |
| | `ConstructionIsPaid` | `PendingIsAffordable` |
| | `GamesAreApart` | `OfThisGame` |
| | `TutorialLeads` | `TutorialGoesOn` |
| | `NoWaveInTutorial` | `TutorialIsPeaceful` |
| | `BaseIsThere` | `SimulationHasBase` |
| | `ReleaseIsUsedOnce` | `OneUse` |
| | `ShownIsOffered` | `ClickedAsDrawn` |
| | `PlacedWhereShown` | `BuiltAsDrawn` |
| | `PannedIsNoClick` | `PanNeverClicks` |
| | `TutorialHolds` | `TutorialCanBeFollowed` |
| | `ScreenIsTrue` | `PlayedAsDrawn` |
| | `OneReleaseOneEffect` | `ReleaseDoesOneThing` |
| `OrbitsProofs` | `TypeCorrect` | `TypeOK` |
| | `SunStaysFirst` | `SunIsFirst` |
| | `NoPlanetIsLost` | `PlanetsStand` |
| | `AllAreUpdated` | `LeftOutByALoss` |
| | `SystemIsKept` | `SystemStands`, the three above |
| | `LinesAreCurrent` | `LinesAreOfTheLiving` |
| | `OnlineIsLinked` | `OnlineIsConnected` |
| `SwarmProofs` | `TypeCorrect` | `TypeOK` |
| | `CellsHold` | `InItsCellOnce` |
| | `TickUpdatesOnce` | `UpdatedOnce` |

**StaticFile.** None of the properties is inductive alone. `IInv` adds what ties the
program counter to what has been written (`StreamInv`: nothing before the dispatch),
to the response record (`EncodingInv`: the size is known exactly when the body is not
chunked; `RefusedInv`: what reaches `send_response`) and to the FILE (`BodyInv`: in a
range, what was sent plus what is waiting does not exceed what was announced).
There is one lemma per action. `KeepAliveDelimited` needs more, on top of `IInv`: that the
FILE in hand is the file at the path until it is replaced, so that no change of its size
goes unnoticed (`NodeInv`); that a range taken from it is announced with the bytes it has
(`SizeInv`); and that a connection is given up on each of the ways to a response without
length or chunks, long before that response starts (`KeptInv`).

**GetStatus.** One step; the work is in the lemmas on `AtoI` and `populate_ranges`
(every result is an int, the start at least -1; it is the number written when that
fits) and on each check in turn. `RulesFollowed` compares the chain of checks with `Ruling`,
by cases on the method and the version: one is in the order of the code, the other in that
of the rules, and a fault seen late by one may come early in the other.

**FastCgi.** `IInv` is `TypeOK` with `OrderInv` (`FreshInv`: before the first record
nothing was buffered or written; `BufferInv`: the list and `tail` against
`keepalive` and the first record; `ListInv`: the buffered pieces are contiguous and
start where the writing stopped), `StatusInv` (who gave the status line so far),
`AnnouncedInv` (what the length was computed from) and `CrashesExplained`. It needs the
contiguity of the whole list, not only of its end: `Flush` takes from the front what
`LaterBuffered` appended at the back.

**Server.** `BusyInv`: no slot is busy while the loop waits, exactly the client's is
otherwise, and `sendFCGI` is entered exactly while the loop is with php-fpm. With it
every step of `Server` is a step of `HttpService` or leaves its variables alone.

`ServerInv` carries the invariants of the parts through the composition: `SP` and `FP` are
the proof modules of the parts, instantiated with the variables that `Server` gives them,
and their lemmas are cited for its steps; what `getstatus` says of a message is the lemmas
about `GetStatus`. `StaticInv` says that the IInv of
`StaticFile` holds whenever its locals are those of a request, where the sockets that
`sendFCGI()` never closes count, for it, as descriptors left open; in the two stages in which the
loop answers by itself it says what the loop has put there. `CgiInv` ties the request of `FastCgi`
to the message the loop took, `KeepInv` what each service thinks of the connection to
what the client asked, and `SpentInv` the descriptors to the requests taken: each leaves
one at most, so that `fds` never exceeds `taken`. Between two requests both services are entered anew: that the
state they are entered in satisfies their invariants again, whatever the last request
left in the descriptors, is `EnterInv` of each, and that one leaves the other's alone is
`SharedFds`. `PromisesKept` then restates for the loop what was proved of each
service alone.

**Page.** `WaveInv` (a wave is made when its player has no channel left) and `BoardInv`
(the players of a board go on and end together, first those of the music) say that
the progress counted by the loading screen is that of the players; `MusicInv`
adds to `MusicAsSet` that music that plays has a listener, and that a click is a gesture: the
click that starts a game lets the music play first. `StoreInv` relates what localStorage
holds to the history of what was stored; reading it gives `SettingsSurvive`.

**Exo.** `ExoInv`: `BuildInv` (what can be built is paid for, and nothing is pending without
a game), `BaseInv` (where the steps of a tick are reached with a game and with a base),
`MissionInv`, `UsedInv` (a release is used up before the step that could use it again; after an
exception it may be there again, and is known to have selected only), `DrawnInv` (an orbit is
measured as the next frame draws it, unless that one is cut short, and not again before a release
is looked at) and `DragInv` (a press that has moved the view drags as long as it lasts). `PanelInv`, on top of it, says that nothing drawn to be
clicked on changes before the click is looked at: minerals are spent and missions shown
by steps that come after those that look at the click, or that drop it, as long as no frame is
cut short.

**Orbits.** `OrbitsInv`: only what can be lost is ever online, aimed at or on the stack of
the lines (`SystemInv`), as long as nothing is lost the loop has updated all those before
its index (`LoopInv`), and a canvas holds living orbitals around its own host, all of them
after a render up to a shared label (`CacheInv`). `LinkInv`, on top of it, is the invariant of the
search for the lines: what is found is visited (and online) or waits in `todo`, once and
in one of the two; the ends of the lines are all of it but the base, each once; what was
not found was too far from all that was visited; and there is one line less than
there are orbitals found. That a node's neighbours come in any order, once each,
is `Ordered`: a list that goes down strictly and is as long as the set holds all of it, by
the pigeonhole principle.

**Swarm.** `SwarmInv`: the cells are right at every step, the ships not yet updated are
those up to the index, and a ship destroyed there is replaced by one already updated
(`LoopInv`); the lemma `SwapRemoved`, here and in `OrbitsProofs`, says what the removal keeps.

**Parser.** What a function does is said of every call of it: that it goes on from where it
was, within memory, and that its nodes are where it went (`GoesOn`); that it takes a symbol
(`Takes`), adds at most two children for each and a few more (`Adds`), does not go past an
empty line (`Stays`) or the end of the text (`StaysInText`), ends a line (`EndsLine`), and
that the zero byte, if it passed it, is in one of its nodes (`Claims`). There are three kinds
of lemmas. Those about the ways of calling (`SeqDoes`, `AltDoes`, `StarDoes`, `TmpDoes`,
`RuleDoes`, ...) carry this from the functions called to the one that calls them; a loop is
an induction on its turns, made by a least number (`LeastOf`) as the library's induction
theorems cannot be used: `RunsExist` and `RunsAgree` give a loop its sequence of lengths, and
`LoopGoesOn` and `LoopAdds` what holds all along. Those about the functions (`Tokens`,
`Hosts`, `Fields`, `Headers`, `Lines`, `Body`) follow parser.c, and say which of them have
which of these properties: `OWS` takes nothing sometimes, so that a loop over it alone would not
end, and `obs_fold`, which takes the end of a line, stays before an empty one all the
same since it needs a blank after it. The invariant `Reading` then says of the program that
the nodes are in what was read, the zero byte in one of them if it was passed, and the parse
after the first line past the end of a line but not past an empty one: that is why it
comes to the zero byte exactly when the header section is not whole. The theorems are about
every sequence of the symbols of `Alphabet`, of any length, whatever `LenMod` is.

Only model-checked: the liveness properties (both `EventuallyAnswered`, the `Answered`
part of `ImplementsHttpService`, `Loaded`, `LostIsNoticed`, `SpentAreRemoved`), since
the prover has no rule for weak fairness over ENABLED; and `ParsesTheGrammar` and
`HeapHandled` of `ParserGrammar`, which compare the parser with what a rule of allrfc.abnf
denotes: `Ends` is a RECURSIVE operator on the rule, which the prover does not handle, and
what it computes for every text would take an induction over data. Every other invariant and
every action property of the passing runs is stated by a theorem.

## 6. What is not modelled, and the plan

Left out on purpose: the wording of headers (Content-Type, Server-Timing), the
MIME table (its one effect, whether `isAccepted` says yes, is an input), the dead code
(`sendDeflateBody`, `sendGzipBody`, `sendGetValue`, `sendAbortRequest`), the parser's test
program and scripts, the HTML of the sites served, and the inside of librequest. `main()` returning on
a NULL request and the ten-turn `LEAK_CHECK` build stop the program between two
turns and are left out too.

Of the game: what is only drawn (bodies, trails, shadows, the star field, explosions, the
beams of lasers once they are fired), coordinates (what the pointer is over, what is in
range and where a ship is pushed are choices), the notes and samples inside the player, the
names and costs of upgrades that nothing offers (`OrbitalUpgrades.get`), all zoom levels but
one for the canvases of the orbits. A ship's hp and an orbital's are reduced to whether they
are spent; the cooldown of a module to its being due or not.

Next, in this order:

1. `ParseTree` — what `Parser` leaves out of tree.c and api.c: recursive free, the
   `rootTree` global, `purgeTree` between two requests, the lists `searchTree` makes and
   their release. Safety: no node freed twice or reached after it was freed, `rootTree`
   never left on a freed node.
2. `Paths` and `Accept` — `url_decode`, `remove_dot_segments`, `beautify_url`,
   `have_separators`, `isAccepted` against reference definitions.
3. `NameValue` — `addNameValuePair` and the bound it checks; and the record stream
   php-fpm reads after a short write, which `FastCgi` abstracts to the bytes left.
4. Proofs — that freeing a tree frees each node once; an abstract specification of what
   one service promises for one request, which `StaticFile` and `FastCgi` both
   implement.
