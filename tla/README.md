# A verification project for the EmmyLua language server and debug adapter

This directory holds TLA+ models of the VS Code extension EmmyLua: of
`emmylua-ls`, its language server in C++, and of the debug adapter and the client
extension in TypeScript. TLC checks the models on small instances; TLAPS proves
the theorems of the `*Proofs` modules for all values of the constants.
`PROJECT.json` lists the components, the runs, the definition-by-definition
map to the source, the hazards, the mutants and the theorems. Paths below are
relative to the root of the repository.

To repeat a check, in this directory:

    tlc -workers 2 -config MCTransport.cfg MCTransport
    tlapm InputProofs.tla

## 1. Inventory

### Components

| component | source | state it keeps | operations |
|---|---|---|---|
| LSP transport | `emmylua-ls/src/lsp/Transport.{h,cpp}` | `running_`, `queue_` with `queueMutex_` and `queueCv_`, `writeMutex_`, `readerThread_` | `start`, `stop`, `readerLoop`, `receive`, `sendResponse`, `sendError`, `sendNotification` |
| dispatcher and main loop | `lsp/Dispatcher.{h,cpp}`, end of `main.cpp` | `shouldExit`, handler tables | `dispatch`, the loop, the handlers' registration |
| workspace indexing pool | `index/WorkspaceManager.{h,cpp}` | the list of files, three atomic counters, the threads | `indexWorkspace`, `loadStdLibrary`, `indexFile`, `removeFile` |
| symbol index | `index/SymbolIndex.{h,cpp}` | `documents_` under a shared mutex | `updateDocument`, `storeDocument`, `removeDocument`, `getDocument`, `findDefinition`, `findReferences`, `searchSymbols` |
| document synchronisation | handlers in `main.cpp` | none of their own: texts live in the symbol index | `didOpen`, `didChange`, `didClose`, `didChangeWatchedFiles`, `publishDiagnostics`, the dependency loop |
| request handlers | `main.cpp` | none of their own | hover, definition, references, highlight, rename, completion, signature help, inlay hints, symbols, folding, annotator |
| lexer, parser, annotation parser, document index | `parser/*`, `index/DocumentIndex.*` | local to one parse; the lexer has a static keyword table | text to tokens, tree, scopes and symbols |
| configuration | `config/Config.h` | file extensions, exclude patterns, module pattern | read by workers and parser, written by main |
| debug session | `src/debugger/EmmyDebugSession.ts`, `EmmyAttachDebugSession.ts`, `EmmyLaunchDebugSession.ts`, `EmmyDebugProto.ts` | `client`, `readHeader`, `currentCmd`, `breakNotify`, `breakpoints`, `evalIdCount`, the socket server | launch/attach, `onConnect`, `onReceiveLine`, `onSocketClose`, set breakpoints, evaluate, step, disconnect |
| frames and variables | `EmmyDebugSession.ts`, `EmmyDebugData.ts` | current stacks, current frame, variable handles | `stackTraceRequest`, `scopesRequest`, `variablesRequest`, `findFile` |
| extension life cycle | `src/extension.ts`, `luaContext.ts`, `emmyConfigWatcher.ts` | the client, watchers, progress bar, configuration list | start, stop, restart, watch, `updateConfig` |
| annotator | `src/annotator.ts` | one timer, decoration types | `requestAnnotators`, debounce |

Also in the repository, and not behaviour over time: the providers of debug
configurations, the PSI viewer, tables of the language configuration, the
standard library stubs under `res`, grammars, snippets and the build.

### How they interact

    VS Code --stdin--> reader thread --queue_--> main thread --stdout--> VS Code
                                                   |  ^                    ^
                          starts once, detached    |  |  reads             |
                                                   v  |                    |
                       indexing thread --> workers --> SymbolIndex         |
                              '------------ progress, indexingDone --------'

    VS Code --DAP--> debug adapter --TCP, two lines a message--> Lua process

The reader thread and the main thread share the queue. The main thread, the
detached indexing thread and up to eight workers share the symbol index, whose
mutex is held for one access at a time and never across two. All threads share
stdout. The debug adapter is one event loop of Node in a process of its own; it
shares nothing with the language server. The extension starts both.

### What is hard, and what makes each part right

* **Transport.** Reader and main interleave around a condition variable whose
  flag is written without its mutex; three threads write to stdout; shutting down
  has to unblock a thread in `std::cin.get()`. Right means: what is accepted is
  delivered once and in order, each request gets one answer, frames do not
  interleave, nothing is dispatched after `exit`, and the process ends.
* **Pool.** Threads share a list and divide it by index arithmetic; a file
  may throw. Right means: each file is taken once and finished once, the
  counters add up, each milestone is reported once, and `emmy/indexingDone` follows
  the last store and does come.
* **Documents.** Two kinds of writers of one index; check, parse and store are
  three separate accesses; a pointer into the index outlives its lock.
  Right means: the index and the diagnostics end with the editor's last word.
* **Debug session.** One reading state for all connections, connections that
  overlap, tear or come back, requests that arrive while a dial is in progress,
  answers that arrive late. Right means: a Lua process is greeted first and has
  the editor's breakpoints, lines are read in phase, an answer settles its own
  question, a loss is noticed.
* **Frames and variables.** A stack trace waits for a search of VS Code at every
  file it does not know; a variable is evaluated in whatever frame is current by then,
  and its answer comes back by number. Right means: a trace lists its own stop, a
  variable shows its own value, every request ends.
* **Lexer and parser.** One token of look-ahead and awkward edges: escapes, ends of
  long brackets, recovery after a stray token. Right means: a valid program
  is read whole and without an error, blocks stay in step, and no text at all
  makes a loop stand still.
* **Document index and request handlers.** Each handler has its own idea of what the
  word at a place is and where a declaration stands. Right means that they agree
  with the text and with one another, and that a rename keeps every binding.
* **Extension.** Restart during a stop, a stop that is rejected, watchers that pile up,
  timers that are never cancelled, an await between looking up and pushing. Right means: one
  server, a list that follows the disk, starts that end.

`hazards` in `PROJECT.json` has the individual places, each at its line. Smaller ones
that are not listed there: `loadStdLibrary` reports "Ready" and loads
nothing; reports of two milestones may overtake one another on the wire; emptying an
open file keeps its last document, which the code intends; at end of stdin
`main` may leave queued messages undispatched; the incremental branch of
`didChange`, which no conforming client takes because the server advertises
`change: 1` (whole texts), starts at offset 0 when an edit begins at the very end
of the text.

## 2. Modules

| module | what it is |
|---|---|
| `LspService` | abstract: frames arrive, requests are answered once, in order |
| `Transport` | reader thread, queue, main loop, writers; refines `LspService` |
| `FileSweep` | abstract: files are taken and finished once, then the end is announced |
| `IndexPool` | the threads of `indexWorkspace`; refines `FileSweep` |
| `DocSync` | editor, disk, main thread and workers around the symbol index; its workers are an instance of `FileSweep` |
| `Lexer` | `readToken`: a text cut into tokens |
| `Parser` | the recursive descent as a pushdown machine that takes any tokens |
| `LuaPrograms` | `Parser` fed by the Lua 5.3 grammar, with slips of the author |
| `DocumentIndex` | what is kept of one parsed text: symbols, places, parameters |
| `Editor` | the documents under edits, renames and settings, and the request handlers |
| `EmmyDebugSession` | the debug adapter in its four forms, with its connections |
| `DebugFrames` | stack traces, scopes, variables and evaluations on one connection |
| `Extension` | starts, restarts and crashes of the server, config watchers, progress bar |
| `MC*` | instances for TLC, and statements quoted from the repository that a run refutes |
| `InputProofs` | the theorems about `Transport` and `Lexer`, the two modules of what the server reads |
| `EditorProofs` | the theorems about `Editor` and `DocumentIndex` |
| other `*Proofs` | the theorems about the module they are named after |

The composition runs through the abstract modules. `DocSync` takes its inbox to
be a FIFO, which is `FifoDelivery` of `Transport`, and its workers to be
a `FileSweep`, which is `RefinesSweep` of `IndexPool`. Both are theorems.
`LuaPrograms` composes `Parser` with the language it reads, `Editor` composes
`DocumentIndex` for each of its files. `DocumentIndex` takes texts whose blocks are
balanced, of which `BlocksInStep` says that the parser nests them as they stand;
`DebugFrames` takes one connection in phase, which is `LinesInPhase` and
`AnswersOwn` of `EmmyDebugSession`.

### `Transport`

A frame is a position in the client's stream, and its kind is what the code tells
apart about it: whether `readerLoop` accepts it (`noLength`, `badLength`,
`dropped`), and what `dispatch` does with it. Actions of the reader are the parts of
`readerLoop` between two accesses to shared state: `ReaderTest` (the loop
condition), `ReadHeader`, `ReadBody`, `Push` (with `queueMutex_`), `Notify`,
`ReaderEof` (which clears `running_` *without* the mutex). Those of main are
`LoopTest`, `Receive`, `Block` (the wait enrols with the condition variable and
releases the mutex; this is the one gap in which `queueMutex_` is held between two
steps), `Dispatch`, `Respond` (header and body under `writeMutex_`), `Stop`,
`Join`. `IndexerStep` is the detached thread, seen as a second writer.
`outcome = "terminated"` is `std::terminate`: from `std::stoi` on a bad
length, from `body.value()` on JSON that is no object, and from the destructor
of a thread nobody joined. The contents of JSON and what handlers compute are left out.

### `IndexPool`

`kind[f]` says what reading and parsing file `f` leads to: it is stored, it is
empty or larger than 500 KB and skipped, or it throws and is counted as failed.
A worker's program counter follows the lambda in `indexWorkspace`: `Loop`, `Read`,
`Skip`/`Fail`/`Store`, `Count` (the atomic increment together with the test of
its result), `Report`. `at[w]` is `idx`. The indexing thread is `Launch`,
`Join`, `Done`. `NumThreads` has the code's cases for a
`hardware_concurrency()` of 0 and above 8. Discovery is the number of
files it finds.

### `DocSync`

`docs` is `documents_`, with the text from which each document was parsed for the
document itself. `job` and `main` follow one `indexFile` call through
`updateDocument`: `Check` (empty text, or same size and `quickHash`, under the
shared lock), `Store` (under the exclusive lock), `GetDocument` and `Publish`
(`publishDiagnostics`). `Dependency` is a pass of the loop over `Include("...")`
in a document just opened. `Forget` is `didClose` and the deletions of
`didChangeWatchedFiles`; `written`, the watcher's other events, changes nothing
because the code ignores them. `Take` and `Finish` are a worker's read from disk
and its store.

Points that a reader might not expect:

* `getDocument` returns a raw pointer and releases the lock. If a worker replaces
  the document before `publishDiagnostics` is done, main reads freed memory. This
  is undefined behaviour; the model lets any errors be shown, or main crash.
* `lastSure[u]` is a history variable: the editor's last word on `u` came after the
  workers were done with `u`, and nothing said later (a close, a deletion, an
  opened text that includes `u`) undoes it. `LastWordIndexed` is about such files.
  About the others the run `docsync_workers` shows that nothing can be promised.
  The dependency loop is a second way to lose the editor's text: it stores what is on
  disk (`main.cpp:287`) over an open, unsaved buffer.
* Four more statements of the design notes and comments do not hold of this model
  either; they are short enough to be seen in the actions and have no run. A
  change on disk that no editor made is ignored, although `DESIGN.md:302` has the
  server respond to changed files. `didClose` removes a file that the workers had
  indexed. Two texts of one size and one `quickHash` (a polynomial in 31: `Aa` and
  `BB`) are taken for identical, though `SymbolIndex.cpp:50` says identical content.
  The loop over `require`, which the comment at `main.cpp:251` names, starts its
  search at `npos`, so that only `Include` is followed.

The paths are those of Windows: on Linux
`uriToPath` drops the leading `/`, so that discovery finds nothing and no
dependency is opened. Events of the watcher are assumed to keep their order with
the editor's notifications, since VS Code sends both through one client.

### `Lexer`

One action, `ReadToken`, is one pass of `readToken` from a character that is not
blank. `pos` is `pos_`; the results are start and length of each token, and start,
end and level of each comment. The model keeps what the code does at its edges:
a malformed `\x` or `\u` takes the next character whatever it is, the closing quote
included; a long string is reported one character late; a byte above 127 outside a string
is skipped; `\z` skips the blanks that follow, line ends included. Runs of
characters are a closed form (`Run`) in place of the loops. Texts have no NUL, which
`current()` returns behind the end, so that the code does not tell the two apart. The code calls itself
after a comment or such a byte, which is the next action here: the depth of
the call stack is not modelled, nor is the unsynchronised first use of the keyword table.

### `Parser` and `LuaPrograms`

`stack` holds the calls still to be made, `tok` is `current_`, `failed` whether
`errors_` has an entry. Each routine of `Parser.cpp` is an operator that maps the
current token to the calls it makes; a loop is a routine that ends with itself.
The recoveries are those of the code: `expect` reports and stays where it is,
`parsePrimaryExpr` reports and skips one token (`Parser.cpp:689`) so that
`synchronize()` and `lookAhead`, which nobody calls, and the message
`Expected statement`, which nothing reaches, have no counterpart. `open` is a history
variable, the number of blocks that the tokens read have opened and not closed: a text that
passes without an error has closed each of them (`AcceptedIsBalanced`), though no routine
counts. That is not to say it is a program. `parse` ends at any word that ends a block, so that
a stray `end` or `else` ends the parse in silence and what follows is not read
at all, where `DESIGN.md:118` has error recovery go on at the next statement
boundary and the comment at `Parser.cpp:95` expects the end of the file; `Block` shows it, and
it has no run.

`LuaPrograms` derives programs from the grammar of the manual, in step with the
parser: `rest` is what the author still has to write, and a token is handed over when
the parser asks for one. Programs are of any length, but nest only as deep as `MaxRest` lets
them. `Omit` and `Mistype` are slips. `Forms` adds forms that the programs of the passing run
lack, because the parser does not take them as the grammar has them. An operator behind a suffix in a
table field gets an error (`parser_fields`). So does a lone semicolon, which is an
empty statement since Lua 5.2. A statement that begins with a parenthesis is
read as a call of the expression before it, as the manual says of this ambiguity.

### `DocumentIndex` and `Editor`

A text is a sequence of lines and a line a sequence of words: one statement, the
opening or the end of a block, or a comment. `AnalyzeScope` is `analyzeScope` with
`findNamePosition`, which searches the statement's text for the name, `FindSymbolAt` is
`findSymbolAt`, `FuncParams` is `funcParams`.

`Editor` has an action for what changes documents or settings: `Type`, `Wrap` (two
lines of a block at once, so that the texts stay balanced), `Close`, `Rename` (the
handler, and the client that applies its edits) and `Configure`
(`didChangeConfiguration`). Requests change nothing, and main handles one message at
a time, so that an answer is an operator on the state, one per handler. Where the code
takes the first match in an unordered map, the operator is a set of possible answers; so is that of
`workspace/symbol`, which stops at a number of results (`MaxResults`, 100 in the code) in
whatever order the documents come.

The two handlers that look for the call around an argument read the text in different ways, and each is
modelled as it reads. `inlayHint` (`CallHints`, `Separators`) reads on from the parenthesis, takes
brackets of every kind for a level and skips strings. `signatureHelp` (`OpenParenthesis`,
`Commas`) walks back from the cursor over parentheses only, stops at any semicolon, and counts the
commas in a table or in a string for arguments. The byte it starts from is not the
cursor's: its conversion is one too far on the first line, and one short on all others, where the line
break is taken for the first character (`WalkFrom`).

Its properties hold the handlers to the text and to each other; the premises name what
the code does not promise:

* `M.f` is found as one name of full width, and its place is that of the last
  word in the module's own file; the two agree only across files.
* With `completion.caseSensitive` off, the default, a rename of `f` renames `F` too, while
  references to a module stay case-sensitive.
* The setting `supportModulePattern` starts true, the index's own copy of it
  starts false, and a document keeps what the setting was when it was parsed.
* `hover` and `signatureHelp` take every parameter on the three lines below a function for its
  own (`ParametersNear`): two short functions next to one another share theirs.
* `documentHighlight` marks only declarations, though a comment in it says all occurrences.
* `references` in a module's file tells that file from the others by the uri of the request, which is
  not normalised there: a file in `Unnormalized` is searched for the qualified name as well.
* Signature help and hints name the same parameter but for the commas that only the former
  counts (`Enclosed`), behind a semicolon, and for cursors whose walk starts on the other side of
  punctuation (`CursorsBefore`).

### `EmmyDebugSession`

The adapter is one event loop and an action is a whole handler. `kind` is one of
`listen` and `connect` (the two values of `ideConnectDebugger`), `attach` and
`launch` (the subclasses). `Launch`, `Inject`, `Accept`, `Connected` and `DialFails`
are the ways a connection begins; `OnConnect` is `onConnect` with `readClient`,
and greets with `InitReq`, the breakpoints and `ReadyReq`. `OnReceiveLine` is
`onReceiveLine` with `handleDebugMessage`; `Close` is the socket's close event with
`onSocketClose`, which takes the listeners off `this.client`, *whoever that is
by then*. `SetBreakPoints`, `Evaluate`, `DebugAction`, `Disconnect` and
`Release` (the timer of one second) are the requests.

What is sent to a Lua process is abstracted to what it then knows: greeted or not,
its breakpoints, the evaluations it owes, whether anything came before the
greeting. `Notify`, `Answer` and `Lose` are the process; a connection that is lost
delivers any prefix of the lines under way, which may end within a message.

`faults` is a history variable for the two events that upset the reader:
`overlap`, a connection on top of another, and `torn`, a connection that ended
between the two lines of a message. `LinesInPhase` and `EveryoneHeard` say that nothing
else does. Neither event is ruled out: the server accepts any number of
connections, and `readHeader` is never reset, so after a torn message a header
is parsed as a body from then on.

A connection that ends within a line is left out: `readline` emits the part that came as a line of its own,
and if that is a body, `JSON.parse` throws in an event handler that nothing catches
(`EmmyDebugSession.ts:167`), which ends the adapter. The model loses whole lines only.

VS Code normally kills the adapter's process soon after `disconnect`; the model
lets it live on, which only adds behaviours.

### `DebugFrames`

A step is what runs between two awaits. `traces` has the `stackTrace` requests with
their local variables: the stop whose stacks they hold, the next frame, what became of
each frame so far, and the number of the search they wait for; `FindFileRsp` is the provider's
answer, in any order, which fills `_fileCache` and lets the loop go on (`Resume`).
`handles` are the nodes VS Code has references to, in order. `Variables` is
`variablesRequest` with `computeChildren` of the node's class, and `waiting` are the
listeners on `onEvalRsp`, each with what its request goes on to do: `_ENV` without
an `_ENV` variable takes two evaluations, the second of which is sent when the first
is answered. `Level` is the field `currentFrameId` that every evaluation is sent with;
`evaluateRequest` does not look at the frame VS Code names. Handles are never reset,
and `breakNotify` outlives `continue`.

The Lua process is external: it reads in order, answers where it is stopped, and may
hold or drop an evaluation that reaches it while it runs. `sure` is a history mark on
a node: each time an evaluation was sent for it, its frame was the one of the last
`scopes` request and the program had not been told to go on. Without the mark the
adapter promises nothing: a variable of another frame is evaluated in the
current one. Several lines that arrive in one chunk are handled before the
continuations they settle; the model handles them one after another, which comes to
the same, since a continuation only sends and appends.

### `Extension`

A step is what runs between two awaits of `doStartServer`, `restartServer` or
`updateConfig`. `starts` has a record per call of `startServer`: how far it is
and in which state its client is. The language client is external and follows version 8.0.2 of
`vscode-languageclient`: `stop()` waits for a running client, shares the promise of one
that is stopping, returns for a stopped one and throws for one that is starting or
has failed to. Its promise is fulfilled (`Stopped`), or rejected when the server takes more than two
seconds or dies (`StopFails`); `restartServer` has a `then` and no `catch` (`extension.ts:292`),
so that the restarts which waited for it are forgotten. `rejected` is the history of that. A crashed server is
started again by the client itself. What the code
does after an await it does with whatever `luaContext.client` is by then: `Register`
and its test request. `OneServer` speaks of clients: the process behind a stop that
timed out may live on for a moment.

`watch()` is two steps: `findFiles` looks at the disk (`Find`), and its answer makes the list
and one more watcher (`Create`, `Missing`). No watcher is ever disposed of, and each reports every change
(`Handle`). A change on disk (`Disk`) may come at any time. VS Code reports the
changes of one file in order, those of different files in any. Who finds the file on the list reports the event at once;
who does not awaits a lookup and then pushes the file and reports it as created, whatever the event was
(`Push`). Three things follow, and `ConfigFilesKnown` sets each apart by what causes it:

* a file that changes between the search and its answer is not seen, or stays listed (`missed`);
* two events of a file of which the second is handled while the first is after its await push it
  twice, or push it behind its deletion (`rushed`);
* with two watchers a file is pushed twice, and one that is deleted comes back when fewer entries are listed than
  watchers look (`watchers = 1`).

What holds in all these cases but the first is that no file on disk is lost.

A server's reports (`Progress`) come as fast as they like. Each 100 % sets a timer which is never
cancelled, so that timers overlap and hide the bar over later reports (`Hide`). `cutOff` is the history of
a server that went in the middle of its indexing: the bar then stays on until some server reports 100 %.
`patient` in `OneServer` sets apart
a user who restarts while a start or a restart is under way, who can end up with two servers.
`deactivate`, which ends all of it, is left out.

## 3. Runs

| run | expects | states | what it asks |
|---|---|---|---|
| `transport` | pass | 289 839 | every stream of up to three frames of any kind, `initialized` at most once |
| `transport_wakeup` | violation | | `Transport.h:38`: `receive` "returns false if stopped" |
| `index_pool` | pass | 245 160 | two threads, five files of every kind |
| `docsync_safety` | pass | 617 354 | two files, three texts, three actions of editor and disk |
| `docsync_workers` | violation | | `DESIGN.md:155`: the index follows a changed file |
| `lexer` | pass | 865 741 | all texts of up to four pieces out of twenty |
| `parser` | pass | 1 620 282 | programs of the grammar with at most one slip |
| `parser_fields` | violation | | `DESIGN.md:116`: the syntax of Lua 5.1 to 5.3 |
| `editor` | pass | 49 957 | two files, four lines, edits, renames and settings |
| `debug_session` | pass | 509 470 | every kind of session, two connections |
| `debug_frames` | pass | 35 604 | two stops, four requests, stacks of up to three frames |
| `extension` | pass | 155 469 | two starts, a crash, stops that fail, two changes of a config file, reports without bound |

**`transport`**. `FifoDelivery`: no accepted frame is
lost, doubled or overtaken between push and pop. `FramesWhole`: two
threads never interleave on stdout. `RefinesService`: the
three threads implement `LspService`, so that each request is answered once and in order.
`RequestsAnswered`: no wakeup is lost
while the client keeps its pipe open. `ExitAndCloseEnds`: a client that sends
`exit` and closes gets rid of the process. Three frames are enough for the queue
to hold one message while main holds another and the reader a third, and for
every pair of kinds around any other; two notices let the indexing thread write
before, between and after the responses.

**`transport_wakeup`**. The lost wakeup needs
end of stdin exactly between main's test and its wait. It uses polite clients and
no indexing. The same model shows two more things that have no run: `stop()`
after `exit` joins a reader that nothing wakes up (`Transport.cpp:35`) until the client
closes its pipe, which is why `ExitAndCloseEnds` asks for both; and the end of a
session without `exit` is a `std::terminate`, because `stop()` returns at its
first line without a join (`Transport.h:35`: "cleans up").

**`index_pool`**. `CountersTally` relates the three counters to the files,
`MilestonesReportedOnce` is a comment in the code ("only one thread will hit this"),
`RefinesSweep` says that threads never meet on a file and that the end is announced
last, `IndexingEnds` that it is. Five files over two threads give uneven slices, a thread
that passes its end first, and, with a report every second file, two milestones
that different threads can hit; every assignment of the four outcomes to the files is checked.

**`docsync_safety`**. One file is found by the workers and
the other reached only by an `Include` of a text; three actions allow open,
change and close of one file around the worker's read and store, an open that includes
the other open file, and a deletion in between. `LastWordIndexed` and
`DiagnosticsCurrent` are the promises;
`ComesToRest` says that every notification is worked off (the dependency loop ends).

**`docsync_workers`** is the smallest instance in which a worker's late store
replaces the text of an open file.

**`lexer`**. `LongBracketsMatch`: a long string or comment ends at the first closing
bracket of its level. `StringsClose`: a short string ends at the first quote that no escape takes,
or at a line end. `ReadsToEnd`: every text is read to its end, and in finitely many
steps. The pieces are what the branches of the lexer look for, some of
several characters, so that four of them make a long bracket that is opened, nearly
closed and closed.

**`parser`**. `NoSpuriousError`, `AllRead`: a valid program is read whole without an error.
`BlocksInStep`: the parser waits for just the closing words the program owes, in their order,
anywhere but while an opening word has been decided on and not been read.
`AcceptedIsBalanced`: what it accepts has balanced blocks, with slips too.
`KeepsReading`: it never loops in one place. Six symbols of remaining program allow
every production within every other; after a slip it is three, each routine's
recovery being met at that depth. **`parser_fields`**: `{ a.b + c }` gets an error.

**`editor`**. Two files and four lines: enough for a declaration, a use of it in the other
file, a function with a block around one of them, and two of a name. The
names contain a pair that differs in case, a module and a fresh one; the calls have an argument in a table with
a comma, a string with a semicolon and a call of a module's function within them. At most two results of
`workspace/symbol` and one file whose uri is written differently make both limits bite. `NamesInPlace`,
`CursorOnWord`, `HoverDescribesTarget`, `DefinitionReferencesAgree`,
`SignatureAgreesWithHints`, `RangesNest` and `RenameKeepsBindings` are explained at
their definitions.

**`debug_session`**. `BreakpointsInForce`, `GreetingFirst`, `LinesInPhase`,
`EveryoneHeard`, `AnswersOwn`, `LossNoticed`. Two connections give both succession and
overlap; two requests
give an evaluation on the first and one on the second connection, or breakpoints
before and during one; two messages give a torn one followed by a whole one. Faults
need two connections at most, and numbers of evaluations two questions.

**`debug_frames`**. `FramesOfStop`, `VariablesOfFrame`, `AnswersArrive`. Two stops give a trace
that is still waiting when the next comes; four requests give a trace, its
scopes and two variables, or two traces that wait for two searches. Three stacks have a
file that is found and one that is not, C code in the middle and at the end, and
frames with and without `_ENV`. Two levels of names give groups, tables and tables within them.

**`extension`**. `OneServer`, `ConfigFilesKnown`, `StartsEnd`, `BarHides`. Two starts give a restart
at any point of the first start, two watchers, a stop that is shared and a restart whose stop is rejected; one crash gives a
client that starts by itself in the meantime. Two changes are a creation and a deletion of one file, or any two
others, one after the other or both before the first is reported, around a search and around an await; each of the
three exceptions of `ConfigFilesKnown` is needed in this instance. Timers are as many as a server's reports. A
behaviour has reports or changes of files and not both (`Scenes`): the two meet nowhere, since of a start the
reports move its indexing only and the changes what its search may be wrong about.

Deadlock is checked in `editor`, whose user can always go on, and in none of the others:
those components stop by design (the server exits, a text ends, VS Code and the Lua
process may fall silent). What should not stop is said by the liveness properties.

Every property of a passing run has a mutant in `PROJECT.json`: a plausible slip in a mapped
definition (`UnlockedWrite`, `PostIncrement`, `StackLatest`, `SameId`, ...) under which the
run finds that property violated. The variants stand beside the definition
they change and are used nowhere else.

### Bounds

`MaxEdits`, `MaxRequests`, `MaxSaid`, `MaxStops`, `MaxDepth`, `MaxStarts`, `MaxCrashes`,
`MaxChanges`, `Scenes`, `MaxLines`, `MaxPieces`, `MaxSlips`, `MaxRest`, `Notices`, `Total`
and the length of streams are all the bounds there are; `MaxResults` is the code's own, made small. They bound the inputs and
never cut a handler short. Two are in a guard of the environment's: `MaxDepth` holds back the expansion of a deep
variable, and `Scenes` a server's reports or the changes on disk.
Everything else (queues, wires, counters, timers, the parser's stack) follows from them. The
theorems do not use their values.

### Fairness

* `Transport`: weak fairness of each of the three threads, as the operating system
  schedules them, and strong fairness of `Push`: spurious wakeups let main
  take and leave the mutex for ever, and a reader blocked in `lock()` gets it in
  the end. The client owes nothing: it may stop sending, and need not close.
* `IndexPool`: weak fairness of the indexing thread and of each worker.
* `DocSync`: weak fairness of the main thread and of the workers; none of the editor or the disk.
* `Lexer`, `LuaPrograms`: weak fairness of the function, which is one call that runs to its end; none of the author.
* `EmmyDebugSession`: weak fairness of reading lines and of close events, which
  Node's event loop delivers. None of VS Code, of the Lua process, of the
  timer or of a dial.
* `DebugFrames`: weak fairness of one action, `Progress`: a search of VS Code ends, a message is
  read, or a stopped Lua process reads one. Requests are bounded, so that
  fairness of the whole is as much as fairness of the three. A running Lua process owes nothing.
* `Extension`: weak fairness of the continuations, of timers, of watcher events, and of the servers'
  start and stop, fulfilled or rejected. None of the user, the disk, crashes or a server's indexing.

## 4. Proofs

| theorem | says |
|---|---|
| `InputProofs!TypeCorrect`, `QueueIsFifo`, `NoRequestForgotten` | `TypeOK`, `FifoDelivery`, `AnswersKeepUp` |
| `InputProofs!WholeFrames`, `ExitIsLast` | `FramesWhole`, `NothingAfterExit` |
| `InputProofs!Refinement` | `Spec => RefinesService` |
| `IndexPoolProofs!PoolTypes`, `SlicesStayApart`, `PoolIsSweep` | `TypeOK`, `SlicesInOrder`, `RefinesSweep` |
| `IndexPoolProofs!CountersAddUp`, `OneThreadHitsThis` | `CountersTally`, `MilestonesReportedOnce` |
| `DocSyncProofs!SyncTypes`, `LastWordSafe`, `IndexFollowsEditor`, `DiagnosticsFollowIndex` | `TypeOK`, `SyncInv`, `LastWordIndexed`, `DiagnosticsCurrent` |
| `EmmyDebugSessionProofs!SessionSafe`, `BreakpointsHold`, `GreetingComesFirst`, `ReaderInPhase`, `NobodyCutOff`, `AnswersComeHome` | `SessionInv`, `BreakpointsInForce`, `GreetingFirst`, `LinesInPhase`, `EveryoneHeard`, `AnswersOwn` |
| `DebugFramesProofs!FramesTypes`, `TracesShowTheirStop`, `VariablesShowTheirFrame` | `TypeOK`, `FramesOfStop`, `VariablesOfFrame` |
| `ExtensionProofs!ExtensionTypes`, `PatientHasOne`, `ListFollowsDisk` | `TypeOK`, `OneServer`, `ConfigFilesKnown` |
| `InputProofs!LexerStays`, `LongBracketsDoMatch`, `StringsDoClose` | `LexerTypes`, `LongBracketsMatch`, `StringsClose` |
| `LuaProgramsProofs!ParserTypes`, `AcceptedBalanced`, `ProgramsAreTokens`, `ProgramsBalanced` | `TypeOK` and `AcceptedIsBalanced`, for any source of tokens and for programs |
| `LuaProgramsProofs!ValidProgramsPass`, `ValidProgramsRead` | `NoSpuriousError`, `AllRead`, for programs of any length and depth |
| `LuaProgramsProofs!BlocksStayInStep` | `BlocksInStep`, for the same programs |
| `EditorProofs!EditorInvariant`, `BlocksBalanced`, `DocumentsIndexed` | `EditorInv`, `BlockInv`, `IndexInv` |
| `EditorProofs!HoverAgrees`, `ReferencesAgree` | `HoverDescribesTarget`, `DefinitionReferencesAgree` |
| `EditorProofs!SymbolsInPlace`, `FoldsAreNested`, `CursorsFind` | `NamesInPlace`, `RangesNest`, `CursorOnWord` |
| `EditorProofs!RenamesKeepBindings` | `RenameKeepsBindings` |
| `EditorProofs!HintsAgree` | `SignatureAgreesWithHints` |

The theorems hold for all values of the constants that satisfy the modules'
assumptions: `TransportAssumption` (streams of the known kinds, a number of
notices), `PoolAssumption` (a positive reporting interval), `DocSyncAssumption`
(`None` is no text, calls lead to known files), `SessionAssumption` (`NoConn` is
no connection), `FramesAssumption` (non-empty stacks of frames, names), `ExtensionAssumption`
(the bounds are numbers), `TextsAssumption` and `NonASCIIAssumption` (no NUL in a
text), `SlipAssumption` and `FormAssumption` (numbers, tokens, known forms),
`DocumentAssumption` (a name is neither a keyword nor punctuation, which is how the
lexer tells them apart; `NoName` is no name and `NoSymbol` no symbol) and `EditorAssumption` (a line is a statement:
a function has a name and its parameters in parentheses, `module("M")` names a module;
a member of `Lines` stands alone and a member of `Openers` opens a block; the names in `Fresh` are new, in no line
that is typed; there are finitely many files; `workspace/symbol` may answer with one result at least; a setting is a
Boolean, which `Config::update` tests).
TLC evaluates each of them in a passing run. No proof uses fairness.

**Transport.** The invariant is `IInv`: types, FIFO, answers and `InStreamOrder`.
FIFO alone is not inductive: a push keeps the queue sorted only because what
the reader holds is newer than all that is queued, and main answers the right
message only because the queue is newer than main's. For the refinement, reading a
header is `Arrive`, the last byte of a response is `Answer(msg)`, and every other step
stutters; that no older request is left behind follows from `AnswersKeepUp`
and from the FIFO property. `WholeFrames` and `ExitIsLast` have small
invariants of their own (`WriterInv`, `ExitInv`) on top.

**IndexPool.** The invariant is `PoolInv`. `SlicesInOrder` has to be proved with
`PoolShape`, since that two threads never hold one file rests on
each staying in its residue class modulo `NumThreads`, and that `Announce` comes
last rests on each thread leaving its loop past the end. The arithmetic
(`(i + n) % n = i % n`, and no member of a class strictly between two neighbours) is
in lemmas of its own. For `CountersTally` the three counters are cardinalities: of the files stored,
of those failed, of those done. For the milestones the invariant follows each multiple of the interval
that the counter has passed: it is in the hands of the one thread whose increment
returned it, or it was reported; since an increment returns a number once, it is never both.

**DocSync.** The promises are about quiet states only, so they say nothing of
a step. `SyncInv` follows the last word on its way: it *waits* in the inbox with
nothing behind it that could disturb it (`Waits`), or it was *taken*, and is then in main's hands
or in the index (`Taken`), with neither the inbox nor the calls still to be
looked at leading to the file again; a closed file is dark or its close is still to come. Each
action is proved to keep each part, and in a quiet state only the index remains.

**Debug session.** `SessionInv` adds to the promises how connection states, client and
server hang together (`Wiring`), that only a listening session sees more than one
connection (`OneAtATime`), that whoever can be written to was greeted
(`ClientGreeted`), that all lines under way are in step with the reader
(`LinesInStep`) and that a number belongs to one evaluation
(`NumbersUnique`). `AnswersComeHome` is an action property on top: a
listener is settled by the line just read, the line's number belongs to the connection
it arrived on, and so that is the one the question went to.

**Frames and variables.** `FramesInv` is about the stack traces: the cache holds what was found for a
file, every waiting trace owns a search with a number of its own, and what a trace has
so far is what its stop's stacks list. Whose variable an answer is takes more. `TokenInv` says that the
right to run is in one place: the program is stopped, or an action is under way to it, or it runs, or its
next stop is under way back. With it `HandlesInv` and `AskingInv` say of a `sure` listener that its question and
its answer, wherever they are under way, are about its frame, and that the program stays where it is until they are settled.

**Extension.** A patient user's starts are in one line (`InLine`): of all starts one at
most has a server or is getting one, a start that looks for its server has nothing alive beside it, and
a restart waits only for the one client there is. `ConfigInv` follows each file on its own. The events VS Code has not
reported yet alternate, and the last of them says whether the file is on disk (`Chain`). A file on disk is on the list,
or an event or a push is under way that will bring it there (`Underlying`): a deletion takes an entry off only with
a creation behind it, or with the file gone. With one watcher and no two events too close, at most one push is under way, that
of a creation, and the file is listed or about to be as the events handled so far say (`Exact`), which the next one
changes. `FoundInv` carries this over to a new list: what a search has found is what is on disk but for
the files that changed around it.

**Lexer.** The model's loops are recursive functions and `CHOOSE`s over positions, so that most of the proof is
that these mean what they say, for a text of any length. `ScanExists`: a scan that
moves on wherever it does not stop has a function that says where it ends. `FromTheEnd` is induction from the
end of a text, obtained from the well-foundedness of the numbers. With them
`LongStop` says where the code's way from bracket to bracket ends, and `StringStopLemma` where its way from
escape to escape does: it is always at a character that is not escaped (`EscapedLemma`: an odd row of
backslashes), and an escape sequence passes over nothing that could end the string (`EscapeStep`).
The invariant judges each token and comment once, when it is read; the text never changes.

**Parser.** `AcceptedBalanced` is proved for tokens from anywhere, and carried over
to programs. A call that is pending has a weight: how many open blocks it will close, less those it will open
(`Weight`: `end` and the rest of an `if` or of a function close one, `do` opens one). The invariant `Balanced` says
that, before the first error, the weights of the whole stack add up to the blocks that are open. Each routine leaves calls
of its own weight, whatever the token; a token that is taken opens or closes what the call that took it weighed. So
at the empty stack nothing is open. Three calls (`skip`, `error`, `FunctionStatement`) have no weight of their own,
but only ever stand on top, called on the very token they were chosen for (`Settled`). That the grammar hands over tokens only
is `ProgramsAreTokens`.

`ValidProgramsPass` and `ValidProgramsRead` assume `Forms = {}`, the programs of the passing run: for the forms of
`RareForms` the parser and the grammar disagree, as the run `parser_fields` shows for table fields. `TypeOK` says nothing of what a call is for, and the
invariant has to: `ProgramInv` adds that, as long as there is no slip, the calls pending and the program from the
current token on are *coupled* (`Couple`, two lists linked member by member down to the end of both). A link is a
call and what it may be called for (`Reads`): what the grammar can have derived from its symbol so far, which
tokens that can start with, and which tokens may follow without being taken for a part of it; `Joint` has the
calls that read one symbol together, `Takes` a token wanted and found. The proof has three
parts. A step of the grammar keeps what each call reads (`CoupleOn`, from a lemma `Form...` for each
symbol). The first token of the program is among those the topmost call may start with (`HeadInF`, by
the least length of a coupled program that would not do, which exists since the numbers are well-founded). And each
routine, called there, leaves calls that read the same program (`CallKeeps`, from a
lemma `Call...` for each of the 34 routines): the choice it makes on the current token is
the one the grammar made. So no token is ever missing, and when no call is left, neither is any program. What
follows a call is where a parser with one token of look-ahead goes wrong: were an operator allowed
behind the suffixes of a table field's name, `CallNamedField` would be false, which is the finding.

`BlocksStayInStep` reads more out of the same couple. A link owes the same closing words on both sides
(`EvenLink`): a call of `parseBlock` none, as the chunk it reads, the call for the rest of an `if` one `end`, as
its clauses. So the whole lists do, by the least length of a couple that would not (`EvenCouple`). This is
so only where no opening word stands in the program: once `while` is written and not read, the
program owes an `end` that no call waits for yet. The invariant therefore adds to `ProgramInv` that the program has
such a word in front only (`Orderly`), since the grammar derives the first symbol and an opening word is the first
of its statement; a block within a statement is a symbol of its own until it is reached.

**Editor.** `EditorInv` says what every edit leaves behind: each document is `Index` of some text of
statements, under the setting it was parsed with. A rename makes it harder than it sounds. It replaces words
by text search, so it has to be shown that the new lines are statements again: only names
and dots are replaced, never a keyword or a parenthesis (`EditedText`). What no longer holds after one is that
every module is a name, since a function renamed to `module` turns its calls into module lines; `EditorInv` says it only of
texts without a new name (`ModuleNamed`, `FreshIn`), which are those that can still be renamed. All else is about one document.

Its symbols are a concatenation over lines, within a line over names, and a name's place is found by
a search that starts behind the name before it. `FlattenRuns` turns a concatenation into running ones, of which the
members and their order follow by induction on the numbers (`RunsElements`, `RunsHave`, `RunsGrow`). With them
`SymbolAt` holds of every symbol: it lies on the line that declares it, at the place of the last word of its
name. `SymbolsInPlace` sharpens it to the exact columns: when nothing that is searched for stands before its
declaration, the first match from behind the previous name is the next name. Hover, definition and
references are then compared symbol by symbol: each takes the *first* match in a document
(`FirstIs`), and the first is the same one if they test the same names. That `workspace/symbol` has a symbol
is claimed of answers below the limit only: such an answer is not cut, and so has the matches of every document in
whatever order they come.

For folds the depth of a line is not a count but a sum of steps (`Rise`: +1, -1 or 0 per line,
`DepthIs`). `BlockInv` says that no text falls below 0 and that each ends at 0, which an edit inside keeps because it
inserts a balanced piece, and a rename because it changes no step. Since the depth moves by single steps, every block
has a closing line, and the first one found is its own; the blocks around a line have distinct depths,
so that they are as many as its depth says (`RangesNest` counts them).

`RenamesKeepBindings` compares two indexes. In case-sensitive mode the references to a name are its occurrences
and nothing else (`ReferencesExactly`), so that the workspace edit is a substitution of words (`AppliedExactly`), one for
one, and each line keeps its kind and its columns (`RenamedKind`, `RenamedStatement`). That the index follows is then
one question after the other: the new name is found wherever the old one was, and first where it was first (`SameFound`),
which needs that it is new, since a name that already stood there would be found too soon; so all places agree
(`SamePlaces`), the depths, the closing lines and the ranges (`SameRange`), line by line the symbols (`RenamedLineSymbols`),
and the two concatenations of them (`FlattenMapped`). No other step brings a new name in (`UpdateClean`).

`HintsAgree` needs a third invariant: `IndexInv` says that the module and the parameter lists, too,
are those of the text under one setting or the other, since inlay hints read the lists and signature help the symbols. Hints walk forward from
the call's parenthesis over brackets of all kinds, the help backward from a byte beside the cursor over parentheses only, so
the proof counts from both sides. The
number of a word between two columns adds up (`NumberOf` is a cardinality). When no bracket closes that did not open behind the
parenthesis (`WellNested`), the parentheses alone are balanced wherever the hints' count of all brackets is
zero, so the first parenthesis open at the cursor is the one
the hint belongs to unless a semicolon comes first; and the commas the help counts are those of the hints together with the
enclosed ones. The function
of the call is then found at the only line that declares it, and when no other with parameters stands within three
lines the symbols that `ParametersNear` takes are, in order, that line's parameters, which is what the list
holds (`FuncParamsAre`).

TLC checked `EditorInv`, `BlockInv` and `IndexInv` on the instance of
the run `editor` before they were proved.

Model-checked only: the liveness properties (`RequestsAnswered`,
`ExitAndCloseEnds`, `IndexingEnds`, `ComesToRest`, `ReadsToEnd`, `KeepsReading`, `LossNoticed`,
`AnswersArrive`, `StartsEnd`, `BarHides`), which are out
of the prover's reach. Every invariant of the passing runs is a theorem.

## 5. What is not modelled

* The contents of JSON. Positions and texts are words in lines in `Editor`, characters in
  `Lexer`, and values told apart by a fingerprint in `DocSync`; nothing connects a
  position in UTF-16 to one in bytes.
* The annotation parser (`parser/AnnotationParser.cpp`): it is compiled and
  called by nothing; the index never sees an annotation.
* The annotator of the client (`annotator.ts`): its handling of answers is in the plan.
  The server's half, `emmy/annotator`, is in `Editor`.
* The answers that depend on no state: code lens, selection range, the list
  of keywords and snippets; the wording of labels.
* Formatting (`main.cpp:1345`): one pass over the characters of one document. The depth it indents by is a variable of
  that one request; it reads the index once and changes nothing. It counts brackets in strings and comments, too.
* TCP mode of the server: a development aid that hands a socket to the same
  transport.
* Discovery of files (directory iteration, exclude patterns): the set it yields.
  `loadStdLibrary` at this commit reports "Ready" and loads nothing.
* The injection tools' own socket in attach sessions, and the pickers
  of the debug configuration providers: user interface.
* The Lua half of the debugger: `debugger/emmy/emmyHelper.lua` runs inside a process whose
  debugger core is not in this repository. It is external in `EmmyDebugSession` and `DebugFrames`.
* `deactivate`, which ends all activity at once.

## 6. Plan

Done: all modules of section 2, with the abstract specifications and the proofs above. Left, in order:

1. `Annotator` (`annotator.ts`, `notifications.ts`): one timer of 150 ms for all editors, so that a
   request for a second editor cancels that for the first; what is drawn on an editor belongs to its newest
   answer because the server answers in order, until a restart.
2. The annotation parser, last, since no caller reaches it.
