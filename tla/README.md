# A TLA+ model of cppknife

cppknife is a library of C++ classes and a set of command line tools built on
it.  This directory holds TLA+ modules that model its core logic, TLC
configurations that check them on small instances, and proofs checked by TLAPS.

The program is not multi-threaded.  What is hard in it are long sequences of
legal calls: a script interpreter whose test pass prepares tables for its run
pass, scripts that call each other while they share one index each, buffers
with a position and a mark that every edit has to keep consistent, readers
that cut a file into blocks, and a server that builds its answers in the
buffer it receives in.

## 1. Inventory

The state of a component, its operations, who it talks to, and what makes it
correct.  `PROJECT.json` lists every component with its sources and status.

| Component | State | Operations | Correct when |
|---|---|---|---|
| **Script: statement flow** (`text/Script.cpp`) | lines, index of the next statement, `_ifData`, `_singleEndData`, `_openBlocks`, `_alreadyTested` | `check()`, `run()`, `oneStatement()` and one handler per statement | `check()` accepts the well-formed scripts, `run()` follows the blocks, no jump is missing |
| **Search engine: calls** (`text/SearchEngine.cpp`, `Script::call`) | map of scripts, stack of names, stack of indexes, current script, global variables | `testAndRun`, `loadScript`, `pushScript`, `popScript`, `call`, `exit`, `stop`, `script` | a callee returns to the statement behind the call, the test of a script has no effects, `exit global` stops all |
| **Script: buffers, search, variables** (`text/Script.cpp`, `text/FunctionEngine.cpp`) | variables, buffer stack | `move`, `mark`, `insert`, `delete`, `replace`, `copy`, `select`, assignments, conditions, functions | the addressed range is the documented one, the buffer stack returns to the buffer before `select` |
| **LineList** (`text/LineList.cpp`) | lines, position, mark | `setPosition`, `search`, `insert`, `deleteRange`, `copyRange`, ... | position and mark stay in the text, every edit equals the edit of the flat text |
| **Line reader** (`text/LineReader.cpp`, `text/LinesStream.cpp`) | file handle, block, cursor in it, look-ahead queue | `nextLine`, `lookahead`, `endOfFile`, `reset`, `openFile`, `fetch` | the lines are those of the file, whatever the block size |
| **File traversal** (`os/Traverser.cpp`) | stack of open directories, pass, statistics | `nextFile`, `nextAttributes`, filters | each file once, directories before their contents, nothing below the depth limit |
| **File tools** (`os/FileTool.cpp`, `os/Path.cpp`) | the file system | path functions, making directories, copying, texts | normal forms of paths; a copy is whole or reported as failed, other files stay |
| **Line agents, processes** (`os/LineAgent.cpp`, `os/Process.cpp`) | two buffers that change roles, pipes, child | chain of filters, `execute` | no line lost between two agents, the child is waited for |
| **Network** (`net/`) | handles, one buffer, the storage | `listen`, `doIt`, `process`, `connect`, `send`, `request` | what is executed comes from a job of its connection, in order, and every request returns |
| **Scheduler** (`tools/Scheduler.cpp`) | queue of tasks | `insert`, `oneRound`, `check` | tasks run in the order of their times |
| **Storage** (`core/ByteStorage.cpp`, `text/StringList.cpp`) | chain of byte buffers | `allocate`, `store`, `clear`, `sizeOf`, `check` | blocks do not overlap, what was stored is found |
| **Random generators** (`core/KissRandom.cpp`, `basic/*Random.cpp`) | seeds, saved seeds, table of characters | `next*`, `reset`, `saveSeed`, `fill`, `shuffle` | a reset repeats the sequence, numbers stay in their range |
| **Parser, matcher, configuration** (`text/Parser.cpp`, `Matcher.cpp`, `Configuration.cpp`) | line and column | token by token | a pattern matches what its wildcards say |
| **JSON, CSV, Base64** (`text/`) | tree, rows | decode, encode | decoding an encoding gives the value back |
| **Argument parser** (`tools/ArgumentParser.cpp`) | modes, options, values | `parse`, `as*` | every argument is assigned once |
| **Command line tools** (`tools/*knife.cpp`) | argument values | one function per mode | the exit code tells a failure |
| **Secret tools** (`tools/VeilEngine.cpp`, `tools/SecretConfiguration.cpp`, `tools/dbknife.cpp`) | two generators of characters, a file of veiled lines | `veil`, `unveil`, `read`, `write`, licences | unveiling a veiled text gives the text |
| **Functions of scripts** (`text/FunctionEngine.cpp`) | stack of directories, the lines of buffers | `buffer.*`, `list.*`, `os.*`, `string.*` | no line, word or directory is lost |
| **Databases, geometry, basics** | see `PROJECT.json` | | |

### How they interact

`sesknife` loads a script into a `SearchEngine` and calls `testAndRun()`.  The
engine owns the scripts, the buffers (`LineList`s) and the global variables.  A
`Script` works on its own lines and asks the engine for buffers, for globals and,
in `call`, for another `testAndRun()`: a call of a script is a recursion of the
C++ stack *and* two explicit stacks of the engine.  Conditions and expressions
go through `Parser` and `FunctionEngine`.  `textknife` and `fileknife` drive
`Traverser`, which lists directories, and `LineReader` or `LineAgent` for each
file found.  `netknife` starts a `SocketServer` whose single loop accepts a
client, receives jobs into one buffer and asks its agents in turn.

### What is hard

* *Two passes over the same text.*  The jumps of `run()` were computed by
  `check()`; a statement that the test pass skipped, or tested under other
  assumptions, has no jump.
* *Scans over raw lines.*  `findEndOfBlock()`, `leave()`, `script()` and
  `getText()` each find the end of something by their own rules.
* *One index per script object.*  Activations of the same script share it.
* *Exceptions across levels.*  `exit global`, `stop` and errors unwind through
  `testAndRun()`, which catches them at every level.
* *Positions behind the end*, ranges whose ends are exchanged, block borders in
  the middle of a line, look-ahead against the current line.
* *Connections broken* between client and server, and *one buffer* for the jobs received
  and for the answers.

The hazards, each at its line, are listed in `PROJECT.json`.

## 2. Plan

1. `BlockScan`, `ScriptStructure`, `StructuredScript`, `ScriptFlow`: the flow of a
   script, refining the structured language. *(done)*
2. `ScriptCalls`, refining `CallReturn`: calls between scripts. *(done)*
3. Proofs. Of `ScriptFlow` its types, `DefinedIfSound`, `RunOnlyReads` and the refinement of
   `StructuredScript`; of `ScriptCalls` every
   invariant and the refinement of `CallReturn`; of `LineReader` its types, `BlockFollowsFile` and
   the refinement of `LineSource`; of `LineBuffer` its types, what delete, insert, copy and replace
   do to the flat text and what the searches find in it. *(done)*
4. `LineReader` against the lines of the file. *(done)*
5. `LineBuffer`: the editing operations on lines against the edit of a flat text,
   with the buffer statements of a script that use them. *(done)*
6. `JobServer`: clients, server and connections, with clients that go away; proofs of its
   type and safety invariants. *(done)*
7. `FileTraversal` and `DirectoryStack` against the set of entries below a directory,
   `LineAgent`, `FileTool` with system calls that fail, `FunctionEngine`, `ByteStorage`
   and the proof that its blocks keep their contents. *(done)*
8. Pure functions against reference definitions: strings, patterns, paths, JSON, the
   arguments of command lines, the expressions of scripts, CSV, Base64, edits of
   configuration files, veiled texts, reports on files and text. *(done)*

The scheduler is left out: no program of the repository creates one.  One run per question;
abstract specifications for 1, 2 and 4.

## 3. The modules

### Flow of a script

| Module | Models |
|---|---|
| `BlockScan` | the scans for the end of a block, `Script::findEndOfBlock` and the loop of `Script::leave`, as sets of lines at which their loops would stop |
| `ScriptStructure` | the language as the documentation describes it: bodies, nesting, `WellFormed`; no scan of the code is used here except in `LeaveBeforeBlocks` |
| `StructuredScript` | abstract specification: a script is accepted iff it is well formed; then each statement is followed by those its blocks allow |
| `ScriptFlow` | the code: one action per outcome of a statement handler, in both passes |
| `MCScriptFlow` | the sets of scripts |
| `ScriptFlowProofs` | the proofs of types and safety |
| `ScriptRefinement` | the proof that `ScriptFlow` implements `StructuredScript` |

`lines` is `_lines`, `index` is `_indexNextStatement`, `ifData`, `singleEnd`,
`openBlocks` and `tested` are the members of the same names, `known` the keys of
the map of scripts.  Lines are numbered from 1, as the code's messages count
them.  `oneStatement()` increments the index before it dispatches, so a handler
sees its own line number; `Line` is that number.  `phase` says where
`testAndRun()` is: `check`, `run`, or what ended them.

`Script::ifStatement` becomes `CheckIf`, `CheckIfWithElse` and
`CheckIfWithoutEnd` in the test pass and `RunIf` in the run pass, and so on: one
action per outcome, each with everything the handler has changed by then (the
entry of `_openBlocks` is pushed before the scan throws and stays).  Undefined
behaviour (`back()` of an empty vector, the value of `end()`, a line behind the
last) is the phase `undefined`, with no successor.  `Status` and `Structure` are the
refinement mapping: a script is `ready` until `check()` has ended, and while it runs the
next line is the one behind the index.  `std::map::operator[]` in
`endWhile()` inserts a 0 (`RunEndWhileWithoutEntry`).  The statements on
buffers and variables are `plain`; whether one of them fails, and the value of a
condition, is left open.

### Calls between scripts

`ScriptCalls` has one frame per active `testAndRun()` (the C++ stack) beside the
two stacks of the engine, and one index per script.  `Start` and `StartByName`
are the two forms of the client's call; the `Check...` actions are the test
pass, `Call`, `Exit`, `ExitGlobal`, `Stop`, `RunFails` and `EndRun` the run
pass.  A return or an exception pops a frame and, in the same step, lets the
`call()` of the caller go on: `popScript()` and the exit code.  Blocks are left
out here: a script is a list of statements, since the flow inside of a script is
the subject of `ScriptFlow`.  `CallReturn` is the abstract specification: every
activation has a line of its own.  The refinement mapping takes the line of the
innermost activation from the index of its script and the others from
`_lineNoStack` (`Activations`).  `ScriptCallsProofs` holds the proofs.

### Reading lines

| Module | Models |
|---|---|
| `TextLines` | the lines of a text, the reference for both |
| `LineSource` | abstract specification: what is left of the text, the lines looked at; no blocks |
| `LineReader` | the code: blocks, the cursor, lines over several blocks, the queue |
| `MCLineReader` | the texts |
| `LineReaderProofs` | the proofs about the reader, and that it implements `LineSource` |

`block` and `cursor` are `_nextBlock` and `_cursorNextBlock`, a pointer that is
null (0) or stands on a byte of the block; `pos` is the offset of the file handle;
`ahead` is `_lookAheadLines`, `line` is `_currentLine`.  The loop of `readLine()`
is written without recursion: it reads blocks at the offsets `Offsets`, stops at
the first in which `strchr()` finds a line end, and appends what lies between,
each part without the carriage return it ends with (`Chopped`).  The refinement
mapping takes as the rest of the text what is behind the cursor and behind the
handle (`Unread`).  `Fetch` is the stream of `LinesStream.cpp`.

### Text buffers

`LineBuffer` begins with a text as one sequence of characters: what it means to cut it, to
put something into it and to find a word (`Flat`, `Cut`, `Put`, `Hits`).  Then comes the
code: `LineList` with its
lines, `position`, `mark` and `startLastHit` (counted from 0, as in the code), and the
statements of `Script` on one buffer, each with everything the handler and the method
of `LineList` do.  `DeleteRange`, `InsertText`, `CopyRange` and `ReplaceIn` translate
the methods by lines; the properties say the same of the flat text.  `outcome` is
`exception` where the code runs into `std::out_of_range` or `std::length_error`,
`undefined` where it reads a line that does not exist or characters behind a line; a
script stops there.  `statement` is the statement executed last, a history that
the properties read; `view` leaves it out, as no later statement depends on it.  A
pattern is a word without anchors.  Ranges are given by the position and the mark (a
script also has `$(__start)`, `$(__end)` and numbers, which reach the same places),
and a copy has its own buffer as the target.  `LineBufferProofs` holds the proofs.

### Clients and the server

`JobServer` has the clients of `SocketClient.cpp`, the connections, and the server
of `netknife knife`: `SocketServer::listen`, `KnifeTaskHandler::doIt` and the agents
`BasicJobAgent` and `StorageJobAgent`.  `handle` and `serving` are the socket
handles of both sides, `header` is what the handler's `_buffer` holds in the place
of scope and job.  The answers are built in the same buffer, in front of the data:
`Left` says what the header becomes when an answer is built over it (an answer of up to
4 bytes does not reach it, a longer one does, and what it puts there may be the header of
another job).  `request()`
is `Connect`, `Send`, `Receive`; `send()` is `Connect`, `Send`, and it leaves its
connection open.  `SendNothing` is a job with data that is too long for the client's buffer:
nothing is sent, and `request()` waits all the same.  `Leave` is the end of a client's
program, at any time.  `Serve`,
`ServeNobody` and `ServeClosed` are what `doIt()` does with a job an agent is
responsible for, with one nobody is responsible for, and with a connection that was
closed by its client.  In `Agents` every agent is asked in turn, the second one behind
the answer of the first: behind an echo it looks at a header that is a part of the
text sent back.  `executed` and `sent` are histories.  `JobServerProofs` holds
the proofs.

### Files, directories and memory

| Module | Models |
|---|---|
| `FileTree` | a tree of entries as a directory holds them: parents, kinds, what lies below |
| `FileTraversal` | `Traverser`, `FileAgentLinux` and `DirEntryFilter` of `Traverser.cpp`: `fts` over the bases of a command line, the filters, the statistics |
| `DirectoryStack` | `FileAgentWithStack` of `Traverser.cpp`: the stack of open directories, files first or last |
| `LineAgent` | the agent that reads lines in two buffers which change their roles, and its test for binary data |
| `FileTool` | making a directory with its parents, copying, which may fail half way, texts of files, the test for binary data |
| `FunctionEngine` | the functions that a script calls on buffers, lists, directories and strings |
| `ByteStorage` | the chain of byte buffers and the blocks in it |
| `MCFiles` | trees, files, paths, sizes; `turn` says which component runs |
| `ByteStorageProofs` | the proofs that blocks keep their contents and their lengths |

The components share no state and run one at a time.  In `FileTraversal` `visits` is
what the open `fts` still returns (its order is open among the entries of a directory),
`currentNo`, `lastLevel` and `statistic` are the members of these names and outlive a
change of the base, `found` and `complete` are histories.  One step is one visit of the
loop of `rawNextFile()`, or the next base.  A visit is one of `fts`: a directory comes before
and behind its contents, also when it was skipped, and pipes, sockets and devices come as
`FTS_DEFAULT`.  In `DirectoryStack` `dirs` is `m_dirs` with
the rest of each directory stream, and a step is one turn of the loop of
`rawNextFile()`; `dots` says where a directory lists itself and its parent.  `buffers`
of `LineAgent` are both buffers with the bytes a shorter read leaves in them, `current`
is the one that is read. In `FileTool` a path is the list of its parts; `copying` is a
running `copyFile()`, which takes one step per block; writing may fail at each
(`WriteFault`), which is reported, reading too, and closing (`CopyEnd`), which is not.
`files` has what the system calls before have done.  In
`ByteStorage` `capacity` is the size of a new buffer, `chain` the buffers, a byte has
`Radix` values so that a length needs more bytes than its width holds, and `blocks` is
the history of what was stored and where. In `FunctionEngine` one action is one call
behind the test pass (a tested function only parses its arguments); `lines` and `other`
are two buffers, `directories` is `_directories`, and `drained` is the history of what
`pop` and `shift` returned.

### Texts

| Module | Models |
|---|---|
| `Ascii`, `StringTool` | characters as codes; escaping, splitting, joining, replacing, trimming, comparing, numbers of `StringTool.cpp` |
| `Matcher` | patterns with jokers, pattern lists with excluding ones, the translation to a regular expression |
| `Path` | splitting and joining of paths, extensions, unique names |
| `Json` | the scanner and parser of `NodeJson.cpp`, writing, access by path, comparison with a structure |
| `ArgumentParser` | options in all their forms, abbreviations, modes, defaults, types |
| `ScriptParser` | the arguments, expressions, conditions and strings of statements |
| `CsvFile`, `Base64` | rows and columns; three bytes as four letters |
| `Adaptation` | edits of a configuration file, variable by variable, with anchors |
| `KnifeReports` | the modes of `fileknife` and `textknife` on what traversal and agent return |
| `CharRandom` | the generators: seeds from a phrase, numbers of a range, the table of characters |
| `VeilEngine` | veiled texts, the file of secrets with its backup, licences |
| `MCTexts` | inputs and references; `part` says which algorithm, `Begin` chooses, `Check` compares |

A text is a sequence of character codes.  What a function computes is an operator of
the same name; a loop is a fold or a recursive function over the text, a scan is the
least place at which it stops.  Each is compared with a definition that does not
scan: an escaped text is the text when it is read again, the parts of a text joined by
the separator are the text, a pattern matches what some placement of its words covers,
a tree that is written and read is the same tree, a command line gives each parameter
the values in their order, whatever form they are written in.  `CharRandom` computes in
smaller numbers than the code (its constants have the size of the word as a parameter),
since TLC's integers end at 2^31; `ArgumentParser` cuts a size to an `int` of `IntRange`
values for the same reason.  `VeilFile` has the file of secrets, its backup, and a fault
of any of the calls that remove, rename, open and write; `Command` where `dbknife` writes.

## 4. Runs

| Run | Shows | Instance |
|---|---|---|
| `script_structured` | `ScriptFlow` implements `StructuredScript` for scripts that are `Sound` and whose leaves stand before inner blocks | all scripts of up to 6 block statements, all of up to 5 statements with bodies |
| `script_arbitrary` | types; undefined behaviour only in scripts that are not `Sound` or whose failed test is resumed; `run()` reads only; both passes end | all scripts of up to 4 statements of every kind, repeated starts |
| `calls_nest` | `ScriptCalls` implements `CallReturn`; the engine's stacks agree with the C++ stack; only tested scripts run; tests are silent; every call of the client returns | 12166 programs of three scripts, 3 levels, 2 starts |
| `lines_delivered` | `LineReader` implements `LineSource`; the rest of a block always fits the position of the handle | all texts of up to 4 characters out of CR, LF and two others, blocks of 1 to 3 bytes |
| `jobs_served` | what an agent executes comes from a job sent over the served connection, at most once for each agent, in the order of the connections; requests return | 2 clients, 3 connections, a backlog of 2, 7 jobs |
| `text_edited` | delete, insert, copy, replace and searches on lines do what they promise for the flat text; the places stay natural numbers | 2 statements of every kind on every text of up to 3 lines and 6 characters, position and mark anywhere |
| `files_handled` | a walk yields what the filters want, each entry once, with the statistic of what it yielded; the agent returns the lines that fit into its buffer; a copy is not there if it is reported as failed, and whole if no fault was overlooked; functions of scripts lose nothing; blocks and their lengths are found again | trees of 4 or 5 entries of every shape, files of up to 9 bytes in a buffer of 4, 3 calls of the tools, 3 blocks |
| `texts_agree` | strings, patterns, paths, JSON, arguments, expressions, CSV, Base64, configurations, veiled texts and reports agree with their references | about 31600 inputs: all short texts over the characters an algorithm tells apart |
| `script_resumed` | *violated*: a script is reported or executed | 3 statements |
| `script_nested_leave` | *violated*: leave stops the block it stands in | 5 statements |
| `calls_global_exit` | *violated*: `exit global` stops all scripts | one program |
| `text_hits` | *violated*: the position after a search is behind the hit | the instance of `text_edited` |

**Bounds.**  Six block statements hold an `if` with `else` inside an `if` or
`while`, two blocks in sequence, an `else` that could bind to the wrong `if`, and
a `leave 2`; four arbitrary statements hold every pair of handlers with a
statement between and behind them.  `MaxOpen` caps what `run()` pushes on
`_openBlocks` and never pops: `run()` does not read that stack, so its length
beyond the entries of the test changes nothing.  Three levels of calls hold a
recursion with an activation of the same script above and below another one;
`MaxDepth` stops deeper calls, which is why liveness is asked of programs without
recursion.  Two starts show what the first leaves behind.

Four characters in blocks of one to three bytes hold a line over three blocks, CR
and LF in two blocks, a line that ends with its block and a rest of one byte; a
look-ahead of two lines crosses a block as well.  `LaterFiles` are the texts that
`openFile()` opens when another was read in part.  Three connections of two clients
hold a client that connects again before its first job is executed, while the other
waits in the backlog, and one behind a connection that was left; the seven jobs hold
a short answer, a long one, and one with the header of a job in the place of the header,
from an echo and from a stored value, a stored and a missing value, an unknown scope, and
data that is too long.

Three lines hold a line between the first and the last one of a range; lines of up
to two characters hold a start inside a line with a hit behind it, a range inside a
line, and the column at and behind the end.  The first of the two statements leaves
position, mark and hit where the text has changed, the second uses them.

Four entries hold two levels of directories beside a file, an entry behind a
subdirectory, a directory that cannot be opened and an entry whose attributes are
missing; the five of `DirectoryStack` an entry behind two subdirectories, with a stack of
two.  Files of up to three bytes, and some of up to nine, hold lines longer than a
buffer of four, an end of line in its last byte, a last line without an end, and a test for
binary data that looks at three bytes, fewer than the buffer holds.  Three
calls hold a directory, a copy into it and a second copy over the first.  The capacities
8, 11 and 29 with blocks of 0 to 24 bytes hold a block that fits, one that fills the
buffer, one that needs a buffer of its own, and a length whose digits do not fit.  Texts
of three to five characters hold a separator at both ends and twice in a row, an escape
before the end, a joker at each place; the trees of `Json` have two levels of maps and
arrays.  A size of `3k` does not fit into an `int` of
4096 values, the smaller ones do.

**Preconditions.**  `Sound` says what `check()` relies on and does not verify: no
keyword in here documents and inner scripts, no empty inner script, no end
without beginning, no `leave 0`.  `script_arbitrary` shows that these are enough.
`LeaveBeforeBlocks` is the further condition under which `leave` finds the
documented end.

The clients of the reader look ahead when nothing is queued, at lines that are
there, as `CsvFile::read` does (`LooksCarefully`), and change the size of the block
when none is being read: a larger buffer may be moved, and the cursor points into
the old one.  The texts hold no NUL, which ends the search of `strchr()`, and CR
only at the end of a line (`IsText`).

The properties of `LineBuffer` name the arguments they do not speak of: a deletion
inside a line from a column not below the number of lines, a single line inserted at
column 0, a text without lines, a copy from the end of a line, the hit of a search in
the rest of its line, a range or a start outside of the text.  The list below says
what the code does with them.

A base of `FileTraversal` that is a file is the first entry of its name.  What is filtered by
options on which the texts of the repository and the code differ (`--days`, the bound of
`--size`, `--files` with patterns as a base, the special files of `--type`) may be there
or not: what is found lies between `Due` and `Allowed`.  `LineAgent` promises whole lines if
they fit into its buffer (`LinesFit`); every command of the tools opens its files with
the test for binary data (`checked`), behind which only short files that end with a line end
are read as they are (`CheckHarmless`): of the other ones the lines in the tested bytes are
promised (`LinesChecked`).  A copy has another file as its target; the length of a
block is `Representable` in its width, and the block not empty.  `buffer.difference` is held
to the first different line where nothing follows in the second buffer.

Of the algorithms on texts: seeds whose absolute value is no number (`IsLeast`) are
excluded, as is a first clear line of a file of secrets that unveils to a `#`, a line longer
than the line buffer of `dbknife`, and a file system without room for its output.  Sizes
have to fit an `int` (`InInt`), lines of Base64 a group of four letters, and what an adaption
writes is asked for if nothing is due or the last name is.  A list that mixes including and
excluding patterns is held to nothing where no pattern hits; a text in which all lines match
is left open for `-v` without `--list`; a format of `wc` has the placeholders the code knows and behind the last one
no more text than before it; a full list of the oldest files is checked if it holds
one file or they come in ascending order.  The list below says what the code does with the
excluded ones.

**Fairness.**  `WF_vars(Next)` in `ScriptFlow` and `WF_vars(Step)` in
`ScriptCalls`: one thread executes statement after statement and no handler
waits for anything.  The client is under no obligation to start a script, so
`Start` has no fairness.  The run of a loop-free script ends
(`LoopFreeRunEnds`); a `while` may run for ever, as its condition is open.  In
`JobServer` the server's loop is fair, since `accept()` and `recv()` return when
there is something to return, and so is each client that has connected: between
`connect()`, `send()` and `recv()` it does nothing else.  Nobody has to connect, to
leave, and `accept()` need not fail.  `RequestReturns` asks for clients that stay, for
known scopes, and that every connection gets a job (`~Silent`); without one of these the one
loop for all clients makes everybody wait, and data that is too long to be sent is enough
for that.
`lines_delivered` asks for no liveness: the client decides on every call.

`LineBuffer` is asked for no liveness either: a script goes on as it likes.  Neither are
`files_handled` and `texts_agree`: their clients call what they want, or once.

**Deadlock** is checked in `lines_delivered` only.  In `text_edited` a script ends after
its statements, in `files_handled` and `texts_agree` the calls end.  In `jobs_served`
the server may be down or receive for ever; in the scripts the client may stop calling,
a script that ran into undefined behaviour has no next step, and the bounds stop
recursion.

**Where code and documentation differ.**  Four disagreements are kept as
violated runs and listed as findings.  Others that the models contain, visible as
the preconditions above or in the actions named:

* a stray `else`, `endif` or `endwhile` reads the top of an empty vector
  (`CheckStray`, `Script.cpp:592`); the messages at 594, 607 and 622 mean to
  report it;
* `leave 0` with no end behind it passes the test without a target
  (`CheckLeaveWithoutEnd`, `Script.cpp:1032`);
* `script` in the last line reads behind the vector (`CheckScriptLast`,
  `Script.cpp:1530`), and an empty inner script takes its own `endscript` for
  its body (`EndScripts`);
* a keyword inside a here document ends a block (`Script.cpp:657`);
* the code of `exit` without `global` and of a stopped callee is lost
  (`Exit`, `EndRun`; `SearchEngine.cpp:177`);
* the globals keep the values of a test that failed (`CheckFails`);
* the server sends every answer on the socket it listens on (`SocketServer.cpp:167`),
  where a local socket refuses it; the connection it accepted is only closed.  So
  `recv()` returns 0, and `request()` an empty string, which it would do anyway, as
  `KniveSocketClient::receive` always returns false (`SocketClient.cpp:166`).
  `unittest/Agents_test.cpp:27` expects "OK" (`Receive`);
* a client that goes away without sending leaves the header of the job before in the
  buffer: if it is one of a known scope, the length of its data is 0 minus the size
  of the header and the server ends (`ServeClosed`, `SocketServer.cpp:231`), else
  `doIt()` receives nothing for ever;
* the loop over the agents does not stop behind the responsible one, and the next one
  looks for its scope in the buffer in which the answer was built (`Agents`,
  `SocketServer.cpp:225`): the bytes 4 to 19 of a text that is echoed may be the
  scope and the name of a job of the storage, which then executes it.
  `SocketServer.hpp:183` speaks of the agent that is responsible;
* data that is too long for the buffer of the client is not sent, `request()` does not look
  at the result and waits for an answer (`SendNothing`, `SocketClient.cpp:190`, 205);
* `lookahead()` behind the end of the file queues empty lines, and called twice it
  drops the lines of the first call (`LineReader.cpp:98`); `hasBinaryData()` takes the
  digit 0 for binary data (`LineReader.cpp:84`) and may return true before it has
  looked (`_hasBinaryData` is not initialised);
* `call "file"` takes a known script with the same base name (`Found`);
* `deleteRange()` compares the start column with the number of lines instead of the
  length of the line (`LineList.cpp:252`): in a short buffer nothing is deleted
  (`DeleteInLine`); with a start inside a line, a range up to the end of the buffer joins
  a line that does not exist (`DeleteLines`);
* `delete ... including` takes one character less than `excluding` (`DeleteEnd`,
  `Script.cpp:580`); the documentation says that the end is deleted as well,
  `unittest/Script_test.cpp` expects what the code does;
* a single line inserted at column 0 replaces the line there, as the rest of the line
  is taken for columns above 0 only (`InsertText`, `LineList.cpp:340`); a buffer without
  lines inserted behind column 0 is read at its first line;
* `copy from` without a start begins at the second column (`Copies`, `Script.cpp:519`), and
  a start at the end of its line drops the line end (`CopyRange`);
* `move <line>:<column>` takes the line from the column (`MoveTo`, `Script.cpp:1203`);
* a search backward without a hit reads lines below 0 (`Backward`, `LineList.cpp:579`),
  and from behind the last line it starts at the first column of the last line;
* an inline search that starts inside a line also looks into the next line (`Forward`);
  the limit of `replace` holds for each line (`ReplaceIn`).

Of files and memory:

* `clear()` removes the last buffer and `sizeOf()` uses it (`ByteStorage.cpp:110`); a block
  that fills a new buffer exactly is refused; a block of size 0 is stored, and rejected by
  `check()`;
* pipes, sockets and devices come from `fts` as `FTS_DEFAULT`, are counted as ignored and
  never found, although `--type` knows them (`Traverser.cpp:1135`, `ToolsCommons.cpp:41`);
* the bound of `--size` belongs to what is found, which `ToolsCommons.cpp:38` calls larger;
  the sign of `--days` works the other way than `ToolsCommons.cpp:35` says (`+` finds
  the older ones, as `fileknife.md:18` has it), and a day is taken for 1440 seconds
  (`ToolsCommons.cpp:98`);
* max-depth of a walk is not asked for, `level` is never set, the path patterns are applied
  to the base and to files too, a base given as a pattern removes `--files`, a base that
  is a file takes the first entry of that name, and a change of the base keeps the number
  of files and the level (`FileTraversal`);
* the line agent takes a last line without an end together with stale bytes of the buffer,
  cuts lines that fill its buffer, where `LineAgent.hpp:78` promises any length, and compares with
  the digit 0 to find binary data; opened with the test for it, as the tools do
  (`textknife.cpp:283`, `fileknife.cpp:483`), it takes what the rest of its buffer
  happens to hold for a part of a file longer than the bytes tested (`RestBehind`,
  `CheckHarmless`);
* `makeDirectory()` never makes the last part of an absolute path without a trailing slash
  and doubles the first of a relative one; `ensureDirectory()` reports the simple success
  as a failure; a copy of a file onto itself empties it (`FileTool`);
* when reading the source fails, or closing the target does, a copy that is not whole counts
  as a success (`CopyEnd`, `FileTool.cpp:68`, 77), where `FileTool.hpp:43` promises true for
  success; `writeText()` looks at neither `fwrite()` nor `fclose()` (`WriteText`, `FileTool.cpp:379`);
* `os.isdir` asks whether something exists; `buffer.difference` names the line behind
  the first different one when the second buffer goes on there (`FunctionEngine.cpp:187`;
  `functions.md:69` prints it as the first difference); `pop` and `shift` drop empty lines; `os.listfiles "dirs"`
  skips the directories; `popd` drops a directory before it finds that it is none;
  `string.substring` cannot start at the last character and throws at 0
  (`FunctionEngine`).

Of texts:

* control characters whose low digit is above 9 are escaped as letters k to p; an
  all-blank text is not trimmed at its end only; `?` in a class is dropped and `^ $ + |`
  are not quoted in regular expressions; `joinVector()` drops separators while the result
  is empty; an empty delimiter never ends (`StringTool`);
* a pattern without jokers matches prefixes; the search of a greedy matcher does not end;
  including patterns have no effect in a list with an excluding one: a text none of its
  patterns hits is selected, which `Matcher.hpp:207` and 262 deny (`ListMatch`);
* the directory of `/a` is empty; `uniqueFilename()` skips the first digit (`Path`);
* attribute names of JSON are not unescaped, `operator[]` accepts the size as an index, a
  comma before the end is accepted, a quote at the end reads an unset character, and
  `checkStructure()` without optional attributes knows no unknown ones (`Json`);
* an option is ambiguous if its name begins another one; names of positional parameters
  are options too; `--flag=false` is true; sizes are cut to an `int` (`Cut`,
  `ArgumentParser.cpp:597`, where `ArgumentParser.hpp:322` promises the value); defaults are not
  checked (`ArgumentParser`);
* an operator not listed (`+`) is taken for `!=`, `5-3` is an error, an interpolated value is
  interpolated again, the token looked at survives a new input (`ScriptParser`);
* CSV writes delimiters that are not doubled and reads no escapes; Base64 never sets the size
  of its result, 1 to 3 characters per line divide by zero, 0 adds a line feed behind each
  group and reserves no room for it, where `Base64.hpp:21` promises none (`Group`); an empty
  text decodes to null;
* an edit of several variables writes the file only if the last one changed, as
  `adaptFromConfiguration()` says only that of the last (`LineList.cpp:184`, `LineList.hpp:215`);
  indented definitions are not found, dots of names match any character, `--anchor` is
  never used, as `_hasAnchor` is never set, and `aboveAnchor` is not passed on (`Adaptation`);
* the list of oldest files keeps the wrong ones once it is full (`fileknife.md:47` promises the
  oldest), the count of errors starts at 9, and a directory that is gone is counted
  in both passes (`OneDir`, `fileknife.cpp:273`, 310); `--name-only` is asked for as `nameOnly`;
* in the format of `wc` `%%` gives nothing, `%c %M %n %p` are not known, though
  `fileknife.md:136` names them, and of the text behind the last placeholder as much is left
  as there was before it (`WcReplaced`, `WcOutput`);
* `search -v` without `--list` writes the name of a file all of whose lines match
  (`textknife.cpp:328`, against 539); an unterminated string hides the later ones of its
  file (`KnifeReports`);
* the absolute value of the least number is a negative index (`PortableRandom.cpp:90`);
  characters above 127 are looked up in front of the table; the phrase of a configuration
  is overwritten by the next reset and has no effect (`CharRandom`);
* a file of secrets with a single line is ignored, a clear first line that happens to
  unveil to a `#` is taken for veiled, the backup is removed although writing failed, so
  that the values are lost (`VeilFile`, `SecretConfiguration.cpp:75`), and a line split by
  `dbknife` cannot be unveiled; the output `~` of `dbknife` is stdin, not the promised
  stdout (`Command`, `dbknife.cpp:93`, 464), and in place the file is replaced though nobody
  looks whether the other one was written (`dbknife.cpp:145`).

## 5. Proofs

`SequenceLemmas` has what the proofs about texts share: that every non-empty set of naturals
has a least element (`HasLeast`, from the well-foundedness of strict inclusion between
finite sets), pieces of sequences, and `FlattenSeq` of the community modules, whose
recursive function exists (`FlattenExists`) and is unfolded by its values (`IsFlattening`).
Induction theorems of the library cannot be used here, as they take an operator for a
parameter.  Inductions are done by hand: the numbers for which a claim fails would have a
least one, at which the claim is refuted.

**The flow of a script.** `ScriptFlowProofs` proves `TypeCorrect == Spec => []TypeOK` for
every set of scripts, scripts of every length and every value of the bounds.  `TypeOK` is
inductive.  It says more than types: the index never passes the end of the
script, and both jump tables lead from lines of it to lines of it.  The lines that the
scans return are lines of the script (`FirstIsALine`), and the number of keywords in a
range of lines grows with the range (`CountNext`, `CountGap`, `CountLast`).  The step is
split by phase: starting and ending a pass, the handlers of the test pass, those
of the run pass; `PutType` and `StackType` carry the two kinds of updates, and
the lemmas on the scans give the bounds of the jumps.

`SpecDefinedIfSound` and `SpecRunOnlyReads` say that in a `Sound` script nothing is looked
up that was not stored.  Neither is inductive: that `run()` finds a jump depends
on every line of the test pass before.  `FlowInv` adds that `tested` tells in which
pass we are (`PassInv`), that a tested script has all its jumps (`RunInv`), and
for the test pass `Tracks`:

* what `run()` will look up for a line at or above the index is in the tables (`Stored`);
* the number of blocks opened minus those closed is the height of `_openBlocks`
  (`Balanced`), so that `else`, `endif` and `endwhile` find an entry;
* each entry remembers its scan (`EntryInv`): the scan that `findEndOfBlock()` made from
  its line passes every line up to the index with a counter that equals the
  number of entries of its kind above it, plus one, and the jump of what it found is stored
  (`StillOpen`).

The last is what makes it go through: when the index reaches an `else`, `endif` or
`endwhile` the top of the stack counts none above it, so this line is the one its scan
stopped at, and the jump that the handler of the `if` or `while` stored is that
of this line.  `Sound` gives that keywords inside of here documents and inner scripts,
over which the test pass jumps, do not count.

**The language.** `SpecFollowsStructure` of `ScriptRefinement` is the refinement that
`script_structured` checks on small scripts, for scripts of every length and nesting: a
script is accepted if and only if it is well formed, and `run()` goes from a statement to
one that its blocks allow.  The difficulty is that the two sides speak of different
things.  The language has blocks (`EndOf`, `Around`, `ElsesOf`), the code has counters
of two keywords at a time over raw lines, a stack, and tables that one pass fills for the
other.  The proof has three parts:

1. *Well formed scripts.*  The lines from the beginning of a block to its end hold as
   many beginnings as ends (`IsEnd`), so two blocks nest or are disjoint, and behind a
   beginning an `endif` is the end of the first `if` that is still open, whatever the `while`
   blocks do (`NoneOpen`, `Even`: the ends of one kind are in bijection with the
   beginnings of that kind that are closed).  Hence the scans find what the language
   means: `WhileScan`, `IfScan`, `ElseScan`, and `LeaveScan` if no block begins on the way.
2. *The test pass accepts the well formed scripts and no others.*  The invariant `CheckInv`
   describes what was tested without saying that the script is well formed: the index is
   in front of a statement and not in a body (`AtStatement`); the entries of the stack
   are the blocks open at the index, in their order, each with the type of its last line
   and a place in the stack that is its depth (`StackOfBlocks`); what was closed is well formed
   (`EndedBlocks`); the statements tested are fine (`FineStatements`).  At the last line with an
   empty stack this is `WellFormed`; a handler that throws has found a line that
   contradicts it.
3. *The run pass follows the blocks.*  In a well formed script the handlers store
   the jumps that the language asks for (`TablesRight`, which says so of every entry and
   needs the scans of part 1), and nothing is removed.  What `run()` reads exists by
   `FlowInv` above, so each of its handlers moves to one of `Successors`
   (`RunStep`) and again to a statement.

`RefinementInv` joins these by phase; it holds beside `FlowInv`.  Accepting is the step
`Accept`, an exception of the test `Reject`, a statement of the run `Step`, its end or
an exception `Finish`, and all other statements of the test are stutters.  The
provisions of the theorem are those of the run: the scripts are `Sound`, their leaves
stand before inner blocks, and none is started again after its test failed (`~ Retry`).
`script_resumed`, `script_nested_leave` and `CheckStray` show that it is false without them.

**Calls.** `ScriptCallsProofs` proves the four invariants of `ScriptCalls` and, as
`SpecCallsNest`, that it implements `CallReturn`.  The invariant `IInv` consists of
`TypeOK`; what the frames below the innermost one do (they run, and wait with no exit
code: `FramesInv`); that a name leads to a script of this name for ever
(`NamesInv`: `loadScript()` never replaces one); the three stacks
side by side, with the name of `Main` left below (`StackInv`); that a caller will go
on inside its script or at its end (`ReturnsInv`); which statements passed the test (all
of a tested script, else those before its index: `AcceptedInv`); and that the
globals are in the frame while a script is tested (`GlobalsInv`).  Under the refinement
mapping a call pushes a line 0, a statement of the run pass advances the last
line, and `popScript()` takes the caller's line from `_lineNoStack`; the test pass
of a frame is a stutter.  A recursive call overwrites the only index of the script,
and `ReturnsInv` with `StackInv` is why the caller's line survives.

**The reader.** `ReaderInv` of `LineReaderProofs` has the types and says that the
block ends where the handle stands (`Follows`); it is stated of a
reading (block, cursor, handle, queue) rather than of the variables, since `readLine()`
is an operator from readings to readings and `lookahead()` iterates it.  `TypeOK`
and `BlockFollowsFile` follow.  The second part of the module proves the refinement:

1. what is not read is the file behind an offset (`Off`, `Rest`, `UnreadIs`): a cursor
   in the block or, if it is null, the handle;
2. the blocks that `readLine()` goes through, each without the carriage return it
   ends with, join to the text between two offsets without its one (`BetweenIs`,
   `ChoppedJoin`, `StripJoin`); this is an induction over blocks;
3. so one `readLine()` moves the offset from a line to the next one, `LineEnd`, and returns
   the text between (`ReadLine`), whatever part of it was in memory;
4. the lines of the rest of the file are the one read and the lines behind it
   (`RestLines`, and `ReadsLines` for the loop of `lookahead()`), an induction over lines;
5. each action is then a step of `LineSource` or a stutter (`StepDelivers`).

**The buffers.** `LineBufferProofs` proves `TypesHold` and, as `DeletesRange`, `InsertsText` and
`CopiesRange`, that three edits of `LineList` by lines do to the flat text what they promise.
`TypeOK` is inductive: the last hit is a part of a line, so the end of the hit is a place,
and every way to set a position or a mark ends in `SetPositionType` or
`SetMarkType`.  That an edit leaves lines of letters needs, for `replace`, that a
column at which a line is split is not behind the line: `ReplaceEnd` has moved such an end to the
next line, and a start behind its line failed before (`ReplaceInType`, with
`ReplaceFirstType`, an induction from the end of the text).  The promises are about single
steps from states with these types:

1. the text of a line more, of two lists of lines, of one line (`FlatAppend`, `FlatJoin`, an
   induction over lines, `FlatOne`);
2. the text before and behind a place (`TextAtPlace`): the lines above and a part of
   the line, the rest of the line, its end and the lines below; a column behind its line
   counts as the end of the line, which is what the code's `Min2` and `InLine` do
   (`PlaceInLine`, `PlaceAtEnd`);
3. for each edit the cases of the code, each a regrouping of these parts: a deletion in one line
   or over several (`DeleteInLineCuts`, `DeleteLinesCuts`), an insertion into a line,
   before it, with lines of its own, behind the buffer (`InsertInLine`, `InsertBefore`,
   `InsertBehind`), a copy whose first and last line are whole or parts (`CopyWhole`,
   `CopyRangeTakes`);
4. a copy without an end runs to `Far`, which is behind the last line since every line has
   at least its end (`FlatLonger`) and the text is not longer than `MaxText`.

`FindsNextHit` and `FindsLastHit` prove the same of the two searches: line by line, they find
what stands first (or last) in the flat text.

1. a word has no line end in it, so what an occurrence covers is in one line: it is at
   `Start(lines, k) + c` exactly if it is at column `c` of line `k` (`HitOfLine`, `LineOfHit`,
   from `CharsOfLine`, the characters of the text by lines, and `HasLine`, an induction);
2. if the rest of the line a search forward starts in has none, the occurrences behind the
   start are those of the lines the code goes through (`ForwardReaches`); those that end before
   a start are those of the lines above and of the left part of its own (`BackwardReaches`);
3. lines do not overlap (`StartGrows`), so the first hit of the first line with one is the
   least of the text (`ForwardFinds`), and the last of the last the greatest (`BackwardFinds`);
4. a hit is inside its line, so that reading it again and setting the position to one of
   its characters or behind it is not cut short (`HitReported`).

`ReplacesInRange` proves the same of `replace`, which works on the end of the range's first
line, on whole lines and on the start of its last one.

1. `ReplaceFirst` is what it makes of the rest behind the first character or occurrence, one
   replacement less being left (`ReplaceUnfolds`); a text has not more occurrences than
   characters, so a limit as great as the text is none (`ReplaceEnough`, an induction);
2. an occurrence has no line end in it, so that replacing goes on apart on both sides of one
   (`AllApart`, an induction over the text before it), and replacing in a text of lines is
   replacing in each of them (`AllOfLines`, an induction over the lines);
3. `ReplacesPart` says of two texts that they differ between two places only, and, without
   limit and filter, how.  It holds of each line the code changes
   (`ReplaceInPart`, `WholePart`), of the text around a line if of the line (`PartInText`), and of
   texts that are put together from a first line, whole lines and a last one
   (`PartOfWholeLines`, `PartOfSeveralLines`);
4. the lines of the range are followed down from its start: one line (`PartOfOneLine`), or the
   first one and what is below (`ReplacedBelow`), and from there the promise of the flat
   text (`ReplacedText`, `PartIs`).

**The server.** `JobServerProofs` proves three properties for any number of clients, jobs and
connections, and for every `Left`: whatever bytes answers leave in the place of a
header.  `JobServerType`: `TypeOK` is inductive.  `ExecutedJobsSent`: the
buffer of the handler is not cleared between two jobs, and an agent may read in it what
the answer of another one has left; that what is executed comes from a job received
just now needs that all the agents do behind one `recv()` is this job or the header its echo
holds (`AgentsEntries`), and that what waits in a
connection was sent over it (`InboxSent`), which makes the property inductive.  `Grows` says of
every step that connections forget nothing.  `JobsInOrder`: the history is ordered because
the backlog is, and because everything in it is newer than the connection served,
which is newer than those served before (`QueueOrder`); of one connection there are at most an
entry of the basic agent and one of the storage behind it (`Ordered`, `AppendOrdered`).

**The storage.** `ByteStorageProofs` proves `ContentsOfBlocksKept` (`Spec => []ContentsKept`) and
`LengthsOfBlocksKept` (`Spec => []LengthsKept`) for every capacity, every set of sizes and every
number of blocks.  The invariant says that the capacity is a number and that chain and
blocks are `Good`, which has three parts:

* `Contents`: they have their types, every block is placed below the used size of its
  buffer, two blocks of a buffer do not overlap, and the bytes of each are what was stored;
* `Laid`: with its length field in front and its two marks behind, a block still lies in
  its buffer and apart from the others (`InBuffer`, `Apart`), one begins where the buffer
  does (`Begun`) and one where another ends, unless the used bytes end there
  (`Followed`), and field and marks are what `allocate()` wrote (`AllMarked`);
* `Counted`: the used bytes of the buffers are the bytes the blocks need.

The parts are stated of any list of buffers and any list of blocks, because `allocate()`
may put a block into a buffer that is new in the same step: a new buffer keeps them
(`GoodAppend`), a block behind the used bytes keeps them (`GoodOwned`), the owner of a block
writes only between its field and its marks (`FillKeeps`), and `clear()` starts with none.
`sizeOf()` then is right since the digits of a size make the size (`LengthRead`, from
`TwoDigits` and `ThreeDigits`), `check()` passes since from each block it gets to the next
one (`BufferPasses`, downwards from the used end), and the statistics do not exceed the
buffers (`NumbersFit`).  The sums of the statistics are a recursive function; that it
exists, and how it grows, are lemmas of their own (`TotalUnfolds`, `TotalNext`).

**Assumptions.** For the storage only `StorageAssumption` is used, for the flow of
scripts `ScriptsAssumption` and `BoundsAssumption`, for the calls the four assumptions of
`ScriptCalls` about its constants (programs are lists of statements, the bounds are
numbers), for the server `TextsAssumption`, `RequestsAssumption` and `BoundsAssumption` (texts
have a name and a value or none, an answer leaves a header, the empty one the same), for
the reader `FilesAssumption` and `SizesAssumption` (files are texts over the characters,
blocks have a byte), for the buffers `LineBufferAssumption` (the line end is no letter, words
are not empty, texts and numbers have their types, the bound `MaxText` of a text is at most `END_OF_FILE`, the
greatest `int`: in a longer one the code itself would end a range too early).  The refinement of `LineSource` holds for files of text:
its hypothesis is that every file satisfies `IsText` (no NUL, and CR only before LF or at the
end), which those of `lines_delivered` do; without it, it is false, since a CR in the middle
of a line is dropped where a block ends.

**Model-checked only:** all of `files_handled` but `ContentsKept` and `LengthsKept` (trees and files are
built and read by folds); all of `texts_agree` (texts are read by recursive definitions);
and liveness (fairness is out of TLAPS' reach; `JobServer`'s
`RequestReturns`, the ends of both passes and of calls).

## 6. Not modelled

The scheduler (no program uses it), `KissRandom` and the generator over `rand(3)`;
floating point geometry, logger and the formatting of times (TLC has neither numbers nor
clocks for them); the database drivers, wrappers of servers that are not part of the
repository; processes started by `Process`; regular expressions, used as a library; the
help texts of the tools.

Within the modelled components: the trace of the search engine, the local variables.
Recursive calls overwrite the local variables of the calling activation, which is the
same object, and every call is a recursion of C++ without a limit: hazards of
`PROJECT.json` record both.  The server over TCP, jobs delivered in parts (a local socket
delivers up to 65503 bytes of data in one piece, the client's buffer takes up to 65536), and
of the answers all but what they leave of a header are left out.  Of the buffers: the choice between several (`select` and its
stack), `mark save` and `mark restore`, `store`, anchors in patterns, back references in
replacements, and the methods of `LineList` that no statement calls.  Of files: the
permissions that a copy takes over, reading a file as a whole, temporary names,
the checksum of `fileknife`.  Of texts: the greedy matcher's search, dates and string
formats of arguments, and the mails and lists of `dbknife`.
