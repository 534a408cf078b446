# /bin/js in TLA+

/bin/js (binjs) interprets one file that mixes JavaScript and bash. A preparser rewrites the file to
JavaScript in which every bash line is a call of `binjs_exec`; V8 runs that, and bash 4.3, linked into the
same process as libbash, runs the commands. There is one process and one thread; what interleaves with it is
Ctrl+C, SIGCHLD, the children of bash, and the script itself, which may call anything in any order.

This directory models that system from its source, checks the models with TLC and proves their main
properties with TLAPS. `PROJECT.json` maps each definition to the lines it models and lists the runs, the
mutants that show each property can fail, the findings, the hazards and the theorems.

## Inventory

| component | source | state | operations | status |
| --- | --- | --- | --- | --- |
| Preparser | `c/libpreparser.c` | line buffer, flags, known names, comment | one pass over the file | modelled |
| Launcher | `c/binjs.c` | the pipe, the exit status | stat, preparse, start bash, run | partly |
| Runtime core | `v8/librunjs.cpp` | ReadPipe's array, `loadedLibraries`, V8's context | run a piped script, include, exit, SIGINT | partly |
| Bash bridge | `v8/bashexec.cpp`, `js/Dollar.js` | `$.env`, `$.watch`, `errno`, `lastpid` | exec, setEnv, getEnv, getJobs | partly |
| libbash | `bash-4.3/libbash.c`, `jobs.c` | variables, job table, last status | run a command, read variables and jobs | partly |
| File | `v8/file.cpp`, `js/File.js` | path, stat of the last call, open stream | stat, open, read, write, close, paths | partly |
| Terminal | `v8/term.cpp`, `js/Term.js` | saved attributes, raw mode | raw, reset, read a key, cursor position | partly |
| Text widgets | `js/tui/*.js` | text, selection, cursor, keys read so far | key loops | partly |
| XML | `js/Sax.js`, `js/Dom.js`, `js/Xml.js` | parser state, buffers, tree | parse, build, print | partly |
| Standalone tools | `v8/runjs.c`, `c/binjs_preparser.c` | buffer, arguments | read a file, loop over files | left out |
| Formatting libraries | `js/Json.js`, `Color.js`, `Markdown.js`, `Assert.js`, ... | none | formatting | left out |
| Build, docs, tests | | none | | read as statements about the code |

How they interact: `main` calls the preparser with the write end of a pipe, closes it, starts bash
(`runjs_init_bash`), and `RunPipedJS` reads the pipe and runs the result. The script calls back into
librunjs (include, exit), bashexec (commands, variables, jobs), file and term. Bash and JavaScript share
variables by copying, at the two ends of each command. SIGINT is handled by `runjs_exit`, except while
libbash has its own handler in place; SIGCHLD changes bash's job table whenever it is not blocked.

What is hard in it, and what makes each part correct:

* **Preparser**: three flags and one buffer carried from line to line; comment tracking that must agree with
  V8's; an order of tests in which earlier ones shadow later ones. Correct: every line is classified by the
  rules and written once, commands whole, the buffer never overruns.
* **Launcher, runtime core**: a pipe written and read by the same thread; exits at every stage, Ctrl+C in
  each of them. Correct: V8 runs exactly what was written; the process ends.
* **Include**: recursion over files that include each other, fail, throw and are caught. Correct: a name is
  run once, what a file asked for is there, every call returns unless its file cannot be read.
* **Jobs**: a table read field by field while a signal handler changes it, kept by pointer. Correct: what
  the list holds stays valid and consistent; the walk stays in the table.
* **Bridge**: seven steps after which two sets of variables, a directory, a signal handler and an exception
  have to agree. Correct: the script sees a command as one step.
* **File**: attributes kept from the last stat while scripts and other processes change the file; one
  stream per object through every order of open, close, rename, delete and errors; lengths that no int can
  tell. Correct: a stream has one owner; a call crashes only if the attributes were stale or told it to beware,
  or permission, descriptors or memory were wanting; a read ends.
* **Terminal, widgets**: raw mode, shared by calls that nest through validators and fail, and restored by a
  signal handler. Correct: keys are read raw, a call undoes what it did and no more, Ctrl+C at any statement
  gives the terminal back, every call can be left, and what a menu shows is what it has selected.
* **XML**: 32 states with a dozen buffers, text held back, several elements closed by one character.
  Correct: a state finds what it uses, the Dom follows the parser, nothing is lost or changes places.

## Modules

| module | models |
| --- | --- |
| `PreparserRules` | the classification of a line: `is_java_script`, `is_bash`, `process_line`, the names known |
| `Preparser` | `binjs_preparse`, a character at a time |
| `PreparserSpec` | abstract: what the preparser promises, a line at a time |
| `PreparserHistory` | Preparser with history variables, V8's lexer as far as comments go, the refinement |
| `Launch` | `main`, `runjs_init_bash`, `RunPipedJS`, `ReadPipe`, `Exit`, `runjs_exit`: one process |
| `FileLength` | `int size = ftell(file)` and the array made for it, as `librunjs.cpp` and `file.cpp` have it |
| `Include` | `Include`, `IsLoaded`, `ReadFile`, `ReadLibFile`, `ExecuteString` |
| `Jobs` | the job table of `jobs.c`, the SIGCHLD handler, `libbash_get_jobs` and `GetJobs` |
| `BridgeNames` | the names and values bash and JavaScript share |
| `SharedShell` | abstract: what a script may rely on when it runs a command |
| `Bridge` | `ExecAsBash` and all it calls, `$.setEnv`, and what scripts and commands do in between |
| `Terminal` | raw mode (`TermMakeRaw`, `DoTermReset`), the calls that use it and their key loops, Ctrl+C |
| `FileObject` | the File objects of `file.cpp` over a file system shared with other processes |
| `Dom` | the handlers of a DOMParser as operators |
| `Sax` | the parser of `Sax.js`, a character at a time, under a `Dom` |
| `PreparserMC`, `LaunchMC`, `IncludeMC`, `BridgeMC` | instances for TLC |
| `PreparserProofs`, `LaunchProofs`, `IncludeProofs`, `JobsProofs`, `BridgeProofs`, `TerminalProofs`, `FileObjectProofs`, `SaxProofs` | proofs |

`PreparserHistory` extends `Preparser`, which extends `PreparserRules`; `PreparserSpec` uses the same rules.
`Launch` takes of the preparser only how much it writes and how it ends (`phase` of `Preparser` when it
returns: done, failed or ioerror). `Include` and `FileObject` extend `FileLength`, `Bridge` and `SharedShell`
extend `BridgeNames`. `Sax` extends `Dom` and
calls its operators where the parser emits an event. Modules without an MC module are run as they stand.

### State and actions against the code

*Preparser.* `current_line`, `line_num`, `line_read`, `is_bash_continue`, `in_js_comment` and `vars` are the
variables of `binjs_preparse` of the same names. One action per branch of the reading loop: the shebang line, a
CR, a blank of a continued line, a character stored, a line held, written or refused, a line too long, the end of
the file, a read error. A line is a sequence of tokens, the words the rules look for and a few characters.
Escaping is left out. A tab counts as a blank everywhere, as it does when a line is read, though not every rule
takes it for one (`is_exit` at line 264 looks for a space): no property depends on that.

*Launch.* `pc` is the call `main` is in. The bytes of the script are numbered, so order and loss show. A
write is a byte at a time and waits for room in the pipe; a read takes any number of bytes up to
`BufferSize`. `Interrupt` is `runjs_exit` at any point.

*Include.* `stack` holds the files being run, each with the include calls ahead of it and the rest of the
arguments of the call it is in. A program says for each name what it includes and how it ends. A file is loaded
as `ReadFile` and `ReadLibFile` do it: `Open` asks for its size and puts it in an int, `ReadSome` is a round of
the loop of `fread`, and only when all is read the file is compiled and run (`CompileFails`, `Execute`). `Cut` is
another process, or the disk: what is left of the file can no longer be read. `Unreadable` says the loop goes
round for ever then, or never began for want of an array.

*Jobs.* Slot `i` of `jobs` is job number `i`. The handler (`Reap`) runs between any two actions, also
between the two fields of a job the walk reads (`ReadRunning`, `ReadState`). `Clean(Notified)` is
`notify_and_cleanup`: which dead jobs leave the table depends on how bash was started and how they ended.
`ReadPastTable` is the undefined behaviour of a walk beyond the table: a crash, or a zero word by luck.

*Bridge.* `pc` is the statement `ExecAsBash` is at. Between `CopyVars` and `Finish` a command may assign, unset,
change directory, set a trap and end parts of itself any number of times; `throw` is an assignment to `_EX`, as in
`builtins/throw.def`; an `_EX` in the environment binjs is started with is met by the first command. `touched`
(names changed since the last command was over) and `steps` are for the properties and the bound. `Moved` is
`chdir(PWD)`: where it leads is a function of the directory one is in and of the text (`Chdir`), so that a
relative name leads on from each directory it led to. A global variable is Unset when undefined or null, and
otherwise a string or something else with the text it converts to, the distinction `CopyVars` makes.

*Terminal.* `calls` are the calls in progress, each with the `wasRaw` it found; a readline may run a function of
the script (`Ask`), which makes further calls. `mode` is the statement of `TermMakeRaw` the thread is at, or that
it reads a key, runs the script or throws; `Interrupt` (`runjs_exit`) may come at any of them. Of a key the model
keeps what it does: ends the call, moves the selection, is invalid, starts an escape sequence the input ends in.
The keys of a menu run a statement at a time: a combo sets `selected` and moves the cursor (`row`) by separate
statements in the loop of the key, a spinner computes `selected`, puts it back on the list and writes what is
selected (`shown`); `met` is the selection the menu came up with. Raw mode and ISIG are the parts of the settings
binjs changes; the rest is `base`, which `OthersSet` (stty) may change. `own` and `meddled` are for the
properties.

*FileObject.* `link` and `size` are the file system: the inode a path names and its length; `denied` the
paths binjs is refused. `path`, `attr` and `handle` are an object's path, what `DoStat` set, and internal
field 0; `open`, `on`, `writers` and `dirty` the stdio streams. The name of a closed stream is used again, as
malloc uses the memory of a FILE. A call that throws and changes nothing is a stuttering step. `read()` runs
as a loop of its own (`reading`), during which other processes go on and the disk may fail (`DiskFails`). `crash`
is the null pointer of `opendir` dereferenced, or the byte in front of the buffer written, or the exception of a
`new` that gets no memory or a size that came out negative as an int; `want` in it says descriptors or memory
were wanting, which may happen to any call. `Fresh` compares attributes with what a `stat` of a new File would
say, so the mode a failed `stat` leaves behind is not fresh.

*Sax and Dom.* `state`, `tags`, `tag`, `tagName`, `attribName`, `q`, `sawRoot`, `closedRoot` are the parser's; of
text, comment and declaration the model keeps whether they are empty or what they can still become. `QuoteKept`
are the states that compare with `q` and have it: all of `InQuotes` but `SGML_DECL_QUOTED`, whose handler compares
with a `q` that was never set (`Sax.js:351`). A step is one character, of 14 classes; what it emits is handled in
the same step. `InText` takes the characters one by one that the code takes in a loop. An error throws out of
parse (the Dom's `onerror`), so the model ends there. `dom` is the DOMParser: stack, current element, root; `doc`
and `written` record what the document holds, independently of the parser's buffers: for each open element its
items and what was read last in it, which tells whether a character goes on with a text or begins one.

## Runs

| run | question | bounds and why they are enough | result |
| --- | --- | --- | --- |
| `preparser` | does the parser keep its promises? | scripts of 4 lines of 22 kinds, joined lines up to 8 characters: a comment opened, continued, closed and left needs four lines; over-long lines, joined ones too, are among them | holds |
| `preparser_comments` | is all else bash? | 4 kinds of line | violated |
| `preparser_end_of_file` | is each line interpreted? | scripts of 2 lines | violated |
| `launch` | does a start go as it should? | pipe of 7, reads of 2, output up to 10: the array doubles twice, and some scripts do not fit | holds |
| `launch_large` | does every script end? | pipe of 2, output up to 3 | violated |
| `include` | are includes right? | 3 files with any of six bodies each and three main scripts, every way they can end: cycles, self-inclusion, shared dependencies; lengths 2, read in one or two rounds, and 5, which an int (below 4) does not hold | holds |
| `jobs` | is the walk safe and complete beside the handler? | table of 2 slots, 3 jobs: no table, free slots in the middle, a full table, growth | holds |
| `jobs_wait` | does the documented loop end? | 2 jobs, table of 8 as in bash | violated |
| `bridge` | is a command one step for the script? | 4 names (PWD, `_EX`, `gi`, a readonly one), 2 directories and a relative name that leads from each to the other, 2 changes: enough for the script to share a name and a command to change it; with a third the run is no longer one of minutes | holds |
| `term` | is the terminal in order? | calls nested 2 deep (one inside a function another call runs), 3 options and a page of 2, 2 settings: a move past either end by a page, or stopped by it within one, a call that failed raw before one that is not | holds |
| `file` | are objects, streams and files in order? | 2 objects, 3 paths (one with a tilde, one refused at times), a file and a directory, a file of 0, 1 or 3 bytes with ints below 3, one stream beside those of the console: two objects compete for one file and one stream, a closed stream is used again, a length does not fit in an int | holds |
| `sax` | does the Dom get the document? | elements 2 deep with 2 items in them, 2 names of tags, 1 of attributes, strict and not: text before and between elements, a close tag for the outer one, repeated attributes | holds |

`bridge` uses the symmetry of the directories, which nothing in the specification tells apart and no
liveness property depends on. Runs without deadlock checking are those whose process really ends; their
configurations say so: a program that has exited, crashed or been killed makes no more steps, nor does a
document that is parsed. In `file`, two streams that scripts opened are never open at once, for the sake of
its size; `StreamsAreOwned` is proved for any number. Values scaled down: the pipe (64K), the buffers (64K,
and 4096 characters a line) and `JOB_SLOTS` (8). They are parameters, and the proofs hold for all values.

### Findings

* A `*/` in the first column does not end a comment for the preparser (`libpreparser.c:347`), so commands
  after it are written as JavaScript, against ParserRules.md: "Any line not determined to be JavaScript by
  the above rules is treated as bash." `CommentsTracked` states the way of writing comments (`Tidy`) for
  which preparser and V8 do agree.
* A last line without a newline is dropped (`libpreparser.c:67`).
* A script whose JavaScript is larger than the pipe waits for itself for ever (`binjs.c:179`).
  `ScriptFitsPipe` and `FittingScriptEnds` say what holds instead.
* The loop of Jobs.md that waits for background jobs does not end (`libbash.c:445`): in a script nothing
  removes a job that is over while no bash command runs.

### Known deviations

Met while modelling. Those in code that is modelled are in the models as they stand in the code, without a
run of their own.

* Preparser: a declaration without a name it can read (`libpreparser.c:508`) stores the empty name; from then on a
  line that begins with a character of no name, `./run.sh`, is JavaScript.
* Launcher: a script that cannot be read to its end is run as far as it was read (`binjs.c:182`), because on a
  read error `binjs_preparse` returns 1 and leaves the status `main` looks at as it was. `RunsWhatWasWritten`
  allows it.
* Include: a call returns at the first argument that was loaded before and skips the others (`librunjs.cpp:530`);
  `DependenciesFirst` is about the first name of each call for this reason. A library that failed to load counts
  as loaded (`librunjs.cpp:778`), though line 81 says "already been loaded".
* Jobs: `getJobs` stops at the first free slot (`libbash.c:445`), so a job that was cleaned up hides the running
  jobs behind it. `ListedUpToFreeSlot` says how far the list is complete.
* Bridge: a relative PWD moves the process again at every command (`bashexec.cpp:87`), though line 60 says "if cd
  was called, change directory"; `StaysPut` and `AtRest` say what holds for absolute ones, `ImplementsSharedShell`
  covers both. `$.env` keeps variables bash no longer has (`bashexec.cpp:231`), against Dollar.js:16;
  `EnvIsCurrent` is the half that holds.
* Terminal: `query`, `anyKey` and the spinner leave the terminal raw on an error (`Term.js:341`,
  `SpinnerInput.js:22`), as `exit()` and the end of the script do, of which `Term.js:92` warns. A reset in a
  function that a readline runs leaves the readline cooked. A readline or menu at the end of the input reads
  it for ever, and so does an OSC or DCS sequence (`Term.js:201`). ESC ESC passes by the validator. A second
  `select()` of a combo draws the cursor on line 0 with the old selection, so `CursorFollowsSelection` is about how
  far both have moved since. A spinner without options selects -1 at the key End (`SpinnerInput.js:47-78`).
* File: a `stat` that finds no file leaves `mode` (`file.cpp:253`), so `isFile` or `isDir` is true of what does
  not exist, against File.md:144 and 148, and `list` reads through a null pointer; `Fresh` takes such attributes
  for stale, which is why `CrashesOnlyIfWarned` allows that. A length of 2 GB or more makes the int size negative
  or too small (`file.cpp:516`, `librunjs.cpp:565`), so `read` crashes or reads a part. `list` reads through the
  null pointer that `opendir` returns when descriptors or memory are out (`file.cpp:473`). `write` does not stat,
  so a File made before the file was there refuses to read what it wrote. Rename uses the name as written and
  gives the object the expanded one. `fread` at the end of a file that got shorter, on a directory or on a disk
  that fails is repeated for ever (`file.cpp:521`, `librunjs.cpp:570`), the case `ReadEnds` and `EveryCallReturns`
  except. `readChar` takes continuation bytes from stdin (`file.cpp:767`). An object that is collected leaves its
  stream open. `isRoot` looks at the name, `isSymlink` at a mode that `stat` never gives.
* Sax: `state = S.TEXT` lacks `parser.` (`Sax.js:278`), so text never leaves BEGIN. `strictFail` called with the
  message alone (lines 299, 583, 606) never fails: text outside of the root, junk in a close tag and bad entities
  pass in strict mode; an unterminated entity also loses the character that ends it. A quote in a declaration has
  no end (line 346), which `TypeOK` excepts. Not strict: values without quotes are not stored (line 559), `>` does
  not end a tag in an attribute's name (line 508), a close tag for nothing is never left (line 226), in strict
  mode too if nothing is open. Open elements at the end of the document are no error. A second root is accepted
  and lost, and CDATA outside of one is a TypeError (`Dom.js:102`).
* Standalone tools: `runjs.c:108` reads each part of a file to the start of the buffer;
  `binjs_preparser.c:64` stats the first argument for every file.

### Fairness

* `Launch`: `WF_vars(Proceed)`. One thread runs whenever it is not blocked in a write or read. `Proceed`
  contains the steps of `main` when nothing fails, so no failure and no Ctrl+C is needed for the process to
  end; that a script ends is an assumption on the script, stated with `Run`.
* `Include`: `WF_vars(Runs)`, what the program itself does. The files contain no loops, so the only ways not to
  end are the recursion and the loop that reads a file. Nobody need cut a file.
* `Jobs`: `WF_vars(Sigchld)`, processes end, and `WF_vars(Walk)`, a call of `getJobs` goes on. The script
  need not start anything. This makes the counterexample of `WaitLoopEnds` one in which all jobs are over.
* `Terminal`: `WF` of the statements of `TermMakeRaw`, of those a key of a menu runs and of the unwinding of an
  error, which nothing blocks.
  `SF`, for each depth, of the user's key that ends the call (ESC ESC is always open to who wants out) and of
  the end of a function the script gave to readline. Strong, because a call inside the call takes the key in
  between, over and over. Nothing is assumed at the end of the input, where no key comes, nor of any other step.
* `FileObject`: `WF_vars(ReadSome \/ ReadDone)`, the loop of `read()` runs on; other processes need not act.
* `Preparser`, `Bridge` and `Sax` state safety only.

## Proofs

All are for every value of the constants, from the assumptions named in the modules
(`PreparserAssumption`, `LaunchAssumption`, `IncludeAssumption`, `JobsAssumption`, `NamesAssumption`,
`UnsetAssumption`, `OptionsAssumption`, `IntLimitAssumption` and the like).

* **PreparserProofs**: `TypeCorrect`, `BufferNeverOverflows`, `CommandsAreWhole`, `RefinesLines`,
  `CommentsStayTracked`, `ContinuationsStay`, `TidyScriptsRunBash`.
  * The characters stored are at most those counted: each store is guarded by a counter that other branches
    count and reset, and holding a line replaces its last character, so joined lines are counted in full.
  * For `CommandsAreWhole`, what was held back stays a prefix of the line (`WholeInv`): nothing is stored
    before the first line, and every store is behind it.
  * `RefinesLines`: `Preparser` implements `PreparserSpec`. The invariant (`LineInv`) is that some part of a
    line of the script has been read, of which the buffer is the cleaned text behind what was held, and
    `is_bash_continue` says whether anything but blanks was in it; within a line nothing happens in
    `PreparserSpec`, at its end one step.
  * `CommentsStayTracked`: one lemma for each place a line can have a comment in (none, opened, inside,
    closed), each about V8's lexer run along the line.
  * `ContinuationsStay`: what a line is depends on how it begins (`KindByBeginning`), so what is held back is
    a command, and so is all that is joined to it. A `\` that stands alone is held back as a blank and decides
    nothing; `exit\` goes on as an exit, which `exit` by itself is not. `TidyScriptsRunBash` is
    `EverythingElseIsBash`, which the code violates, for the scripts it holds for. Neither is a property of a run.
  * `Clean` and `LexLine` are recursive functions. That they exist, are unique, and have a property that every
    step keeps is induction over the length of a line; it is derived here (`LeastNatural`, `Induction`,
    `StepsExist`, `Agree`) from `FS_StrictSubsetOrderingWellFounded` and `WFMin` of the library, which need no
    operator as a parameter.
* **LaunchProofs**: `TypeCorrect`, `NothingLost`, `ReadNeverOverruns`, `OnlyFittingScriptsRun`,
  `FittingScriptNeverWaits`, `NeverComesBack`. The
  invariant is that what was read followed by what is in the pipe is what was written, that nothing is read
  before the preparser is done, and that both together fit in the pipe. Without the last part one doubling of
  the array could not be shown to suffice for the read that follows, nor its size bounded. The last two are
  what the end of a script rests on: the process that is writer and reader of one pipe never waits for itself
  if the script fits, and each step goes on to a later call or moves a byte (`Progress`).
* **IncludeProofs**: `TypeCorrect`, `OnlyOnce`, `DependenciesComeFirst`, `EveryStepAdvances`, `CallsAreAnswered`.
  Every file being run but the script is in `loadedLibraries`, and a file is pushed together with a new name, so
  the depth is bounded by the names recorded; the frame below a file is always in the call that started it, so a
  return finds it. For `DependenciesComeFirst` the invariant (`InOrder`) follows how far each file being run has
  got: of the calls behind it the first name is recorded, or is where the present call stands, and what is
  recorded is being run, was run, or failed. The last two theorems are why includes end: each step records one
  more of finitely many names, or leaves a file, or takes something from what the innermost file has still to do,
  or from what is left of the file being read; and until the script is over some action has what it asks for,
  because a file that could not be loaded is never run (`Runnable`) and a file being read is the one its call is
  at (`Reading`), unless that file cannot be read to its size.
* **JobsProofs**: `TypeCorrect`, `NoDanglingCommand`, `NumberedAsBashDoes`, `FieldsNeverDisagree`,
  `CrashNeedsFullTable`, `ListsUpToFreeSlot`, `LoopNeverEnds`. The invariant says what the walk has read is still
  in its slot but for processes that have ended since, which holds because the handler marks processes and never
  frees a job. `CrashNeedsFullTable` needs that a job's serial number is at least its slot's, `ListsUpToFreeSlot`
  that where the walk ended is still free when the list is used (`WalkOver`). `LoopNeverEnds` is the finding of
  `jobs_wait` for every table and any number of jobs: once the loop of Jobs.md runs and job 1 is in the table,
  that stays so, whatever ends, because the list is empty only if the first slot was free.
* **BridgeProofs**: `TypeCorrect`, `EnvStaysCurrent`, `RestsClean`, `NeverMovedUnasked`, and `Implements`:
  `Bridge` implements `SharedShell`. The mapping decides all effects of a command at `Finish`; each of the
  five steps that follow is a stutter. The invariant follows `$.env`, the directory, the handler and the
  exception from stage to stage, each with the reason why the stage may break it. Of `Chdir` it is assumed only
  that an absolute name leads to the same directory from everywhere; `NeverMovedUnasked` needs no more, because the
  process rests in PWD if that is one.
* **TerminalProofs**: `TypeCorrect`, `ReadsRaw`, `InterruptIsClean`, `CursorIsRight`, `CallsUndoRaw`. The
  invariant (`IInv`) says, besides the properties: what was kept is what was found, and the terminal is not
  touched before it is kept (`Kept`); while nobody meddles, the flag is set as long as a call needs it, every
  call inside another found it set, and the terminal is raw in between (`Held`). Without the second part the
  return of an inner call could not be shown to leave its caller raw. For `CursorIsRight` it follows a key through
  its statements (`MenuUp`): between the two of a combo the cursor is one step behind, in the way the key goes, and
  a spinner's selection may be off the list until it is clamped and differ from what is shown until it is drawn.
* **FileObjectProofs**: `TypeCorrect`, `StreamsAreOwned`, `CrashesAreStale`, `ReadsAreFed`,
  `ReadsGoForward`. The properties are nearly inductive; added is only that streams of
  collected objects stay open, so that a new stream is never one of them. `ReadsAreFed` and `ReadsGoForward`
  are the safety part of `ReadEnds`: the loop of `read()` always has the next byte to read, unless the file
  was cut, is a directory or cannot be read, and never goes back.
* **SaxProofs**: `TypeCorrect`, `TheDomFollows`, `AttributesAreKept`, `ContentStaysInOrder`. The invariant is that
  stack and tags have the same names, and that the Dom has a root exactly if the parser saw one. It needs lemmas
  on what the Dom's operators do to that relation, one per event, and each step is then one of a few: quiet, an
  event, a tag opened or closed. For attributes it is strengthened (`AInv`): the tag being read agrees with what
  was written in it, there is none outside of tags, and strict mode never reads a value without quotes, which is
  where one is lost. For the content (`CInv`): for every open element, what the Dom has in it is what the document
  has, once the text still pending is added to the innermost (`Holds`); what was read last in an element with an
  open child is that child (`Inner`); and outside of tags text is pending exactly while it can still go on
  (`Pending`), so that each event emits it before what comes next.

Only model-checked: liveness (`FittingScriptEnds`, `EveryCallReturns`, `CallsEnd`, `ReadEnds`), which is outside
what TLAPS proves, for it needs fairness and ENABLED. For all but `CallsEnd`, whose strong fairness is about what
a user and a script do, the theorems named above leave only that to TLC: no step is missing and each one leads
nearer to the end, but where the property itself excepts a file that cannot be read. Every other property of a
passing run is stated by a theorem.

## Not modelled

The repository carries all of GNU bash 4.3 (some 150,000 of its lines), of which binjs uses `libbash.c`, one
builtin and the job table; binjs itself is about 7,500 lines, so the map can only cover a small share of the
repository. The rest of bash is vendored and stands in the models for what a command may change; V8 for what
it does with comments, `try` and exceptions.

* The text of messages, escaping, line numbers, layout and colours; `Json`, `Color`, `Markdown`, `Assert`,
  `Table`, `Progress`, `Throbber`: formatting without state.
* Jobs: stopped jobs, coprocesses, the compaction of a table of 4096 jobs. Bridge: array variables, whose
  value `CopyEnv` copies as if it were text; a `throw` in a subshell, which changes that process's `_EX`
  only and so is no step; `$.getEnv` and `binjs_copyEnv` called by a script.
* Launcher: the splitting of the command line between binjs, bash and V8.
* Lengths of files: V8's own limit on the length of a string, and FIFOs and devices, of which `ftell` says -1;
  what `new` does with a size that came out negative is taken for a crash in `FileObject` and for an end of the
  program in `Include`.
* Files: contents, dates, owners, symbolic links, where a stream stands, and so what `readByte`, `readChar` and
  `readString` return; the path functions of `File.js`, pure functions on strings (of which `getAbsolutePath` is
  wrong for a trailing `..`, line 86, and `getParent` for relative paths, line 111).
* Terminal: the text typed, what a key draws, `FileInput`, `EditorInput` and `Popup`.
* XML: values, the check of buffers larger than 64 KB at the end of a chunk (a Dom gives the whole document as
  one), processing instructions kept on request, a second parse with the same parser, printing.
* `runjs.c` and `binjs_preparser.c`: two loops without state worth a model; what is wrong in them is above.

## What is left

Compositions: `Terminal` with `Launch` (the exit status and the terminal on Ctrl+C), `Bridge` with `Jobs` (the
SIGCHLD handler during a command). `EditorInput` and `FileInput`, which keep a cursor in a text.
