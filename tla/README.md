# A TLA+ model of xeus-cpp

xeus-cpp is a Jupyter kernel for C++: it receives execute requests from a frontend
(through xeus), runs them in clang-repl (through CppInterOp) and sends back what
they write. This directory models the kernel's own logic, checks it with TLC and
proves part of it with TLAPS. Paths are relative to the repository's root.

    tlasany M.tla                         parse a module
    tlc -config X.cfg MCM.tla             check a run (PROJECT.json lists them)
    tlapm M_proofs.tla                    check the proofs

## The system

| Component | State it keeps | Operations | Talks to |
|---|---|---|---|
| Output buffers, `include/xeus-cpp/xbuffer.hpp` | `m_output`, `m_mutex` | `overflow`, `xsputn`, `sync` | called by `std::cout`/`std::cerr` from any thread; calls back the publisher |
| Input redirection, `src/xinput.cpp`, `xbuffer.hpp` | `m_value`, `std::cin`'s buffer and badbit | construct, destroy, `underflow` | asks the frontend (blocking) or throws |
| Interpreter, `src/xinterpreter.cpp` | the buffers behind the streams, scope guards of the request | construct, `execute_request_impl`, destroy | owns two output buffers; calls preambles and `Cpp::Process`; publishes and replies through xeus |
| Completion, `src/xinterpreter.cpp`, `src/xparser.cpp` | - | `complete_request_impl`, `split_line` | CppInterOp for the candidates |
| Introspection, `src/xinspect.cpp`, `src/xinterpreter.cpp` | `var_count`, and the aliases it declares in the session | `inspect_request_impl`, `xintrospection::apply`, `inspect` | tag files of `tags.d`, CppInterOp |
| Input validator, `src/xinput_validator.cpp` | lexer position, stack of open constructs | `validate` | called by `is_complete_request_impl` |
| Preambles and magics, `include/xeus-cpp/xmanager.hpp`, `src/xholder.cpp` | two maps of magics, a map of preambles | register, unregister, `apply` | called before C++ code is considered |
| Shell preamble, `src/xsystem.hpp` | - | `apply` | `popen` |
| file magic, `src/xmagics/os.cpp`, `src/xoptions.cpp` | the file it writes | write, append | the file system, shared with other kernels |
| xassist, `src/xmagics/xassist.cpp` | text files in the working directory | save key, model, URL; refresh; chat | files shared with other kernels; an HTTP server |
| Process, `src/main.cpp`, `src/xutils.cpp` | signal handlers | start, `stop_handler`, `handler` | `exit`, which flushes `std::cout` |
| Emscripten bindings, mime conversion | - | - | - |

The main thread handles one request at a time. Concurrency comes from threads that a
cell starts and leaves running: they write to the same C++ streams, whose buffer
pointers the main thread swaps for a silent request. A signal handler runs on whichever
thread the signal interrupts. The other kernel processes come in through the files of
xassist and of the file magic.

What is hard, and what makes each part correct:

* **Output buffers.** Threads interleave at the mutex and the publisher may throw
  between the publication and the clear. Correct: nothing is lost, doubled or
  reordered; a flush that returns leaves nothing behind; no call hangs.
* **Process.** A signal may interrupt a thread inside the buffer, whose mutex the flush
  at exit needs, or arrive while a silent cell has put a null buffer in its place.
  Correct: what was written before the signal is heard, and the process ends; the model
  says exactly when it does not.
* **Execute requests.** Three scope guards (cin, silence, C captures), two buffered
  C++ streams tied to each other, two captured C streams, and five ways out (reply
  after success, compile error, exception; preamble; exception without a reply).
  Correct: the reply ends the request's output, in program order; a silent request is
  not heard; the next request finds the streams as the first one did; the protocol
  of messages is kept and every request ends.
* **Completion and introspection.** Arithmetic on a cursor at the ends of the code;
  regular expressions; a counter and declarations that outlive the request; a directory
  read in any order. Correct: the word is replaced, and the page shown documents the name.
* **Input validator.** Lookahead and a stack, over any text. Correct: the verdict and
  the indentation are what the text means, the lexer stays in the buffer and stops.
* **file magic.** A look at the file, an opening whose mode follows from it, and writes
  that other kernels interleave. Correct: finished cells stay whole.
* **xassist.** Several processes, no locks, a failure of every opening of a file, a death
  at every step. Correct: the history stays the inside of a JSON array, or what damages it
  is bounded, and a request has its prompt, its model and its key.

PROJECT.json lists the hazards line by line with the properties that guard them.

## Modules

| Module | Models | Properties in |
|---|---|---|
| `OutputStream` | the abstract promise of a stream: ordered, exactly once, flush delivers all | - |
| `OutputBuffer` | `xoutput_buffer`: the pc of each thread, the lock, the two steps of `sync` | itself |
| `Process` | signals, `exit` and the state of `std::cout`, on top of `OutputBuffer` (EXTENDS) | itself |
| `InputRedirection` | `input_redirection` and `xinput_buffer` | `Interpreter`, which instantiates it |
| `ExecuteService` | the abstract protocol a client of execute requests sees | - |
| `Interpreter` | the life of the interpreter, `execute_request_impl`, preambles as steps of a request, threads of cells | itself |
| `InputValidator` | `xlexer`, `xinput_validator`, and the reference they are compared with | itself |
| `XAssist` | the xassist magic in one or more kernels | itself |
| `Magics` | the dispatch of magics and the file magic in one or more kernels | itself |
| `Completion` | the range that a completion replaces, and the word it should be | `Requests` |
| `Introspection` | `inspect`: expression, type, tag files | `Requests` |
| `Requests` | completion, inspection and declaring cells in one session | itself |
| `Process_proofs` | theorems about `OutputBuffer` and `Process` | - |
| `Interpreter_proofs`, `Interpreter_streams`, `Interpreter_order` | theorems about `Interpreter`, each module on top of the one before | - |
| `Requests_proofs`, `InputValidator_proofs`, `XAssist_proofs`, `Magics_proofs` | theorems about the module of that name | - |
| `MC*` | values of the constants for TLC | - |

Definitions whose name ends in `_Something` next to one without (`Lock_Unguarded`
beside `Lock`) are no part of the model: they are the same definition with a bug in
it, and document which bug each property notices.

### OutputBuffer

A call begins at `idle`, takes the mutex (`Lock`), does its work and unlocks. `sync`
is `Publish` then `Clear`, since the callback runs between the test and the clear, or
`PublishThrows`, which skips the clear and unwinds through the lock guard. The texts
are short sequences over a set of characters; `published` and `written` are history
variables. The refinement maps `pending` to `m_output`, or to nothing between the
callback and the clear, and `delivered` to `published`. The module is checked
by the run of `Process`, whose threads call it: signals, the exit and silent cells must leave
its promises intact.

### Process

`Process` extends `OutputBuffer`: the threads' calls are its `Overflow`, `Xsputn` and
`Sync`, taken only while `Runs(t)` and while `std::cout` has that buffer. `life` goes `starting`, `running`, `exiting`,
`flushing`, `exited`. A signal (`stop_handler`, `handler`) stops the thread it interrupts
for good and calls `exit`, which runs as a thread of its own, `Handler`, on top of it:
`StaticDestructors` lets it call `sync`. The thread beneath still holds `m_mutex` if it
was inside the buffer, so `Handler` waits for ever; `std::mutex` is not recursive, and
that this is undefined for the owner itself is modelled as the wait that the build has.
`handler` also runs in the middle of `append`, where a cell's bad pointer is read with the
mutex held. `badbit` stands for the state of `std::cout`: a `sync` that throws sets it, writes
are then refused, and only the `rdbuf` calls of a silent cell (`BeginSilent`, `EndSilent`)
clear it. Between these two `std::cout` has the null buffer (`silenced`): writes and flushes
that begin there pass `OutputBuffer` by, those that had begun go on, and the flush at exit
finds nothing and takes no mutex (`FlushSilenced`, `muted`). A stale pointer to the null
buffer is `Interpreter`'s subject.
SIGKILL is given to `signal()` as well (`src/main.cpp:57`), which has no effect: `Kill`.
One signal is modelled; a second one during the exit is not.

### Interpreter

`pc` is where the main thread is between two effects another party could see:

    idle -Receive-> dispatch -> preamble -> reply | unwind
                             -> silence -> begin -> run <-> read/input/extract
         run -> captured -> report -> flush -> publish -> reply -> unwind -> idle

Text is a sequence of pieces `[by, req, silent, ch, n]`: who wrote it, for which
request, through which stream, in which order. A stream operation is a function on
`[pending, out]`, so that one action can make the sequence of insertions and flushes
that the C++ library makes for one `<<`: the tie of `cin` and `cerr` to `cout` and the
unit buffering of `cerr` are modelled as the library's (external).

* `Receive`/`Unwind` are the constructor and destructor of `input_redirection`,
  `Silence`/`Unwind` of `SilentStreamRedirectRAII`, `BeginCapture`/`EndCapture` of
  `StreamRedirectRAII`, the captures a stack.
* The code of a cell (`Cell*`) is external: any sequence of writes, flushes, reads
  and thread starts, ended by a return, an exception or a compilation error.
* A worker's stream call is two steps, the fetch of the buffer pointer and the call,
  and the main thread may swap the pointer or destroy the null buffer in between
  (`Dangle`). A use of a destroyed buffer is undefined behaviour: the text goes
  nowhere or the process ends. Only the main thread swaps pointers, so its own
  operations are single steps.
* Stream buffers are atomic and their publication does not fail here; `OutputBuffer`
  models that a publication may, and shows that threads see atomic buffers.
* The preambles run before the silent guard, so a silent magic or shell command is
  heard: `SilentUnheard` speaks of cells of C++ code. Preambles flush `cout` only;
  `cerr` flushes itself.
* `IntrospectionThrows` is the exception of `read_tagconfs`: it leaves
  `execute_request_impl` without a reply.

`ExecuteService` is the protocol as the client sees it. The handling of a request has an
outcome (`succeeded`, `failed`, `refused`, `thrown`); from there on its messages are
determined: `PublishError` after code that failed, unless the request is silent, one
`ReplyOk` only after a success, one `ReplyError` after the others, and an end without a
reply only after `thrown`. `Phase` maps `pc`, `result` and the kind of the request to it. Only a
magic or a shell command decides for itself what counts as a success, as in the code.

### Completion, Introspection, Requests

`Completion` has `split_line` cut the text up to and with the character at the cursor,
which is the NUL at the end of the code, and measures the last piece as the code does,
as a C string. `WordStart` is the reference: the last delimiter before the cursor.

`Introspection` translates the regular expressions by what they match, over sequences of
characters (`IsInspectable`, `ToInspect`, `MemberDot`, `IsScoped`), the numbered aliases
of `find_type_slow` (`var_count` moves on also when the declaration fails; `aliases` is
what the session's compiler then knows), and the search through tag files: first by
class, struct and function, later configurations over earlier ones, an unreadable tag
file empty, a configuration that is not JSON or lacks a key an exception. A class or function
whose node names no page (`EmptyPage`) is passed over, and hides later nodes of its name
and kind from `find_node`; a member without a page is a hit. `Types` and
`typeOf` stand for CppInterOp: types that it finds by name, and expressions
that cells have declared (`Declare`). The loops that overwrite what they have found are
written as the last hit: the tag files are visited in an order (`Places`), and `LookUp`
is the last place of the last pass that has the node (`LastOf`), or the first member of
the last class (`FirstOf`).

`Requests` is a session of these: an action makes the whole reply, since nothing else runs
in between and CppInterOp's state changes only through it.

### InputValidator

The input is a sequence of symbols; letters and digits are `word`, except the words
the validator tells apart. One action per case of the switch, one step per token. The
NUL is at position `Len(input) + 1`; a step past it ends in `undefined`. `m_indent` is
the number of spaces.

The reference does not use a stack or tokens. `Mode` is an automaton over symbols
(code, string, line or block comment). `Depth` counts the delimiters opened and not
closed, and a closing delimiter `Fits` if it is the partner of the one that the depth in
front of it goes back to; a code is mismatched if one does not. A template is open until a
semicolon or a closing brace at depth zero. Spaces after a last comma or backslash count for
nothing, nor does a hash without a directive (`Blank`: the validator takes it for the end
of the code, and `,#` is continued). The verdict is compared on `Tame` inputs. The
inputs left out are those on which the lexer is known to depart from C++:

* quotes in a block comment are read as literals (an apostrophe there may run
  past the end of the buffer);
* the slash of `*/` is read again (see Findings);
* `/*` inside a block comment is one token, so that `/*/*/` does not end;
* a directive is what follows `#` up to a space, newlines included: `#endif` and a
  brace on the next line are one directive;
* `'` as a digit separator or in a character literal (the same function as `"`).

Two quirks are kept in the properties rather than left out: a newline token after a
comma makes the input complete again, and a trailing comma or backslash hides a
mismatch (`VerdictRight` allows for both).

### XAssist

One step is one operation on one file, or the request, or its outcome. A chat is
`key|url, look, append, readback, model, check, post, response`, then `look, append,
readback` again for the answer. `look` and `append` are apart because
`is_file_empty` and the opening of the file are. Every opening may fail, and the code goes on
in its own way after each: settings have no value (`Load`), a history that cannot be opened
counts as empty (`LookFails`) or yields no messages (`ReadBackFails`), an entry is dropped
(`AppendFails`). `unseen` is a history variable: the turns in front of which `LookFails`
happened. An entry, separator included, is
buffered by the `ofstream` and reaches the file in one appending write; this holds
for entries below the stream's buffer size; that a write to an open file fails (a full disk) is
not modelled. `UnknownModel` prints and returns; a command without a model's name reads
`tokens[1]` beyond the vector, which is `UnknownModel`, a `Chat` or a `Crash`. A response without the expected fields
yields a JSON null, which is appended before its conversion throws.

### Magics

The dispatch (`UnknownMagic`, `NothingDone`, `File`) is one step; `writefile` is `Look`
(`is_file_exist`), `Open` or `OpenFails`, a `Write` for each piece the stream flushes,
and `Close`; other kernels and a death may come in between. A stream without `ios::app`
writes at its own position, so that two of them overwrite each other and one that was
truncated under leaves a hole. `finished`, `before`, `excused`, `expected` and `alone`
are histories: which commands have written all, which had when a kernel looked, whose
text has gone with a command's opening, what the documentation promises of commands one at a
time. `FileAsDocumented` is that promise for files that the kernels may read,
`AppendAsDocumented` for all (see Findings).

## What the runs check

| Run | Instance | Shows |
|---|---|---|
| `process` | main, a worker, 2 characters, 3 calls, 1 silent cell, weak fairness | conservation of text, a flush leaves nothing, refinement of `OutputStream`, which calls return; what a signal leaves unheard, which exits end and which hang |
| `interpreter` | 2 requests, 3 statements each, no workers | everything about one request and its effect on the next |
| `interpreter_workers` | 2 requests, 2 workers, 2 worker calls, weak fairness | order and loss of text with threads left running; refinement of `ExecuteService` (one reply, that tells the outcome); every request ends |
| `requests` | codes of up to 4 characters, 2 inspections of 100 codes, 6 directories | the range replaced, the page shown, the type found |
| `requests_word` | the same codes, completion only | finding |
| `validator` | all inputs of 6 symbols of comments or string literals, of 5 of brackets, templates, or conditionals and commas | verdicts, indentation, no read past the end, termination |
| `validator_tokens` | 6 symbols | finding |
| `magics` | 2 kernels, 3 commands, 1 death, cells of 1 or 2 pieces, any permissions | finished cells are kept; single commands do what is documented to a file that can be read |
| `magics_append` | the same | finding |
| `xassist` | 1 kernel, a provider with a URL, 2 chats, 1 save, 1 refresh, 1 death, weak fairness | history and requests, whatever cannot be opened; every command ends |
| `xassist_shared` | 2 kernels, a provider with a key, a history, empty or not, 2 chats, 1 save, 1 refresh, 1 death | how much damage races can do; each request has its prompt, its key and its model |
| `xassist_refresh` | 1 kernel | finding |

**Bounds.** In `process` three calls of two threads let any two overlap and a third find what
they left, and put one thread inside the buffer, one beside it and text in the buffer from
before, at the time of the signal; the flush at exit is a fourth. Two
requests are what "the next request" needs; the state a request starts from is the same
each time, which is itself checked (`StreamsRestored`, `NothingCarriedOver`) and proved
(`RequestsRestoreStreams`). Three statements allow a write to each stream and a read, or
a write, a read and a write. A typed line has up to two characters, so that a read can
leave one behind. Four characters hold a word, a delimiter and a word on either side of
the cursor; the second inspection meets the counter and the aliases of the first. Six
symbols hold a block comment with a bracket in it, `/*(*/` and one more; five hold
`#if`, a space and a closing brace or `#endif`. Three commands of two kernels let one
look before, and open after, the two others. One failure of every kind fits in one chat; two
chats give a failed one followed by another. Two chats of two kernels are two prompts and two
answers, so every pair of a look and an append can cross, around a refresh; a third
kernel adds to `SeparatorsKept` only what `RacesBounded` proves.

**Fairness.** `Process`: the steps of a thread inside a call (the scheduler runs threads that are
not blocked; weak fairness is enough here since the calls are bounded by `MaxCalls`, so that a
mutex is free for good in the end), except that the interrupted thread never runs again, and
the steps of `exit`; no fairness on signals, nor on a silent cell's end.
`Interpreter`: the main
thread's own steps, that a cell ends, that the user answers; not that a cell does
anything else, and nothing about workers. `InputValidator`: the loop. `XAssist`: a
kernel's own steps, and that the request has an outcome. The code itself sets no time limit for
it (`curl_easy_perform`), so the liveness of a chat rests on the server. No fairness on commands, failures
of files, or deaths.

**Deadlock** is checked in `requests`, and not in the other runs because their systems
may stop: the bounded calls or commands are used up, the interpreter is destroyed, the
process is gone (or hangs, where `InterruptInsideHangs` says so), `validate` has
answered. `CallsReturn`, `ExitEnds`, `RequestsEnd`, `Answers` and `CommandsEnd` say that
nothing stops inside an operation.

## Findings

* `--refresh` clears the chat history only. `docs/source/magics.rst:45` says "Reset
  model and clear chat history". Run `xassist_refresh`.
* The end of a block comment is a token of two characters
  (`src/xinput_validator.hpp:44`, and the token's length) but the lexer moves by one
  (`src/xinput_validator.cpp:265`), so `/*n*/*p;` opens a second comment and
  is called incomplete. Run `validator_tokens`.
* `-a` of the file magic is documented as "append the content to the file"
  (`docs/source/magics.rst:75`). A file that may be written but not read counts as absent
  (`src/xmagics/os.cpp:50`, 72-76) and is opened without `ios::app` (65), which
  truncates it. Run `magics_append`.
* With the cursor inside a word, a completion counts the character at the cursor too:
  `cursor_start` is one too small and can be -1. `src/xinterpreter.cpp:406` says "the
  word in the back of the cursor". Run `requests_word`. At the end of a word the range is
  right (`CompletesWord`), thanks to the NUL or the delimiter there.

Observed and not counted as disagreements with the documentation:

* an interrupt of a thread inside the output buffer hangs the process
  (`InterruptInsideHangs`), instead of ending it;
* a publication that throws leaves `std::cout` silent until a silent cell;
* an interrupt while a silent cell runs loses what a thread has written and not flushed,
  because exit flushes the null buffer (`ExitHeard` excepts it);
* a prompt that a cell writes with `printf` is not shown before it is asked for input, since
  the captures are printed after the cell (`PromptShown` is about the C++ streams);
* a file that cannot be opened is reported as written; a magic that fails is reported as `ok`;
* a history that exists and cannot be opened for the look of `is_file_empty` gets a turn
  without a separator in front;
* with several kernels a history can lack a separator, and after a refresh begin with one;
* which page is shown, when two configurations document a name, depends on the order in
  which the directory is read; a class without a page hides a later one of its name;
* an exception of an inspection leaves the client without a reply;
* C `stderr` of a cell is shown only after a compilation error.

## What is proved

Every theorem holds for all values of the constants that satisfy the modules' named
assumptions; TLC evaluates these in every run.

`Process_proofs`, on `OutputBuffer` (any threads, characters, texts and number of calls):

* `TypeCorrect` and `MutualExclusion`: `TypeOK`, then `MutexHeld`, each inductive given the former.
* `TextConserved` and `SyncComplete`: `Conservation` is not inductive on its own. `Clear` needs
  that nothing was appended since the publication, which is mutual exclusion: while
  one thread is at `clear`, no other is inside. And `synced` needs that a thread gets there only
  with an empty buffer. `IInv` is the conjunction of the four; `Invariance` proves it.
* `Implements`: every step is a `Write`, a `Flush` or a stutter of `OutputStream`
  under its refinement mapping; `Publish` is the `Flush`, `Clear` a stutter.

`Process_proofs`, on `Process` (any threads, calls and silent cells): every step of `Process` on the buffer is one of
`OutputBuffer`, so `IInv` carries over; the flush at exit enters `sync` in its own way.
`PInv` follows the handler from the signal to the end: it enters `sync` only with the
interrupted thread outside (`FlushEntered`), which is `InterruptInsideDeadlocks`, and once
it has published, all written before the signal has been (`FlushDone`), which is
`OutputSurvivesExit`.

`Interpreter_proofs` and `Interpreter_streams` (any number of
requests, statements, workers, worker calls and characters of an answer, from
`BoundsAssumption` and `MainAssumption`):

* `TypeCorrect`: `TypeOK` is not inductive on its own. That both captures can be printed
  takes that both have begun, that an answer belongs to a request takes that there is
  one: `Progress`. The lemmas on text (`FlushStreamType`, `OutputType`, ...) say what a
  write, its tie and its flush leave, whatever set of pieces the text is made of.
* `RequestsRestoreStreams`: `StreamsRestored` speaks of `idle` only. The invariant
  `RInv` says where the guards are in force (`BuffersInPlace`: a stream is without its
  buffer only between the guard's constructor and destructor, and only for a silent
  cell; `CapturesOff`; `InputOff`), and that the silent guard is only met by C++ code
  (`RequestKnown`), without which the destructor could be skipped.
* `SilentCellsUnheard`: the lemmas on text, for the set of `Loud` pieces. The invariant
  `SInv` adds why only these get into a buffer: no buffer is attached while a silent
  cell is guarded (`GuardInForce`), and the captures hold silent text only for such a cell
  (`CapturesLoud`), so that printing them after the cell loses it. It needs `RInv`: a new
  request must find the captures empty.
* `ReadsOwnInput`: `OInv`, what is left of an answer was typed for the request.
* `ThreadsKept`: `WInv`, the null buffer is in place after a silent cell only, so a thread
  can have fetched nothing else that is destroyed before the interpreter is.
* `StreamsKeptApart` and `RequestsKeptApart`: `HInv` says where the request's text has been
  flushed, or is not written (`Settled`), and that `std::cerr`'s buffer is always empty; `AInv`, buffers, captures and messages hold
  text for their own stream and, of the main thread, for the current request only; that
  a new request takes over nothing is `HInv` at `idle`.
* `OffersService`: `Spec => ImplementsService`. A step is an action of `ExecuteService`, a
  stutter, or text: what one `<<` flushes may be several stream messages (`MoreText`).
  `KInv` (the guarded steps are C++ code, the preamble's are not, and `thrown` is met only on
  the way out) separates an error that was broadcast from one that only the reply tells, and
  an inspection that threw from every other end; `WInv` says that nothing is sent after the
  destructor.

`Interpreter_order` (the same):

* `WritesHeardInOrder`: messages are not written one after the other, a flush of any thread
  moves the buffer into a new message, so the proof speaks of the *places* of text: the
  messages and then the buffer of `std::cout`, which is the next message. A flush moves
  nothing, in these terms. `LInv` is that the request's text at its places is in order
  (`InOrder`) and says which streams' text has all got there at each `pc` (`Arrived`): the C
  captures only once they have ended, all of `stdout` before the reply. `CInv` gives it that
  the pieces are numbered and that the captures hold all of theirs. One lemma per way the
  text grows (`Grown`): by the request, by a thread, or not at all.
* `PromptsShown`: at `input` the buffers of both streams are empty (`HInv`), so that all
  places of what the cell wrote to them are messages.
* `RepliesEndOutput`: `BInv`, there is no reply while the request is answered, so the reply
  is behind all messages there are; that these hold everything is `Arrived`.

`Requests_proofs` (any alphabet, delimiters, codes of any length,
types, tag files and number of inspections):

* `WordsCompleted`: lemmas on the least and the greatest element of a set of positions give
  the span of `split_line` and its last piece as sets of positions, so that no induction
  over the code is needed; then the piece is the word where the word ends.
* `TypesResolved`: `CountAhead`, the numbers of the declared aliases are below `var_count`,
  so that a declaration never meets an old alias, and `Declared`, an alias has the type of
  its expression. The counter moves on also when a declaration fails, which keeps
  `CountAhead` and makes the stale name one that no alias has.

* `PagesShown`: the tag files that an inspection has loaded are a directory's
  (`DirectoriesAssumption`: finitely many, the nodes of each in a sequence). Lemmas on the
  first and the last place with a property replace an induction over the loops of `inspect`.

`InputValidator_proofs` (any alphabet of codes over the symbols, of any length):

* `LexerTyped`: `TypeOK` with `Within`, the lexer is past the NUL only after it was the token.
  `LexIs` and `LexGoesOn` say of a token at any position which one it is and how far it
  reaches.
* `ReadsInside`: the lexer and the reference agree, wherever a token begins, on what is code,
  comment or string (`InStep`, for the loop `Aligned`), and a block comment is never below
  another construct on the stack (`BlockLast`). There is a lemma for each kind of token:
  `InBlock`, `EndsBlock`, `OpensBlock`, `SkipsLine`, `SkipsDirective`, `InCode`. A string
  literal is followed from its last position back (`QuoteInside`), all else from the first
  position where a run of symbols ends. Each condition of `Tame` is used.
* `VerdictsRight` and `IndentsRight`: the inductive invariant `Sound` adds that the stack and the
  reference agree before every token (`Agreed`), on three things. `Agrees`: the stack is as
  deep as `Depth`, and each of its entries is held by a delimiter of its kind that opened it
  and that the depth has not gone below since (`Holds`), so that what the top of the stack
  lets close is what `Fits` (`AgreesOpen`, `AgreesClose`; `HoldsOnce`: only one delimiter
  holds an entry). `Templated`: the entry of a template is there until its end. `Comma`: the
  last token that is no space is a comma or a backslash when the last symbol that counts is
  one. `Ended` is the same of a code that has been read, and for a mismatch that some
  delimiter does not fit. `NextFollows` shows it of every token (`Shows`), `FinishRight`
  draws the answer from it.

`Magics_proofs` (any kernels, commands, deaths and pieces of a cell):

* `CellsKept`: `AppendKept` speaks of finished commands. `Kept` adds what is being written
  (`WrittenKept`; a stream that truncated writes at a position of its own, so its pieces are at
  their own places, `AtPlace`, whatever others append meanwhile), that a command which has
  not opened the file has
  no text in it (`NotYet`), and that a command which found no file, although it may read it, looked before
  anything that is still to be kept was complete (`LooksKept`). `Known` numbers the commands.
* `DocumentedWhenAlone`: `Documented`, how far the command that runs has got.

`XAssist_proofs` (any kernels, providers and commands):

* `TypeCorrect`, with the record type of the jobs. `RequestsConfigured`: what a kernel has
  loaded when it gets to the request was not empty at the time (`AllLoaded`).
* `HistoriesWellFormed`, for one kernel: its look at the file, if it had one, is still true
  when it appends (`LookIsFresh`), and otherwise the turn is in `unseen`. With two kernels the
  property allows for what `xassist_shared` shows.
* `RacesBounded`, for any finite number of kernels: a separator goes missing only when a kernel
  that saw an empty history appends to one that has begun since, and nobody sees it empty
  any more then. `GapsBounded` counts the separators left out and the kernels about to leave
  one out (`Rash`) together: fewer than the kernels, since the one that began the history
  is not among them. `EmptiedByRefresh`: a superfluous separator takes a refresh behind the
  back of a kernel that saw the history begun.
* `AnswersFollow`, for one kernel: the chats are numbered (`ChatsNumbered`), so a new one has
  no turn; its prompt, once appended, stays the last turn until the answer is (`PromptLast`).
* `OwnPromptPosted`: until a refresh, the prompt that was appended is still in the file
  when it is read back (`PromptKept`).

Model-checked only: liveness (`CallsReturn`, `ExitEnds`, `RequestsEnd`, `Answers`,
`CommandsEnd`), which is out of the provers' reach.

## Not modelled

* `createInterpreter`, CppInterOp and clang-repl, and xeus itself: external, known by how
  the interpreter uses them. `kernel_info`, `shutdown` and `interrupt` requests return
  constants or do nothing.
* `get_stdopt` and the language tables, include paths: configuration read once.
* `include/xcpp` (mime conversion) and the Emscripten bindings: no state.
* `unregister_magic` and line magics: reached by no code of the kernel, which registers
  two cell magics and dispatches cells. The option parser (argparse) beyond its verdict.
* `xsystem`'s reading of a command's output in pieces of 511 bytes: a shell command is
  any sequence of writes. A second signal during the exit.
* A write to an open file that fails (xassist, a full disk).
* Formatting: HTML of a page, banner, tracebacks, `escape_special_cases` (xassist's JSON
  escaping). Characters are bytes, and the codes of `Requests` have no newlines.

## Plan

Done: all modules and theorems above. Left: a publication that throws inside `Interpreter`
(badbit on `std::cout` during a request), composing it with `OutputBuffer` in full.
