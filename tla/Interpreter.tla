---------------------------- MODULE Interpreter -----------------------------
(***************************************************************************)
(* xcpp::interpreter (src/xinterpreter.cpp): the life of the interpreter   *)
(* and its handling of execute requests, with what it does to the three    *)
(* standard streams of the process.                                        *)
(*                                                                         *)
(* The main thread handles one request at a time.  A cell that is C++ code *)
(* writes to the C++ streams and to the C ones, reads std::cin, throws, or *)
(* starts threads (Workers) that go on writing after it has returned.  The *)
(* stream buffers are atomic here: OutputBuffer shows that they may be.    *)
(***************************************************************************)
EXTENDS Naturals, Sequences

CONSTANTS
    Workers,          \* threads that cells may start
    Main,             \* the main thread
    NewLine,          \* '\n'
    MaxRequests,      \* bound: execute requests received
    MaxStatements,    \* bound: writes and reads of one request
    MaxWorkerCalls,   \* bound: stream calls of all the workers
    MaxLine           \* bound: characters of a line typed as input

ASSUME MainAssumption == Main \notin Workers
ASSUME NewLineAssumption == NewLine \notin Nat
ASSUME BoundsAssumption ==
    {MaxRequests, MaxStatements, MaxWorkerCalls, MaxLine} \subseteq Nat

VARIABLES
    pc,               \* where the main thread is
    request,          \* the request being handled, or the last one
    result,           \* how its code ended
    steps,            \* writes and reads of the request, up to MaxStatements
    rdbuf,            \* the stream buffers of std::cout and std::cerr
    m_output,         \* text in m_cout_buffer and m_cerr_buffer
    captures,         \* the stack of captures of the C streams
    err,              \* the local variable err of execute_request_impl
    cin, cinbad, m_value,   \* std::cin, see InputRedirection
    worker,           \* the workers
    workerCalls,      \* stream calls of the workers, up to MaxWorkerCalls
    sent,             \* messages sent since the request arrived
    wrote,            \* history: pieces of text the request has written
    lost,             \* history: pieces of workers that went nowhere
    silenced          \* history: some silent cell has run

inputVars == <<cin, cinbad, m_value>>
workerVars == <<worker, workerCalls, lost>>
textVars == <<m_output, sent>>
guardVars == <<rdbuf, silenced>>
captureVars == <<captures, err>>
requestVars == <<request, result, steps, wrote>>
vars == <<pc, requestVars, guardVars, captureVars, inputVars, workerVars, textVars>>

\* A character of an answer is the number of the request it was typed for.
Input == INSTANCE InputRedirection WITH Typed <- 1..MaxRequests

Streams == {"cout", "cerr"}          \* the C++ streams
CStreams == {"stdout", "stderr"}     \* the file descriptors 1 and 2

Busy == {"dispatch", "preamble", "silence", "begin", "run", "read", "input",
         "extract", "captured", "report", "flush", "publish", "reply", "unwind"}

\* Only C++ code is silenced: the preambles return before the guard.
SilentCell == request.silent /\ request.kind = "code"

-----------------------------------------------------------------------------
(* The C++ streams.  std::cerr is tied to std::cout (a write to cerr       *)
(* flushes cout first) and unit-buffered (it is flushed after the write).  *)

\* publish_stdout and publish_stderr, as the constructor binds them.
StreamName_Crossed(s) == "stdout"
StreamName(s) == IF s = "cout" THEN "stdout" ELSE "stderr"

StreamMessage(s, text) ==
    [type |-> "stream", name |-> StreamName(s), text |-> text]

\* An operation on text maps a record [pending, out] to a record.
Text == [pending |-> m_output, out |-> sent]
TextBecomes(o) == m_output' = o.pending /\ sent' = o.out

Insert(s, text, o) ==
    IF rdbuf[s] = "buffer"
    THEN [o EXCEPT !.pending[s] = @ \o text]
    ELSE o

FlushStream(s, o) ==
    IF rdbuf[s] = "buffer" /\ o.pending[s] # << >>
    THEN [pending |-> [o.pending EXCEPT ![s] = << >>],
          out |-> Append(o.out, StreamMessage(s, o.pending[s]))]
    ELSE o

\* The flush of the tied stream, before a read of cin and a write to cerr.
Tie_None(o) == o
Tie(o) == FlushStream("cout", o)

Output(s, text, o) ==
    IF s = "cout"
    THEN Insert("cout", text, o)
    ELSE FlushStream("cerr", Insert("cerr", text, Tie(o)))

Say(type, name) == sent' = Append(sent, [type |-> type, name |-> name, text |-> << >>])

\* The next piece of text of the request.
Piece(ch) == [by |-> Main, req |-> request.n, silent |-> SilentCell,
              ch |-> ch, n |-> Len(wrote) + 1]

\* The main thread writes a piece to a C++ stream.
Write(s) ==
    /\ TextBecomes(Output(s, <<Piece(s)>>, Text))
    /\ wrote' = Append(wrote, Piece(s))

-----------------------------------------------------------------------------
(* Life of the interpreter.                                                *)

Init ==
    /\ pc = "start"
    /\ request = [n |-> 0, silent |-> FALSE, allow |-> FALSE, kind |-> "none"]
    /\ result = "none"
    /\ steps = 0
    /\ rdbuf = [s \in Streams |-> "terminal"]
    /\ m_output = [s \in Streams |-> << >>]
    /\ captures = << >>
    /\ err = << >>
    /\ Input!Init
    /\ worker = [w \in Workers |-> [state |-> "none", target |-> "none"]]
    /\ workerCalls = 0
    /\ sent = << >>
    /\ wrote = << >>
    /\ lost = {}
    /\ silenced = FALSE

RedirectOutput == rdbuf' = [s \in Streams |-> "buffer"]
RestoreOutput == rdbuf' = [s \in Streams |-> "terminal"]

\* The constructor; the preambles and magics it registers are those of Dispatch.
Construct ==
    /\ pc = "start"
    /\ RedirectOutput
    /\ pc' = "idle"
    /\ UNCHANGED <<requestVars, silenced, captureVars, inputVars, workerVars,
                   textVars>>

\* The pointers that workers hold to a buffer that is destroyed.
Dangle(buffer) ==
    worker' = [w \in Workers |->
                 IF worker[w].target = buffer
                 THEN [worker[w] EXCEPT !.target = "dangling"]
                 ELSE worker[w]]

\* The destructor: the buffers die with the interpreter, and what a worker has
\* left in them is not published.
Destroy ==
    /\ pc = "idle"
    /\ RestoreOutput
    /\ m_output' = [s \in Streams |-> << >>]
    /\ Dangle("buffer")
    /\ lost' = lost \cup {m_output["cout"][i] : i \in 1..Len(m_output["cout"])}
    /\ pc' = "stopped"
    /\ UNCHANGED <<requestVars, silenced, captureVars, inputVars,
                   workerCalls, sent>>

-----------------------------------------------------------------------------
(* execute_request_impl, from the request to its code.                     *)

\* The request arrives and input_guard takes std::cin.
Receive(silent, allow) ==
    /\ pc = "idle"
    /\ request.n < MaxRequests
    /\ request' = [n |-> request.n + 1, silent |-> silent, allow |-> allow,
                   kind |-> "none"]
    /\ result' = "none"
    /\ steps' = 0
    /\ err' = << >>
    /\ wrote' = << >>
    /\ sent' = << >>
    /\ Input!Redirect
    /\ pc' = "dispatch"
    /\ UNCHANGED <<guardVars, captures, workerVars, m_output>>

\* The first preamble that matches takes the request; otherwise it is C++.
Dispatch(kind) ==
    /\ pc = "dispatch"
    /\ request' = [request EXCEPT !.kind = kind]
    /\ pc' = IF kind = "code" THEN "silence" ELSE "preamble"
    /\ UNCHANGED <<result, steps, wrote, guardVars, captureVars, inputVars,
                   workerVars, textVars>>

\* The constructor of silent_guard gives these streams the null buffer.
SilencedStreams_CoutOnly == IF request.silent THEN {"cout"} ELSE {}
SilencedStreams_Always == Streams
SilencedStreams == IF request.silent THEN Streams ELSE {}

Silence ==
    /\ pc = "silence"
    /\ rdbuf' = [s \in Streams |-> IF s \in SilencedStreams THEN "null" ELSE rdbuf[s]]
    /\ silenced' = (silenced \/ request.silent)
    /\ pc' = "begin"
    /\ UNCHANGED <<requestVars, captureVars, inputVars, workerVars, textVars>>

\* The order in which StreamRedirectRAII starts its captures.
CaptureOrder_Swapped == <<"stdout", "stderr">>
CaptureOrder == <<"stderr", "stdout">>

\* The constructor of StreamRedirectRAII; then Cpp::Process.
BeginCapture ==
    /\ pc = "begin"
    /\ captures' = [i \in 1..2 |-> [stream |-> CaptureOrder[i], text |-> << >>]]
    /\ pc' = "run"
    /\ UNCHANGED <<requestVars, guardVars, err, inputVars, workerVars,
                   textVars>>

-----------------------------------------------------------------------------
(* What the code of a cell may do while Cpp::Process runs it.              *)

\* One more write or read of the request.
Statement ==
    /\ steps < MaxStatements
    /\ steps' = steps + 1

CellWrite(s) ==
    /\ pc = "run"
    /\ Statement
    /\ Write(s)
    /\ UNCHANGED <<pc, request, result, guardVars, captureVars, inputVars,
                   workerVars>>

\* The C streams go to the captures.
CaptureText(ch, text) ==
    captures' = [i \in 1..Len(captures) |->
                   IF captures[i].stream = ch
                   THEN [captures[i] EXCEPT !.text = @ \o text]
                   ELSE captures[i]]

CellPrintf(ch) ==
    /\ pc = "run"
    /\ Statement
    /\ CaptureText(ch, <<Piece(ch)>>)
    /\ wrote' = Append(wrote, Piece(ch))
    /\ UNCHANGED <<pc, request, result, guardVars, err, inputVars,
                   workerVars, textVars>>

CellFlush ==
    /\ pc = "run"
    /\ Statement
    /\ TextBecomes(FlushStream("cout", Text))
    /\ UNCHANGED <<pc, request, result, wrote, guardVars, captureVars,
                   inputVars, workerVars>>

\* Reading flushes std::cout, to which std::cin is tied.
CellRead ==
    /\ pc = "run"
    /\ ~ cinbad
    /\ Statement
    /\ TextBecomes(Tie(Text))
    /\ pc' = "read"
    /\ UNCHANGED <<request, result, wrote, guardVars, captureVars, inputVars,
                   workerVars>>

\* The choice of the callback: blocking_input_request, or notimplemented.
InputAllowed_Always == TRUE
InputAllowed == request.allow

Ask ==
    /\ pc = "read"
    /\ Input!NeedsInput
    /\ InputAllowed
    /\ Say("input_request", "stdin")
    /\ pc' = "input"
    /\ UNCHANGED <<requestVars, guardVars, captureVars, inputVars,
                   workerVars, m_output>>

Refuse ==
    /\ pc = "read"
    /\ ~ InputAllowed
    /\ Input!Refuse
    /\ pc' = "run"
    /\ UNCHANGED <<requestVars, guardVars, captureVars, workerVars, textVars>>

\* The frontend answers with a line of some characters, or none.
Answer(length) ==
    /\ pc = "input"
    /\ Input!Answer([i \in 1..length |-> request.n])
    /\ pc' = "extract"
    /\ UNCHANGED <<requestVars, guardVars, captureVars, workerVars, textVars>>

\* The read takes a character, of this answer or left over from the last one.
Extract ==
    /\ pc \in {"read", "extract"}
    /\ Input!Extract
    /\ pc' = "run"
    /\ UNCHANGED <<requestVars, guardVars, captureVars, workerVars, textVars>>

CellStartsThread(w) ==
    /\ pc = "run"
    /\ Statement
    /\ worker[w].state = "none"
    /\ worker' = [worker EXCEPT ![w].state = "running"]
    /\ UNCHANGED <<pc, request, result, wrote, guardVars, captureVars,
                   inputVars, workerCalls, lost, textVars>>

\* The cell returns, or an exception leaves it.
CellEnds(how) ==
    /\ pc = "run"
    /\ result' = how
    /\ pc' = "captured"
    /\ UNCHANGED <<request, steps, wrote, guardVars, captureVars, inputVars,
                   workerVars, textVars>>

\* The cell does not compile: the compiler writes a diagnostic to file
\* descriptor 2, and nothing of the cell runs.
CellDoesNotCompile ==
    /\ pc = "run"
    /\ steps = 0
    /\ CaptureText("stderr", <<Piece("stderr")>>)
    /\ wrote' = <<Piece("stderr")>>
    /\ result' = "compile"
    /\ pc' = "captured"
    /\ UNCHANGED <<request, steps, guardVars, err, inputVars, workerVars,
                   textVars>>

-----------------------------------------------------------------------------
(* execute_request_impl, from the end of the code to the reply.            *)

\* Cpp::Process is over, by a return or by an exception that is caught.
ProcessEnded_Returned == pc = "captured" /\ result # "exception"
ProcessEnded == pc = "captured"

\* The destructor of StreamRedirectRAII takes the captures off the stack, the
\* last one first, and prints the first it gets.
EndCapture ==
    /\ ProcessEnded
    /\ err' = captures[1].text
    /\ captures' = << >>
    /\ TextBecomes(Output("cout", captures[2].text, Text))
    /\ pc' = "report"
    /\ UNCHANGED <<requestVars, guardVars, inputVars, workerVars>>

\* std::cerr << err, after a compilation error only.
Report ==
    /\ pc = "report"
    /\ TextBecomes(IF result = "compile" THEN Output("cerr", err, Text) ELSE Text)
    /\ pc' = "flush"
    /\ UNCHANGED <<requestVars, guardVars, captureVars, inputVars, workerVars>>

\* std::cout << std::flush; std::cerr << std::flush.
FlushAll_CerrOnly(o) == FlushStream("cerr", o)
FlushAll(o) == FlushStream("cerr", FlushStream("cout", o))

Flush ==
    /\ pc = "flush"
    /\ TextBecomes(FlushAll(Text))
    /\ pc' = "publish"
    /\ UNCHANGED <<requestVars, guardVars, captureVars, inputVars, workerVars>>

\* publish_execution_error.
PublishError ==
    /\ pc = "publish"
    /\ IF result # "ok" /\ ~ request.silent
         THEN Say("error", "error")
         ELSE UNCHANGED sent
    /\ pc' = "reply"
    /\ UNCHANGED <<requestVars, guardVars, captureVars, inputVars,
                   workerVars, m_output>>

\* The status of the reply.
ReplyStatus_Raw == result
ReplyStatus_OkIfSilent == IF result = "ok" \/ request.silent THEN "ok" ELSE "error"
ReplyStatus == IF result = "ok" THEN "ok" ELSE "error"

\* cb(kernel_res).
Reply ==
    /\ pc = "reply"
    /\ Say("reply", ReplyStatus)
    /\ pc' = "unwind"
    /\ UNCHANGED <<requestVars, guardVars, captureVars, inputVars,
                   workerVars, m_output>>

\* The stream buffers that the destructor of silent_guard puts back.
RestoredBuffers_CoutOnly ==
    IF SilentCell THEN [rdbuf EXCEPT !["cout"] = "buffer"] ELSE rdbuf
RestoredBuffers ==
    IF SilentCell THEN [s \in Streams |-> "buffer"] ELSE rdbuf

\* silent_guard and input_guard go, on a return and on an exception alike;
\* the null buffer was a member of silent_guard.
Unwind ==
    /\ pc = "unwind"
    /\ rdbuf' = RestoredBuffers
    /\ Dangle("null")
    /\ Input!Restore
    /\ pc' = "idle"
    /\ UNCHANGED <<requestVars, silenced, captureVars, workerCalls, lost,
                   textVars>>

-----------------------------------------------------------------------------
(* The preambles: they run before the silent guard, flush std::cout, and   *)
(* leave the reply in kernel_res.                                          *)

PreambleWrite(kind, s) ==
    /\ pc = "preamble" /\ request.kind = kind
    /\ Statement
    /\ Write(s)
    /\ UNCHANGED <<pc, request, result, guardVars, captureVars, inputVars,
                   workerVars>>

\* The flush at the end of the three apply functions.
PreambleFlush_None(o) == o
PreambleFlush(o) == FlushStream("cout", o)

PreambleEnds(kind, how) ==
    /\ pc = "preamble" /\ request.kind = kind
    /\ TextBecomes(PreambleFlush(Text))
    /\ result' = how
    /\ pc' = "reply"
    /\ UNCHANGED <<request, steps, wrote, guardVars, captureVars, inputVars,
                   workerVars>>

\* The preamble prints that it fails, which flushes std::cout.
PreambleFails(kind) ==
    /\ pc = "preamble" /\ request.kind = kind
    /\ steps = 0
    /\ Write("cerr")
    /\ result' = "error"
    /\ pc' = "reply"
    /\ UNCHANGED <<request, steps, guardVars, captureVars, inputVars,
                   workerVars>>

\* xsystem::apply: the command's output line by line, or no command.
ShellOutput == PreambleWrite("shell", "cout")
ShellDone == PreambleEnds("shell", "ok")
ShellFails == PreambleFails("shell")

\* xmagics_manager::apply: a known magic is "ok" even if it threw or printed
\* an error; an unknown one fails.
MagicWrite(s) == PreambleWrite("magics", s)
MagicDone == PreambleEnds("magics", "ok")
MagicUnknown == PreambleFails("magics")

\* xintrospection::apply: found, not found, or an exception from the reading of
\* the tag files, which leaves execute_request_impl without a reply.
IntrospectionFound == PreambleEnds("introspection", "ok")
IntrospectionNotFound == PreambleFails("introspection")
IntrospectionThrows ==
    /\ pc = "preamble" /\ request.kind = "introspection"
    /\ result' = "thrown"
    /\ pc' = "unwind"
    /\ UNCHANGED <<request, steps, wrote, guardVars, captureVars, inputVars,
                   workerVars, textVars>>

-----------------------------------------------------------------------------
(* Threads that cells left running.  A stream operation reads the stream's *)
(* buffer pointer, then calls the buffer: the main thread may change the   *)
(* pointer, or destroy the buffer, between the two.                        *)

WorkerPiece(w) ==
    [by |-> w, req |-> 0, silent |-> FALSE, ch |-> "cout", n |-> workerCalls]

WorkerFetch(w) ==
    /\ pc # "crashed"
    /\ worker[w].state = "running"
    /\ workerCalls < MaxWorkerCalls
    /\ workerCalls' = workerCalls + 1
    /\ worker' = [worker EXCEPT ![w] = [state |-> "calling", target |-> rdbuf["cout"]]]
    /\ UNCHANGED <<pc, requestVars, guardVars, captureVars, inputVars, lost,
                   textVars>>

\* The worker's call returns.
Returned(w) ==
    /\ pc # "crashed"
    /\ worker[w].state = "calling"
    /\ worker' = [worker EXCEPT ![w] = [state |-> "running", target |-> "none"]]

\* xsputn on m_cout_buffer.
WorkerPut(w) ==
    /\ worker[w].target = "buffer"
    /\ Returned(w)
    /\ m_output' = [m_output EXCEPT !["cout"] = Append(@, WorkerPiece(w))]
    /\ UNCHANGED <<pc, requestVars, guardVars, captureVars, inputVars,
                   workerCalls, lost, sent>>

\* sync on m_cout_buffer.
WorkerSync(w) ==
    /\ worker[w].target = "buffer"
    /\ Returned(w)
    /\ m_output' = [m_output EXCEPT !["cout"] = << >>]
    /\ sent' = IF m_output["cout"] = << >> THEN sent
               ELSE Append(sent, StreamMessage("cout", m_output["cout"]))
    /\ UNCHANGED <<pc, requestVars, guardVars, captureVars, inputVars,
                   workerCalls, lost>>

\* A write to the null buffer, to the terminal's, or to one that is destroyed:
\* the frontend does not see the text.
WorkerLoses(w) ==
    /\ worker[w].target # "buffer"
    /\ Returned(w)
    /\ lost' = IF worker[w].target = "terminal" THEN lost
               ELSE lost \cup {WorkerPiece(w)}
    /\ UNCHANGED <<pc, requestVars, guardVars, captureVars, inputVars,
                   workerCalls, textVars>>

\* A call on a destroyed buffer is undefined: it may also end the process.
WorkerCrashes(w) ==
    /\ worker[w].target = "dangling"
    /\ Returned(w)
    /\ pc' = "crashed"
    /\ UNCHANGED <<requestVars, guardVars, captureVars, inputVars,
                   workerCalls, lost, textVars>>

-----------------------------------------------------------------------------
\* Steps of the interpreter itself.
Kernel ==
    \/ Construct
    \/ \E k \in {"introspection", "magics", "shell", "code"} : Dispatch(k)
    \/ Silence
    \/ BeginCapture
    \/ Ask
    \/ Refuse
    \/ Extract
    \/ EndCapture
    \/ Report
    \/ Flush
    \/ PublishError
    \/ Reply
    \/ Unwind
    \/ ShellDone
    \/ ShellFails
    \/ MagicDone
    \/ MagicUnknown
    \/ IntrospectionFound
    \/ IntrospectionNotFound
    \/ IntrospectionThrows

\* Steps of the code of a cell or of a preamble before it ends.
Code ==
    \/ \E s \in Streams : CellWrite(s) \/ MagicWrite(s)
    \/ ShellOutput
    \/ \E ch \in CStreams : CellPrintf(ch)
    \/ CellFlush
    \/ CellRead
    \/ \E w \in Workers : CellStartsThread(w)

End == CellDoesNotCompile \/ \E how \in {"ok", "exception"} : CellEnds(how)

Reading == \E length \in 0..MaxLine : Answer(length)

Client == \E silent, allow \in BOOLEAN : Receive(silent, allow)

Threads ==
    \E w \in Workers : \/ WorkerFetch(w)
                       \/ WorkerPut(w)
                       \/ WorkerSync(w)
                       \/ WorkerLoses(w)
                       \/ WorkerCrashes(w)

Next == Kernel \/ Code \/ End \/ Reading \/ Client \/ Destroy \/ Threads

Spec == Init /\ [][Next]_vars

\* The main thread runs, a cell ends some day, and the user answers.
FairSpec == Spec /\ WF_vars(Kernel) /\ WF_vars(End) /\ WF_vars(Reading)

-----------------------------------------------------------------------------
(* Properties.                                                             *)

Kinds == {"introspection", "magics", "shell", "code"}

Pieces == [by : Workers \cup {Main}, req : 0..MaxRequests, silent : BOOLEAN,
           ch : Streams \cup CStreams, n : Nat]

Messages == [type : {"stream", "input_request", "error", "reply"},
             name : CStreams \cup {"stdin", "error", "ok"},
             text : Seq(Pieces)]

\* Every variable has its type.
TypeOK ==
    /\ pc \in Busy \cup {"start", "idle", "stopped", "crashed"}
    /\ request \in [n : 0..MaxRequests, silent : BOOLEAN, allow : BOOLEAN,
                    kind : Kinds \cup {"none"}]
    /\ result \in {"none", "ok", "error", "compile", "exception", "thrown"}
    /\ steps \in 0..MaxStatements
    /\ rdbuf \in [Streams -> {"terminal", "buffer", "null"}]
    /\ m_output \in [Streams -> Seq(Pieces)]
    /\ captures \in Seq([stream : CStreams, text : Seq(Pieces)])
    /\ err \in Seq(Pieces)
    /\ Input!TypeOK
    /\ worker \in [Workers -> [state : {"none", "running", "calling"},
                              target : {"none", "terminal", "buffer", "null",
                                        "dangling"}]]
    /\ workerCalls \in 0..MaxWorkerCalls
    /\ sent \in Seq(Messages)
    /\ wrote \in Seq(Pieces)
    /\ lost \subseteq Pieces
    /\ silenced \in BOOLEAN

\* A silent cell is not heard: nothing that its own thread writes, to the C++
\* streams, to the C streams or as a diagnostic, reaches the client or is kept
\* for a later flush, and its failure is not broadcast (SilentStreamRedirectRAII,
\* execute_request_impl).
SilentUnheard ==
    /\ \A i \in 1..Len(sent) :
          /\ \A j \in 1..Len(sent[i].text) : ~ sent[i].text[j].silent
          /\ sent[i].type = "error" => ~ request.silent
    /\ \A s \in Streams : \A j \in 1..Len(m_output[s]) : ~ m_output[s][j].silent

\* What the client must have heard when the reply comes: all that the request
\* wrote unless it was silent, except what it wrote to the C stderr, of which
\* only a compiler's diagnostic is shown.
Audible(p) == ~ p.silent /\ (p.ch = "stderr" => result = "compile")

\* The places of text in the messages: piece j of message i.  The client receives
\* them in the order of Before.
Spots == UNION {{i} \X (1..Len(sent[i].text)) : i \in 1..Len(sent)}
Before(s, t) == s[1] < t[1] \/ (s[1] = t[1] /\ s[2] < t[2])
Heard(s) == sent[s[1]].text[s[2]]

\* The reply is the end of the request's output: everything audible comes before
\* it, also when the cell throws, and nothing of the request comes after it
\* (the flushes of execute_request_impl and of the preambles).
OutputBeforeReply ==
    \A i \in 1..Len(sent) : sent[i].type = "reply" =>
        /\ \A m \in 1..Len(wrote) : Audible(wrote[m]) =>
              \E s \in Spots : s[1] < i /\ Heard(s) = wrote[m]
        /\ \A s \in Spots : i < s[1] => Heard(s).by # Main

\* The pieces of a request that the client must hear in an order: those of the C++
\* streams as they were written, although the two have buffers of their own and a
\* worker may flush one of them; those of the C stdout after all of std::cout.
Precedes(p, q) ==
    \/ p.n < q.n /\ p.ch \in Streams /\ q.ch \in Streams
    \/ p.n < q.n /\ p.ch = "stdout" /\ q.ch = "stdout"
    \/ p.ch = "cout" /\ q.ch = "stdout"

\* What the client hears of a request is what the request wrote, once each, and after
\* all that precedes it: no message is doubled, overtakes another or leaves a gap.
ProgramOrder ==
    \A t \in Spots : Heard(t).by = Main =>
        /\ \E m \in 1..Len(wrote) : Heard(t) = wrote[m]
        /\ \A s \in Spots : Before(s, t) => Heard(s) # Heard(t)
        /\ \A m \in 1..Len(wrote) : Precedes(wrote[m], Heard(t)) =>
              \E s \in Spots : Before(s, t) /\ Heard(s) = wrote[m]

\* A message of one stream carries only what was written to that stream, in C++
\* or in C (the callbacks bound by the constructor, the order of the captures).
StreamsApart ==
    \A i \in 1..Len(sent) : \A j \in 1..Len(sent[i].text) :
        sent[i].name = (IF sent[i].text[j].ch \in {"cout", "stdout"}
                        THEN "stdout" ELSE "stderr")

\* No request hears, or leaves behind, text of another one.
NothingCarriedOver ==
    /\ \A i \in 1..Len(sent) : \A j \in 1..Len(sent[i].text) :
          sent[i].text[j].by = Main => sent[i].text[j].req = request.n
    /\ pc = "idle" => \A s \in Streams : \A j \in 1..Len(m_output[s]) :
          m_output[s][j].by # Main

\* Whichever way a request ends, with a reply or by an exception, the streams
\* are as the constructor left them (the three scope guards).
StreamsRestored ==
    pc = "idle" => /\ rdbuf = [s \in Streams |-> "buffer"]
                   /\ captures = << >>
                   /\ cin = "terminal" /\ ~ cinbad

\* When a cell asks for input, the user has seen all that it wrote to the C++ streams,
\* the prompt included, whatever its threads flush in between; not what it wrote to
\* the C streams, which the captures keep until the cell ends, nor what a silent cell
\* wrote (the ties of the streams, underflow).
PromptShown ==
    pc = "input" => \A m \in 1..Len(wrote) :
        wrote[m].ch \in Streams /\ ~ wrote[m].silent =>
            \E s \in Spots : Heard(s) = wrote[m]

\* A read never takes a character typed for an earlier request, and underflow
\* always has one to give: also when the user answers with an empty line.
InputOwned ==
    /\ \A j \in 1..Len(m_value) : m_value[j] \in {request.n, NewLine}
    /\ pc = "extract" => m_value # << >>

\* Text of a thread that a cell left running is lost, and its writes are
\* undefined, only if the client silenced some cell (whose null buffer the
\* thread may have fetched) or the interpreter is gone.
WorkersKept == (lost # {} \/ pc = "crashed") => silenced \/ rdbuf["cout"] = "terminal"

\* Where the handling of a request has not ended.
Handling == {"dispatch", "preamble", "silence", "begin", "run", "read", "extract"}

Outcome ==
    CASE result = "ok" -> "succeeded"
      [] result # "ok" /\ request.kind = "code" -> "failed"
      [] OTHER -> "refused"

Phase ==
    CASE pc \in {"start", "idle", "stopped", "crashed"} -> pc
      [] pc \in Handling -> "busy"
      [] pc = "input" -> "waiting"
      [] pc = "unwind" ->
            IF result = "thrown" /\ request.kind = "introspection" THEN "thrown" ELSE "done"
      [] OTHER -> IF pc = "reply" /\ Outcome = "failed" /\ ~ request.silent
                  THEN "published" ELSE Outcome

Service == INSTANCE ExecuteService WITH
    phase <- Phase, silent <- request.silent, allow <- request.allow

\* The interpreter offers the service: an input request only to a client that allows
\* it, one reply at the end, which tells a success from a failure also when the request
\* is silent, an error broadcast before the reply to code that failed and was not
\* silent, and no other, and no reply only after an inspection that threw.
ImplementsService == Service!Spec

\* Every request ends: the main thread gets back to its loop whatever the cell
\* does, if it ends at all, unless a worker ends the process.
RequestsEnd == pc \in Busy ~> pc \in {"idle", "crashed"}
=============================================================================
