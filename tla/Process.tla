------------------------------- MODULE Process -------------------------------
(***************************************************************************)
(* The end of the kernel's process.  main installs stop_handler for SIGINT *)
(* (and SIGKILL) and handler for SIGSEGV, and then constructs the          *)
(* interpreter, which gives std::cout the buffer of OutputBuffer.  Both    *)
(* handlers call exit on the thread that the signal interrupted, in the    *)
(* middle of whatever it was doing: exit unwinds no stack, so the          *)
(* interpreter lives on, std::cout keeps its buffer, and the destructor of *)
(* ios_base::Init flushes it, which takes m_mutex.  The other threads go   *)
(* on running until the process is gone.                                   *)
(*                                                                         *)
(* Between the threads and the buffer stands the state of the stream: sync *)
(* that throws sets badbit, and a stream with badbit writes nothing.       *)
(* While a silent cell runs the stream has a null buffer: what is written, *)
(* and the flush at exit, then pass m_output and its mutex by.             *)
(***************************************************************************)
EXTENDS OutputBuffer

CONSTANTS
    Handler,          \* the code that exit runs in the handler's context
    Main,             \* the thread of main, which executes the requests
    MaxSilent         \* bound: silent cells begun

ASSUME HandlerAssumption == Handler \in Threads
ASSUME MainAssumption == Main \in Threads \ {Handler}
ASSUME MaxSilentAssumption == MaxSilent \in Nat

VARIABLES
    life,             \* how far the process has come
    signal,           \* the signal that ends it, or "none"
    interrupted,      \* the thread on which a handler runs, or NoThread
    badbit,           \* std::cout.bad()
    silenced,         \* std::cout.rdbuf() is a silent cell's null buffer
    silentCells,      \* silent cells so far, up to MaxSilent
    refused,          \* history: the flush at exit was skipped, or threw
    muted,            \* history: the flush at exit went to the null buffer
    atSignal          \* history: text in the buffer before the signal

processVars == <<life, signal, interrupted, badbit, silenced, silentCells,
                 refused, muted, atSignal>>
stream == <<badbit, silenced, silentCells>>
allVars == <<vars, processVars>>

Cells == Threads \ {Handler}

ProcessInit ==
    /\ Init
    /\ life = "starting"
    /\ signal = "none"
    /\ interrupted = NoThread
    /\ badbit = FALSE
    /\ silenced = FALSE
    /\ silentCells = 0
    /\ refused = FALSE
    /\ muted = FALSE
    /\ atSignal = << >>

\* The thread a handler runs on never returns to what it was doing.
Runs(t) == t # interrupted /\ life \in {"running", "exiting", "flushing"}

-----------------------------------------------------------------------------
(* The kernel runs.                                                        *)

\* The interpreter is constructed: redirect_output.
Construct ==
    /\ life = "starting"
    /\ life' = "running"
    /\ UNCHANGED <<vars, signal, interrupted, stream, refused, muted, atSignal>>

\* std::cout.write and put: the sentry lets nothing through with badbit, and
\* the null buffer keeps nothing.
Write(t) ==
    /\ Runs(t) /\ t \in Cells
    /\ ~badbit /\ ~silenced
    /\ \/ \E c \in Char \cup {Eof} : Overflow(t, c)
       \/ \E s \in Strings : Xsputn(t, s)
    /\ UNCHANGED processVars

\* std::cout.flush: with badbit some libraries skip sync and some do not, and
\* skipping it changes nothing; nor does a flush of the null buffer.
Flush(t) ==
    /\ Runs(t) /\ t \in Cells
    /\ ~silenced
    /\ Sync(t)
    /\ UNCHANGED processVars

\* A thread goes on with its call.  The stream catches what sync throws.
Continue(t) ==
    /\ Runs(t)
    /\ Step(t)
    /\ badbit' = (badbit \/ pc[t] = "unwind")
    /\ refused' = (refused \/ (t = Handler /\ pc[t] = "unwind"))
    /\ UNCHANGED <<life, signal, interrupted, silenced, silentCells, muted, atSignal>>

\* A silent cell gives std::cout a null buffer for as long as it runs: the
\* guard's constructor, whose rdbuf(sb) also clears the state of the stream.
\* Calls that other threads have begun on the old buffer go on.
BeginSilent ==
    /\ Runs(Main)
    /\ pc[Main] = "idle"
    /\ ~silenced /\ silentCells < MaxSilent
    /\ silenced' = TRUE
    /\ silentCells' = silentCells + 1
    /\ badbit' = FALSE
    /\ UNCHANGED <<vars, life, signal, interrupted, refused, muted, atSignal>>

\* The guard's destructor gives the old buffer back, and clears the state too.
EndSilent ==
    /\ Runs(Main)
    /\ silenced
    /\ silenced' = FALSE
    /\ badbit' = FALSE
    /\ UNCHANGED <<vars, life, signal, interrupted, silentCells, refused, muted, atSignal>>

-----------------------------------------------------------------------------
(* The process ends.                                                       *)

\* A signal before the interpreter exists: std::cout has its own buffer.
SignalAtStart ==
    /\ life = "starting"
    /\ life' = "exited"
    /\ signal' = "SIGINT"
    /\ UNCHANGED <<vars, interrupted, stream, refused, muted, atSignal>>

Exit(t, sig) ==
    /\ life = "running"
    /\ t \in Cells
    /\ life' = "exiting"
    /\ signal' = sig
    /\ interrupted' = t
    /\ atSignal' = written
    /\ UNCHANGED <<vars, stream, refused, muted>>

\* SIGINT is delivered to any thread, wherever it is: exit(0).
stop_handler(t) == Exit(t, "SIGINT")

\* The code of a cell faults, outside the calls to the buffer or where append
\* reads the bytes that the cell gave to std::cout.write: exit(1).
handler(t) ==
    /\ pc[t] = "idle" \/ (pc[t] = "append" /\ text[t] \in Strings)
    /\ Exit(t, "SIGSEGV")

\* SIGKILL ends the process at once: no handler can be installed for it.
Kill ==
    /\ life \in {"running", "exiting", "flushing"}
    /\ life' = "exited"
    /\ signal' = "SIGKILL"
    /\ UNCHANGED <<vars, interrupted, stream, refused, muted, atSignal>>

StaticDestructors_Skipped ==
    /\ life = "exiting"
    /\ life' = "exited"
    /\ UNCHANGED <<vars, signal, interrupted, stream, refused, muted, atSignal>>

\* exit runs the static destructors: ios_base::Init flushes std::cout.
StaticDestructors ==
    /\ life = "exiting"
    /\ ~silenced
    /\ life' = "flushing"
    /\ pc' = [pc EXCEPT ![Handler] = "sync"]
    /\ UNCHANGED <<m_output, m_mutex, text, calls, published, written>>
    /\ UNCHANGED <<signal, interrupted, stream, refused, muted, atSignal>>

\* With badbit the flush may do nothing.
FlushRefused ==
    /\ life = "exiting"
    /\ badbit
    /\ life' = "exited"
    /\ refused' = TRUE
    /\ UNCHANGED <<vars, signal, interrupted, stream, muted, atSignal>>

\* During a silent cell it is the null buffer that is flushed, without m_mutex.
FlushSilenced ==
    /\ life = "exiting"
    /\ silenced
    /\ life' = "exited"
    /\ muted' = TRUE
    /\ UNCHANGED <<vars, signal, interrupted, stream, refused, atSignal>>

\* The flush has returned and the process is gone.
Exited ==
    /\ life = "flushing"
    /\ pc[Handler] = "idle"
    /\ life' = "exited"
    /\ UNCHANGED <<vars, signal, interrupted, stream, refused, muted, atSignal>>

ExitStep == StaticDestructors \/ FlushRefused \/ FlushSilenced \/ Exited

-----------------------------------------------------------------------------
ProcessNext ==
    \/ Construct \/ SignalAtStart \/ BeginSilent \/ EndSilent \/ Kill \/ ExitStep
    \/ \E t \in Threads :
          \/ Write(t) \/ Flush(t) \/ Continue(t)
          \/ stop_handler(t) \/ handler(t)

ProcessSpec == ProcessInit /\ [][ProcessNext]_allVars

\* The scheduler runs every thread that is not waiting, the one that called
\* exit included; nobody has to write, and no signal has to come.
FairProcessSpec ==
    /\ ProcessSpec
    /\ \A t \in Threads : WF_allVars(Continue(t))
    /\ WF_allVars(ExitStep)

-----------------------------------------------------------------------------
(* Properties.                                                             *)

\* Every variable of the process has its type, and the buffer's have theirs.
ProcessTypeOK ==
    /\ TypeOK
    /\ life \in {"starting", "running", "exiting", "flushing", "exited"}
    /\ signal \in {"none", "SIGINT", "SIGSEGV", "SIGKILL"}
    /\ interrupted \in Cells \cup {NoThread}
    /\ badbit \in BOOLEAN
    /\ silenced \in BOOLEAN
    /\ silentCells \in 0..MaxSilent
    /\ refused \in BOOLEAN
    /\ muted \in BOOLEAN
    /\ atSignal \in Seq(Char)

IsPrefixOf(s, t) ==
    Len(s) <= Len(t) /\ \A i \in 1..Len(s) : t[i] = s[i]

\* An interrupt, or the crash of a cell, loses no output: when the process
\* is gone, what was written before the signal has been published, unless
\* the stream was bad, the last publication threw, or the flush at exit found
\* a silent cell's null buffer in the place of m_output (stop_handler, handler,
\* the flush of std::cout at exit, sync, SilentStreamRedirectRAII).
ExitHeard ==
    life = "exited" /\ signal # "SIGKILL" /\ ~refused /\ ~muted =>
        IsPrefixOf(atSignal, published)

\* An interrupt or a fault inside overflow, xsputn or sync never ends the
\* process: the flush at exit waits for the m_mutex that its own thread holds
\* beneath the handler (stop_handler, handler, and lock_guard on a mutex that
\* is not recursive).  It does end it where that flush does not reach m_output,
\* because the stream is bad or a silent cell has replaced its buffer.
InterruptInsideHangs ==
    life = "exited" /\ signal # "SIGKILL" /\ ~refused /\ ~muted =>
        \A t \in Threads : interrupted = t => pc[t] \notin Critical

\* Every call returns: no thread waits for m_mutex for ever, since every way out of
\* overflow, xsputn and sync, the exception included, releases it.  Only a handler on
\* top of a thread that holds it keeps it; the threads beside that one go on until
\* the process is gone (lock_guard in the three functions, stop_handler, handler).
CallsReturn ==
    \A t \in Threads :
        pc[t] # "idle" ~>
            \/ pc[t] = "idle" \/ t = interrupted \/ life = "exited"
            \/ \E u \in Threads : u = interrupted /\ pc[u] \in Critical

\* An interrupt or a fault anywhere else does end the process, even while other
\* threads are inside the buffer or their publications throw, and silent cells
\* begin and end (stop_handler, handler, exit).
ExitEnds ==
    \A t \in Cells :
        (life = "exiting" /\ interrupted = t /\ pc[t] \notin Critical)
            ~> life = "exited"
=============================================================================
