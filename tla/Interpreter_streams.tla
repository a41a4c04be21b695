------------------------- MODULE Interpreter_streams -------------------------
(***************************************************************************)
(* The text of a thread is kept unless some cell was silent; that of a     *)
(* request goes out under the name of its stream, and is heard by no other *)
(* request; and the interpreter implements ExecuteService.  For any number *)
(* of requests, statements, workers and worker calls.                      *)
(***************************************************************************)
EXTENDS Interpreter_proofs

\* The null buffer, whose text is lost, is in place after a silent cell only, the
\* terminal's before the constructor and after the destructor only, and no thread has
\* fetched another buffer than the interpreter's but for these.
WInv ==
    /\ pc = "start" => /\ lost = {}
                       /\ \A w \in Workers : worker[w] = [state |-> "none", target |-> "none"]
    /\ \A w \in Workers : worker[w].state = "calling" => worker[w].target # "none"
    /\ rdbuf["cout"] = "null" => silenced
    /\ pc = "stopped" => /\ rdbuf["cout"] = "terminal"
                         /\ \A w \in Workers : worker[w].target # "buffer"
    /\ pc = "crashed" => silenced \/ rdbuf["cout"] = "terminal"
    /\ ~ silenced /\ pc \notin {"stopped", "crashed"} =>
          /\ lost = {}
          /\ \A w \in Workers : worker[w].target \in {"none", "terminal", "buffer"}

\* What a step of the main thread that leaves the workers and the buffers alone needs.
LEMMA WorkersQuiet ==
    ASSUME WInv, UNCHANGED <<workerVars, guardVars>>,
           pc \notin {"start", "stopped", "crashed"},
           pc' \notin {"start", "stopped", "crashed"}
    PROVE  WInv'
BY DEF WInv, workerVars, guardVars

\* WInv holds when the process starts.
LEMMA InitWInv == Init => WInv
BY DEF Init, WInv, Streams

\* The invariant says more than the property.
LEMMA WInvImplies == WInv => WorkersKept
BY DEF WInv, WorkersKept

\* Every step keeps WInv.
LEMMA NextWInv == TypeOK /\ RInv /\ WInv /\ [Next]_vars => WInv'
<1> SUFFICES ASSUME TypeOK, RInv, WInv, [Next]_vars PROVE WInv'
  OBVIOUS
<1> USE DEF requestVars, captureVars, textVars
<1>s. "cout" \in Streams /\ rdbuf \in [Streams -> {"terminal", "buffer", "null"}]
      /\ \A w \in Workers : worker[w] \in [state : {"none", "running", "calling"},
                target : {"none", "terminal", "buffer", "null", "dangling"}]
      /\ DOMAIN worker = Workers
  BY DEF Streams, TypeOK
\* A pointer that dangles is still a pointer.
<1>d. ASSUME NEW buffer, Dangle(buffer), NEW w \in Workers
      PROVE  /\ worker'[w].state = worker[w].state
             /\ worker'[w].target \in {"dangling", worker[w].target}
             /\ worker[w].target # buffer => worker'[w] = worker[w]
  BY <1>d, <1>s DEF Dangle
<1>1. ASSUME Construct PROVE WInv'
  BY <1>1, <1>s DEF Construct, RedirectOutput, WInv, workerVars
<1>2. ASSUME Destroy PROVE WInv'
  <2>1. \A w \in Workers : worker'[w].state = "calling" => worker'[w].target # "none"
    BY <1>2, <1>d DEF Destroy, WInv
  <2>2. \A w \in Workers : worker'[w].target # "buffer"
    BY <1>2, <1>s DEF Destroy, Dangle
  <2> QED BY <1>2, <2>1, <2>2, <1>s DEF Destroy, RestoreOutput, WInv
<1>3. ASSUME NEW silent, NEW allow, Receive(silent, allow) PROVE WInv'
  BY <1>3, WorkersQuiet DEF Receive
<1>4. ASSUME NEW kind, Dispatch(kind) PROVE WInv'
  BY <1>4, WorkersQuiet DEF Dispatch, guardVars
<1>5. ASSUME Silence PROVE WInv'
  <2>1. rdbuf'["cout"] = "null" => rdbuf["cout"] = "null" \/ request.silent
    BY <1>5, <1>s DEF Silence, SilencedStreams
  <2> QED BY <1>5, <2>1 DEF Silence, WInv, workerVars
<1>6. ASSUME BeginCapture \/ Ask \/ Refuse \/ Extract \/ EndCapture \/ Report \/ Flush
             \/ PublishError \/ Reply \/ IntrospectionThrows
      PROVE  WInv'
  BY <1>6, WorkersQuiet
  DEF BeginCapture, Ask, Refuse, Extract, EndCapture, ProcessEnded, Report, Flush,
      PublishError, Reply, IntrospectionThrows
\* The null buffer dies only if there was one.
<1>7. ASSUME Unwind PROVE WInv'
  <2>1. rdbuf'["cout"] \in {"buffer", rdbuf["cout"]}
    BY <1>7, <1>s DEF Unwind, RestoredBuffers
  <2>2. ASSUME ~ silenced
        PROVE  \A w \in Workers : worker'[w].target \in {"none", "terminal", "buffer"}
    <3>1. rdbuf["cout"] # "null" /\ pc = "unwind"
      BY <1>7, <2>2 DEF Unwind, WInv
    <3>2. \A w \in Workers : worker[w].target \in {"none", "terminal", "buffer"}
      BY <2>2, <3>1 DEF WInv
    <3> QED BY <1>7, <3>2, <1>d DEF Unwind
  <2>3. \A w \in Workers : worker'[w].state = "calling" => worker'[w].target # "none"
    BY <1>7, <1>d DEF Unwind, WInv
  <2> QED BY <1>7, <2>1, <2>2, <2>3 DEF Unwind, WInv
<1>8. ASSUME NEW kind, NEW how, PreambleEnds(kind, how) PROVE WInv'
  BY <1>8, WorkersQuiet DEF PreambleEnds
<1>9. ASSUME NEW kind, NEW s, PreambleWrite(kind, s) PROVE WInv'
  BY <1>9, WorkersQuiet DEF PreambleWrite
<1>10. ASSUME NEW kind, PreambleFails(kind) PROVE WInv'
  BY <1>10, WorkersQuiet DEF PreambleFails
<1>11. ASSUME Kernel PROVE WInv'
  BY <1>1, <1>4, <1>5, <1>6, <1>7, <1>8, <1>10, <1>11
  DEF Kernel, ShellDone, ShellFails, MagicDone, MagicUnknown, IntrospectionFound,
      IntrospectionNotFound
<1>12. ASSUME NEW s, CellWrite(s) PROVE WInv'
  BY <1>12, WorkersQuiet DEF CellWrite
<1>13. ASSUME NEW ch, CellPrintf(ch) PROVE WInv'
  BY <1>13, WorkersQuiet DEF CellPrintf
<1>14. ASSUME CellFlush \/ CellRead PROVE WInv'
  BY <1>14, WorkersQuiet DEF CellFlush, CellRead
<1>15. ASSUME NEW w \in Workers, CellStartsThread(w) PROVE WInv'
  BY <1>15, <1>s DEF CellStartsThread, WInv, guardVars
<1>16. ASSUME Code PROVE WInv'
  BY <1>9, <1>12, <1>13, <1>14, <1>15, <1>16 DEF Code, ShellOutput, MagicWrite
<1>17. ASSUME End PROVE WInv'
  BY <1>17, WorkersQuiet DEF End, CellDoesNotCompile, CellEnds
<1>18. ASSUME Reading PROVE WInv'
  BY <1>18, WorkersQuiet DEF Reading, Answer
<1>19. ASSUME Client PROVE WInv'
  BY <1>3, <1>19 DEF Client
\* A thread fetches the null buffer, or the terminal's, only if it is there; and the
\* terminal's text is not lost.
<1>20. ASSUME NEW w \in Workers, WorkerFetch(w) PROVE WInv'
  <2>1. worker' = [worker EXCEPT ![w] = [state |-> "calling", target |-> rdbuf["cout"]]]
    BY <1>20 DEF WorkerFetch
  <2>2. worker'[w].target = rdbuf["cout"] /\ rdbuf["cout"] # "none"
        /\ \A v \in Workers \ {w} : worker'[v] = worker[v]
    BY <2>1, <1>s
  <2>3. pc \notin {"start", "crashed"}
    BY <1>20 DEF WorkerFetch, WInv
  <2>4. \A v \in Workers : worker'[v].state = "calling" => worker'[v].target # "none"
    BY <2>2 DEF WInv
  <2> QED BY <1>20, <2>2, <2>3, <2>4, <1>s DEF WorkerFetch, WInv, guardVars
<1>21. ASSUME NEW w \in Workers, WorkerPut(w) \/ WorkerSync(w) PROVE WInv'
  BY <1>21, <1>s DEF WorkerPut, WorkerSync, Returned, WInv, guardVars
<1>22. ASSUME NEW w \in Workers, WorkerLoses(w) PROVE WInv'
  <2>1. worker[w].target \notin {"none", "buffer"} /\ pc # "crashed"
    BY <1>22 DEF WorkerLoses, Returned, WInv
  <2> QED BY <1>22, <2>1, <1>s DEF WorkerLoses, Returned, WInv, guardVars
<1>23. ASSUME NEW w \in Workers, WorkerCrashes(w) PROVE WInv'
  BY <1>23, <1>s DEF WorkerCrashes, Returned, WInv, guardVars
<1>24. ASSUME UNCHANGED vars PROVE WInv'
  BY <1>24 DEF vars, WInv, workerVars, guardVars
<1> QED
  BY <1>2, <1>11, <1>16, <1>17, <1>18, <1>19, <1>20, <1>21, <1>22, <1>23, <1>24
  DEF Next, Threads

\* Text of a thread that a cell left running is lost, and its calls are undefined, only
\* if some cell was silent or the interpreter is gone: no interleaving with loud cells
\* costs any (the buffers of the constructor, silent_guard).
THEOREM ThreadsKept == Spec => []WorkersKept
<1>1. Spec => [](TypeOK /\ Progress)
  BY TypesHold
<1>2. Spec => []RInv
  BY InitRInv, NextRInv, PTL DEF Spec
<1>3. Spec => []WInv
  BY <1>1, <1>2, InitWInv, NextWInv, PTL DEF Spec
<1> QED BY <1>3, WInvImplies, PTL

-----------------------------------------------------------------------------
(* What a request leaves in the buffers.                                   *)

\* Text of the threads that cells left running.
Theirs == {p \in Pieces : p.by \in Workers}

\* Where the text of the request has been flushed, or none is written yet: also in a
\* silent cell, and in an inspection, which writes only when it ends.
SettledAt == {"start", "idle", "dispatch", "silence", "begin", "read", "input", "extract",
              "publish", "reply", "unwind", "stopped"}
Settled ==
    \/ pc \in SettledAt
    \/ pc \in Guarded /\ SilentCell
    \/ pc = "preamble" /\ request.kind = "introspection"

\* std::cerr is unit-buffered: nothing stays in its buffer, whoever wrote it; and none of
\* the request's text stays in that of std::cout where it has been flushed.
HInv ==
    /\ m_output["cerr"] = << >>
    /\ Settled => m_output["cout"] \in Seq(Theirs)

\* What the steps of a proof about HInv may assume.
KnownH == TypeOK /\ Progress /\ RInv /\ GuardInForce /\ HInv

\* HInv holds when the process starts.
LEMMA InitHInv == Init => HInv
<1> SUFFICES ASSUME Init PROVE HInv
  OBVIOUS
<1>1. << >> \in Seq(Theirs)
  OBVIOUS
<1> QED BY <1>1 DEF Init, HInv, Streams

\* A flush empties the buffer of its stream and leaves the other alone.
LEMMA FlushLeaves ==
    ASSUME NEW S, NEW o, o.pending \in [Streams -> S], NEW s \in Streams
    PROVE  /\ FlushStream(s, o).pending \in [Streams -> S \cup {<< >>}]
           /\ rdbuf[s] = "buffer" => FlushStream(s, o).pending[s] = << >>
           /\ rdbuf[s] # "buffer" => FlushStream(s, o).pending[s] = o.pending[s]
           /\ \A t \in Streams \ {s} : FlushStream(s, o).pending[t] = o.pending[t]
           /\ o.pending[s] = << >> => FlushStream(s, o).pending[s] = << >>
BY DEF FlushStream

\* A write leaves std::cerr's buffer empty; std::cout's is only touched if it is in
\* place, and then a write to std::cerr empties it.
LEMMA OutputLeaves ==
    ASSUME TypeOK, m_output["cerr"] = << >>, NEW s \in Streams, NEW text
    PROVE  /\ Output(s, text, Text).pending["cerr"] = << >>
           /\ rdbuf["cout"] # "buffer" =>
                 Output(s, text, Text).pending["cout"] = m_output["cout"]
           /\ s = "cerr" /\ rdbuf["cout"] = "buffer" =>
                 Output(s, text, Text).pending["cout"] = << >>
<1> "cout" \in Streams /\ "cerr" \in Streams /\ Streams = {"cout", "cerr"}
  BY DEF Streams
<1>1. Text.pending = m_output /\ DOMAIN m_output = Streams
  BY DEF Text, TypeOK
<1>2. CASE s = "cout"
  BY <1>1, <1>2 DEF Output, Insert
<1>3. CASE s = "cerr"
  <2> DEFINE o == Tie(Text)
             q == Insert("cerr", text, o)
  <2>1. /\ DOMAIN o.pending = Streams /\ o.pending["cerr"] = << >>
        /\ rdbuf["cout"] = "buffer" => o.pending["cout"] = << >>
        /\ rdbuf["cout"] # "buffer" => o.pending["cout"] = m_output["cout"]
    BY <1>1 DEF Tie, FlushStream
  <2> HIDE DEF o
  <2>2. /\ DOMAIN q.pending = Streams /\ q.pending["cout"] = o.pending["cout"]
        /\ rdbuf["cerr"] # "buffer" => q.pending["cerr"] = << >>
    BY <2>1 DEF Insert
  <2> HIDE DEF q
  <2>3. /\ FlushStream("cerr", q).pending["cout"] = q.pending["cout"]
        /\ FlushStream("cerr", q).pending["cerr"] = << >>
    BY <2>2 DEF FlushStream
  <2>4. Output(s, text, Text) = FlushStream("cerr", q)
    BY <1>3 DEF Output, q, o
  <2> QED BY <1>3, <2>1, <2>2, <2>3, <2>4
<1> QED BY <1>2, <1>3

\* The buffer that no thread of the request can reach keeps what it has.
LEMMA SettledKept ==
    ASSUME KnownH, UNCHANGED m_output, Settled' => Settled
    PROVE  HInv'
BY DEF KnownH, HInv, Theirs, Pieces

\* A write of the request to a stream, and what it does where the text is settled.
LEMMA SettledWrite ==
    ASSUME KnownH, NEW s \in Streams, NEW text, TextBecomes(Output(s, text, Text)),
           Settled' => \/ Settled /\ rdbuf["cout"] # "buffer"
                       \/ s = "cerr" /\ rdbuf["cout"] = "buffer"
    PROVE  HInv'
<1>1. << >> \in Seq(Theirs)
  OBVIOUS
<1>2. m_output' = Output(s, text, Text).pending
  BY DEF TextBecomes
<1>3. /\ m_output'["cerr"] = << >>
      /\ rdbuf["cout"] # "buffer" => m_output'["cout"] = m_output["cout"]
      /\ s = "cerr" /\ rdbuf["cout"] = "buffer" => m_output'["cout"] = << >>
  BY <1>2, OutputLeaves DEF KnownH, HInv
<1> QED BY <1>1, <1>3 DEF KnownH, HInv, Theirs, Pieces

\* A flush of std::cout settles the text, or has none to settle in a silent cell.
LEMMA SettledFlush ==
    ASSUME KnownH, NEW o \in {FlushStream("cout", Text), FlushAll(Text)}, TextBecomes(o),
           rdbuf["cout"] = "buffer" \/ Settled
    PROVE  HInv'
<1> "cout" \in Streams /\ "cerr" \in Streams /\ Streams = {"cout", "cerr"}
  BY DEF Streams
<1>1. Text.pending = m_output /\ DOMAIN m_output = Streams /\ m_output["cerr"] = << >>
  BY DEF Text, KnownH, TypeOK, HInv
<1> DEFINE f == FlushStream("cout", Text)
<1>2. /\ DOMAIN f.pending = Streams /\ f.pending["cerr"] = << >>
      /\ f.pending["cout"] \in {<< >>, m_output["cout"]}
      /\ rdbuf["cout"] = "buffer" => f.pending["cout"] = << >>
  BY <1>1 DEF FlushStream
<1> HIDE DEF f
<1>3. FlushStream("cerr", f) = f
  BY <1>2 DEF FlushStream
<1>4. o = f
  BY <1>3 DEF f, FlushAll
<1>5. m_output' = f.pending
  BY <1>4 DEF TextBecomes
<1>6. << >> \in Seq(Theirs)
  OBVIOUS
<1> QED BY <1>2, <1>5, <1>6 DEF KnownH, HInv, Theirs, Pieces

\* Where a request can be heard it is not guarded, or guarded as a silent cell.
LEMMA InPlace ==
    ASSUME KnownH, pc \notin {"start", "stopped", "crashed"}
    PROVE  /\ ~ (pc \in Guarded /\ SilentCell) => rdbuf["cout"] = "buffer"
           /\ pc \in Guarded /\ SilentCell => rdbuf["cout"] # "buffer"
BY DEF KnownH, RInv, BuffersInPlace, GuardInForce, Streams

\* Every step keeps HInv.
LEMMA NextHInv == KnownH /\ [Next]_vars => HInv'
<1> SUFFICES ASSUME KnownH, [Next]_vars PROVE HInv'
  OBVIOUS
<1> USE DEF requestVars, guardVars, captureVars, workerVars, textVars
<1>s. "cout" \in Streams /\ "cerr" \in Streams /\ << >> \in Seq(Theirs)
      /\ DOMAIN m_output = Streams
  BY DEF Streams, KnownH, TypeOK
<1>1. ASSUME Construct PROVE HInv'
  BY <1>1, SettledKept DEF Construct, Settled, SettledAt
<1>2. ASSUME Destroy PROVE HInv'
  BY <1>2, <1>s DEF Destroy, HInv
<1>3. ASSUME NEW silent, NEW allow, Receive(silent, allow) PROVE HInv'
  BY <1>3, SettledKept DEF Receive, Settled, SettledAt
<1>4. ASSUME NEW kind, Dispatch(kind) PROVE HInv'
  BY <1>4, SettledKept DEF Dispatch, Settled, SettledAt
<1>5. ASSUME Silence \/ BeginCapture \/ Ask \/ Refuse \/ Extract \/ PublishError \/ Reply
             \/ Unwind \/ IntrospectionThrows
      PROVE  HInv'
  <2>1. Settled /\ UNCHANGED m_output
    BY <1>5
    DEF Silence, BeginCapture, Ask, Refuse, Extract, PublishError, Reply, Unwind,
        IntrospectionThrows, Settled, SettledAt
  <2> QED BY <2>1, SettledKept
\* The capture is printed to std::cout, and a diagnostic to std::cerr.
<1>6. ASSUME EndCapture PROVE HInv'
  <2>1. pc \in Guarded /\ (Settled' => SilentCell)
    BY <1>6 DEF EndCapture, ProcessEnded, Guarded, Settled, SettledAt, SilentCell
  <2>2. Settled' => Settled /\ rdbuf["cout"] # "buffer"
    BY <2>1, <1>6, InPlace DEF EndCapture, ProcessEnded, Settled
  <2> QED BY <1>6, <1>s, <2>2, SettledWrite DEF EndCapture
<1>7. ASSUME Report PROVE HInv'
  <2>1. pc \in Guarded /\ (Settled' => SilentCell)
    BY <1>7 DEF Report, Guarded, Settled, SettledAt, SilentCell
  <2>2. Settled' => Settled /\ rdbuf["cout"] # "buffer"
    BY <2>1, <1>7, InPlace DEF Report, Settled
  <2>3. CASE result = "compile"
    BY <1>7, <1>s, <2>2, <2>3, SettledWrite DEF Report
  <2>4. CASE result # "compile"
    BY <1>7, <2>2, <2>4, SettledKept DEF Report, TextBecomes, Text
  <2> QED BY <2>3, <2>4
<1>8. ASSUME Flush PROVE HInv'
  <2>1. rdbuf["cout"] = "buffer" \/ Settled
    BY <1>8, InPlace DEF Flush, Settled
  <2> QED BY <1>8, <2>1, SettledFlush DEF Flush
\* The preambles run outside the guard.
<1>9. ASSUME pc = "preamble" PROVE rdbuf["cout"] = "buffer"
  BY <1>9, InPlace DEF Guarded
<1>10. ASSUME NEW kind, NEW how, PreambleEnds(kind, how) PROVE HInv'
  BY <1>9, <1>10, SettledFlush DEF PreambleEnds, PreambleFlush
<1>11. ASSUME NEW kind \in {"shell", "magics"}, NEW s \in Streams, PreambleWrite(kind, s)
       PROVE  HInv'
  <2>1. ~ Settled'
    BY <1>11 DEF PreambleWrite, Settled, SettledAt, Guarded
  <2> QED BY <1>11, <2>1, SettledWrite DEF PreambleWrite, Write
<1>12. ASSUME NEW kind, PreambleFails(kind) PROVE HInv'
  BY <1>9, <1>12, <1>s, SettledWrite DEF PreambleFails, Write
<1>13. ASSUME Kernel PROVE HInv'
  BY <1>1, <1>4, <1>5, <1>6, <1>7, <1>8, <1>10, <1>12, <1>13
  DEF Kernel, ShellDone, ShellFails, MagicDone, MagicUnknown, IntrospectionFound,
      IntrospectionNotFound
\* A cell's text is settled inside the guard of a silent cell only, and by a flush.
<1>14. ASSUME pc = "run" PROVE Settled => SilentCell /\ rdbuf["cout"] # "buffer"
  BY <1>14, InPlace DEF Settled, SettledAt, Guarded
<1>15. ASSUME pc = "run" PROVE rdbuf["cout"] = "buffer" \/ Settled
  BY <1>15, InPlace DEF Settled, Guarded
<1>16. ASSUME NEW s \in Streams, CellWrite(s) PROVE HInv'
  <2>1. Settled' = Settled
    BY <1>16 DEF CellWrite, Settled, SilentCell
  <2> QED BY <1>14, <1>16, <2>1, SettledWrite DEF CellWrite, Write
<1>17. ASSUME NEW ch, CellPrintf(ch) PROVE HInv'
  BY <1>17, SettledKept DEF CellPrintf, Settled, SilentCell
<1>18. ASSUME CellFlush \/ CellRead PROVE HInv'
  BY <1>15, <1>18, SettledFlush DEF CellFlush, CellRead, Tie
<1>19. ASSUME NEW w, CellStartsThread(w) PROVE HInv'
  BY <1>19, SettledKept DEF CellStartsThread, Settled, SilentCell
<1>20. ASSUME Code PROVE HInv'
  BY <1>s, <1>11, <1>16, <1>17, <1>18, <1>19, <1>20 DEF Code, ShellOutput, MagicWrite
<1>21. ASSUME End PROVE HInv'
  <2>1. pc = "run" /\ pc' = "captured" /\ UNCHANGED <<request, m_output>>
    BY <1>21 DEF End, CellDoesNotCompile, CellEnds
  <2>2. Settled' => Settled
    BY <2>1 DEF Settled, SettledAt, Guarded, SilentCell
  <2> QED BY <2>1, <2>2, SettledKept
<1>22. ASSUME NEW length, Answer(length) PROVE HInv'
  BY <1>22, SettledKept DEF Answer, Settled, SettledAt
<1>23. ASSUME Client PROVE HInv'
  BY <1>3, <1>23 DEF Client
\* The threads write their own text.
<1>24. ASSUME NEW w \in Workers, WorkerFetch(w) \/ WorkerLoses(w) PROVE HInv'
  BY <1>24, SettledKept DEF WorkerFetch, WorkerLoses, Returned, Settled, SilentCell
<1>25. ASSUME NEW w \in Workers, WorkerPut(w) PROVE HInv'
  <2>1. WorkerPiece(w) \in Theirs
    BY WorkerPieceType DEF KnownH, Theirs, WorkerPiece
  <2>2. Settled' = Settled
    BY <1>25 DEF WorkerPut, Returned, Settled, SilentCell
  <2>3. Settled => Append(m_output["cout"], WorkerPiece(w)) \in Seq(Theirs)
    BY <2>1 DEF KnownH, HInv
  <2> QED BY <1>25, <1>s, <2>2, <2>3 DEF WorkerPut, KnownH, HInv, Theirs, Pieces
<1>26. ASSUME NEW w \in Workers, WorkerSync(w) PROVE HInv'
  BY <1>26, <1>s DEF WorkerSync, KnownH, HInv
<1>27. ASSUME NEW w \in Workers, WorkerCrashes(w) PROVE HInv'
  BY <1>27, SettledKept DEF WorkerCrashes, Settled, SettledAt, Guarded
<1>28. ASSUME UNCHANGED vars PROVE HInv'
  BY <1>28, SettledKept DEF vars, Settled, SilentCell
<1> QED
  BY <1>2, <1>13, <1>20, <1>21, <1>22, <1>23, <1>24, <1>25, <1>26, <1>27, <1>28
  DEF Next, Threads, Reading

\* The invariants of this and of the other theorems hold together.
LEMMA HeldHold == Spec => []KnownH
<1>1. Spec => [](TypeOK /\ Progress)
  BY TypesHold
<1>2. Spec => []RInv
  BY InitRInv, NextRInv, PTL DEF Spec
<1>3. TypeOK /\ Progress /\ RInv /\ SInv /\ [Next]_vars => SInv'
  BY NextSInv DEF Known
<1>4. Spec => []SInv
  BY <1>1, <1>2, <1>3, InitSInv, PTL DEF Spec
<1>5. SInv => GuardInForce
  BY DEF SInv
<1>6. TypeOK /\ Progress /\ RInv /\ GuardInForce /\ HInv /\ [Next]_vars => HInv'
  BY NextHInv DEF KnownH
<1>7. Spec => []HInv
  BY <1>1, <1>2, <1>4, <1>5, <1>6, InitHInv, PTL DEF Spec
<1>8. TypeOK /\ Progress /\ RInv /\ GuardInForce /\ HInv => KnownH
  BY DEF KnownH
<1> QED BY <1>1, <1>2, <1>4, <1>5, <1>7, <1>8, PTL

-----------------------------------------------------------------------------
(* Each text under the name of its stream and of its own request.          *)

\* Text for a stream: written to it in C++ or in C, and of the main thread only what
\* request n wrote.
Channels(s) == IF s = "cout" THEN {"cout", "stdout"} ELSE {"cerr", "stderr"}
For(s, n) == {p \in Pieces : p.ch \in Channels(s) /\ (p.by = Main => p.req = n)}

\* Messages without text, and those of a stream with text for it.
Carriers(n) == {m \in Messages :
                  m.text # << >> =>
                    \E s \in Streams : m.name = StreamName(s) /\ m.text \in Seq(For(s, n))}

\* Buffers and messages that hold text where it belongs.
TextFor(n) == {o \in [pending : [Streams -> Seq(Pieces)], out : Seq(Carriers(n))] :
                 \A s \in Streams : o.pending[s] \in Seq(For(s, n))}

\* Buffers, messages and captures hold text for their streams, of the request only.
Placed ==
    /\ \A s \in Streams : m_output[s] \in Seq(For(s, request.n))
    /\ sent \in Seq(Carriers(request.n))
CapturesPlaced ==
    /\ captures # << >> =>
          /\ Len(captures) = 2
          /\ captures[1] \in [stream : {"stderr"}, text : Seq(For("cerr", request.n))]
          /\ captures[2] \in [stream : {"stdout"}, text : Seq(For("cout", request.n))]
    /\ err \in Seq(For("cerr", request.n))
AInv == Placed /\ CapturesPlaced

\* What the steps of a proof about AInv may assume.
KnownA == KnownH /\ AInv

\* AInv holds when the process starts.
LEMMA InitAInv == Init => AInv
<1> SUFFICES ASSUME Init PROVE AInv
  OBVIOUS
<1>1. << >> \in Seq(Carriers(0)) /\ \A s \in Streams : << >> \in Seq(For(s, 0))
  OBVIOUS
<1> QED BY <1>1 DEF Init, AInv, Placed, CapturesPlaced, Streams

\* AInv says of sequences what the two properties say of their elements.
LEMMA AInvImplies == HInv /\ AInv => StreamsApart /\ NothingCarriedOver
<1> SUFFICES ASSUME HInv, AInv PROVE StreamsApart /\ NothingCarriedOver
  OBVIOUS
<1>1. ASSUME NEW i \in 1..Len(sent), NEW j \in 1..Len(sent[i].text)
      PROVE  /\ sent[i].name = (IF sent[i].text[j].ch \in {"cout", "stdout"}
                                THEN "stdout" ELSE "stderr")
             /\ sent[i].text[j].by = Main => sent[i].text[j].req = request.n
  <2>1. sent[i] \in Carriers(request.n)
    BY <1>1, ElementOfSeq DEF AInv, Placed
  <2>2. sent[i].text # << >>
    BY <1>1
  <2>3. PICK s \in Streams : /\ sent[i].name = StreamName(s)
                             /\ sent[i].text \in Seq(For(s, request.n))
    BY <2>1, <2>2 DEF Carriers
  <2>4. sent[i].text[j] \in For(s, request.n)
    BY <1>1, <2>3, ElementOfSeq
  <2> QED BY <2>3, <2>4 DEF For, Channels, StreamName, Streams
<1>2. ASSUME pc = "idle", NEW s \in Streams, NEW j \in 1..Len(m_output[s])
      PROVE  m_output[s][j].by # Main
  <2>1. m_output["cout"] \in Seq(Theirs) /\ m_output["cerr"] = << >>
    BY <1>2 DEF HInv, Settled, SettledAt
  <2>2. s = "cout"
    BY <1>2, <2>1 DEF Streams
  <2>3. m_output[s][j] \in Theirs
    BY <1>2, <2>1, <2>2, ElementOfSeq
  <2> QED BY <2>3, MainAssumption DEF Theirs
<1> QED BY <1>1, <1>2 DEF StreamsApart, NothingCarriedOver

\* Text for a stream goes out in messages of that stream.
LEMMA FlushApart ==
    ASSUME NEW n, NEW s \in Streams, NEW o \in TextFor(n)
    PROVE  FlushStream(s, o) \in TextFor(n)
<1>1. CASE rdbuf[s] = "buffer" /\ o.pending[s] # << >>
  <2>1. o.pending[s] \in Seq(For(s, n)) /\ o.pending[s] \in Seq(Pieces)
    BY DEF TextFor
  <2>2. StreamMessage(s, o.pending[s]) \in Messages
    BY <2>1, StreamMessageType, AllMessages
  <2>3. StreamMessage(s, o.pending[s]) \in Carriers(n)
    BY <2>1, <2>2 DEF Carriers, StreamMessage
  <2>4. Append(o.out, StreamMessage(s, o.pending[s])) \in Seq(Carriers(n))
    BY <2>3 DEF TextFor
  <2>5. << >> \in Seq(Pieces) /\ \A t \in Streams : << >> \in Seq(For(t, n))
    OBVIOUS
  <2>6. [o.pending EXCEPT ![s] = << >>] \in [Streams -> Seq(Pieces)]
    BY <2>5 DEF TextFor
  <2> QED BY <1>1, <2>4, <2>5, <2>6 DEF FlushStream, TextFor
<1> QED BY <1>1 DEF FlushStream

\* Text for a stream is put into its buffer.
LEMMA InsertApart ==
    ASSUME NEW n, NEW s \in Streams, NEW text \in Seq(For(s, n)), NEW o \in TextFor(n)
    PROVE  Insert(s, text, o) \in TextFor(n)
<1>1. For(s, n) \subseteq Pieces
  BY DEF For
<1>2. text \in Seq(Pieces)
  BY <1>1
<1>3. o.pending[s] \in Seq(For(s, n)) /\ o.pending[s] \in Seq(Pieces)
  BY DEF TextFor
<1>4. o.pending[s] \o text \in Seq(For(s, n))
  BY <1>3
<1>5. o.pending[s] \o text \in Seq(Pieces)
  BY <1>2, <1>3
<1>6. [o.pending EXCEPT ![s] = o.pending[s] \o text] \in [Streams -> Seq(Pieces)]
  BY <1>5 DEF TextFor
<1> QED BY <1>4, <1>6 DEF Insert, TextFor

\* So does a write to a C++ stream, with the flushes it causes.
LEMMA OutputApart ==
    ASSUME NEW n, NEW s \in Streams, NEW text \in Seq(For(s, n)), NEW o \in TextFor(n)
    PROVE  Output(s, text, o) \in TextFor(n)
<1> "cout" \in Streams /\ "cerr" \in Streams /\ Streams = {"cout", "cerr"}
  BY DEF Streams
<1>1. CASE s = "cout"
  BY <1>1, InsertApart DEF Output
<1>2. CASE s = "cerr"
  <2>1. Tie(o) \in TextFor(n)
    BY FlushApart DEF Tie
  <2>2. Insert("cerr", text, Tie(o)) \in TextFor(n)
    BY <1>2, <2>1, InsertApart
  <2> QED BY <1>2, <2>2, FlushApart DEF Output
<1> QED BY <1>1, <1>2

\* What the variables hold before an operation on text.
LEMMA TextPlaced == ASSUME KnownA PROVE Text \in TextFor(request.n)
BY DEF KnownA, KnownH, TypeOK, AInv, Placed, Text, TextFor

\* What they hold after it.
LEMMA BecomesPlaced ==
    ASSUME NEW o \in TextFor(request.n), TextBecomes(o), request'.n = request.n
    PROVE  Placed'
<1>1. m_output' = o.pending /\ sent' = o.out
  BY DEF TextBecomes
<1>3. \A s \in Streams : o.pending[s] \in Seq(For(s, request.n))
  BY DEF TextFor
<1>4. o.out \in Seq(Carriers(request.n))
  BY DEF TextFor
<1> QED BY <1>1, <1>3, <1>4 DEF Placed

\* The next piece of the request is for its stream.
LEMMA PieceFor ==
    ASSUME TypeOK, NEW s \in Streams, NEW ch \in Channels(s)
    PROVE  <<Piece(ch)>> \in Seq(For(s, request.n))
<1>1. ch \in Streams \cup CStreams
  BY DEF Channels, Streams, CStreams
<1>2. Piece(ch) \in Pieces
  BY <1>1, PieceType
<1>3. Piece(ch) \in For(s, request.n)
  BY <1>2 DEF For, Piece
<1> QED BY <1>3

\* Steps that leave the captures alone.
LEMMA CapturesKept ==
    ASSUME KnownA, UNCHANGED captureVars, request'.n = request.n
    PROVE  CapturesPlaced'
BY DEF KnownA, AInv, CapturesPlaced, captureVars

\* Steps that leave the text alone.
LEMMA TextKept ==
    ASSUME KnownA, UNCHANGED textVars, request'.n = request.n
    PROVE  Placed'
BY DEF KnownA, AInv, Placed, textVars

\* A write of the request to a C++ stream.
LEMMA WritePlaced ==
    ASSUME KnownA, NEW s \in Streams, Write(s), request'.n = request.n
    PROVE  Placed'
<1>1. <<Piece(s)>> \in Seq(For(s, request.n))
  BY PieceFor DEF KnownA, KnownH, Channels, Streams
<1>2. Output(s, <<Piece(s)>>, Text) \in TextFor(request.n)
  BY <1>1, TextPlaced, OutputApart
<1> QED BY <1>2, BecomesPlaced DEF Write

\* A flush moves text.
LEMMA FlushPlaced ==
    ASSUME KnownA, request'.n = request.n,
           NEW o \in {FlushStream("cout", Text), FlushAll(Text)}, TextBecomes(o)
    PROVE  Placed'
<1> "cout" \in Streams /\ "cerr" \in Streams
  BY DEF Streams
<1>1. FlushStream("cout", Text) \in TextFor(request.n)
  BY TextPlaced, FlushApart
<1>2. FlushAll(Text) \in TextFor(request.n)
  BY <1>1, FlushApart DEF FlushAll
<1> QED BY <1>1, <1>2, BecomesPlaced

\* A message without text.
LEMMA SayPlaced ==
    ASSUME KnownA, request'.n = request.n, UNCHANGED m_output, NEW type \in Types,
           NEW name \in CStreams \cup {"stdin", "error", "ok"}, Say(type, name)
    PROVE  Placed'
<1>1. << >> \in Seq(Pieces)
  OBVIOUS
<1>2. [type |-> type, name |-> name, text |-> << >>] \in Messages
  BY <1>1, AllMessages DEF MessagesOf
<1>3. [type |-> type, name |-> name, text |-> << >>] \in Carriers(request.n)
  BY <1>2 DEF Carriers
<1>4. sent' \in Seq(Carriers(request.n))
  BY <1>3 DEF Say, KnownA, AInv, Placed
<1> QED BY <1>4 DEF KnownA, AInv, Placed

\* What is written to a C stream goes to its own capture.
LEMMA CapturePlaced ==
    ASSUME KnownA, NEW ch \in CStreams, CaptureText(ch, <<Piece(ch)>>),
           captures # << >>, UNCHANGED err, request'.n = request.n
    PROVE  CapturesPlaced'
<1> DEFINE C(stream, s) == [stream : {stream}, text : Seq(For(s, request.n))]
           T == [i \in 1..Len(captures) |->
                   IF captures[i].stream = ch
                   THEN [captures[i] EXCEPT !.text = @ \o <<Piece(ch)>>]
                   ELSE captures[i]]
<1>1. /\ Len(captures) = 2
      /\ captures[1] \in C("stderr", "cerr") /\ captures[2] \in C("stdout", "cout")
  BY DEF KnownA, AInv, CapturesPlaced
<1>2. ASSUME NEW s \in Streams, NEW stream, NEW c \in C(stream, s), stream = ch,
             ch \in Channels(s)
      PROVE  [c EXCEPT !.text = @ \o <<Piece(ch)>>] \in C(stream, s)
  <2>1. <<Piece(ch)>> \in Seq(For(s, request.n))
    BY <1>2, PieceFor DEF KnownA, KnownH
  <2> DEFINE t == c.text \o <<Piece(ch)>>
  <2>2. t \in Seq(For(s, request.n))
    BY <1>2, <2>1
  <2> HIDE DEF t
  <2>3. [c EXCEPT !.text = t] \in C(stream, s)
    BY <1>2, <2>2
  <2> QED BY <2>3 DEF t
<1>3. T[1] \in C("stderr", "cerr")
  <2>1. T[1] = IF captures[1].stream = ch
               THEN [captures[1] EXCEPT !.text = @ \o <<Piece(ch)>>] ELSE captures[1]
    BY <1>1
  <2>2. "cerr" \in Streams /\ "stderr" \in Channels("cerr") /\ captures[1].stream = "stderr"
    BY <1>1 DEF Streams, Channels
  <2> HIDE DEF T, C
  <2> QED BY <1>1, <1>2, <2>1, <2>2
<1>4. T[2] \in C("stdout", "cout")
  <2>1. T[2] = IF captures[2].stream = ch
               THEN [captures[2] EXCEPT !.text = @ \o <<Piece(ch)>>] ELSE captures[2]
    BY <1>1
  <2>2. "cout" \in Streams /\ "stdout" \in Channels("cout") /\ captures[2].stream = "stdout"
    BY <1>1 DEF Streams, Channels
  <2> HIDE DEF T, C
  <2> QED BY <1>1, <1>2, <2>1, <2>2
<1>5. captures' = T
  BY DEF CaptureText
<1>6. Len(T) = 2
  BY <1>1
<1> HIDE DEF T
<1> QED BY <1>3, <1>4, <1>5, <1>6 DEF KnownA, AInv, CapturesPlaced

\* Every step keeps AInv.
LEMMA NextAInv == KnownA /\ [Next]_vars => AInv'
<1> SUFFICES ASSUME KnownA, [Next]_vars PROVE AInv'
  OBVIOUS
<1> USE DEF requestVars, guardVars, workerVars, AInv
<1>s. /\ "cout" \in Streams /\ "cerr" \in Streams /\ "stderr" \in CStreams
      /\ DOMAIN m_output = Streams
  BY DEF Streams, CStreams, KnownA, KnownH, TypeOK
\* Steps of the main thread that touch neither the text nor the captures.
<1>1. ASSUME UNCHANGED <<textVars, captureVars>>, request'.n = request.n PROVE AInv'
  BY <1>1, TextKept, CapturesKept
<1>2. ASSUME Construct \/ Silence \/ Refuse \/ Extract \/ Unwind \/ IntrospectionThrows
      PROVE  AInv'
  BY <1>1, <1>2
  DEF Construct, Silence, Refuse, Extract, Unwind, IntrospectionThrows, textVars
<1>3. ASSUME NEW kind, Dispatch(kind) PROVE AInv'
  <2>1. request'.n = request.n
    BY <1>3 DEF Dispatch, KnownA, KnownH, TypeOK
  <2> QED BY <1>1, <1>3, <2>1 DEF Dispatch
\* The buffers are cleared by the destructor.
<1>4. ASSUME Destroy PROVE AInv'
  <2>1. \A s \in Streams : << >> \in Seq(For(s, request.n))
    OBVIOUS
  <2>2. Placed'
    BY <1>4, <2>1 DEF Destroy, KnownA, Placed
  <2> QED BY <1>4, <2>2, CapturesKept DEF Destroy
\* A new request finds nothing of the last one.
<1>5. ASSUME NEW silent, NEW allow, Receive(silent, allow) PROVE AInv'
  <2>1. m_output["cout"] \in Seq(Theirs) /\ m_output["cerr"] = << >>
    BY <1>5 DEF Receive, KnownA, KnownH, HInv, Settled, SettledAt
  <2>2. m_output["cout"] \in Seq(For("cout", request.n))
    BY <1>s DEF KnownA, Placed
  <2>3. ASSUME NEW j \in 1..Len(m_output["cout"])
        PROVE  m_output["cout"][j] \in For("cout", request'.n)
    <3>1. m_output["cout"][j] \in Theirs
      BY <2>1, ElementOfSeq
    <3>2. m_output["cout"][j] \in For("cout", request.n)
      BY <2>2, ElementOfSeq
    <3> QED BY <3>1, <3>2, MainAssumption DEF For, Theirs
  <2>4. m_output["cout"] \in Seq(For("cout", request'.n))
    <3>1. m_output["cout"] = [j \in 1..Len(m_output["cout"]) |-> m_output["cout"][j]]
          /\ Len(m_output["cout"]) \in Nat
      BY <2>1
    <3>2. m_output["cout"] \in [1..Len(m_output["cout"]) -> For("cout", request'.n)]
      BY <2>3, <3>1
    <3> QED BY <3>1, <3>2, SeqDef
  <2>5. << >> \in Seq(For("cerr", request'.n)) /\ << >> \in Seq(Carriers(request'.n))
    OBVIOUS
  <2>6. Placed'
    BY <1>5, <2>1, <2>4, <2>5 DEF Receive, Placed, Streams
  <2>7. captures = << >>
    BY <1>5 DEF Receive, KnownA, KnownH, RInv, CapturesOff, Capturing
  <2>8. CapturesPlaced'
    BY <1>5, <2>5, <2>7 DEF Receive, CapturesPlaced
  <2> QED BY <2>6, <2>8
\* The captures begin, the one of stderr first, and end in the same order.
<1>6. ASSUME BeginCapture PROVE AInv'
  <2>1. /\ Len(captures') = 2
        /\ captures'[1] = [stream |-> "stderr", text |-> << >>]
        /\ captures'[2] = [stream |-> "stdout", text |-> << >>]
    BY <1>6 DEF BeginCapture, CaptureOrder
  <2>2. \A s \in Streams : << >> \in Seq(For(s, request.n))
    OBVIOUS
  <2>3. CapturesPlaced'
    BY <1>6, <2>1, <2>2, <1>s DEF BeginCapture, KnownA, CapturesPlaced
  <2>4. Placed'
    BY <1>6, TextKept DEF BeginCapture
  <2> QED BY <2>3, <2>4
<1>7. ASSUME EndCapture PROVE AInv'
  <2>1. captures # << >>
    BY <1>7 DEF EndCapture, ProcessEnded, KnownA, KnownH, Progress, Capturing
  <2>2. /\ captures[1].text \in Seq(For("cerr", request.n))
        /\ captures[2].text \in Seq(For("cout", request.n))
    BY <2>1 DEF KnownA, CapturesPlaced
  <2>3. Output("cout", captures[2].text, Text) \in TextFor(request.n)
    BY <2>2, <1>s, TextPlaced, OutputApart
  <2>4. Placed'
    BY <1>7, <2>3, BecomesPlaced DEF EndCapture
  <2> QED BY <1>7, <2>2, <2>4 DEF EndCapture, CapturesPlaced
<1>8. ASSUME Report PROVE AInv'
  <2>1. err \in Seq(For("cerr", request.n))
    BY DEF KnownA, CapturesPlaced
  <2>2. Output("cerr", err, Text) \in TextFor(request.n)
    BY <2>1, <1>s, TextPlaced, OutputApart
  <2>3. Placed'
    BY <1>8, <2>2, TextPlaced, BecomesPlaced DEF Report
  <2> QED BY <1>8, <2>3, CapturesKept DEF Report
<1>9. ASSUME Flush PROVE AInv'
  BY <1>9, FlushPlaced, CapturesKept DEF Flush
\* The messages without text.
<1>10. ASSUME PublishError PROVE AInv'
  <2>1. CASE result # "ok" /\ ~ request.silent
    <3>1. "error" \in Types
      BY DEF Types
    <3> QED BY <1>10, <2>1, <3>1, SayPlaced, CapturesKept DEF PublishError
  <2>2. CASE ~ (result # "ok" /\ ~ request.silent)
    BY <1>1, <1>10, <2>2 DEF PublishError, textVars
  <2> QED BY <2>1, <2>2
<1>11. ASSUME Reply PROVE AInv'
  <2>1. "reply" \in Types /\ ReplyStatus \in CStreams \cup {"stdin", "error", "ok"}
    BY DEF Types, ReplyStatus
  <2> QED BY <1>11, <2>1, SayPlaced, CapturesKept DEF Reply
<1>12. ASSUME Ask PROVE AInv'
  <2>1. "input_request" \in Types
    BY DEF Types
  <2> QED BY <1>12, <2>1, SayPlaced, CapturesKept DEF Ask
\* The preambles.
<1>13. ASSUME NEW kind, NEW how, PreambleEnds(kind, how) PROVE AInv'
  BY <1>13, FlushPlaced, CapturesKept DEF PreambleEnds, PreambleFlush
<1>14. ASSUME NEW kind, NEW s \in Streams, PreambleWrite(kind, s) PROVE AInv'
  BY <1>14, WritePlaced, CapturesKept DEF PreambleWrite
<1>15. ASSUME NEW kind, PreambleFails(kind) PROVE AInv'
  BY <1>15, <1>s, WritePlaced, CapturesKept DEF PreambleFails
<1>16. ASSUME Kernel PROVE AInv'
  BY <1>2, <1>3, <1>6, <1>7, <1>8, <1>9, <1>10, <1>11, <1>12, <1>13, <1>15, <1>16
  DEF Kernel, ShellDone, ShellFails, MagicDone, MagicUnknown, IntrospectionFound,
      IntrospectionNotFound
\* The code of a cell: only a running one is captured.
<1>17. ASSUME pc = "run" PROVE captures # << >>
  BY <1>17 DEF KnownA, KnownH, Progress, Capturing
<1>18. ASSUME NEW s \in Streams, CellWrite(s) PROVE AInv'
  BY <1>18, WritePlaced, CapturesKept DEF CellWrite
<1>19. ASSUME NEW ch \in CStreams, CaptureText(ch, <<Piece(ch)>>), pc = "run",
              UNCHANGED <<request, err, textVars>>
       PROVE  AInv'
  BY <1>17, <1>19, CapturePlaced, TextKept
<1>20. ASSUME CellFlush \/ CellRead PROVE AInv'
  BY <1>20, FlushPlaced, CapturesKept DEF CellFlush, CellRead, Tie
<1>21. ASSUME NEW w, CellStartsThread(w) PROVE AInv'
  BY <1>1, <1>21 DEF CellStartsThread
<1>22. ASSUME Code PROVE AInv'
  BY <1>s, <1>14, <1>18, <1>19, <1>20, <1>21, <1>22
  DEF Code, ShellOutput, MagicWrite, CellPrintf
<1>23. ASSUME End PROVE AInv'
  <2>1. ASSUME CellDoesNotCompile PROVE AInv'
    BY <1>s, <1>19, <2>1 DEF CellDoesNotCompile
  <2>2. ASSUME NEW how, CellEnds(how) PROVE AInv'
    BY <1>1, <2>2 DEF CellEnds
  <2> QED BY <1>23, <2>1, <2>2 DEF End
<1>24. ASSUME Reading PROVE AInv'
  BY <1>1, <1>24 DEF Reading, Answer
<1>25. ASSUME Client PROVE AInv'
  BY <1>5, <1>25 DEF Client
\* The threads write to std::cout only.
<1>26. ASSUME NEW w \in Workers, WorkerFetch(w) \/ WorkerLoses(w) \/ WorkerCrashes(w)
       PROVE  AInv'
  BY <1>1, <1>26 DEF WorkerFetch, WorkerLoses, WorkerCrashes
<1>27. ASSUME NEW w \in Workers, WorkerPut(w) PROVE AInv'
  <2>1. WorkerPiece(w) \in Pieces
    BY WorkerPieceType DEF KnownA, KnownH
  <2>2. WorkerPiece(w) \in For("cout", request.n)
    BY <2>1, MainAssumption DEF For, WorkerPiece, Channels
  <2>3. Append(m_output["cout"], WorkerPiece(w)) \in Seq(For("cout", request.n))
    BY <1>s, <2>2 DEF KnownA, Placed
  <2>4. Placed'
    BY <1>27, <1>s, <2>3 DEF WorkerPut, KnownA, Placed
  <2> QED BY <1>27, <2>4, CapturesKept DEF WorkerPut
<1>28. ASSUME NEW w \in Workers, WorkerSync(w) PROVE AInv'
  <2>1. \A s \in Streams : << >> \in Seq(For(s, request.n))
    OBVIOUS
  <2>2. m_output["cout"] \in Seq(For("cout", request.n)) /\ m_output["cout"] \in Seq(Pieces)
    BY <1>s DEF KnownA, KnownH, TypeOK, Placed
  <2>3. StreamMessage("cout", m_output["cout"]) \in Messages
    BY <1>s, <2>2, StreamMessageType, AllMessages
  <2>4. StreamMessage("cout", m_output["cout"]) \in Carriers(request.n)
    BY <1>s, <2>2, <2>3 DEF Carriers, StreamMessage
  <2>5. sent' \in Seq(Carriers(request.n))
    <3>1. sent \in Seq(Carriers(request.n))
      BY DEF KnownA, Placed
    <3>2. Append(sent, StreamMessage("cout", m_output["cout"])) \in Seq(Carriers(request.n))
      BY <2>4, <3>1
    <3> QED BY <1>28, <3>1, <3>2 DEF WorkerSync
  <2>6. Placed'
    BY <1>28, <1>s, <2>1, <2>5 DEF WorkerSync, KnownA, Placed
  <2> QED BY <1>28, <2>6, CapturesKept DEF WorkerSync
<1>29. ASSUME UNCHANGED vars PROVE AInv'
  BY <1>1, <1>29 DEF vars
<1> QED
  BY <1>4, <1>16, <1>22, <1>23, <1>24, <1>25, <1>26, <1>27, <1>28, <1>29
  DEF Next, Threads

\* The invariants of this part hold.
LEMMA ApartHold == Spec => [](HInv /\ AInv)
<1>1. KnownH => HInv
  BY DEF KnownH
<1>2. KnownH /\ AInv /\ [Next]_vars => AInv'
  BY NextAInv DEF KnownA
<1> QED BY <1>1, <1>2, HeldHold, InitAInv, PTL DEF Spec

\* A message of one stream carries only what was written to that stream, in C++ or in C,
\* whichever threads flush it (the callbacks of the constructor, the captures' order).
THEOREM StreamsKeptApart == Spec => []StreamsApart
<1>1. HInv /\ AInv => StreamsApart
  BY AInvImplies
<1> QED BY <1>1, ApartHold, PTL

\* No request hears text of the main thread for another one, and none leaves any behind,
\* also when it throws, is silent, or ends without a reply (the flushes before the reply).
THEOREM RequestsKeptApart == Spec => []NothingCarriedOver
<1>1. HInv /\ AInv => NothingCarriedOver
  BY AInvImplies
<1> QED BY <1>1, ApartHold, PTL

-----------------------------------------------------------------------------
(* The interpreter implements ExecuteService.                              *)

\* The guarded steps are those of C++ code, the preambles those of other requests: an
\* error that was broadcast is then told from one that only the reply reports.  What
\* threw is not replied to.
KInv ==
    /\ pc \in (Guarded \ {"reply", "unwind"}) \cup {"silence"} => request.kind = "code"
    /\ pc = "preamble" => request.kind # "code"
    /\ result = "thrown" => pc \in {"unwind", "idle", "stopped", "crashed"}

\* What the steps of the refinement may assume.
KnownK == TypeOK /\ Progress /\ WInv /\ KInv

\* Every step keeps KInv.
LEMMA NextKInv == TypeOK /\ KInv /\ [Next]_vars => KInv'
<1> SUFFICES ASSUME TypeOK, KInv, [Next]_vars PROVE KInv'
  OBVIOUS
<1> USE DEF KInv, Guarded, requestVars
<1>1. ASSUME NEW kind, Dispatch(kind) PROVE KInv'
  BY <1>1 DEF Dispatch, TypeOK
<1>2. ASSUME Construct \/ Silence \/ BeginCapture \/ Ask \/ Refuse \/ Extract \/ EndCapture
             \/ Report \/ Flush \/ PublishError \/ Reply \/ Unwind \/ IntrospectionThrows
             \/ Destroy
      PROVE  KInv'
  <2>1. CASE Construct \/ Silence \/ BeginCapture \/ Ask \/ Refuse \/ Extract \/ EndCapture
    BY <2>1 DEF Construct, Silence, BeginCapture, Ask, Refuse, Extract, EndCapture,
                ProcessEnded
  <2>2. CASE Report \/ Flush \/ PublishError \/ Reply
    BY <2>2 DEF Report, Flush, PublishError, Reply
  <2>3. CASE Unwind \/ IntrospectionThrows \/ Destroy
    BY <2>3 DEF Unwind, IntrospectionThrows, Destroy
  <2> QED BY <1>2, <2>1, <2>2, <2>3
<1>3. ASSUME NEW kind, NEW how \in {"ok", "error"}, PreambleEnds(kind, how) PROVE KInv'
  BY <1>3 DEF PreambleEnds
<1>4. ASSUME NEW kind, NEW s, PreambleWrite(kind, s) PROVE KInv'
  BY <1>4 DEF PreambleWrite
<1>5. ASSUME NEW kind, PreambleFails(kind) PROVE KInv'
  BY <1>5 DEF PreambleFails
<1>6. ASSUME Kernel PROVE KInv'
  BY <1>1, <1>2, <1>3, <1>5, <1>6
  DEF Kernel, ShellDone, ShellFails, MagicDone, MagicUnknown, IntrospectionFound,
      IntrospectionNotFound
<1>7. ASSUME Code PROVE KInv'
  <2>1. ASSUME NEW s, CellWrite(s) PROVE KInv'
    BY <2>1 DEF CellWrite
  <2>2. ASSUME NEW ch, CellPrintf(ch) PROVE KInv'
    BY <2>2 DEF CellPrintf
  <2>3. ASSUME NEW w, CellStartsThread(w) PROVE KInv'
    BY <2>3 DEF CellStartsThread
  <2>4. ASSUME CellFlush \/ CellRead PROVE KInv'
    BY <2>4 DEF CellFlush, CellRead
  <2> QED BY <1>4, <1>7, <2>1, <2>2, <2>3, <2>4 DEF Code, ShellOutput, MagicWrite
<1>8. ASSUME End \/ Reading \/ Client PROVE KInv'
  BY <1>8 DEF End, CellDoesNotCompile, CellEnds, Reading, Answer, Client, Receive
<1>9. ASSUME Threads PROVE KInv'
  BY <1>9 DEF Threads, WorkerFetch, WorkerPut, WorkerSync, WorkerLoses, WorkerCrashes,
              Returned
<1>10. ASSUME UNCHANGED vars PROVE KInv'
  BY <1>10 DEF vars
<1> QED
  BY <1>2, <1>6, <1>7, <1>8, <1>9, <1>10 DEF Next

\* More messages, and these are of streams.
MoreText(q) ==
    /\ q \in Seq(Messages)
    /\ Len(sent) <= Len(q)
    /\ \A i \in 1..Len(sent) : q[i] = sent[i]
    /\ \A i \in (Len(sent) + 1)..Len(q) : q[i].type = "stream"

\* Text with its type, of which the messages are those sent and more of streams.
MoreIn == {o \in TextOf(Types, Pieces) : MoreText(o.out)}

\* One message more of a stream.
LEMMA MoreAppend ==
    ASSUME TypeOK, NEW q, MoreText(q), NEW m \in Messages, m.type = "stream"
    PROVE  MoreText(Append(q, m))
<1>1. sent \in Seq(Messages) /\ q \in Seq(Messages)
  BY DEF TypeOK, MoreText
<1>2. /\ Append(q, m) \in Seq(Messages) /\ Len(Append(q, m)) = Len(q) + 1
      /\ \A i \in 1..Len(q) : Append(q, m)[i] = q[i]
      /\ Append(q, m)[Len(q) + 1] = m
  BY <1>1
<1> QED BY <1>1, <1>2 DEF MoreText

\* A flush sends a message of its stream, if any.
LEMMA MoreFlush ==
    ASSUME TypeOK, NEW s \in Streams, NEW o \in MoreIn
    PROVE  FlushStream(s, o) \in MoreIn
<1>1. FlushStream(s, o) \in TextOf(Types, Pieces)
  BY FlushStreamType, AllMessages DEF MoreIn
<1>2. CASE rdbuf[s] = "buffer" /\ o.pending[s] # << >>
  <2>1. StreamMessage(s, o.pending[s]) \in Messages
    BY StreamMessageType, AllMessages DEF MoreIn, TextOf
  <2>2. StreamMessage(s, o.pending[s]).type = "stream"
    BY DEF StreamMessage
  <2>3. MoreText(Append(o.out, StreamMessage(s, o.pending[s])))
    BY <2>1, <2>2, MoreAppend DEF MoreIn
  <2>4. FlushStream(s, o).out = Append(o.out, StreamMessage(s, o.pending[s]))
    BY <1>2 DEF FlushStream
  <2> QED BY <1>1, <2>3, <2>4 DEF MoreIn
<1> QED BY <1>2 DEF FlushStream

\* A write sends the messages of the flushes it causes.
LEMMA MoreOutput ==
    ASSUME TypeOK, NEW s \in Streams, NEW o \in MoreIn, NEW text \in Seq(Pieces)
    PROVE  Output(s, text, o) \in MoreIn
<1> "cout" \in Streams /\ "cerr" \in Streams /\ Streams = {"cout", "cerr"}
  BY DEF Streams
<1>1. ASSUME NEW t \in Streams, NEW p \in MoreIn PROVE Insert(t, text, p) \in MoreIn
  <2>1. Insert(t, text, p) \in TextOf(Types, Pieces)
    BY <1>1, InsertType, AllMessages DEF MoreIn
  <2>2. Insert(t, text, p).out = p.out
    BY DEF Insert
  <2> QED BY <2>1, <2>2 DEF MoreIn
<1>2. CASE s = "cout"
  BY <1>1, <1>2 DEF Output
<1>3. CASE s = "cerr"
  <2>1. Tie(o) \in MoreIn
    BY MoreFlush DEF Tie
  <2>2. Insert("cerr", text, Tie(o)) \in MoreIn
    BY <1>1, <2>1
  <2> QED BY <1>3, <2>2, MoreFlush DEF Output
<1> QED BY <1>2, <1>3

\* The text before a step.
LEMMA MoreNow == ASSUME TypeOK PROVE Text \in MoreIn
<1>1. Text \in TextOf(Types, Pieces)
  BY TextType, AllMessages DEF TypeOK
<1>2. MoreText(sent)
  BY DEF MoreText, TypeOK
<1> QED BY <1>1, <1>2 DEF MoreIn, Text

\* What the service calls stream messages.
LEMMA MoreStream == ASSUME TypeOK, MoreText(sent') PROVE Service!Stream
<1>1. sent \in Seq(Messages) /\ sent' \in Seq(Messages) /\ Len(sent) <= Len(sent')
  BY DEF TypeOK, MoreText
<1>2. SubSeq(sent', 1, Len(sent)) \in Seq(Messages)
      /\ Len(SubSeq(sent', 1, Len(sent))) = Len(sent)
      /\ \A i \in 1..Len(sent) : SubSeq(sent', 1, Len(sent))[i] = sent'[i]
  BY <1>1, SubSeqProperties
<1>3. SubSeq(sent', 1, Len(sent)) = sent
  BY <1>1, <1>2, SeqEqual DEF MoreText
<1> QED BY <1>1, <1>3 DEF Service!Stream, MoreText

\* A step that sends text of streams, or nothing, is a Text or a stutter of the service.
LEMMA TextImplements ==
    ASSUME TypeOK, MoreText(sent'), Phase' = Phase,
           request'.silent = request.silent, request'.allow = request.allow,
           sent' # sent => Phase \notin {"start", "stopped", "crashed"}
    PROVE  [Service!Next]_(Service!vars)
<1>1. CASE sent' = sent
  BY <1>1 DEF Service!vars
<1>2. CASE sent' # sent
  BY <1>2, MoreStream DEF Service!Next, Service!Text, Service!Same
<1> QED BY <1>1, <1>2

\* The phase at each place of the main thread.
Ended == {"captured", "report", "flush", "publish", "reply"}
Published == pc = "reply" /\ Outcome = "failed" /\ ~ request.silent
Threw == result = "thrown" /\ request.kind = "introspection"
LEMMA PhaseIs ==
    /\ pc \in {"start", "idle", "stopped", "crashed"} => Phase = pc
    /\ pc \in Handling => Phase = "busy"
    /\ pc = "input" => Phase = "waiting"
    /\ pc = "unwind" => Phase = IF Threw THEN "thrown" ELSE "done"
    /\ pc \in Ended => Phase = IF Published THEN "published" ELSE Outcome
BY DEF Phase, Handling, Ended, Published, Threw

\* The phase after a step.
LEMMA PhaseNext ==
    /\ pc' \in {"start", "idle", "stopped", "crashed"} => Phase' = pc'
    /\ pc' \in Handling => Phase' = "busy"
    /\ pc' = "input" => Phase' = "waiting"
    /\ pc' = "unwind" => Phase' = IF Threw' THEN "thrown" ELSE "done"
    /\ pc' \in Ended => Phase' = IF Published' THEN "published" ELSE Outcome'
BY DEF Phase, Handling, Ended, Published, Threw

\* The outcome of code, and of another request.
LEMMA OutcomeIs ==
    /\ Outcome \in Service!Outcomes /\ Outcome' \in Service!Outcomes
    /\ (result = "ok") = (Outcome = "succeeded")
    /\ result # "ok" => Outcome = IF request.kind = "code" THEN "failed" ELSE "refused"
BY DEF Outcome, Service!Outcomes

\* A step inside a request, before it ends, that sends text or nothing.
LEMMA BusyImplements ==
    ASSUME TypeOK, MoreText(sent'), pc \in Handling, pc' \in Handling,
           request'.silent = request.silent, request'.allow = request.allow
    PROVE  [Service!Next]_(Service!vars)
<1>1. Phase = "busy" /\ Phase' = "busy"
  BY PhaseIs, PhaseNext
<1> QED BY <1>1, TextImplements

\* A step after its code has ended, and before its reply.
LEMMA EndedImplements ==
    ASSUME TypeOK, MoreText(sent'), pc \in Ended \ {"reply"}, pc' \in Ended,
           pc' = "reply" => ~ Published', UNCHANGED <<request, result>>
    PROVE  [Service!Next]_(Service!vars)
<1>1. Outcome' = Outcome /\ ~ Published
  BY DEF Outcome, Published
<1>2. ~ Published'
  BY DEF Published
<1>3. Phase = Outcome /\ Phase' = Outcome
  BY <1>1, <1>2, PhaseIs, PhaseNext
<1>4. Phase \notin {"start", "stopped", "crashed"}
  BY <1>3, OutcomeIs DEF Service!Outcomes
<1> QED BY <1>3, <1>4, TextImplements

\* The step that ends it, and sends text or nothing.
LEMMA EndImplements ==
    ASSUME TypeOK, MoreText(sent'), pc \in Handling, UNCHANGED request,
           \/ pc' \in Ended /\ ~ Published'
           \/ pc' = "unwind" /\ Threw'
    PROVE  [Service!Next]_(Service!vars)
<1>1. Phase = "busy" /\ Phase' \in Service!Outcomes
  BY PhaseIs, PhaseNext, OutcomeIs DEF Service!Outcomes
<1>2. PICK outcome \in Service!Outcomes : Phase' = outcome
  BY <1>1
<1>3. Service!Stream
  BY MoreStream
<1>4. Service!End(outcome)
  BY <1>1, <1>2, <1>3 DEF Service!End, Service!Move, Service!Same
<1> QED BY <1>4 DEF Service!Next

\* A step that sends nothing.
LEMMA TextUnchanged == ASSUME TypeOK, UNCHANGED sent PROVE MoreText(sent')
BY DEF TypeOK, MoreText

\* A write of the request to a C++ stream sends text, if it sends any message.
LEMMA MoreWrite == ASSUME TypeOK, NEW s \in Streams, Write(s) PROVE MoreText(sent')
<1>1. <<Piece(s)>> \in Seq(Pieces)
  <2>1. Piece(s) \in Pieces
    BY PieceType
  <2> QED BY <2>1
<1>2. Output(s, <<Piece(s)>>, Text) \in MoreIn
  BY <1>1, MoreNow, MoreOutput
<1> QED BY <1>2 DEF Write, TextBecomes, MoreIn

\* So does a flush.
LEMMA MoreFlushes ==
    ASSUME TypeOK, NEW o \in {FlushStream("cout", Text), FlushAll(Text), Text}, TextBecomes(o)
    PROVE  MoreText(sent')
<1> "cout" \in Streams /\ "cerr" \in Streams
  BY DEF Streams
<1>1. FlushStream("cout", Text) \in MoreIn
  BY MoreNow, MoreFlush
<1>2. FlushAll(Text) \in MoreIn
  BY <1>1, MoreFlush DEF FlushAll
<1> QED BY <1>1, <1>2, MoreNow DEF TextBecomes, MoreIn

\* So do the end of the captures and the report of a diagnostic.
LEMMA MoreCaptured == ASSUME TypeOK, Progress, EndCapture \/ Report PROVE MoreText(sent')
<1> "cout" \in Streams /\ "cerr" \in Streams
  BY DEF Streams
<1>1. CASE EndCapture
  <2>1. captures \in Seq([stream : CStreams, text : Seq(Pieces)]) /\ Len(captures) = 2
    BY <1>1 DEF EndCapture, ProcessEnded, Progress, Capturing, TypeOK
  <2>2. 2 \in 1..Len(captures)
    BY <2>1
  <2>3. captures[2] \in [stream : CStreams, text : Seq(Pieces)]
    BY <2>1, <2>2, ElementOfSeq
  <2>4. captures[2].text \in Seq(Pieces)
    BY <2>3
  <2> QED BY <1>1, <2>4, MoreNow, MoreOutput DEF EndCapture, TextBecomes, MoreIn
<1>2. CASE Report
  <2>1. Output("cerr", err, Text) \in MoreIn
    BY MoreNow, MoreOutput DEF TypeOK
  <2> QED BY <1>2, <2>1, MoreNow DEF Report, TextBecomes, MoreIn
<1> QED BY <1>1, <1>2

\* So does the flush of a thread.
LEMMA MoreSync == ASSUME TypeOK, NEW w \in Workers, WorkerSync(w) PROVE MoreText(sent')
<1>1. m_output["cout"] \in Seq(Pieces) /\ "cout" \in Streams
  BY DEF TypeOK, Streams
<1>2. StreamMessage("cout", m_output["cout"]) \in Messages
  BY <1>1, StreamMessageType, AllMessages
<1>3. StreamMessage("cout", m_output["cout"]).type = "stream"
  BY DEF StreamMessage
<1>4. MoreText(sent)
  BY DEF TypeOK, MoreText
<1> QED BY <1>2, <1>3, <1>4, MoreAppend DEF WorkerSync

\* Every step of the interpreter is one of the service, or a stutter.
LEMMA NextService == KnownK /\ [Next]_vars => [Service!Next]_(Service!vars)
<1> DEFINE Goal == [Service!Next]_(Service!vars)
<1> SUFFICES ASSUME KnownK, [Next]_vars PROVE Goal
  OBVIOUS
<1> HIDE DEF Goal
<1> USE DEF requestVars, textVars
<1>s. "cout" \in Streams /\ "cerr" \in Streams
  BY DEF Streams
<1>t. TypeOK /\ Progress /\ WInv /\ KInv
  BY DEF KnownK
<1>b. Handling = {"dispatch", "preamble", "silence", "begin", "run", "read", "extract"}
      /\ Ended = {"captured", "report", "flush", "publish", "reply"}
  BY DEF Handling, Ended
\* The life of the interpreter.
<1>1. ASSUME Construct PROVE Goal
  BY <1>1, PhaseIs, PhaseNext
  DEF Construct, Goal, Service!Next, Service!Start, Service!Move, Service!Same
<1>2. ASSUME Destroy PROVE Goal
  BY <1>2, PhaseIs, PhaseNext
  DEF Destroy, Goal, Service!Next, Service!Stop, Service!Move, Service!Same
<1>3. ASSUME NEW silent \in BOOLEAN, NEW allow \in BOOLEAN, Receive(silent, allow)
      PROVE  Goal
  <2>1. Phase = "idle" /\ Phase' = "busy"
    BY <1>3, <1>b, PhaseIs, PhaseNext DEF Receive
  <2>2. Service!Receive(silent, allow)
    BY <1>3, <2>1 DEF Receive, Service!Receive, Service!Move
  <2> QED BY <2>2 DEF Goal, Service!Next
<1>4. ASSUME Unwind PROVE Goal
  BY <1>4, PhaseIs, PhaseNext
  DEF Unwind, Goal, Service!Next, Service!Finish, Service!Move, Service!Same
<1>5. ASSUME IntrospectionThrows PROVE Goal
  <2>1. pc \in Handling /\ pc' = "unwind" /\ UNCHANGED <<request, sent>> /\ Threw'
    BY <1>5, <1>b DEF IntrospectionThrows, Threw
  <2> QED BY <1>t, <2>1, TextUnchanged, EndImplements DEF Goal
\* The steps that send nothing, and those that send text.
<1>6. ASSUME NEW kind, Dispatch(kind) PROVE Goal
  <2>1. request'.silent = request.silent /\ request'.allow = request.allow
    BY <1>6, <1>t DEF Dispatch, TypeOK
  <2>2. pc \in Handling /\ pc' \in Handling
    BY <1>6, <1>b DEF Dispatch
  <2>3. MoreText(sent')
    BY <1>6, <1>t, TextUnchanged DEF Dispatch
  <2> QED BY <1>t, <2>1, <2>2, <2>3, BusyImplements DEF Goal
<1>7. ASSUME Silence \/ BeginCapture \/ Refuse \/ Extract PROVE Goal
  <2>1. pc \in Handling /\ pc' \in Handling
    BY <1>7, <1>b DEF Silence, BeginCapture, Refuse, Extract
  <2>2. UNCHANGED <<request, sent>>
    BY <1>7 DEF Silence, BeginCapture, Refuse, Extract, Input!Refuse, Input!Extract
  <2> QED BY <1>t, <2>1, <2>2, TextUnchanged, BusyImplements DEF Goal
<1>8. ASSUME EndCapture PROVE Goal
  BY <1>8, <1>b, <1>t, MoreCaptured, EndedImplements DEF EndCapture, ProcessEnded, Goal
<1>9. ASSUME Report PROVE Goal
  BY <1>9, <1>b, <1>t, MoreCaptured, EndedImplements DEF Report, Goal
<1>10. ASSUME Flush PROVE Goal
  <2>1. MoreText(sent')
    BY <1>10, <1>t, MoreFlushes DEF Flush
  <2> QED BY <1>10, <1>b, <1>t, <2>1, EndedImplements DEF Flush, Goal
\* The error, which is broadcast for C++ code only.
<1>11. ASSUME PublishError PROVE Goal
  <2>1. pc = "publish" /\ pc' = "reply" /\ UNCHANGED <<request, result>>
        /\ request.kind = "code"
    BY <1>11, <1>t DEF PublishError, KInv, Guarded
  <2>2. Phase = Outcome /\ Outcome' = Outcome
    BY <2>1, <1>b, PhaseIs DEF Published, Outcome
  <2>3. CASE result # "ok" /\ ~ request.silent
    <3>1. Phase = "failed" /\ Phase' = "published"
      BY <2>1, <2>2, <2>3, <1>b, OutcomeIs, PhaseNext DEF Published
    <3>2. Service!PublishError
      BY <1>11, <2>1, <2>3, <3>1
      DEF PublishError, Say, Service!PublishError, Service!Move, Service!Say,
          Service!Message, Service!Same
    <3> QED BY <3>2 DEF Goal, Service!Next
  <2>4. CASE ~ (result # "ok" /\ ~ request.silent)
    <3>1. UNCHANGED sent /\ ~ Published'
      BY <1>11, <2>1, <2>2, <2>4, OutcomeIs DEF PublishError, Published
    <3> QED BY <1>b, <1>t, <2>1, <3>1, TextUnchanged, EndedImplements DEF Goal
  <2> QED BY <2>3, <2>4
<1>12. ASSUME Reply PROVE Goal
  <2>1. /\ pc = "reply" /\ pc' = "unwind" /\ UNCHANGED <<request, result>>
        /\ sent' = Append(sent, Service!Message("reply", ReplyStatus))
    BY <1>12 DEF Reply, Say, Service!Message
  <2>2. Phase' = "done"
    BY <2>1, <1>t, PhaseNext DEF Threw, KInv
  <2>3. CASE result = "ok"
    <3>1. Phase = "succeeded" /\ ReplyStatus = "ok"
      BY <2>1, <2>3, <1>b, OutcomeIs, PhaseIs DEF Published, ReplyStatus
    <3>2. Service!ReplyOk
      BY <2>1, <2>2, <3>1 DEF Service!ReplyOk, Service!Move, Service!Say, Service!Same
    <3> QED BY <3>2 DEF Goal, Service!Next
  <2>4. CASE result # "ok"
    <3>1. /\ Phase \in {"refused", "published"} \cup IF request.silent THEN {"failed"} ELSE {}
          /\ ReplyStatus = "error"
      BY <2>1, <2>4, <1>b, OutcomeIs, PhaseIs DEF Published, ReplyStatus
    <3>2. Service!ReplyError
      BY <2>1, <2>2, <3>1 DEF Service!ReplyError, Service!Move, Service!Say, Service!Same
    <3> QED BY <3>2 DEF Goal, Service!Next
  <2> QED BY <2>3, <2>4
\* The reads.
<1>13. ASSUME Ask PROVE Goal
  <2>1. Phase = "busy" /\ Phase' = "waiting"
    BY <1>13, <1>b, PhaseIs, PhaseNext DEF Ask
  <2>2. Service!Ask
    BY <1>13, <2>1
    DEF Ask, InputAllowed, Say, Service!Ask, Service!Move, Service!Say, Service!Message,
        Service!Same
  <2> QED BY <2>2 DEF Goal, Service!Next
<1>14. ASSUME NEW length, Answer(length) PROVE Goal
  <2>1. Phase = "waiting" /\ Phase' = "busy"
    BY <1>14, <1>b, PhaseIs, PhaseNext DEF Answer
  <2> QED BY <1>14, <2>1
    DEF Answer, Goal, Service!Next, Service!Answered, Service!Move, Service!Same
\* The preambles.
<1>15. ASSUME NEW kind \in Kinds, NEW how, PreambleEnds(kind, how) PROVE Goal
  <2>1. MoreText(sent')
    BY <1>15, <1>t, MoreFlushes DEF PreambleEnds, PreambleFlush
  <2>2. pc \in Handling /\ request.kind # "code" /\ pc' \in Ended /\ UNCHANGED request
    BY <1>15, <1>b, <1>t DEF PreambleEnds, KInv
  <2>3. ~ Published'
    BY <2>2 DEF Published, Outcome
  <2> QED BY <1>t, <2>1, <2>2, <2>3, EndImplements DEF Goal
<1>16. ASSUME NEW kind, NEW s \in Streams, PreambleWrite(kind, s) PROVE Goal
  <2>1. MoreText(sent')
    BY <1>16, <1>t, MoreWrite DEF PreambleWrite
  <2> QED BY <1>16, <1>b, <1>t, <2>1, BusyImplements DEF PreambleWrite, Goal
<1>17. ASSUME NEW kind, PreambleFails(kind) PROVE Goal
  <2>1. MoreText(sent')
    BY <1>17, <1>s, <1>t, MoreWrite DEF PreambleFails
  <2>2. pc \in Handling /\ request.kind # "code" /\ pc' \in Ended /\ UNCHANGED request
    BY <1>17, <1>b, <1>t DEF PreambleFails, KInv
  <2>3. ~ Published'
    BY <2>2 DEF Published, Outcome
  <2> QED BY <1>t, <2>1, <2>2, <2>3, EndImplements DEF Goal
<1>18. ASSUME Kernel PROVE Goal
  BY <1>1, <1>4, <1>5, <1>6, <1>7, <1>8, <1>9, <1>10, <1>11, <1>12, <1>13, <1>15, <1>17,
     <1>18
  DEF Kernel, ShellDone, ShellFails, MagicDone, MagicUnknown, IntrospectionFound,
      IntrospectionNotFound, Kinds
\* The code of a cell.
<1>19. ASSUME NEW s \in Streams, CellWrite(s) PROVE Goal
  <2>1. MoreText(sent')
    BY <1>19, <1>t, MoreWrite DEF CellWrite
  <2> QED BY <1>19, <1>b, <1>t, <2>1, BusyImplements DEF CellWrite, Goal
<1>20. ASSUME CellFlush \/ CellRead PROVE Goal
  <2>1. MoreText(sent')
    BY <1>20, <1>t, MoreFlushes DEF CellFlush, CellRead, Tie
  <2> QED BY <1>20, <1>b, <1>t, <2>1, BusyImplements DEF CellFlush, CellRead, Goal
<1>21. ASSUME pc = "run", pc' = "run", UNCHANGED <<request, sent>> PROVE Goal
  BY <1>21, <1>b, <1>t, TextUnchanged, BusyImplements DEF Goal
<1>22. ASSUME Code PROVE Goal
  BY <1>s, <1>16, <1>19, <1>20, <1>21, <1>22
  DEF Code, ShellOutput, MagicWrite, CellPrintf, CellStartsThread
<1>23. ASSUME End PROVE Goal
  <2>1. pc \in Handling /\ pc' = "captured" /\ UNCHANGED <<request, sent>>
    BY <1>23, <1>b DEF End, CellDoesNotCompile, CellEnds
  <2>2. pc' \in Ended /\ ~ Published'
    BY <2>1, <1>b DEF Published
  <2> QED BY <1>t, <2>1, <2>2, TextUnchanged, EndImplements DEF Goal
\* The threads: a flush of theirs may come in any phase of a living interpreter.
<1>24. ASSUME UNCHANGED <<pc, request, result>>, MoreText(sent'),
              sent' # sent => pc \notin {"start", "stopped", "crashed"}
       PROVE  Goal
  <2>1. Phase' = Phase
    BY <1>24 DEF Phase, Outcome
  <2>2. pc \notin {"start", "stopped", "crashed"} => Phase \notin {"start", "stopped", "crashed"}
    BY DEF Phase, Outcome
  <2> QED BY <1>24, <1>t, <2>1, <2>2, TextImplements DEF Goal
<1>25. ASSUME NEW w \in Workers, WorkerFetch(w) \/ WorkerPut(w) \/ WorkerLoses(w)
       PROVE  Goal
  BY <1>24, <1>25, <1>t, TextUnchanged DEF WorkerFetch, WorkerPut, WorkerLoses, Returned
<1>26. ASSUME NEW w \in Workers, WorkerSync(w) PROVE Goal
  <2>1. pc \notin {"start", "stopped", "crashed"}
    BY <1>26, <1>t DEF WorkerSync, Returned, WInv
  <2> QED BY <1>24, <1>26, <1>t, <2>1, MoreSync DEF WorkerSync, Returned
<1>27. ASSUME NEW w \in Workers, WorkerCrashes(w) PROVE Goal
  BY <1>27, PhaseNext
  DEF WorkerCrashes, Goal, Service!Next, Service!Crash, Service!Same
<1>28. ASSUME UNCHANGED vars PROVE Goal
  BY <1>28 DEF vars, Goal, Service!vars, Phase, Outcome
<1> QED
  BY <1>2, <1>3, <1>14, <1>18, <1>22, <1>23, <1>25, <1>26, <1>27, <1>28
  DEF Next, Threads, Client, Reading

\* The interpreter with its streams, guards and threads implements the service that a
\* client sees: input is asked for only where it is allowed; the failure of code that is
\* not silent is broadcast once, before the reply, and nothing else is; the one reply
\* says whether the request succeeded, and is missing only after an inspection threw.
THEOREM OffersService == Spec => ImplementsService
<1>1. Spec => [](TypeOK /\ Progress)
  BY TypesHold
<1>2. Spec => []RInv
  BY InitRInv, NextRInv, PTL DEF Spec
<1>3. Spec => []WInv
  BY <1>1, <1>2, InitWInv, NextWInv, PTL DEF Spec
<1>4. Init => KInv
  BY DEF Init, KInv, Guarded
<1>5. Spec => []KInv
  BY <1>1, <1>4, NextKInv, PTL DEF Spec
<1>6. Init => Service!Init
  <2>1. Init => Phase = "start"
    BY PhaseIs DEF Init
  <2> QED BY <2>1 DEF Init, Service!Init
<1>7. TypeOK /\ Progress /\ WInv /\ KInv => KnownK
  BY DEF KnownK
<1> QED
  BY <1>1, <1>3, <1>5, <1>6, <1>7, NextService, PTL DEF Spec, ImplementsService, Service!Spec
=============================================================================
