-------------------------- MODULE Interpreter_order ---------------------------
(***************************************************************************)
(* What a request writes is heard before its reply (OutputBeforeReply) and *)
(* before it asks for input (PromptShown), in its order and once           *)
(* (ProgramOrder), whatever threads write and flush in between.  For any   *)
(* number of requests, statements, workers and worker calls.               *)
(***************************************************************************)
EXTENDS Interpreter_streams

\* Where text may be: message after message, and then the buffer of std::cout, which is
\* the next message.  A flush moves no text, in these terms.
TextAt(o, i) == IF i <= Len(o.out) THEN o.out[i].text ELSE o.pending["cout"]
Places(o) == UNION {{i} \X (1..Len(TextAt(o, i))) : i \in 1..(Len(o.out) + 1)}

\* The text of the request, at its places: what the client has heard or is to hear of it.
Log(o) == [s \in {s \in Places(o) : TextAt(o, s[1])[s[2]].by = Main} |->
             TextAt(o, s[1])[s[2]]]

\* What is heard or to be heard is among the pieces w that were written, once each and in
\* order.
InOrder(log, w) ==
    /\ \A s \in DOMAIN log : \E m \in 1..Len(w) : log[s] = w[m]
    /\ \A s, t \in DOMAIN log :
          Before(s, t) => log[s] # log[t] /\ ~ Precedes(log[t], log[s])

\* All that was written to ch is heard or to be heard.
Shown(log, ch, w) ==
    \A m \in 1..Len(w) : w[m].ch = ch => \E s \in DOMAIN log : log[s] = w[m]

\* A text is all that was written to a C stream, in order.
Gathers(text, ch, w) ==
    /\ \A j \in 1..Len(text) : /\ text[j].n \in 1..Len(w)
                               /\ text[j] = w[text[j].n]
                               /\ text[j].ch = ch
    /\ \A j, l \in 1..Len(text) : j < l => text[j].n < text[l].n
    /\ \A m \in 1..Len(w) : w[m].ch = ch => \E j \in 1..Len(text) : text[j] = w[m]

-----------------------------------------------------------------------------
(* What a request has written, and what the captures hold of it.           *)

\* The pieces of a request are its own and numbered; there are none before its code runs.
Unwritten == {"dispatch", "silence", "begin"}
BeforeEnd == Unwritten \cup {"preamble", "run", "read", "input", "extract"}
Numbered ==
    /\ \A m \in 1..Len(wrote) :
          wrote[m].n = m /\ wrote[m].by = Main /\ wrote[m].silent = SilentCell
    /\ pc \in Unwritten \/ (pc \in BeforeEnd /\ steps = 0) => wrote = << >>
    /\ pc = "preamble" => \A m \in 1..Len(wrote) : wrote[m].ch \in Streams

\* The captures hold what was written to their streams, and err what was captured last.
Captured ==
    /\ pc \in Capturing => /\ Gathers(captures[1].text, "stderr", wrote)
                           /\ Gathers(captures[2].text, "stdout", wrote)
    /\ pc = "report" => Gathers(err, "stderr", wrote)

CInv == Numbered /\ Captured

\* CInv holds when the process starts.
LEMMA InitCInv == Init => CInv
BY DEF Init, CInv, Numbered, Captured, Unwritten, BeforeEnd, Capturing

\* One piece more is written, to another stream.
LEMMA GathersOthers ==
    ASSUME NEW w \in Seq(Pieces), NEW p \in Pieces, NEW text, NEW ch,
           Gathers(text, ch, w), p.ch # ch
    PROVE  Gathers(text, ch, Append(w, p))
<1>1. Len(Append(w, p)) = Len(w) + 1 /\ Append(w, p)[Len(w) + 1] = p
      /\ \A m \in 1..Len(w) : Append(w, p)[m] = w[m]
  OBVIOUS
<1>2. Len(w) \in Nat
  OBVIOUS
<1> QED BY <1>1, <1>2 DEF Gathers

\* One piece more is written, and captured.
LEMMA GathersOne ==
    ASSUME NEW w \in Seq(Pieces), NEW p \in Pieces, NEW text \in Seq(Pieces),
           Gathers(text, p.ch, w), p.n = Len(w) + 1
    PROVE  Gathers(text \o <<p>>, p.ch, Append(w, p))
<1> DEFINE u == text \o <<p>>
           v == Append(w, p)
<1>1. Len(v) = Len(w) + 1 /\ v[Len(w) + 1] = p /\ \A m \in 1..Len(w) : v[m] = w[m]
  OBVIOUS
<1>2. Len(u) = Len(text) + 1 /\ u[Len(text) + 1] = p /\ \A m \in 1..Len(text) : u[m] = text[m]
  OBVIOUS
<1>3. Len(w) \in Nat /\ Len(text) \in Nat
  OBVIOUS
<1> HIDE DEF u, v
<1>4. ASSUME NEW j \in 1..Len(u)
      PROVE  /\ u[j].n \in 1..Len(v) /\ u[j] = v[u[j].n] /\ u[j].ch = p.ch
             /\ j \in 1..Len(text) => u[j].n \in 1..Len(w)
  <2>1. CASE j \in 1..Len(text)
    <3>1. u[j] = text[j] /\ text[j].n \in 1..Len(w) /\ text[j] = w[text[j].n]
          /\ text[j].ch = p.ch
      BY <1>2, <2>1 DEF Gathers
    <3> QED BY <1>1, <1>3, <3>1
  <2>2. CASE j = Len(text) + 1
    <3>1. u[j] = p /\ p.n = Len(w) + 1
      BY <1>2, <2>2
    <3> QED BY <1>1, <1>3, <2>2, <3>1
  <2> QED BY <1>2, <1>3, <2>1, <2>2
<1>5. \A j, l \in 1..Len(u) : j < l => u[j].n < u[l].n
  <2> SUFFICES ASSUME NEW j \in 1..Len(u), NEW l \in 1..Len(u), j < l
               PROVE  u[j].n < u[l].n
    OBVIOUS
  <2>1. j \in 1..Len(text) /\ u[j] = text[j]
    BY <1>2, <1>3
  <2>2. u[j].n \in 1..Len(w)
    BY <1>4, <2>1
  <2>3. CASE l \in 1..Len(text)
    BY <1>2, <2>1, <2>3 DEF Gathers
  <2>4. CASE l = Len(text) + 1
    <3>1. u[l].n = Len(w) + 1
      BY <1>2, <2>4
    <3> QED BY <1>3, <2>2, <3>1
  <2> QED BY <1>2, <1>3, <2>3, <2>4
<1>6. ASSUME NEW m \in 1..Len(v), v[m].ch = p.ch PROVE \E j \in 1..Len(u) : u[j] = v[m]
  <2>1. CASE m \in 1..Len(w)
    <3>1. PICK j \in 1..Len(text) : text[j] = w[m]
      BY <1>1, <1>6, <2>1 DEF Gathers
    <3> QED BY <1>1, <1>2, <1>3, <2>1, <3>1
  <2>2. CASE m = Len(w) + 1
    BY <1>1, <1>2, <1>3, <2>2
  <2> QED BY <1>1, <1>3, <2>1, <2>2
<1>7. Gathers(u, p.ch, v)
  BY <1>4, <1>5, <1>6 DEF Gathers
<1> QED BY <1>7 DEF u, v

\* One piece more of the request, to any stream.
LEMMA OneMore ==
    ASSUME TypeOK, Numbered, NEW ch \in Streams \cup CStreams,
           wrote' = Append(wrote, Piece(ch)), SilentCell' = SilentCell,
           pc' \notin Unwritten, pc' \in BeforeEnd => steps' # 0,
           pc' = "preamble" => pc = "preamble" /\ ch \in Streams
    PROVE  Numbered'
<1>1. Piece(ch) \in Pieces /\ wrote \in Seq(Pieces) /\ Len(wrote) \in Nat
  BY PieceType DEF TypeOK
<1>2. /\ Len(wrote') = Len(wrote) + 1 /\ wrote'[Len(wrote) + 1] = Piece(ch)
      /\ \A m \in 1..Len(wrote) : wrote'[m] = wrote[m]
  BY <1>1
<1>3. /\ Piece(ch).n = Len(wrote) + 1 /\ Piece(ch).by = Main
      /\ Piece(ch).silent = SilentCell /\ Piece(ch).ch = ch
  BY DEF Piece
<1>4. \A m \in 1..Len(wrote') :
         /\ wrote'[m].n = m /\ wrote'[m].by = Main /\ wrote'[m].silent = SilentCell
         /\ pc' = "preamble" => wrote'[m].ch \in Streams
  BY <1>1, <1>2, <1>3 DEF Numbered
<1> QED BY <1>4 DEF Numbered

\* What is written to a C++ stream is in no capture.
LEMMA NotCaptured ==
    ASSUME TypeOK, Captured, NEW s \in Streams, UNCHANGED captureVars,
           wrote' = Append(wrote, Piece(s)),
           pc' \in Capturing => pc \in Capturing, pc' # "report"
    PROVE  Captured'
<1>1. Piece(s) \in Pieces /\ wrote \in Seq(Pieces) /\ Piece(s).ch \notin CStreams
  <2>1. Piece(s).ch = s
    BY DEF Piece
  <2> QED BY <2>1, PieceType DEF TypeOK, Streams, CStreams
<1>2. "stderr" \in CStreams /\ "stdout" \in CStreams
  BY DEF CStreams
<1>3. ASSUME NEW text, NEW ch \in CStreams, Gathers(text, ch, wrote)
      PROVE  Gathers(text, ch, wrote')
  BY <1>1, <1>3, GathersOthers
<1> QED BY <1>2, <1>3 DEF Captured, captureVars

\* What is written to a C stream is in its capture.
LEMMA NowCaptured ==
    ASSUME KnownA, Captured, NEW ch \in CStreams, CaptureText(ch, <<Piece(ch)>>),
           wrote' = Append(wrote, Piece(ch)), pc \in Capturing, pc' # "report"
    PROVE  Captured'
<1>1. /\ Piece(ch) \in Pieces /\ wrote \in Seq(Pieces)
      /\ Piece(ch).ch = ch /\ Piece(ch).n = Len(wrote) + 1
  BY PieceType DEF KnownA, KnownH, TypeOK, Piece
<1>2. captures # << >>
  BY DEF KnownA, KnownH, Progress
<1>3. /\ Len(captures) = 2 /\ captures \in Seq([stream : CStreams, text : Seq(Pieces)])
      /\ captures[1].stream = "stderr" /\ captures[2].stream = "stdout"
  BY <1>2 DEF KnownA, KnownH, TypeOK, AInv, CapturesPlaced
<1>4. \A i \in 1..2 : captures[i] \in [stream : CStreams, text : Seq(Pieces)]
  BY <1>3, ElementOfSeq
<1>5. ASSUME NEW i \in 1..2, Gathers(captures[i].text, captures[i].stream, wrote)
      PROVE  Gathers(captures'[i].text, captures[i].stream, wrote')
  <2>1. captures'[i] = IF captures[i].stream = ch
                       THEN [captures[i] EXCEPT !.text = @ \o <<Piece(ch)>>]
                       ELSE captures[i]
    BY <1>3 DEF CaptureText
  <2>2. captures[i].text \in Seq(Pieces)
    BY <1>4
  <2>3. CASE captures[i].stream = ch
    <3> DEFINE t == captures[i].text \o <<Piece(ch)>>
    <3>1. Gathers(t, ch, wrote')
      BY <1>1, <1>5, <2>2, <2>3, GathersOne
    <3> HIDE DEF t
    <3>2. captures'[i] = [captures[i] EXCEPT !.text = t]
      BY <2>1, <2>3 DEF t
    <3>3. captures'[i].text = t
      BY <1>4, <3>2
    <3> QED BY <2>3, <3>1, <3>3
  <2>4. CASE captures[i].stream # ch
    BY <1>1, <1>5, <2>1, <2>4, GathersOthers
  <2> QED BY <2>3, <2>4
<1>6. 1 \in 1..2 /\ 2 \in 1..2
  OBVIOUS
<1> QED BY <1>3, <1>5, <1>6 DEF Captured

\* Steps that write nothing and leave the captures alone.
LEMMA WroteNothing ==
    ASSUME CInv, UNCHANGED <<wrote, captureVars>>,
           pc' \in BeforeEnd => steps' = steps,
           SilentCell' = SilentCell \/ wrote = << >>,
           pc' \in Unwritten => pc \in Unwritten,
           pc' \in BeforeEnd => pc \in BeforeEnd,
           pc' = "preamble" => pc = "preamble" \/ wrote = << >>,
           pc' \in Capturing => pc \in Capturing,
           pc' = "report" => pc = "report"
    PROVE  CInv'
<1>1. Numbered'
  BY DEF CInv, Numbered
<1>2. Captured'
  BY DEF CInv, Captured, captureVars
<1> QED BY <1>1, <1>2 DEF CInv

\* Every step keeps CInv.
LEMMA NextCInv == KnownA /\ CInv /\ [Next]_vars => CInv'
<1> SUFFICES ASSUME KnownA, CInv, [Next]_vars PROVE CInv'
  OBVIOUS
<1> USE DEF requestVars, Unwritten, BeforeEnd, Capturing
<1>t. TypeOK /\ Numbered /\ Captured /\ steps \in Nat
  BY BoundsAssumption DEF KnownA, KnownH, CInv, TypeOK
\* The life of the interpreter, and the steps of the kernel that write nothing.
<1>1. ASSUME Construct \/ Destroy PROVE CInv'
  BY <1>1, WroteNothing DEF Construct, Destroy, SilentCell
<1>2. ASSUME NEW silent, NEW allow, Receive(silent, allow) PROVE CInv'
  BY <1>2 DEF Receive, CInv, Numbered, Captured
<1>3. ASSUME NEW kind, Dispatch(kind) PROVE CInv'
  <2>1. wrote = << >>
    BY <1>3, <1>t DEF Dispatch, Numbered
  <2> QED BY <1>3, <2>1, WroteNothing DEF Dispatch
<1>4. ASSUME Silence \/ Refuse \/ Extract \/ Report \/ Flush \/ PublishError \/ Reply
             \/ Unwind \/ IntrospectionThrows
      PROVE  CInv'
  BY <1>4, WroteNothing
  DEF Silence, Refuse, Extract, Report, Flush, PublishError, Reply, Unwind,
      IntrospectionThrows, SilentCell
<1>5. ASSUME Ask PROVE CInv'
  BY <1>5, WroteNothing DEF Ask, SilentCell
<1>6. ASSUME NEW length, Answer(length) PROVE CInv'
  BY <1>6, WroteNothing DEF Answer, SilentCell
\* The captures begin empty, and end with what was written to their streams.
<1>7. ASSUME BeginCapture PROVE CInv'
  <2>1. wrote = << >>
    BY <1>7, <1>t DEF BeginCapture, Numbered
  <2>2. captures'[1].text = << >> /\ captures'[2].text = << >>
    BY <1>7 DEF BeginCapture
  <2>3. Captured'
    BY <1>7, <2>1, <2>2 DEF BeginCapture, Captured, Gathers
  <2>4. Numbered'
    BY <1>7, <2>1 DEF BeginCapture, Numbered
  <2> QED BY <2>3, <2>4 DEF CInv
<1>8. ASSUME EndCapture PROVE CInv'
  <2>1. Gathers(captures[1].text, "stderr", wrote)
    BY <1>8, <1>t DEF EndCapture, ProcessEnded, Captured
  <2>2. Captured'
    BY <1>8, <2>1 DEF EndCapture, Captured
  <2>3. Numbered'
    BY <1>8, <1>t DEF EndCapture, ProcessEnded, Numbered, SilentCell
  <2> QED BY <2>2, <2>3 DEF CInv
\* The preambles.
<1>9. ASSUME NEW kind, NEW how, PreambleEnds(kind, how) PROVE CInv'
  BY <1>9, WroteNothing DEF PreambleEnds, SilentCell
<1>10. ASSUME NEW kind, NEW s \in Streams, PreambleWrite(kind, s) PROVE CInv'
  <2>1. Numbered'
    BY <1>10, <1>t, OneMore DEF PreambleWrite, Write, Statement, SilentCell
  <2>2. Captured'
    BY <1>10, <1>t, NotCaptured DEF PreambleWrite, Write
  <2> QED BY <2>1, <2>2 DEF CInv
<1>11. ASSUME NEW kind, PreambleFails(kind) PROVE CInv'
  <2>1. "cerr" \in Streams
    BY DEF Streams
  <2>2. Numbered'
    BY <1>11, <1>t, <2>1, OneMore DEF PreambleFails, Write, SilentCell
  <2>3. Captured'
    BY <1>11, <1>t, <2>1, NotCaptured DEF PreambleFails, Write
  <2> QED BY <2>2, <2>3 DEF CInv
<1>12. ASSUME Kernel PROVE CInv'
  BY <1>1, <1>3, <1>4, <1>5, <1>7, <1>8, <1>9, <1>11, <1>12
  DEF Kernel, ShellDone, ShellFails, MagicDone, MagicUnknown, IntrospectionFound,
      IntrospectionNotFound
\* The code of a cell.
<1>13. ASSUME NEW s \in Streams, CellWrite(s) PROVE CInv'
  <2>1. Numbered'
    BY <1>13, <1>t, OneMore DEF CellWrite, Write, Statement, SilentCell
  <2>2. Captured'
    BY <1>13, <1>t, NotCaptured DEF CellWrite, Write
  <2> QED BY <2>1, <2>2 DEF CInv
<1>14. ASSUME NEW ch \in CStreams, CellPrintf(ch) PROVE CInv'
  <2>1. Numbered'
    BY <1>14, <1>t, OneMore DEF CellPrintf, Statement, SilentCell
  <2>2. Captured'
    BY <1>14, <1>t, NowCaptured DEF CellPrintf
  <2> QED BY <2>1, <2>2 DEF CInv
<1>15. ASSUME CellFlush \/ CellRead \/ \E w \in Workers : CellStartsThread(w) PROVE CInv'
  <2>1. UNCHANGED <<wrote, captureVars, request>> /\ pc = "run" /\ pc' \in {"run", "read"}
        /\ steps' = steps + 1
    BY <1>15 DEF CellFlush, CellRead, CellStartsThread, Statement
  <2>2. Numbered'
    BY <2>1, <1>t DEF Numbered, SilentCell
  <2>3. Captured'
    BY <2>1, <1>t DEF Captured, captureVars
  <2> QED BY <2>2, <2>3 DEF CInv
<1>16. ASSUME Code PROVE CInv'
  <2>1. "cout" \in Streams
    BY DEF Streams
  <2> QED BY <1>10, <1>13, <1>14, <1>15, <1>16, <2>1 DEF Code, ShellOutput, MagicWrite
\* A cell that does not compile has written nothing before the compiler's diagnostic.
<1>17. ASSUME CellDoesNotCompile PROVE CInv'
  <2>1. wrote = << >> /\ "stderr" \in CStreams
    BY <1>17, <1>t DEF CellDoesNotCompile, Numbered, CStreams
  <2>2. wrote' = Append(wrote, Piece("stderr"))
    BY <1>17, <2>1 DEF CellDoesNotCompile
  <2>3. Numbered'
    BY <1>17, <1>t, <2>1, <2>2, OneMore DEF CellDoesNotCompile, SilentCell
  <2>4. Captured'
    BY <1>17, <1>t, <2>1, <2>2, NowCaptured DEF CellDoesNotCompile
  <2> QED BY <2>3, <2>4 DEF CInv
<1>18. ASSUME NEW how, CellEnds(how) PROVE CInv'
  BY <1>18, WroteNothing DEF CellEnds, SilentCell
\* The threads that cells left running.
<1>19. ASSUME Threads PROVE CInv'
  BY <1>19, WroteNothing
  DEF Threads, WorkerFetch, WorkerPut, WorkerSync, WorkerLoses, WorkerCrashes, Returned,
      SilentCell
<1>20. ASSUME UNCHANGED vars PROVE CInv'
  BY <1>20, WroteNothing DEF vars, SilentCell
<1> QED
  BY <1>1, <1>2, <1>6, <1>12, <1>16, <1>17, <1>18, <1>19, <1>20
  DEF Next, End, Reading, Client

-----------------------------------------------------------------------------
(* What the operations on text do to the log.                              *)

\* A piece of the request is at place j of a text, and of message i.
MainIn(text, j) == j \in 1..Len(text) /\ text[j].by = Main
MainAt(o, i, j) == i \in 1..(Len(o.out) + 1) /\ MainIn(TextAt(o, i), j)

\* The log has the pieces of the request at their places.
LEMMA LogIs ==
    ASSUME NEW o
    PROVE  /\ \A s \in DOMAIN Log(o) :
                 /\ s = <<s[1], s[2]>> /\ s[1] \in Nat /\ s[2] \in Nat
                 /\ MainAt(o, s[1], s[2])
                 /\ Log(o)[s] = TextAt(o, s[1])[s[2]]
           /\ \A i, j : MainAt(o, i, j) => <<i, j>> \in DOMAIN Log(o)
<1> DEFINE D == {s \in Places(o) : TextAt(o, s[1])[s[2]].by = Main}
<1>1. DOMAIN Log(o) = D /\ \A s \in D : Log(o)[s] = TextAt(o, s[1])[s[2]]
  BY DEF Log
<1>2. ASSUME NEW s \in D
      PROVE  s = <<s[1], s[2]>> /\ s[1] \in Nat /\ s[2] \in Nat /\ MainAt(o, s[1], s[2])
  <2>1. PICK i \in 1..(Len(o.out) + 1) : s \in {i} \X (1..Len(TextAt(o, i)))
    BY DEF Places
  <2>2. s = <<s[1], s[2]>> /\ s[1] = i /\ s[2] \in 1..Len(TextAt(o, i))
    BY <2>1
  <2> QED BY <2>2 DEF MainAt, MainIn
<1>3. ASSUME NEW i, NEW j, MainAt(o, i, j) PROVE <<i, j>> \in D
  <2>1. <<i, j>> \in {i} \X (1..Len(TextAt(o, i))) /\ i \in 1..(Len(o.out) + 1)
    BY <1>3 DEF MainAt, MainIn
  <2>2. <<i, j>> \in Places(o)
    BY <2>1 DEF Places
  <2> QED BY <1>3, <2>2 DEF MainAt, MainIn
<1> QED BY <1>1, <1>2, <1>3

\* The same piece of the request is there in two texts, or none in either.
SameAt(o, q, i, j) ==
    /\ MainAt(q, i, j) <=> MainAt(o, i, j)
    /\ MainAt(o, i, j) => TextAt(q, i)[j] = TextAt(o, i)[j]

\* The log is the same where the places of the request's pieces are.
LEMMA LogSame ==
    ASSUME NEW o, NEW q,
           \A i, j \in Nat : SameAt(o, q, i, j)
    PROVE  Log(q) = Log(o)
<1> DEFINE D(t) == {s \in Places(t) : TextAt(t, s[1])[s[2]].by = Main}
<1>1. DOMAIN Log(o) = D(o) /\ DOMAIN Log(q) = D(q)
  BY DEF Log
<1>2. D(q) = D(o)
  <2>1. ASSUME NEW s \in D(q) PROVE s \in D(o)
    <3>1. s = <<s[1], s[2]>> /\ s[1] \in Nat /\ s[2] \in Nat /\ MainAt(q, s[1], s[2])
      BY <1>1, <2>1, LogIs
    <3>2. PICK i \in Nat, j \in Nat : i = s[1] /\ j = s[2]
      BY <3>1
    <3>3. MainAt(o, i, j) /\ s = <<i, j>>
      BY <3>1, <3>2 DEF SameAt
    <3> QED BY <1>1, <3>3, LogIs
  <2>2. ASSUME NEW s \in D(o) PROVE s \in D(q)
    <3>1. s = <<s[1], s[2]>> /\ s[1] \in Nat /\ s[2] \in Nat /\ MainAt(o, s[1], s[2])
      BY <1>1, <2>2, LogIs
    <3>2. PICK i \in Nat, j \in Nat : i = s[1] /\ j = s[2]
      BY <3>1
    <3>3. MainAt(q, i, j) /\ s = <<i, j>>
      BY <3>1, <3>2 DEF SameAt
    <3> QED BY <1>1, <3>3, LogIs
  <2> QED BY <2>1, <2>2
<1>3. ASSUME NEW s \in D(o) PROVE TextAt(q, s[1])[s[2]] = TextAt(o, s[1])[s[2]]
  <2>1. s[1] \in Nat /\ s[2] \in Nat /\ MainAt(o, s[1], s[2])
    BY <1>1, <1>3, LogIs
  <2>2. PICK i \in Nat, j \in Nat : i = s[1] /\ j = s[2]
    BY <2>1
  <2>3. TextAt(q, i)[j] = TextAt(o, i)[j]
    BY <2>1, <2>2 DEF SameAt
  <2> QED BY <2>2, <2>3
<1> QED BY <1>2, <1>3 DEF Log

\* The operations are on text of this type.
Texts == TextOf(Types, Pieces)

\* The places of a text that becomes the next message are the same.
LEMMA FlushedLog ==
    ASSUME NEW o \in Texts, NEW q, NEW m, m.text = o.pending["cout"],
           q.out = Append(o.out, m), q.pending["cout"] = << >>
    PROVE  Log(q) = Log(o)
<1> DEFINE n == Len(o.out)
<1>1. n \in Nat /\ o.out \in Seq(MessagesOf(Types, Pieces))
  BY DEF Texts, TextOf
<1>2. Len(q.out) = n + 1 /\ q.out[n + 1] = m /\ \A i \in 1..n : q.out[i] = o.out[i]
  BY <1>1
<1>3. \A i \in 1..(n + 1) : TextAt(q, i) = TextAt(o, i)
  BY <1>1, <1>2 DEF TextAt
<1>4. TextAt(q, n + 2) = << >>
  BY <1>1, <1>2 DEF TextAt
<1>5. \A i, j \in Nat : SameAt(o, q, i, j)
  <2> SUFFICES ASSUME NEW i \in Nat, NEW j \in Nat
               PROVE  SameAt(o, q, i, j)
    OBVIOUS
  <2>1. CASE i \in 1..(n + 1)
    BY <1>1, <1>2, <1>3, <2>1 DEF MainAt, MainIn, SameAt
  <2>2. CASE i = n + 2
    BY <1>1, <1>4, <2>2 DEF MainAt, MainIn, SameAt
  <2>3. CASE i \notin 1..(n + 2)
    BY <1>1, <1>2, <2>3 DEF MainAt, MainIn, SameAt
  <2> QED BY <1>1, <2>1, <2>2, <2>3
<1> QED BY <1>5, LogSame

\* So are those of a text that is flushed, or not, to a message of std::cout.
LEMMA FlushLog ==
    ASSUME NEW o \in Texts
    PROVE  Log(FlushStream("cout", o)) = Log(o)
<1> DEFINE q == FlushStream("cout", o)
           m == StreamMessage("cout", o.pending["cout"])
<1>1. CASE rdbuf["cout"] = "buffer" /\ o.pending["cout"] # << >>
  <2>1. q.out = Append(o.out, m) /\ q.pending["cout"] = << >>
        /\ m.text = o.pending["cout"]
    BY <1>1 DEF FlushStream, StreamMessage, Texts, TextOf, Streams
  <2> HIDE DEF q, m
  <2>2. Log(q) = Log(o)
    BY <2>1, FlushedLog
  <2> QED BY <2>2 DEF q
<1>2. CASE ~ (rdbuf["cout"] = "buffer" /\ o.pending["cout"] # << >>)
  BY <1>2 DEF FlushStream
<1> QED BY <1>1, <1>2

\* So are those of a text that is flushed to std::cout and std::cerr, whose buffer is empty.
LEMMA FlushAllLog ==
    ASSUME NEW o \in Texts, o.pending["cerr"] = << >>
    PROVE  Log(FlushAll(o)) = Log(o)
<1>1. FlushStream("cout", o).pending["cerr"] = << >>
  <2>1. DOMAIN o.pending = Streams /\ "cout" \in Streams /\ "cerr" \in Streams
    BY DEF Texts, TextOf, Streams
  <2> QED BY <2>1 DEF FlushStream
<1>2. FlushAll(o) = FlushStream("cout", o)
  BY <1>1 DEF FlushAll, FlushStream
<1> QED BY <1>2, FlushLog

\* A message without text goes before the text of threads in the buffer.
LEMMA SayLog ==
    ASSUME NEW o \in Texts, NEW q, NEW m, o.pending["cout"] \in Seq(Theirs),
           q.pending = o.pending, q.out = Append(o.out, m), m.text = << >>
    PROVE  Log(q) = Log(o)
<1> DEFINE n == Len(o.out)
<1>1. n \in Nat /\ o.out \in Seq(MessagesOf(Types, Pieces))
  BY DEF Texts, TextOf
<1>2. Len(q.out) = n + 1 /\ q.out[n + 1] = m /\ \A i \in 1..n : q.out[i] = o.out[i]
  BY <1>1
<1>3. \A i \in 1..n : TextAt(q, i) = TextAt(o, i)
  BY <1>1, <1>2 DEF TextAt
<1>4. /\ TextAt(o, n + 1) = o.pending["cout"] /\ TextAt(q, n + 2) = o.pending["cout"]
      /\ TextAt(q, n + 1) = << >>
  BY <1>1, <1>2 DEF TextAt
<1>5. \A j \in 1..Len(o.pending["cout"]) : o.pending["cout"][j].by # Main
  BY ElementOfSeq, MainAssumption DEF Theirs
<1>6. \A i, j \in Nat : SameAt(o, q, i, j)
  <2> SUFFICES ASSUME NEW i \in Nat, NEW j \in Nat
               PROVE  SameAt(o, q, i, j)
    OBVIOUS
  <2>1. CASE i \in 1..n
    BY <1>1, <1>2, <1>3, <2>1 DEF MainAt, MainIn, SameAt
  <2>2. CASE i = n + 1
    BY <1>1, <1>2, <1>4, <1>5, <2>2 DEF MainAt, MainIn, SameAt
  <2>3. CASE i = n + 2
    BY <1>1, <1>2, <1>4, <1>5, <2>3 DEF MainAt, MainIn, SameAt
  <2>4. CASE i \notin 1..(n + 2)
    BY <1>1, <1>2, <2>4 DEF MainAt, MainIn, SameAt
  <2> QED BY <1>1, <2>1, <2>2, <2>3, <2>4
<1> QED BY <1>6, LogSame

\* What threads write, or lose with the interpreter, is none of the request's.
LEMMA TheirsLog ==
    ASSUME NEW o \in Texts, NEW q \in Texts, q.out = o.out,
           \A j \in Nat :
              /\ MainIn(q.pending["cout"], j) <=> MainIn(o.pending["cout"], j)
              /\ MainIn(o.pending["cout"], j) => q.pending["cout"][j] = o.pending["cout"][j]
    PROVE  Log(q) = Log(o)
<1> DEFINE n == Len(o.out)
<1>1. n \in Nat
  BY DEF Texts, TextOf
<1>2. \A i \in 1..n : TextAt(q, i) = TextAt(o, i)
  BY <1>1 DEF TextAt
<1>3. TextAt(o, n + 1) = o.pending["cout"] /\ TextAt(q, n + 1) = q.pending["cout"]
  BY <1>1 DEF TextAt
<1>4. \A i, j \in Nat : SameAt(o, q, i, j)
  <2> SUFFICES ASSUME NEW i \in Nat, NEW j \in Nat
               PROVE  SameAt(o, q, i, j)
    OBVIOUS
  <2>1. CASE i \in 1..n
    BY <1>1, <1>2, <2>1 DEF MainAt, MainIn, SameAt
  <2>2. CASE i = n + 1
    BY <1>1, <1>3, <2>2 DEF MainAt, MainIn, SameAt
  <2>3. CASE i \notin 1..(n + 1)
    BY <1>1, <2>3 DEF MainAt, MainIn, SameAt
  <2> QED BY <1>1, <2>1, <2>2, <2>3
<1> QED BY <1>4, LogSame

\* The log has grown at its end by the pieces of a text.
Grown(log, more, text) ==
    \E k, b \in Nat :
        /\ \A s \in DOMAIN log :
              s \in DOMAIN more /\ more[s] = log[s] /\ Before(s, <<k, b + 1>>)
        /\ \A m \in 1..Len(text) :
              <<k, b + m>> \in DOMAIN more /\ more[<<k, b + m>>] = text[m]
        /\ \A s \in DOMAIN more :
              s \in DOMAIN log \/ \E m \in 1..Len(text) : s = <<k, b + m>>

\* Two texts differ by pieces of the request that follow all others, from place b on of
\* message k.
Follows(o, q, k, b, i, j) ==
    MainAt(o, i, j) => /\ MainAt(q, i, j) /\ TextAt(q, i)[j] = TextAt(o, i)[j]
                       /\ i < k \/ (i = k /\ j < b + 1)
NoOthers(o, q, text, k, b, i, j) ==
    MainAt(q, i, j) => MainAt(o, i, j) \/ (i = k /\ j - b \in 1..Len(text))
Grows(o, q, text, k, b) ==
    /\ \A i, j \in Nat : Follows(o, q, k, b, i, j) /\ NoOthers(o, q, text, k, b, i, j)
    /\ \A m \in 1..Len(text) : MainAt(q, k, b + m) /\ TextAt(q, k)[b + m] = text[m]

\* Then so do their logs.
LEMMA LogGrown ==
    ASSUME NEW o, NEW q, NEW text, NEW k \in Nat, NEW b \in Nat, Grows(o, q, text, k, b)
    PROVE  Grown(Log(o), Log(q), text)
<1>1. ASSUME NEW s \in DOMAIN Log(o)
      PROVE  s \in DOMAIN Log(q) /\ Log(q)[s] = Log(o)[s] /\ Before(s, <<k, b + 1>>)
  <2>1. /\ s = <<s[1], s[2]>> /\ s[1] \in Nat /\ s[2] \in Nat /\ MainAt(o, s[1], s[2])
        /\ Log(o)[s] = TextAt(o, s[1])[s[2]]
    BY <1>1, LogIs
  <2>2. PICK i \in Nat, j \in Nat : i = s[1] /\ j = s[2]
    BY <2>1
  <2>3. /\ s = <<i, j>> /\ MainAt(q, i, j) /\ TextAt(q, i)[j] = TextAt(o, i)[j]
        /\ i < k \/ (i = k /\ j < b + 1)
    BY <2>1, <2>2 DEF Grows, Follows
  <2>4. s \in DOMAIN Log(q) /\ Log(q)[s] = TextAt(q, i)[j]
    BY <2>2, <2>3, LogIs
  <2> QED BY <2>1, <2>2, <2>3, <2>4 DEF Before
<1>2. ASSUME NEW m \in 1..Len(text)
      PROVE  <<k, b + m>> \in DOMAIN Log(q) /\ Log(q)[<<k, b + m>>] = text[m]
  <2>1. MainAt(q, k, b + m) /\ TextAt(q, k)[b + m] = text[m]
    BY <1>2 DEF Grows
  <2>2. <<k, b + m>> \in DOMAIN Log(q)
    BY <2>1, LogIs
  <2>3. Log(q)[<<k, b + m>>] = TextAt(q, <<k, b + m>>[1])[<<k, b + m>>[2]]
    BY <2>2, LogIs
  <2> QED BY <2>1, <2>2, <2>3
<1>3. ASSUME NEW s \in DOMAIN Log(q)
      PROVE  s \in DOMAIN Log(o) \/ \E m \in 1..Len(text) : s = <<k, b + m>>
  <2>1. s = <<s[1], s[2]>> /\ s[1] \in Nat /\ s[2] \in Nat /\ MainAt(q, s[1], s[2])
    BY <1>3, LogIs
  <2>2. PICK i \in Nat, j \in Nat : i = s[1] /\ j = s[2]
    BY <2>1
  <2>3. s = <<i, j>> /\ (MainAt(o, i, j) \/ (i = k /\ j - b \in 1..Len(text)))
    BY <2>1, <2>2 DEF Grows, NoOthers
  <2>4. CASE MainAt(o, i, j)
    BY <2>3, <2>4, LogIs
  <2>5. CASE i = k /\ j - b \in 1..Len(text)
    BY <2>3, <2>5
  <2> QED BY <2>3, <2>4, <2>5
<1> QED BY <1>1, <1>2, <1>3 DEF Grown

\* Text of the request: all of it is its own.
Mine == {p \in Pieces : p.by = Main}
LEMMA MineIn == ASSUME NEW text \in Seq(Mine)
                PROVE  /\ text \in Seq(Pieces)
                       /\ \A j \in 1..Len(text) : MainIn(text, j)
<1>1. \A j \in 1..Len(text) : text[j] \in Mine
  BY ElementOfSeq
<1>2. text \in Seq(Pieces)
  BY DEF Mine
<1> QED BY <1>1, <1>2 DEF Mine, MainIn

\* Text at the end of the buffer.
LEMMA GrowBuffer ==
    ASSUME NEW o \in Texts, NEW q, NEW text \in Seq(Mine), q.out = o.out,
           q.pending["cout"] = o.pending["cout"] \o text
    PROVE  Grown(Log(o), Log(q), text)
<1> DEFINE n == Len(o.out)
           t == o.pending["cout"]
           b == Len(t)
           u == t \o text
<1>1. n \in Nat /\ t \in Seq(Pieces) /\ b \in Nat /\ Len(text) \in Nat
  BY DEF Texts, TextOf, Streams
<1>2. /\ Len(u) = b + Len(text)
      /\ \A j \in 1..b : u[j] = t[j]
      /\ \A m \in 1..Len(text) : u[b + m] = text[m] /\ text[m].by = Main
  BY <1>1, MineIn DEF MainIn
<1>3. /\ \A i \in 1..n : TextAt(q, i) = TextAt(o, i)
      /\ TextAt(o, n + 1) = t /\ TextAt(q, n + 1) = u
  BY <1>1 DEF TextAt
<1> HIDE DEF t, u, b
<1>4. ASSUME NEW i \in Nat, NEW j \in Nat
      PROVE  Follows(o, q, n + 1, b, i, j) /\ NoOthers(o, q, text, n + 1, b, i, j)
  <2>1. CASE i \in 1..n
    BY <1>1, <1>3, <2>1 DEF MainAt, Follows, NoOthers
  <2>2. CASE i = n + 1
    <3>1. b = Len(t)
      BY DEF b
    <3> QED BY <1>1, <1>2, <1>3, <2>2, <3>1 DEF MainAt, MainIn, Follows, NoOthers
  <2>3. CASE i \notin 1..(n + 1)
    BY <1>1, <2>3 DEF MainAt, Follows, NoOthers
  <2> QED BY <1>1, <2>1, <2>2, <2>3
<1>5. ASSUME NEW m \in 1..Len(text)
      PROVE  MainAt(q, n + 1, b + m) /\ TextAt(q, n + 1)[b + m] = text[m]
  BY <1>1, <1>2, <1>3 DEF MainAt, MainIn, Follows, NoOthers
<1>6. Grows(o, q, text, n + 1, b)
  BY <1>4, <1>5 DEF Grows
<1>7. n + 1 \in Nat /\ b \in Nat
  BY <1>1
<1> HIDE DEF n
<1> QED BY <1>6, <1>7, LogGrown

\* Text in a message after all that is sent and with nothing in the buffer.
LEMMA GrowMessage ==
    ASSUME NEW o \in Texts, NEW q, NEW m, m.text \in Seq(Mine), q.out = Append(o.out, m),
           o.pending["cout"] = << >>, q.pending["cout"] = << >>
    PROVE  Grown(Log(o), Log(q), m.text)
<1> DEFINE n == Len(o.out)
           text == m.text
<1>1. n \in Nat /\ o.out \in Seq(MessagesOf(Types, Pieces)) /\ Len(text) \in Nat
  BY DEF Texts, TextOf
<1>2. Len(q.out) = n + 1 /\ q.out[n + 1] = m /\ \A i \in 1..n : q.out[i] = o.out[i]
  BY <1>1
<1>3. /\ \A i \in 1..n : TextAt(q, i) = TextAt(o, i)
      /\ TextAt(o, n + 1) = << >> /\ TextAt(q, n + 1) = text /\ TextAt(q, n + 2) = << >>
  BY <1>1, <1>2 DEF TextAt
<1>4. \A j \in 1..Len(text) : MainIn(text, j)
  BY MineIn
<1> HIDE DEF text
<1>5. ASSUME NEW i \in Nat, NEW j \in Nat
      PROVE  Follows(o, q, n + 1, 0, i, j) /\ NoOthers(o, q, text, n + 1, 0, i, j)
  <2>1. CASE i \in 1..n
    BY <1>1, <1>2, <1>3, <2>1 DEF MainAt, Follows, NoOthers
  <2>2. CASE i = n + 1
    BY <1>1, <1>2, <1>3, <2>2 DEF MainAt, MainIn, Follows, NoOthers
  <2>3. CASE i = n + 2
    BY <1>1, <1>2, <1>3, <2>3 DEF MainAt, MainIn, Follows, NoOthers
  <2>4. CASE i \notin 1..(n + 2)
    BY <1>1, <1>2, <2>4 DEF MainAt, Follows, NoOthers
  <2> QED BY <1>1, <2>1, <2>2, <2>3, <2>4
<1>6. ASSUME NEW j \in 1..Len(text)
      PROVE  MainAt(q, n + 1, 0 + j) /\ TextAt(q, n + 1)[0 + j] = text[j]
  <2>1. n + 1 \in 1..(Len(q.out) + 1)
    BY <1>1, <1>2
  <2> QED BY <1>1, <1>3, <1>4, <2>1 DEF MainAt, Follows, NoOthers
<1>7. Grows(o, q, text, n + 1, 0)
  BY <1>5, <1>6 DEF Grows
<1>8. n + 1 \in Nat /\ 0 \in Nat
  BY <1>1
<1> HIDE DEF n
<1>9. Grown(Log(o), Log(q), text)
  BY <1>7, <1>8, LogGrown
<1> QED BY <1>9 DEF text

\* A write to a stream whose buffer is in place, with the flushes it causes.
LEMMA GrowOutput ==
    ASSUME NEW o \in Texts, NEW s \in Streams, NEW text \in Seq(Mine),
           \A t \in Streams : rdbuf[t] = "buffer", o.pending["cerr"] = << >>
    PROVE  Grown(Log(o), Log(Output(s, text, o)), text)
<1> DEFINE q == Output(s, text, o)
<1>a. "cout" \in Streams /\ "cerr" \in Streams /\ Streams = {"cout", "cerr"}
  BY DEF Streams
<1>b. text \in Seq(Pieces) /\ << >> \o text = text
  BY MineIn
<1>1. CASE s = "cout"
  <2>1. q = [o EXCEPT !.pending["cout"] = @ \o text]
    BY <1>1, <1>a DEF Output, Insert
  <2>2. q.out = o.out /\ q.pending["cout"] = o.pending["cout"] \o text
    BY <2>1, <1>a DEF Texts, TextOf
  <2> HIDE DEF q
  <2>3. Grown(Log(o), Log(q), text)
    BY <2>2, GrowBuffer
  <2> QED BY <2>3 DEF q
<1>2. CASE s = "cerr"
  <2> DEFINE t == Tie(o)
             u == Insert("cerr", text, t)
  <2>1. t \in Texts /\ Log(t) = Log(o)
    BY <1>a, AllMessages, FlushStreamType, FlushLog DEF Tie, Texts
  <2>2. t.pending["cout"] = << >> /\ t.pending["cerr"] = << >>
    BY <1>a DEF Tie, FlushStream, Texts, TextOf
  <2> HIDE DEF t
  <2>3. u = [t EXCEPT !.pending["cerr"] = @ \o text]
    BY <1>a DEF Insert
  <2>4. u.out = t.out /\ u.pending["cout"] = << >> /\ u.pending["cerr"] = text
        /\ DOMAIN u.pending = Streams
    BY <2>1, <2>2, <2>3, <1>a, <1>b DEF Texts, TextOf
  <2> HIDE DEF u
  <2>5. Output(s, text, o) = FlushStream("cerr", u)
    BY <1>2 DEF Output, u, t
  <2>6. CASE text = << >>
    <3>1. FlushStream("cerr", u) = u
      BY <2>4, <2>6 DEF FlushStream
    <3>2. u.pending["cout"] = t.pending["cout"] \o text
      BY <2>2, <2>4, <2>6
    <3>3. Grown(Log(t), Log(u), text)
      BY <2>1, <2>4, <3>2, GrowBuffer
    <3> QED BY <2>1, <2>5, <3>1, <3>3
  <2>7. CASE text # << >>
    <3> DEFINE m == StreamMessage("cerr", text)
               r == FlushStream("cerr", u)
    <3>1. r.out = Append(t.out, m) /\ r.pending["cout"] = << >>
      BY <2>4, <2>7, <1>a DEF FlushStream
    <3>2. m.text = text
      BY DEF StreamMessage
    <3> HIDE DEF m, r
    <3>3. Grown(Log(t), Log(r), m.text)
      BY <2>1, <2>2, <3>1, <3>2, GrowMessage
    <3> QED BY <2>1, <2>5, <3>2, <3>3 DEF r
  <2> QED BY <2>6, <2>7
<1> QED BY <1>1, <1>2, <1>a

\* Without the buffers nothing happens.
LEMMA MuteOutput ==
    ASSUME NEW o, NEW s \in Streams, NEW text, \A t \in Streams : rdbuf[t] # "buffer"
    PROVE  Output(s, text, o) = o
BY DEF Output, Insert, Tie, FlushStream, Streams

\* A piece of the log that has grown is old or new.
LEMMA GrownHas ==
    ASSUME NEW log, NEW more, NEW text, Grown(log, more, text), NEW s \in DOMAIN more
    PROVE  \/ s \in DOMAIN log /\ more[s] = log[s]
           \/ \E m \in 1..Len(text) : more[s] = text[m]
BY DEF Grown

\* What was written to ch is still there, and so is what the log has grown by.
LEMMA GrownShown ==
    ASSUME NEW log, NEW more, NEW text, Grown(log, more, text), NEW ch, NEW w, NEW v,
           Shown(log, ch, w),
           \A m \in 1..Len(v) : v[m].ch = ch =>
              \/ \E l \in 1..Len(w) : v[m] = w[l]
              \/ \E j \in 1..Len(text) : text[j] = v[m]
    PROVE  Shown(more, ch, v)
<1> SUFFICES ASSUME NEW m \in 1..Len(v), v[m].ch = ch
             PROVE  \E s \in DOMAIN more : more[s] = v[m]
  BY DEF Shown
<1>1. CASE \E l \in 1..Len(w) : v[m] = w[l]
  <2>1. PICK s \in DOMAIN log : log[s] = v[m]
    BY <1>1 DEF Shown
  <2> QED BY <2>1 DEF Grown
<1>2. CASE \E j \in 1..Len(text) : text[j] = v[m]
  BY <1>2 DEF Grown
<1> QED BY <1>1, <1>2

\* A text of pieces that come once and precede nothing in the log of w; both are in v.
Continues(log, text, w, v) ==
    /\ InOrder(log, w) /\ Len(text) \in Nat
    /\ \A s \in DOMAIN log : s[1] \in Nat /\ s[2] \in Nat
    /\ \A l \in 1..Len(w) : \E m \in 1..Len(v) : w[l] = v[m]
    /\ \A j \in 1..Len(text) : \E m \in 1..Len(v) : text[j] = v[m]
    /\ \A j, l \in 1..Len(text) :
          j < l => text[j] # text[l] /\ ~ Precedes(text[l], text[j])
    /\ \A s \in DOMAIN log : \A j \in 1..Len(text) :
          log[s] # text[j] /\ ~ Precedes(text[j], log[s])

\* The log is in order when it has grown by such a text.
LEMMA GrownInOrder ==
    ASSUME NEW log, NEW more, NEW text, Grown(log, more, text), NEW w, NEW v,
           Continues(log, text, w, v)
    PROVE  InOrder(more, v)
<1> USE DEF Continues
<1>1. ASSUME NEW s \in DOMAIN more PROVE \E m \in 1..Len(v) : more[s] = v[m]
  <2>1. CASE s \in DOMAIN log /\ more[s] = log[s]
    <3>1. PICK l \in 1..Len(w) : log[s] = w[l]
      BY <2>1 DEF InOrder
    <3> QED BY <2>1, <3>1
  <2>2. CASE \E j \in 1..Len(text) : more[s] = text[j]
    BY <2>2
  <2> QED BY <2>1, <2>2, GrownHas
<1>2. PICK k \in Nat, b \in Nat :
        /\ \A s \in DOMAIN log :
              s \in DOMAIN more /\ more[s] = log[s] /\ Before(s, <<k, b + 1>>)
        /\ \A m \in 1..Len(text) :
              <<k, b + m>> \in DOMAIN more /\ more[<<k, b + m>>] = text[m]
        /\ \A s \in DOMAIN more :
              s \in DOMAIN log \/ \E m \in 1..Len(text) : s = <<k, b + m>>
  BY DEF Grown
<1>3. ASSUME NEW s \in DOMAIN more, NEW t \in DOMAIN more, Before(s, t)
      PROVE  more[s] # more[t] /\ ~ Precedes(more[t], more[s])
  <2>1. CASE s \in DOMAIN log /\ t \in DOMAIN log
    <3>1. log[s] # log[t] /\ ~ Precedes(log[t], log[s])
      BY <1>3, <2>1 DEF InOrder
    <3>2. more[s] = log[s] /\ more[t] = log[t]
      BY <1>2, <2>1
    <3> QED BY <3>1, <3>2
  <2>2. CASE s \in DOMAIN log /\ t \notin DOMAIN log
    <3>1. PICK m \in 1..Len(text) : t = <<k, b + m>>
      BY <1>2, <2>2
    <3>2. more[t] = text[m] /\ more[s] = log[s]
      BY <1>2, <2>2, <3>1
    <3> QED BY <2>2, <3>2
  <2>3. CASE s \notin DOMAIN log /\ t \in DOMAIN log
    <3>1. PICK m \in 1..Len(text) : s = <<k, b + m>>
      BY <1>2, <2>3
    <3>2. Before(t, <<k, b + 1>>) /\ s[1] = k /\ s[2] = b + m /\ t[1] \in Nat /\ t[2] \in Nat
      BY <1>2, <2>3, <3>1
    <3>3. FALSE
      BY <1>2, <1>3, <3>2 DEF Before
    <3> QED BY <3>3
  <2>4. CASE s \notin DOMAIN log /\ t \notin DOMAIN log
    <3>1. PICK j \in 1..Len(text), l \in 1..Len(text) : s = <<k, b + j>> /\ t = <<k, b + l>>
      BY <1>2, <2>4
    <3>2. more[s] = text[j] /\ more[t] = text[l]
      BY <1>2, <3>1
    <3>3. j < l
      BY <1>2, <1>3, <3>1 DEF Before
    <3> QED BY <3>2, <3>3
  <2> QED BY <2>1, <2>2, <2>3, <2>4
<1> QED BY <1>1, <1>3 DEF InOrder

-----------------------------------------------------------------------------
(* Every step keeps the order.                                             *)

\* What of the text has got to the log: of a loud request, that of the C++ streams at
\* once, that of the C ones after the captures have ended and err has been printed.
Arrived ==
    /\ ~ SilentCell => /\ Shown(Log(Text), "cout", wrote)
                       /\ Shown(Log(Text), "cerr", wrote)
    /\ pc \in BeforeEnd \cup {"captured"} =>
          \A s \in DOMAIN Log(Text) : Log(Text)[s].ch \in Streams
    /\ pc = "report" => \A s \in DOMAIN Log(Text) : Log(Text)[s].ch # "stderr"
    /\ (\E s \in DOMAIN Log(Text) : Log(Text)[s].ch = "stdout") =>
          Shown(Log(Text), "stdout", wrote)
    /\ pc \in {"report", "flush", "publish", "reply"} /\ ~ SilentCell =>
          /\ Shown(Log(Text), "stdout", wrote)
          /\ pc # "report" /\ result = "compile" => Shown(Log(Text), "stderr", wrote)

LInv == InOrder(Log(Text), wrote) /\ Arrived

\* What the steps of a proof about LInv may assume.
KnownL == KnownA /\ CInv /\ LInv

\* Without text of the request there is nothing to say.
LEMMA NothingLogged ==
    ASSUME NEW o \in Texts, Len(o.out) = 0, o.pending["cout"] \in Seq(Theirs)
    PROVE  DOMAIN Log(o) = {}
<1> SUFFICES ASSUME NEW s \in DOMAIN Log(o) PROVE FALSE
  OBVIOUS
<1>1. s[1] \in 1..1 /\ MainIn(TextAt(o, s[1]), s[2])
  BY LogIs DEF MainAt
<1>2. TextAt(o, s[1]) = o.pending["cout"]
  BY <1>1 DEF TextAt
<1> QED BY <1>1, <1>2, ElementOfSeq, MainAssumption DEF MainIn, Theirs

\* LInv holds when the process starts.
LEMMA InitLInv == Init => LInv
<1> SUFFICES ASSUME Init PROVE LInv
  OBVIOUS
<1>1. << >> \in Seq(Theirs) /\ << >> \in Seq(Pieces) /\ << >> \in Seq(MessagesOf(Types, Pieces))
  OBVIOUS
<1>2. Text \in Texts /\ Text.out = << >> /\ Text.pending["cout"] = << >>
  BY <1>1 DEF Init, Text, Texts, TextOf, Streams
<1>3. DOMAIN Log(Text) = {}
  BY <1>1, <1>2, NothingLogged
<1> QED BY <1>3 DEF Init, LInv, InOrder, Arrived, Shown

\* The text before a step, and after an operation.
LEMMA TextNow ==
    ASSUME KnownA
    PROVE  /\ Text \in Texts /\ Text.pending = m_output /\ Text.out = sent
           /\ m_output["cerr"] = << >> /\ wrote \in Seq(Pieces) /\ Len(wrote) \in Nat
<1>1. Text \in Texts
  BY TextType, AllMessages DEF KnownA, KnownH, TypeOK, Texts
<1>2. wrote \in Seq(Pieces)
  BY DEF KnownA, KnownH, TypeOK
<1> QED BY <1>1, <1>2 DEF KnownA, KnownH, HInv, Text

LEMMA TextNext ==
    ASSUME NEW o \in Texts, TextBecomes(o)
    PROVE  Text' = o
BY DEF Texts, TextOf, TextBecomes, Text

\* The places in the log are pairs of numbers.
LEMMA LogPlaces == \A s \in DOMAIN Log(Text) : s[1] \in Nat /\ s[2] \in Nat
BY LogIs

\* Steps that write nothing and keep the log: nothing more is claimed after than before.
LEMMA LogKept ==
    ASSUME LInv, Log(Text') = Log(Text), UNCHANGED wrote,
           SilentCell' = SilentCell \/ wrote = << >>,
           pc' \in BeforeEnd \cup {"captured"} => pc \in BeforeEnd \cup {"captured"},
           pc' = "report" => pc \in {"captured", "report"},
           pc' \in {"report", "flush", "publish", "reply"} =>
              \/ SilentCell'
              \/ /\ pc \in {"report", "flush", "publish", "reply"} /\ UNCHANGED result
                 /\ pc' = "report" => pc = "report"
                 /\ pc = "report" => pc' = "report" \/ result # "compile"
    PROVE  LInv'
<1> DEFINE log == Log(Text)
<1>1. log' = log
  OBVIOUS
<1> HIDE DEF log
<1>2. wrote = << >> => \A ch : Shown(log, ch, wrote)
  BY DEF Shown
<1>3. InOrder(log, wrote)
  BY DEF LInv, log
<1>4. Arrived'
  <2>1. ~ SilentCell' => Shown(log, "cout", wrote) /\ Shown(log, "cerr", wrote)
    BY <1>2 DEF LInv, Arrived, log
  <2>2. pc' \in BeforeEnd \cup {"captured"} => \A s \in DOMAIN log : log[s].ch \in Streams
    BY DEF LInv, Arrived, log
  <2>3. pc' = "report" => \A s \in DOMAIN log : log[s].ch # "stderr"
    BY DEF LInv, Arrived, log, Streams
  <2>4. (\E s \in DOMAIN log : log[s].ch = "stdout") => Shown(log, "stdout", wrote)
    BY DEF LInv, Arrived, log
  <2>5. pc' \in {"report", "flush", "publish", "reply"} /\ ~ SilentCell' =>
           /\ Shown(log, "stdout", wrote)
           /\ pc' # "report" /\ result' = "compile" => Shown(log, "stderr", wrote)
    BY <1>2 DEF LInv, Arrived, log
  <2> QED BY <1>1, <2>1, <2>2, <2>3, <2>4, <2>5 DEF Arrived, log
<1> QED BY <1>1, <1>3, <1>4 DEF LInv, log

\* What a request writes is its own.
LEMMA PieceMine ==
    ASSUME TypeOK, NEW ch \in Streams \cup CStreams
    PROVE  <<Piece(ch)>> \in Seq(Mine) /\ Piece(ch).ch = ch /\ Piece(ch).n = Len(wrote) + 1
<1>1. Piece(ch) \in Mine
  BY PieceType DEF Mine, Piece
<1> QED BY <1>1 DEF Piece

\* A piece more is written, after all others.
LEMMA WroteMore ==
    ASSUME KnownA, NEW ch \in Streams \cup CStreams, wrote' = Append(wrote, Piece(ch))
    PROVE  /\ Len(wrote') = Len(wrote) + 1 /\ wrote'[Len(wrote) + 1] = Piece(ch)
           /\ \A m \in 1..Len(wrote) : wrote'[m] = wrote[m]
           /\ \A m \in 1..Len(wrote') : m \in 1..Len(wrote) \/ m = Len(wrote) + 1
<1>1. Piece(ch) \in Pieces /\ wrote \in Seq(Pieces) /\ Len(wrote) \in Nat
  BY PieceType, TextNow DEF KnownA, KnownH
<1> QED BY <1>1

\* What a cell writes that is not printed yet, or to no one.
LEMMA LogUntouched ==
    ASSUME KnownL, Log(Text') = Log(Text), pc = "run", pc' \in {"run", "captured"},
           NEW ch \in Streams \cup CStreams, wrote' = Append(wrote, Piece(ch)),
           SilentCell' = SilentCell, ch \in Streams => SilentCell
    PROVE  LInv'
<1> DEFINE log == Log(Text)
<1>1. log' = log /\ InOrder(log, wrote) /\ \A s \in DOMAIN log : log[s].ch \in Streams
  BY DEF KnownL, LInv, Arrived, BeforeEnd
<1>2. /\ Len(wrote') = Len(wrote) + 1 /\ wrote'[Len(wrote) + 1] = Piece(ch)
      /\ \A m \in 1..Len(wrote) : wrote'[m] = wrote[m]
      /\ \A m \in 1..Len(wrote') : m \in 1..Len(wrote) \/ m = Len(wrote) + 1
  BY WroteMore DEF KnownL
<1>3. Len(wrote) \in Nat /\ Piece(ch).ch = ch
  BY TextNow DEF KnownL, Piece
<1>4. ~ SilentCell => Shown(log, "cout", wrote) /\ Shown(log, "cerr", wrote)
  BY DEF KnownL, LInv, Arrived
<1> HIDE DEF log
<1>5. InOrder(log, wrote')
  BY <1>1, <1>2, <1>3 DEF InOrder
<1>6. ~ SilentCell => Shown(log, "cout", wrote') /\ Shown(log, "cerr", wrote')
  <2> SUFFICES ASSUME ~ SilentCell, NEW c \in Streams, Shown(log, c, wrote)
               PROVE  Shown(log, c, wrote')
    BY <1>4 DEF Streams
  <2>1. ch # c
    OBVIOUS
  <2> QED BY <1>2, <1>3, <2>1 DEF Shown
<1>7. Arrived'
  BY <1>1, <1>6 DEF Arrived, log, Streams, BeforeEnd
<1> QED BY <1>1, <1>5, <1>7 DEF LInv, log

\* The streams have the interpreter's buffers where the request can be heard, and no
\* stream has inside the guard of a silent cell.
LEMMA BothInPlace ==
    ASSUME KnownH, pc \notin {"start", "stopped", "crashed"}
    PROVE  /\ ~ (pc \in Guarded /\ SilentCell) => \A s \in Streams : rdbuf[s] = "buffer"
           /\ pc \in Guarded /\ SilentCell => \A s \in Streams : rdbuf[s] # "buffer"
BY DEF KnownH, RInv, BuffersInPlace, GuardInForce

\* What is written to a stream with the flushes it causes gets to the end of the log, or
\* to no one.
LEMMA OutputLogged ==
    ASSUME KnownA, pc \notin {"start", "stopped", "crashed"}, NEW s \in Streams,
           NEW text \in Seq(Mine), TextBecomes(Output(s, text, Text))
    PROVE  /\ ~ (pc \in Guarded /\ SilentCell) => Grown(Log(Text), Log(Text'), text)
           /\ pc \in Guarded /\ SilentCell => Log(Text') = Log(Text)
<1>1. Output(s, text, Text) \in Texts
  BY TextNow, AllMessages, MineIn, OutputType DEF Texts
<1>2. Text' = Output(s, text, Text)
  BY <1>1, TextNext
<1>3. ASSUME ~ (pc \in Guarded /\ SilentCell) PROVE Grown(Log(Text), Log(Text'), text)
  <2>1. \A t \in Streams : rdbuf[t] = "buffer"
    BY <1>3, BothInPlace DEF KnownA
  <2>2. Text.pending["cerr"] = << >> /\ Text \in Texts
    BY TextNow
  <2> QED BY <1>2, <2>1, <2>2, GrowOutput
<1>4. ASSUME pc \in Guarded, SilentCell PROVE Log(Text') = Log(Text)
  <2>1. \A t \in Streams : rdbuf[t] # "buffer"
    BY <1>4, BothInPlace DEF KnownA
  <2> QED BY <1>2, <2>1, MuteOutput
<1> QED BY <1>3, <1>4

\* A flush moves no text of the log.
LEMMA FlushLogged ==
    ASSUME KnownA, NEW o \in {FlushStream("cout", Text), FlushAll(Text), Text}, TextBecomes(o)
    PROVE  Log(Text') = Log(Text)
<1> "cout" \in Streams /\ "cerr" \in Streams
  BY DEF Streams
<1>1. Text \in Texts /\ Text.pending["cerr"] = << >>
  BY TextNow
<1>2. FlushStream("cout", Text) \in Texts
  BY <1>1, AllMessages, FlushStreamType DEF Texts
<1>3. FlushAll(Text) \in Texts
  BY <1>2, AllMessages, FlushStreamType DEF FlushAll, Texts
<1>4. Text' = o
  BY <1>1, <1>2, <1>3, TextNext
<1> QED BY <1>1, <1>4, FlushLog, FlushAllLog

\* A piece that a loud request writes to a C++ stream is the last of the log.
LEMMA WriteLogged ==
    ASSUME KnownL, NEW s \in Streams, Write(s), pc \in {"run", "preamble"},
           pc' = pc \/ (pc' = "reply" /\ pc = "preamble" /\ result' # "compile"),
           UNCHANGED request
    PROVE  LInv'
<1> DEFINE log == Log(Text)
           p == Piece(s)
<1>t. KnownA /\ KnownH /\ TypeOK /\ Numbered /\ pc \notin {"start", "stopped", "crashed"}
      /\ SilentCell' = SilentCell
  BY DEF KnownL, KnownA, KnownH, CInv, SilentCell
<1>w. wrote' = Append(wrote, Piece(s)) /\ TextBecomes(Output(s, <<Piece(s)>>, Text))
  BY DEF Write
<1>1. <<p>> \in Seq(Mine) /\ p.ch = s /\ p.n = Len(wrote) + 1
  BY <1>t, PieceMine
<1>2. CASE pc \in Guarded /\ SilentCell
  <2>1. Log(Text') = Log(Text)
    BY <1>1, <1>2, <1>t, <1>w, OutputLogged
  <2>2. pc = "run" /\ pc' = "run"
    BY <1>2 DEF Guarded
  <2> QED BY <1>2, <1>t, <1>w, <2>1, <2>2, LogUntouched
<1>3. CASE ~ (pc \in Guarded /\ SilentCell)
  <2>1. Grown(Log(Text), Log(Text'), <<p>>)
    BY <1>1, <1>3, <1>t, <1>w, OutputLogged
  <2>2. /\ Len(wrote') = Len(wrote) + 1 /\ wrote'[Len(wrote) + 1] = p
        /\ \A m \in 1..Len(wrote) : wrote'[m] = wrote[m]
        /\ \A m \in 1..Len(wrote') : m \in 1..Len(wrote) \/ m = Len(wrote) + 1
    BY <1>t, <1>w, WroteMore
  <2>3. Len(wrote) \in Nat /\ Len(<<p>>) = 1 /\ <<p>>[1] = p
    BY <1>t, TextNow
  <2>4. \A t \in DOMAIN log : /\ log[t].ch \in Streams
                              /\ \E m \in 1..Len(wrote) : log[t] = wrote[m]
    BY DEF KnownL, LInv, Arrived, InOrder, BeforeEnd
  <2>5. \A t \in DOMAIN log : log[t].n \in 1..Len(wrote)
    BY <1>t, <2>4 DEF Numbered
  <2>6. InOrder(log, wrote) /\ \A t \in DOMAIN log : t[1] \in Nat /\ t[2] \in Nat
    BY LogPlaces DEF KnownL, LInv
  <2>7. (pc \in Guarded => ~ SilentCell) /\ (~ SilentCell =>
           Shown(log, "cout", wrote) /\ Shown(log, "cerr", wrote))
    BY <1>3 DEF KnownL, LInv, Arrived
  <2> HIDE DEF log, p
  <2> DEFINE x == <<p>>
  <2>8. \A t \in DOMAIN log : \A j \in 1..Len(x) : log[t] # x[j] /\ ~ Precedes(x[j], log[t])
    BY <1>1, <2>3, <2>4, <2>5 DEF Precedes, Streams
  <2>9. \A l \in 1..Len(wrote) : \E m \in 1..Len(wrote') : wrote[l] = wrote'[m]
    BY <2>2, <2>3
  <2>10. \A j \in 1..Len(x) : \E m \in 1..Len(wrote') : x[j] = wrote'[m]
    BY <2>2, <2>3
  <2>11. \A j, l \in 1..Len(x) : j < l => x[j] # x[l] /\ ~ Precedes(x[l], x[j])
    OBVIOUS
  <2>12. Grown(log, log', x) /\ Len(x) \in Nat
    BY <2>1 DEF log
  <2> HIDE DEF x
  <2>c. Continues(log, x, wrote, wrote')
    BY <2>6, <2>8, <2>9, <2>10, <2>11, <2>12 DEF Continues
  <2>13. InOrder(log', wrote')
    BY <2>12, <2>c, GrownInOrder
  <2>14. \A c : Shown(log, c, wrote) => Shown(log', c, wrote')
    <3> SUFFICES ASSUME NEW c, Shown(log, c, wrote) PROVE Shown(log', c, wrote')
      OBVIOUS
    <3>1. \A m \in 1..Len(wrote') : wrote'[m].ch = c =>
             \/ \E l \in 1..Len(wrote) : wrote'[m] = wrote[l]
             \/ \E j \in 1..Len(x) : x[j] = wrote'[m]
      BY <2>2, <2>3 DEF x
    <3> QED BY <2>12, <3>1, GrownShown
  <2>15. \A t \in DOMAIN log' : log'[t].ch \in Streams
    <3> SUFFICES ASSUME NEW t \in DOMAIN log' PROVE log'[t].ch \in Streams
      OBVIOUS
    <3>1. \/ t \in DOMAIN log /\ log'[t] = log[t]
          \/ \E j \in 1..Len(x) : log'[t] = x[j]
      BY <2>12, GrownHas
    <3> QED BY <1>1, <2>3, <2>4, <3>1 DEF x
  <2>16. pc' = "reply" => Shown(log', "stdout", wrote') /\ result' # "compile"
    <3> SUFFICES ASSUME pc' = "reply"
                 PROVE  Shown(log', "stdout", wrote') /\ result' # "compile"
      OBVIOUS
    <3>1. pc = "preamble" /\ result' # "compile"
      OBVIOUS
    <3>2. \A m \in 1..Len(wrote') : wrote'[m].ch \in Streams
      BY <1>1, <1>t, <2>2, <3>1 DEF Numbered
    <3> QED BY <3>1, <3>2 DEF Shown, Streams
  <2>17. ~ SilentCell' => Shown(log', "cout", wrote') /\ Shown(log', "cerr", wrote')
    BY <1>t, <2>7, <2>14
  <2>18. pc' \in {"run", "preamble", "reply"}
    OBVIOUS
  <2>19. Arrived'
    BY <2>15, <2>16, <2>17, <2>18 DEF Arrived, log, Streams
  <2> QED BY <2>13, <2>19 DEF LInv, log
<1> QED BY <1>2, <1>3

\* The text of a capture is the request's own.
LEMMA GathersMine ==
    ASSUME TypeOK, Numbered, NEW text \in Seq(Pieces), NEW ch, Gathers(text, ch, wrote)
    PROVE  text \in Seq(Mine)
<1>1. ASSUME NEW j \in 1..Len(text) PROVE text[j] \in Mine
  <2>1. text[j] \in Pieces
    BY ElementOfSeq
  <2>2. text[j].by = Main
    BY DEF Gathers, Numbered
  <2> QED BY <2>1, <2>2 DEF Mine
<1>2. Len(text) \in Nat /\ text = [j \in 1..Len(text) |-> text[j]]
  OBVIOUS
<1> QED BY <1>1, <1>2

\* The text of a capture that is printed comes in its order after what is in the log, of
\* which none is of its stream; of std::cout and std::cerr nothing is lost.
LEMMA CaptureLogged ==
    ASSUME KnownL, NEW ch \in CStreams, NEW text \in Seq(Pieces),
           Gathers(text, ch, wrote), NEW more, Grown(Log(Text), more, text),
           \A s \in DOMAIN Log(Text) : Log(Text)[s].ch # ch,
           ch = "stdout" => \A s \in DOMAIN Log(Text) : Log(Text)[s].ch \in Streams
    PROVE  /\ InOrder(more, wrote) /\ Shown(more, ch, wrote)
           /\ \A c : Shown(Log(Text), c, wrote) => Shown(more, c, wrote)
           /\ \A s \in DOMAIN more : more[s].ch # ch =>
                 s \in DOMAIN Log(Text) /\ more[s] = Log(Text)[s]
<1> DEFINE log == Log(Text)
<1>1. /\ InOrder(log, wrote) /\ Len(text) \in Nat
      /\ \A s \in DOMAIN log : s[1] \in Nat /\ s[2] \in Nat
  BY LogPlaces DEF KnownL, LInv
<1>2. \A s \in DOMAIN log : log[s].ch # ch /\ (ch = "stdout" => log[s].ch \in Streams)
  OBVIOUS
<1>3. Grown(log, more, text)
  OBVIOUS
<1> HIDE DEF log
<1>4. \A j \in 1..Len(text) : text[j].ch = ch /\ \E m \in 1..Len(wrote) : text[j] = wrote[m]
  BY DEF Gathers
<1>5. \A j, l \in 1..Len(text) : j < l => text[j].n < text[l].n /\ text[j].n \in Nat
                                          /\ text[l].n \in Nat
  BY DEF Gathers
<1>6. \A j, l \in 1..Len(text) :
         j < l => text[j] # text[l] /\ ~ Precedes(text[l], text[j])
  <2> SUFFICES ASSUME NEW j \in 1..Len(text), NEW l \in 1..Len(text), j < l
               PROVE  text[j] # text[l] /\ ~ Precedes(text[l], text[j])
    OBVIOUS
  <2>1. text[j].n < text[l].n /\ text[j].n \in Nat /\ text[l].n \in Nat
    BY <1>5
  <2>2. ~ (text[l].n < text[j].n) /\ text[j] # text[l]
    BY <2>1
  <2> QED BY <1>4, <2>2 DEF Precedes, CStreams
<1>7. \A s \in DOMAIN log : \A j \in 1..Len(text) :
         log[s] # text[j] /\ ~ Precedes(text[j], log[s])
  BY <1>2, <1>4 DEF Precedes, Streams, CStreams
<1>8. Continues(log, text, wrote, wrote)
  BY <1>1, <1>4, <1>6, <1>7 DEF Continues
<1>9. InOrder(more, wrote)
  BY <1>3, <1>8, GrownInOrder
<1>10. ASSUME NEW c, Shown(log, c, wrote) \/ c = ch PROVE Shown(more, c, wrote)
  <2> SUFFICES ASSUME NEW m \in 1..Len(wrote), wrote[m].ch = c
               PROVE  \E s \in DOMAIN more : more[s] = wrote[m]
    BY DEF Shown
  <2>1. CASE c = ch
    <3>1. PICK j \in 1..Len(text) : text[j] = wrote[m]
      BY <2>1 DEF Gathers
    <3>2. PICK k \in Nat, b \in Nat : \A l \in 1..Len(text) :
             <<k, b + l>> \in DOMAIN more /\ more[<<k, b + l>>] = text[l]
      BY <1>3 DEF Grown
    <3> QED BY <3>1, <3>2
  <2>2. CASE c # ch
    <3>1. PICK s \in DOMAIN log : log[s] = wrote[m]
      BY <1>10, <2>2 DEF Shown
    <3> QED BY <1>3, <3>1 DEF Grown
  <2> QED BY <2>1, <2>2
<1>11. ASSUME NEW s \in DOMAIN more, more[s].ch # ch
       PROVE  s \in DOMAIN log /\ more[s] = log[s]
  <2>1. \/ s \in DOMAIN log /\ more[s] = log[s]
        \/ \E j \in 1..Len(text) : more[s] = text[j]
    BY <1>3, GrownHas
  <2> QED BY <1>4, <1>11, <2>1
<1> QED BY <1>9, <1>10, <1>11 DEF log

\* The end of the captures prints what the cell has written to the C stdout.
LEMMA EndCaptureLogged == KnownL /\ EndCapture => LInv'
<1> SUFFICES ASSUME KnownL, EndCapture PROVE LInv'
  OBVIOUS
<1> DEFINE log == Log(Text)
           text == captures[2].text
<1>t. /\ KnownA /\ TypeOK /\ Numbered /\ Captured /\ Arrived /\ InOrder(log, wrote)
      /\ pc = "captured" /\ pc' = "report" /\ SilentCell' = SilentCell
      /\ UNCHANGED <<wrote, result>>
  BY DEF KnownL, KnownA, KnownH, CInv, LInv, EndCapture, ProcessEnded, requestVars, SilentCell
<1>1. Gathers(text, "stdout", wrote)
  BY <1>t DEF Captured, Capturing
<1>2. text \in Seq(Pieces)
  <2>1. captures \in Seq([stream : CStreams, text : Seq(Pieces)]) /\ Len(captures) = 2
    BY <1>t DEF KnownA, KnownH, Progress, Capturing, TypeOK
  <2> HIDE DEF text
  <2>2. 2 \in 1..Len(captures)
    BY <2>1
  <2>3. captures[2] \in [stream : CStreams, text : Seq(Pieces)]
    BY <2>1, <2>2, ElementOfSeq
  <2> QED BY <2>3 DEF text
<1>3. text \in Seq(Mine)
  BY <1>1, <1>2, <1>t, GathersMine
<1>4. TextBecomes(Output("cout", text, Text)) /\ "cout" \in Streams
      /\ pc \notin {"start", "stopped", "crashed"} /\ pc \in Guarded
  BY <1>t DEF EndCapture, Streams, Guarded
<1>5. \A s \in DOMAIN log : log[s].ch \in Streams /\ log[s].ch # "stdout"
  BY <1>t DEF Arrived, Streams
<1> HIDE DEF text
<1>6. CASE SilentCell
  <2>1. Log(Text') = Log(Text)
    BY <1>3, <1>4, <1>6, <1>t, OutputLogged
  <2>2. Arrived'
    BY <1>5, <1>6, <1>t, <2>1 DEF Arrived, Streams, BeforeEnd, Unwritten
  <2> QED BY <1>t, <2>1, <2>2 DEF LInv
<1>7. CASE ~ SilentCell
  <2> DEFINE more == Log(Text')
  <2>1. Grown(Log(Text), more, text)
    BY <1>3, <1>4, <1>7, <1>t, OutputLogged
  <2> HIDE DEF more
  <2>2. "stdout" \in CStreams
    BY DEF CStreams
  <2>3. /\ InOrder(more, wrote) /\ Shown(more, "stdout", wrote)
        /\ \A c : Shown(log, c, wrote) => Shown(more, c, wrote)
        /\ \A s \in DOMAIN more : more[s].ch # "stdout" =>
              s \in DOMAIN log /\ more[s] = log[s]
    BY <1>1, <1>2, <1>5, <2>1, <2>2, CaptureLogged
  <2>4. \A s \in DOMAIN more : more[s].ch # "stderr"
    BY <1>5, <2>3 DEF Streams
  <2>5. Shown(more, "cout", wrote) /\ Shown(more, "cerr", wrote)
    BY <1>7, <1>t, <2>3 DEF Arrived
  <2>6. Arrived'
    BY <1>t, <2>3, <2>4, <2>5 DEF Arrived, BeforeEnd, Unwritten, more
  <2> QED BY <1>t, <2>3, <2>6 DEF LInv, more
<1> QED BY <1>6, <1>7

\* The diagnostic of a cell that did not compile is printed after all else.
LEMMA ReportLogged == KnownL /\ Report => LInv'
<1> SUFFICES ASSUME KnownL, Report PROVE LInv'
  OBVIOUS
<1> DEFINE log == Log(Text)
<1>t. /\ KnownA /\ TypeOK /\ Numbered /\ Captured /\ Arrived /\ InOrder(log, wrote)
      /\ pc = "report" /\ pc' = "flush" /\ SilentCell' = SilentCell
      /\ UNCHANGED <<wrote, result>>
      /\ pc \notin {"start", "stopped", "crashed"} /\ pc \in Guarded
  BY DEF KnownL, KnownA, KnownH, CInv, LInv, Report, requestVars, SilentCell, Guarded
<1>1. CASE result # "compile"
  <2>1. TextBecomes(Text)
    BY <1>1 DEF Report
  <2>2. Log(Text') = Log(Text)
    BY <1>t, <2>1, FlushLogged
  <2> QED BY <1>1, <1>t, <2>2, LogKept DEF BeforeEnd, Unwritten, KnownL
<1>2. CASE result = "compile"
  <2>1. /\ Gathers(err, "stderr", wrote) /\ err \in Seq(Pieces)
        /\ TextBecomes(Output("cerr", err, Text)) /\ "cerr" \in Streams
    BY <1>2, <1>t DEF Captured, TypeOK, Report, Streams
  <2>2. err \in Seq(Mine)
    BY <1>t, <2>1, GathersMine
  <2>3. CASE SilentCell
    <3>1. Log(Text') = Log(Text)
      BY <1>t, <2>1, <2>2, <2>3, OutputLogged
    <3> QED BY <1>t, <2>3, <3>1, LogKept DEF BeforeEnd, Unwritten, KnownL
  <2>4. CASE ~ SilentCell
    <3> DEFINE more == Log(Text')
    <3>1. Grown(Log(Text), more, err)
      BY <1>t, <2>1, <2>2, <2>4, OutputLogged
    <3> HIDE DEF more
    <3>2. "stderr" \in CStreams /\ \A s \in DOMAIN log : log[s].ch # "stderr"
      BY <1>t DEF CStreams, Arrived
    <3>3. /\ InOrder(more, wrote) /\ Shown(more, "stderr", wrote)
          /\ \A c : Shown(log, c, wrote) => Shown(more, c, wrote)
      BY <2>1, <3>1, <3>2, CaptureLogged
    <3>4. /\ Shown(more, "cout", wrote) /\ Shown(more, "cerr", wrote)
          /\ Shown(more, "stdout", wrote)
      BY <1>t, <2>4, <3>3 DEF Arrived
    <3>5. Arrived'
      BY <1>t, <3>3, <3>4 DEF Arrived, BeforeEnd, Unwritten, more
    <3> QED BY <1>t, <3>3, <3>5 DEF LInv, more
  <2> QED BY <2>3, <2>4
<1> QED BY <1>1, <1>2

\* A message without text is sent where the buffer has none of the request's.
LEMMA SaidLogged ==
    ASSUME KnownA, Settled, NEW type, NEW name, Say(type, name), UNCHANGED m_output
    PROVE  Log(Text') = Log(Text)
<1> DEFINE m == [type |-> type, name |-> name, text |-> << >>]
           q == Text'
<1>1. Text \in Texts /\ Text.pending["cout"] \in Seq(Theirs)
  BY TextNow DEF KnownA, KnownH, HInv
<1>2. q.pending = Text.pending /\ q.out = Append(Text.out, m) /\ m.text = << >>
  BY DEF Say, Text
<1> HIDE DEF q, m
<1>3. Log(q) = Log(Text)
  BY <1>1, <1>2, SayLog
<1> QED BY <1>3 DEF q

\* The text after a step that keeps the types.
LEMMA TextThen == ASSUME TypeOK' PROVE Text' \in Texts /\ Text'.out = sent'
                                       /\ Text'.pending = m_output'
<1>1. m_output' \in [Streams -> Seq(Pieces)] /\ sent' \in Seq(Messages)
  BY DEF TypeOK
<1> QED BY <1>1, AllMessages DEF Text, Texts, TextOf

\* The threads put their own text into the buffer, or flush it with the request's.
LEMMA ThreadsLogged ==
    ASSUME KnownA, TypeOK', NEW w \in Workers, WorkerPut(w) \/ WorkerSync(w)
    PROVE  Log(Text') = Log(Text)
<1> DEFINE q == Text'
           t == m_output["cout"]
<1>1. /\ q \in Texts /\ q.out = sent' /\ q.pending = m_output'
      /\ Text \in Texts /\ Text.out = sent /\ Text.pending = m_output
      /\ t \in Seq(Pieces) /\ DOMAIN m_output = Streams /\ "cout" \in Streams
  BY TextThen, TextNow DEF KnownA, KnownH, TypeOK, Streams
<1> HIDE DEF q
<1>2. CASE WorkerPut(w)
  <2> DEFINE u == Append(t, WorkerPiece(w))
  <2>1. q.out = Text.out /\ q.pending["cout"] = u
    BY <1>1, <1>2 DEF WorkerPut
  <2>2. \A j \in Nat : /\ MainIn(u, j) <=> MainIn(t, j)
                       /\ MainIn(t, j) => u[j] = t[j]
    <3>1. /\ Len(u) = Len(t) + 1 /\ u[Len(t) + 1] = WorkerPiece(w)
          /\ \A j \in 1..Len(t) : u[j] = t[j]
          /\ Len(t) \in Nat
      BY <1>1
    <3>2. WorkerPiece(w).by # Main
      BY MainAssumption DEF WorkerPiece
    <3> HIDE DEF t, u
    <3> QED BY <3>1, <3>2 DEF MainIn
  <2> HIDE DEF u
  <2>3. Log(q) = Log(Text)
    BY <1>1, <2>1, <2>2, TheirsLog
  <2> QED BY <2>3 DEF q
<1>3. CASE WorkerSync(w) /\ t = << >>
  <2>1. q.out = Text.out /\ q.pending["cout"] = << >>
    BY <1>1, <1>3 DEF WorkerSync
  <2>2. Log(q) = Log(Text)
    BY <1>1, <1>3, <2>1, TheirsLog
  <2> QED BY <2>2 DEF q
<1>4. CASE WorkerSync(w) /\ t # << >>
  <2> DEFINE m == StreamMessage("cout", t)
  <2>1. q.out = Append(Text.out, m) /\ q.pending["cout"] = << >>
        /\ m.text = Text.pending["cout"]
    BY <1>1, <1>4 DEF WorkerSync, StreamMessage
  <2> HIDE DEF m, t
  <2>2. Log(q) = Log(Text)
    BY <1>1, <2>1, FlushedLog
  <2> QED BY <2>2 DEF q
<1> QED BY <1>2, <1>3, <1>4

\* What the destructor loses is the threads'.
LEMMA DestroyLogged == ASSUME KnownA, TypeOK', Destroy PROVE Log(Text') = Log(Text)
<1> DEFINE q == Text'
           t == m_output["cout"]
<1>1. /\ q \in Texts /\ q.out = sent' /\ q.pending = m_output'
      /\ Text \in Texts /\ Text.out = sent /\ Text.pending = m_output
      /\ "cout" \in Streams
  BY TextThen, TextNow DEF KnownA, KnownH, TypeOK, Streams
<1> HIDE DEF q
<1>2. t \in Seq(Theirs)
  BY DEF KnownA, KnownH, HInv, Settled, SettledAt, Destroy
<1>3. \A j \in 1..Len(t) : t[j].by # Main
  BY <1>2, ElementOfSeq, MainAssumption DEF Theirs
<1>4. q.out = Text.out /\ q.pending["cout"] = << >>
  BY <1>1 DEF Destroy
<1>5. \A j \in Nat : ~ MainIn(t, j) /\ ~ MainIn(q.pending["cout"], j)
  BY <1>3, <1>4 DEF MainIn
<1>6. Log(q) = Log(Text)
  BY <1>1, <1>4, <1>5, TheirsLog
<1> QED BY <1>6 DEF q

\* Steps that leave the text and the history alone.
LEMMA LogSameText == ASSUME UNCHANGED textVars PROVE Log(Text') = Log(Text)
BY DEF textVars, Text

\* Every step keeps LInv.
LEMMA NextLInv == KnownL /\ TypeOK' /\ [Next]_vars => LInv'
<1> SUFFICES ASSUME KnownL, TypeOK', [Next]_vars PROVE LInv'
  OBVIOUS
<1> USE DEF requestVars, BeforeEnd, Unwritten
<1>t. KnownA /\ KnownH /\ TypeOK /\ Numbered /\ LInv
  BY DEF KnownL, KnownA, KnownH, CInv
<1>s. "cout" \in Streams /\ "cerr" \in Streams
  BY DEF Streams
\* The life of the interpreter.
<1>1. ASSUME Construct PROVE LInv'
  BY <1>1, <1>t, LogSameText, LogKept DEF Construct, SilentCell
<1>2. ASSUME Destroy PROVE LInv'
  BY <1>2, <1>t, DestroyLogged, LogKept DEF Destroy, SilentCell
<1>3. ASSUME NEW silent, NEW allow, Receive(silent, allow) PROVE LInv'
  <2>1. Text' \in Texts /\ Len(Text'.out) = 0 /\ Text'.pending["cout"] \in Seq(Theirs)
    BY <1>3, <1>t, TextThen DEF Receive, KnownH, HInv, Settled, SettledAt
  <2>2. DOMAIN Log(Text') = {}
    BY <2>1, NothingLogged
  <2>3. wrote' = << >> /\ pc' = "dispatch"
    BY <1>3 DEF Receive
  <2> QED BY <2>2, <2>3 DEF LInv, InOrder, Arrived, Shown
<1>4. ASSUME NEW kind, Dispatch(kind) PROVE LInv'
  <2>1. wrote = << >> /\ Log(Text') = Log(Text)
    BY <1>4, <1>t, LogSameText DEF Dispatch, Numbered
  <2> QED BY <1>4, <1>t, <2>1, LogKept DEF Dispatch
\* The steps of the kernel that touch no text.
<1>5. ASSUME Silence \/ BeginCapture \/ Refuse \/ Extract \/ Unwind \/ IntrospectionThrows
      PROVE  LInv'
  <2>1. Log(Text') = Log(Text) /\ UNCHANGED <<wrote, request>>
    BY <1>5, LogSameText
    DEF Silence, BeginCapture, Refuse, Extract, Unwind, IntrospectionThrows
  <2>2. /\ pc' \in BeforeEnd \cup {"captured"} => pc \in BeforeEnd \cup {"captured"}
        /\ pc' \notin {"report", "flush", "publish", "reply"}
    BY <1>5 DEF Silence, BeginCapture, Refuse, Extract, Unwind, IntrospectionThrows
  <2> QED BY <1>t, <2>1, <2>2, LogKept DEF SilentCell
<1>6. ASSUME Flush PROVE LInv'
  <2>1. Log(Text') = Log(Text)
    BY <1>6, <1>t, FlushLogged DEF Flush
  <2> QED BY <1>6, <1>t, <2>1, LogKept DEF Flush, SilentCell
\* The messages without text.
<1>7. ASSUME Ask PROVE LInv'
  <2>1. Log(Text') = Log(Text)
    BY <1>7, <1>t, SaidLogged DEF Ask, Settled, SettledAt
  <2> QED BY <1>7, <1>t, <2>1, LogKept DEF Ask, SilentCell
<1>8. ASSUME PublishError PROVE LInv'
  <2>1. Log(Text') = Log(Text)
    <3>1. CASE result # "ok" /\ ~ request.silent
      BY <1>8, <1>t, <3>1, SaidLogged DEF PublishError, Settled, SettledAt
    <3>2. CASE ~ (result # "ok" /\ ~ request.silent)
      BY <1>8, <3>2, LogSameText DEF PublishError, textVars
    <3> QED BY <3>1, <3>2
  <2> QED BY <1>8, <1>t, <2>1, LogKept DEF PublishError, SilentCell
<1>9. ASSUME Reply PROVE LInv'
  <2>1. Log(Text') = Log(Text)
    BY <1>9, <1>t, SaidLogged DEF Reply, Settled, SettledAt
  <2> QED BY <1>9, <1>t, <2>1, LogKept DEF Reply, SilentCell
\* The preambles, which write to the C++ streams only.
<1>10. ASSUME NEW kind, PreambleEnds(kind, "ok") PROVE LInv'
  <2>1. Log(Text') = Log(Text)
    BY <1>10, <1>t, FlushLogged DEF PreambleEnds, PreambleFlush
  <2>2. /\ pc = "preamble" /\ pc' = "reply" /\ result' = "ok" /\ wrote' = wrote
        /\ SilentCell' = SilentCell
    BY <1>10 DEF PreambleEnds, SilentCell
  <2>3. Shown(Log(Text), "stdout", wrote)
    BY <1>t, <2>2 DEF Numbered, Shown, Streams
  <2>4. Arrived'
    BY <1>t, <2>1, <2>2, <2>3 DEF Arrived, LInv
  <2> QED BY <1>t, <2>1, <2>2, <2>4 DEF LInv
<1>11. ASSUME NEW kind, PreambleFails(kind) PROVE LInv'
  BY <1>11, <1>s, WriteLogged DEF PreambleFails
<1>12. ASSUME NEW kind, NEW s \in Streams, PreambleWrite(kind, s) PROVE LInv'
  BY <1>12, WriteLogged DEF PreambleWrite
<1>13. ASSUME Kernel PROVE LInv'
  BY <1>1, <1>4, <1>5, <1>6, <1>7, <1>8, <1>9, <1>10, <1>11, <1>13, EndCaptureLogged,
     ReportLogged
  DEF Kernel, ShellDone, ShellFails, MagicDone, MagicUnknown, IntrospectionFound,
      IntrospectionNotFound
\* The code of a cell, and its end.
<1>14. ASSUME NEW s \in Streams, CellWrite(s) PROVE LInv'
  BY <1>14, WriteLogged DEF CellWrite
<1>15. ASSUME NEW ch \in CStreams, CellPrintf(ch) PROVE LInv'
  <2>1. Log(Text') = Log(Text) /\ ch \notin Streams
    BY <1>15, LogSameText DEF CellPrintf, Streams, CStreams
  <2> QED BY <1>15, <2>1, LogUntouched DEF CellPrintf, SilentCell
<1>16. ASSUME CellFlush \/ CellRead PROVE LInv'
  <2>1. Log(Text') = Log(Text)
    BY <1>16, <1>t, FlushLogged DEF CellFlush, CellRead, Tie
  <2> QED BY <1>16, <1>t, <2>1, LogKept DEF CellFlush, CellRead, SilentCell
<1>17. ASSUME NEW w \in Workers, CellStartsThread(w) PROVE LInv'
  BY <1>17, <1>t, LogSameText, LogKept DEF CellStartsThread, SilentCell
<1>18. ASSUME Code PROVE LInv'
  BY <1>s, <1>12, <1>14, <1>15, <1>16, <1>17, <1>18 DEF Code, ShellOutput, MagicWrite
<1>19. ASSUME CellDoesNotCompile PROVE LInv'
  <2>1. Log(Text') = Log(Text) /\ "stderr" \notin Streams /\ "stderr" \in CStreams
    BY <1>19, LogSameText DEF CellDoesNotCompile, Streams, CStreams
  <2>2. wrote' = Append(wrote, Piece("stderr"))
    BY <1>19, <1>t DEF CellDoesNotCompile, Numbered
  <2> QED BY <1>19, <2>1, <2>2, LogUntouched DEF CellDoesNotCompile, SilentCell
<1>20. ASSUME NEW how, CellEnds(how) PROVE LInv'
  BY <1>20, <1>t, LogSameText, LogKept DEF CellEnds, SilentCell
<1>21. ASSUME NEW length, Answer(length) PROVE LInv'
  BY <1>21, <1>t, LogSameText, LogKept DEF Answer, SilentCell
\* The threads.
<1>22. ASSUME Threads PROVE LInv'
  <2>1. PICK w \in Workers : \/ WorkerFetch(w) \/ WorkerPut(w) \/ WorkerSync(w)
                             \/ WorkerLoses(w) \/ WorkerCrashes(w)
    BY <1>22 DEF Threads
  <2>2. Log(Text') = Log(Text)
    <3>1. CASE WorkerPut(w) \/ WorkerSync(w)
      BY <1>t, <3>1, ThreadsLogged
    <3>2. CASE WorkerFetch(w) \/ WorkerLoses(w) \/ WorkerCrashes(w)
      BY <3>2, LogSameText DEF WorkerFetch, WorkerLoses, WorkerCrashes
    <3> QED BY <2>1, <3>1, <3>2
  <2>3. UNCHANGED <<request, result, wrote>> /\ pc' \in {pc, "crashed"}
    BY <2>1 DEF WorkerFetch, WorkerPut, WorkerSync, WorkerLoses, WorkerCrashes, Returned
  <2> QED BY <1>t, <2>2, <2>3, LogKept DEF SilentCell
<1>23. ASSUME UNCHANGED vars PROVE LInv'
  BY <1>23, <1>t, LogSameText, LogKept DEF vars, SilentCell
<1> QED
  BY <1>2, <1>3, <1>13, <1>18, <1>19, <1>20, <1>21, <1>22, <1>23
  DEF Next, End, Reading, Client

-----------------------------------------------------------------------------
(* What the log says of the messages.                                      *)

\* A place of text in the messages.
LEMMA SpotIs ==
    ASSUME NEW t \in Spots
    PROVE  /\ t = <<t[1], t[2]>> /\ t[1] \in 1..Len(sent) /\ t[2] \in 1..Len(sent[t[1]].text)
           /\ Heard(t).by = Main => t \in DOMAIN Log(Text) /\ Log(Text)[t] = Heard(t)
<1>1. PICK i \in 1..Len(sent) : t \in {i} \X (1..Len(sent[i].text))
  BY DEF Spots
<1>2. t = <<i, t[2]>> /\ t[1] = i /\ t[2] \in 1..Len(sent[i].text)
  BY <1>1
<1>3. TextAt(Text, i) = sent[i].text /\ i \in 1..(Len(Text.out) + 1)
  BY DEF Text, TextAt
<1>4. Heard(t).by = Main => MainAt(Text, i, t[2])
  BY <1>2, <1>3 DEF MainAt, MainIn, Heard
<1>5. Heard(t).by = Main => t \in DOMAIN Log(Text) /\ Log(Text)[t] = Heard(t)
  BY <1>2, <1>3, <1>4, LogIs DEF Heard
<1> QED BY <1>2, <1>5

\* A place of the log that is in the messages.
LEMMA LogSpot ==
    ASSUME NEW s \in DOMAIN Log(Text), s[1] \in 1..Len(sent)
    PROVE  s \in Spots /\ Heard(s) = Log(Text)[s]
<1>1. /\ s = <<s[1], s[2]>> /\ MainAt(Text, s[1], s[2])
      /\ Log(Text)[s] = TextAt(Text, s[1])[s[2]]
  BY LogIs
<1>2. TextAt(Text, s[1]) = sent[s[1]].text
  BY DEF Text, TextAt
<1>3. s[2] \in 1..Len(sent[s[1]].text)
  BY <1>1, <1>2 DEF MainAt, MainIn
<1>4. PICK i \in 1..Len(sent) : i = s[1]
  OBVIOUS
<1>5. s \in {i} \X (1..Len(sent[i].text))
  BY <1>1, <1>3, <1>4
<1>6. s \in Spots
  BY <1>5 DEF Spots
<1> QED BY <1>1, <1>2, <1>6 DEF Heard

\* The log in order, of which the messages are the first part.
LEMMA LInvImplies == KnownL /\ SilentUnheard => ProgramOrder
<1> SUFFICES ASSUME KnownL, SilentUnheard, NEW t \in Spots, Heard(t).by = Main
             PROVE  /\ \E m \in 1..Len(wrote) : Heard(t) = wrote[m]
                    /\ \A s \in Spots : Before(s, t) => Heard(s) # Heard(t)
                    /\ \A m \in 1..Len(wrote) : Precedes(wrote[m], Heard(t)) =>
                          \E s \in Spots : Before(s, t) /\ Heard(s) = wrote[m]
  BY DEF ProgramOrder
<1> DEFINE log == Log(Text)
<1>1. /\ t = <<t[1], t[2]>> /\ t[1] \in 1..Len(sent) /\ t[2] \in 1..Len(sent[t[1]].text)
      /\ t \in DOMAIN log /\ log[t] = Heard(t)
  BY SpotIs
<1>2. InOrder(log, wrote) /\ Arrived /\ Numbered
  BY DEF KnownL, LInv, CInv
<1>3. PICK k \in 1..Len(wrote) : Heard(t) = wrote[k]
  BY <1>1, <1>2 DEF InOrder
<1>4. ASSUME NEW s \in Spots, Before(s, t) PROVE Heard(s) # Heard(t)
  <2> SUFFICES ASSUME Heard(s) = Heard(t) PROVE FALSE
    OBVIOUS
  <2>1. s \in DOMAIN log /\ log[s] = Heard(s)
    BY SpotIs
  <2> QED BY <1>1, <1>2, <1>4, <2>1 DEF InOrder
<1>5. ASSUME NEW m \in 1..Len(wrote), Precedes(wrote[m], Heard(t))
      PROVE  \E s \in Spots : Before(s, t) /\ Heard(s) = wrote[m]
  <2>1. ~ Heard(t).silent
    BY <1>1 DEF SilentUnheard, Heard
  <2>2. ~ SilentCell
    BY <1>2, <1>3, <2>1 DEF Numbered
  <2>3. Shown(log, wrote[m].ch, wrote)
    <3>1. wrote[m].ch \in Streams \/ (wrote[m].ch = "stdout" /\ Heard(t).ch = "stdout")
      BY <1>5 DEF Precedes, Streams
    <3> QED BY <1>1, <1>2, <2>2, <3>1 DEF Arrived, Streams
  <2>4. PICK s \in DOMAIN log : log[s] = wrote[m]
    BY <2>3 DEF Shown
  <2>5. ~ Before(t, s)
    BY <1>1, <1>2, <1>5, <2>4 DEF InOrder
  <2>6. s # t
    <3>1. wrote[m].n = m /\ wrote[k].n = k /\ m \in Nat /\ k \in Nat
      BY <1>2 DEF Numbered
    <3>2. ~ Precedes(wrote[k], wrote[k])
      BY <3>1 DEF Precedes
    <3> QED BY <1>1, <1>3, <1>5, <2>4, <3>2
  <2>7. s = <<s[1], s[2]>> /\ s[1] \in Nat /\ s[2] \in Nat /\ MainAt(Text, s[1], s[2])
    BY <2>4, LogIs
  <2>8. Before(s, t)
    BY <1>1, <2>5, <2>6, <2>7 DEF Before
  <2>9. s[1] \in 1..Len(sent)
    BY <1>1, <2>7, <2>8 DEF Before, MainAt
  <2> QED BY <2>4, <2>8, <2>9, LogSpot
<1> QED BY <1>3, <1>4, <1>5

\* Where the text of the request has been flushed, its log is in the messages.
LEMMA SettledHeard ==
    ASSUME KnownL, Settled, NEW s \in DOMAIN Log(Text)
    PROVE  s \in Spots /\ Heard(s) = Log(Text)[s]
<1>1. TypeOK /\ m_output["cout"] \in Seq(Theirs)
  BY DEF KnownL, KnownA, KnownH, HInv
<1>2. s[1] \in Nat /\ MainAt(Text, s[1], s[2])
  BY LogIs
<1>3. s[1] # Len(sent) + 1
  <2> SUFFICES ASSUME s[1] = Len(sent) + 1 PROVE FALSE
    OBVIOUS
  <2>1. Len(sent) \in Nat
    BY <1>1 DEF TypeOK
  <2>2. TextAt(Text, s[1]) = m_output["cout"]
    BY <2>1 DEF Text, TextAt
  <2> QED BY <1>1, <1>2, <2>2, ElementOfSeq, MainAssumption DEF MainAt, MainIn, Theirs
<1>4. s[1] \in 1..Len(sent)
  BY <1>1, <1>2, <1>3 DEF MainAt, Text, TypeOK
<1> QED BY <1>4, LogSpot

\* Where a cell asks for input, the client has heard what it wrote to the C++ streams.
LEMMA LInvPrompts == KnownL => PromptShown
<1> SUFFICES ASSUME KnownL, pc = "input", NEW m \in 1..Len(wrote),
                    wrote[m].ch \in Streams, ~ wrote[m].silent
             PROVE  \E s \in Spots : Heard(s) = wrote[m]
  BY DEF PromptShown
<1>1. ~ SilentCell
  BY DEF KnownL, CInv, Numbered
<1>2. Shown(Log(Text), wrote[m].ch, wrote)
  BY <1>1 DEF KnownL, LInv, Arrived, Streams
<1>3. PICK s \in DOMAIN Log(Text) : Log(Text)[s] = wrote[m]
  BY <1>2 DEF Shown
<1>4. Settled
  BY DEF Settled, SettledAt
<1> QED BY <1>3, <1>4, SettledHeard

\* The invariants of this part hold.
LEMMA OrderHolds == Spec => []KnownL
<1>1. Spec => []KnownA
  <2>1. KnownH /\ AInv => KnownA
    BY DEF KnownA
  <2> QED BY <2>1, HeldHold, ApartHold, PTL
<1>2. Spec => []CInv
  BY <1>1, InitCInv, NextCInv, PTL DEF Spec
<1>3. Spec => []TypeOK
  BY TypeCorrect
<1>4. KnownA /\ CInv /\ LInv => KnownL
  BY DEF KnownL
<1>5. Spec => []LInv
  BY <1>1, <1>2, <1>3, <1>4, InitLInv, NextLInv, PTL DEF Spec
<1> QED BY <1>1, <1>2, <1>4, <1>5, PTL

\* What the client hears of a request is what it wrote, once each, in its order and
\* without a gap: on std::cout and std::cerr together, as if they had one buffer, and of
\* the C stdout after them; whatever threads write and flush in between, for a cell that
\* returns, throws or does not compile (Output, FlushStream, EndCapture).
THEOREM WritesHeardInOrder == Spec => []ProgramOrder
BY OrderHolds, SilentCellsUnheard, LInvImplies, PTL

\* Whatever a cell has written to the C++ streams before it reads std::cin, the client has
\* received when it is asked for input, whatever threads write and flush in between (the
\* ties of the streams and their flushes).
THEOREM PromptsShown == Spec => []PromptShown
BY OrderHolds, LInvPrompts, PTL

-----------------------------------------------------------------------------
(* The reply is the end of the output.                                     *)

\* Before its end a request has no reply.
Answering == Busy \ {"unwind"}
NoReply == \A i \in 1..Len(sent) : sent[i].type # "reply"
BInv == (pc \in Answering => NoReply) /\ OutputBeforeReply

\* BInv holds when the process starts.
LEMMA InitBInv == Init => BInv
BY DEF Init, BInv, Answering, Busy, OutputBeforeReply

\* Without a reply there is nothing to keep.
LEMMA NoneBefore == NoReply' => BInv'
BY DEF NoReply, BInv, OutputBeforeReply

\* The steps of a request before its reply that send text, or nothing.
LEMMA AnsweringKept == ASSUME TypeOK, BInv, pc \in Answering, MoreText(sent') PROVE BInv'
<1>1. NoReply /\ Len(sent) \in Nat /\ Len(sent') \in Nat
  BY DEF BInv, TypeOK, MoreText
<1>2. ASSUME NEW i \in 1..Len(sent') PROVE sent'[i].type # "reply"
  <2>1. CASE i \in 1..Len(sent)
    BY <1>1, <2>1 DEF MoreText, NoReply
  <2>2. CASE i \in (Len(sent) + 1)..Len(sent')
    BY <2>2 DEF MoreText
  <2> QED BY <1>1, <2>1, <2>2
<1> QED BY <1>2, NoneBefore DEF NoReply

\* Those that send a message of another kind.
LEMMA SaidBefore ==
    ASSUME TypeOK, BInv, pc \in Answering, NEW type, type # "reply", NEW name, Say(type, name)
    PROVE  BInv'
<1>1. NoReply /\ sent \in Seq(Messages) /\ Len(sent) \in Nat
  BY DEF BInv, TypeOK
<1> DEFINE m == [type |-> type, name |-> name, text |-> << >>]
<1>2. sent' = Append(sent, m) /\ m.type # "reply"
  BY DEF Say
<1> HIDE DEF m
<1>3. \A i \in 1..Len(sent') : sent'[i].type # "reply"
  BY <1>1, <1>2 DEF NoReply
<1> QED BY <1>3, NoneBefore DEF NoReply

\* The steps that send nothing.
LEMMA NothingSent ==
    ASSUME BInv, UNCHANGED <<sent, wrote, result>>, pc' \in Answering => pc \in Answering
    PROVE  BInv'
BY DEF BInv, NoReply, OutputBeforeReply, Spots, Heard, Audible

\* All that is audible is in the messages when the reply is sent.
LEMMA AllHeard ==
    ASSUME KnownL, pc = "reply", NEW m \in 1..Len(wrote), Audible(wrote[m])
    PROVE  \E s \in Spots : Heard(s) = wrote[m]
<1> DEFINE log == Log(Text)
<1>1. Arrived /\ Numbered /\ TypeOK
  BY DEF KnownL, KnownA, KnownH, LInv, CInv
<1>2. ~ SilentCell
  BY <1>1 DEF Audible, Numbered
<1>3. wrote[m].ch \in {"cout", "cerr", "stdout", "stderr"}
  <2>1. wrote[m] \in Pieces
    BY <1>1, ElementOfSeq DEF TypeOK
  <2> QED BY <2>1 DEF Pieces, Streams, CStreams
<1>4. Shown(log, wrote[m].ch, wrote)
  BY <1>1, <1>2, <1>3 DEF Arrived, Audible
<1>5. PICK s \in DOMAIN log : log[s] = wrote[m]
  BY <1>4 DEF Shown
<1>6. Settled
  BY DEF Settled, SettledAt
<1> QED BY <1>5, <1>6, SettledHeard

\* The places of the messages that were sent are places still.
LEMMA SpotsGrow ==
    ASSUME sent \in Seq(Messages), NEW m \in Messages, sent' = Append(sent, m)
    PROVE  /\ \A s \in Spots : /\ s \in Spots' /\ Heard(s)' = Heard(s)
                               /\ s[1] \in 1..Len(sent)
           /\ \A s \in Spots' : \/ s \in Spots /\ Heard(s)' = Heard(s)
                                \/ /\ s[1] = Len(sent) + 1 /\ s[2] \in 1..Len(m.text)
                                   /\ Heard(s)' = m.text[s[2]]
           /\ Len(sent) \in Nat /\ Len(sent') = Len(sent) + 1
           /\ sent'[Len(sent) + 1] = m /\ \A i \in 1..Len(sent) : sent'[i] = sent[i]
<1> DEFINE n == Len(sent)
<1>1. n \in Nat /\ Len(sent') = n + 1 /\ sent'[n + 1] = m
      /\ \A i \in 1..n : sent'[i] = sent[i]
  OBVIOUS
<1>2. ASSUME NEW s \in Spots PROVE s \in Spots' /\ Heard(s)' = Heard(s) /\ s[1] \in 1..n
  <2>1. PICK i \in 1..n : s \in {i} \X (1..Len(sent[i].text))
    BY DEF Spots
  <2>2. s[1] = i
    BY <2>1
  <2>3. i \in 1..Len(sent') /\ s \in {i} \X (1..Len(sent'[i].text))
    BY <1>1, <2>1
  <2> QED BY <1>1, <2>2, <2>3 DEF Spots, Heard
<1>3. ASSUME NEW s \in Spots'
      PROVE  \/ s \in Spots /\ Heard(s)' = Heard(s)
             \/ s[1] = n + 1 /\ s[2] \in 1..Len(m.text) /\ Heard(s)' = m.text[s[2]]
  <2>1. PICK i \in 1..Len(sent') : s \in {i} \X (1..Len(sent'[i].text))
    BY DEF Spots
  <2>2. s[1] = i /\ s[2] \in 1..Len(sent'[i].text)
    BY <2>1
  <2>3. CASE i \in 1..n
    <3>1. s \in {i} \X (1..Len(sent[i].text))
      BY <1>1, <2>1, <2>3
    <3> QED BY <1>1, <2>2, <2>3, <3>1 DEF Spots, Heard
  <2>4. CASE i = n + 1
    BY <1>1, <2>2, <2>4 DEF Heard
  <2> QED BY <1>1, <2>3, <2>4
<1> QED BY <1>1, <1>2, <1>3

\* The reply comes after all that its request wrote.
LEMMA ReplyLast == KnownL /\ BInv /\ Reply => BInv'
<1> SUFFICES ASSUME KnownL, BInv, Reply PROVE BInv'
  OBVIOUS
<1> DEFINE m == [type |-> "reply", name |-> ReplyStatus, text |-> << >>]
           n == Len(sent)
<1>1. /\ pc = "reply" /\ pc' = "unwind" /\ UNCHANGED <<wrote, result>>
      /\ TypeOK /\ NoReply /\ sent \in Seq(Messages)
  BY DEF Reply, requestVars, KnownL, KnownA, KnownH, TypeOK, BInv, Answering, Busy
<1>2. m \in Messages /\ sent' = Append(sent, m) /\ Len(m.text) = 0
  <2>1. << >> \in Seq(Pieces)
    OBVIOUS
  <2> QED BY <2>1 DEF Reply, Say, ReplyStatus, Messages
<1> HIDE DEF m
<1>3. /\ \A s \in Spots : s \in Spots' /\ Heard(s)' = Heard(s) /\ s[1] \in 1..n
      /\ \A s \in Spots' : \/ s \in Spots /\ Heard(s)' = Heard(s)
                           \/ s[1] = n + 1 /\ s[2] \in 1..Len(m.text)
      /\ n \in Nat /\ Len(sent') = n + 1 /\ \A i \in 1..n : sent'[i] = sent[i]
  BY <1>1, <1>2, SpotsGrow
<1>4. ASSUME NEW i \in 1..Len(sent'), sent'[i].type = "reply"
      PROVE  /\ \A l \in 1..Len(wrote') : Audible(wrote[l])' =>
                   \E s \in Spots' : s[1] < i /\ Heard(s)' = wrote'[l]
             /\ \A s \in Spots' : i < s[1] => Heard(s)'.by # Main
  <2>1. i = n + 1
    BY <1>1, <1>3, <1>4 DEF NoReply
  <2>2. ASSUME NEW l \in 1..Len(wrote'), Audible(wrote[l])'
        PROVE  \E s \in Spots' : s[1] < i /\ Heard(s)' = wrote'[l]
    <3>1. l \in 1..Len(wrote) /\ Audible(wrote[l]) /\ wrote'[l] = wrote[l]
      BY <1>1, <2>2 DEF Audible
    <3>2. PICK s \in Spots : Heard(s) = wrote[l]
      BY <1>1, <3>1, AllHeard
    <3> QED BY <1>3, <2>1, <3>1, <3>2
  <2>3. ASSUME NEW s \in Spots', i < s[1] PROVE FALSE
    BY <1>2, <1>3, <2>1, <2>3
  <2> QED BY <2>2, <2>3
<1>5. OutputBeforeReply'
  BY <1>4 DEF OutputBeforeReply
<1> QED BY <1>1, <1>5 DEF BInv, Answering

\* A thread that flushes after the reply has only text of its own to send.
LEMMA ThreadsAfter == ASSUME KnownL, BInv, NEW w \in Workers, WorkerSync(w) PROVE BInv'
<1> DEFINE t == m_output["cout"]
           m == StreamMessage("cout", t)
           n == Len(sent)
<1>1. /\ TypeOK /\ HInv /\ sent \in Seq(Messages) /\ "cout" \in Streams
      /\ pc # "crashed" /\ UNCHANGED <<pc, wrote, result>> /\ t \in Seq(Pieces)
  BY DEF KnownL, KnownA, KnownH, TypeOK, WorkerSync, Returned, requestVars, Streams
<1>2. CASE pc \in Answering
  BY <1>1, <1>2, MoreSync, AnsweringKept
<1>3. CASE pc \notin Answering /\ t = << >>
  BY <1>1, <1>3, NothingSent DEF WorkerSync
<1>4. CASE pc \notin Answering /\ t # << >>
  <2>1. t \in Seq(Theirs)
    BY <1>1, <1>4 DEF HInv, Settled, SettledAt, Answering, TypeOK
  <2>2. m \in Messages /\ m.text = t /\ m.type = "stream" /\ sent' = Append(sent, m)
    BY <1>1, <1>4, StreamMessageType, AllMessages DEF WorkerSync, StreamMessage
  <2>3. \A j \in 1..Len(t) : t[j].by # Main
    BY <2>1, ElementOfSeq, MainAssumption DEF Theirs
  <2> HIDE DEF m, t
  <2>4. /\ \A s \in Spots : s \in Spots' /\ Heard(s)' = Heard(s) /\ s[1] \in 1..n
        /\ \A s \in Spots' : \/ s \in Spots /\ Heard(s)' = Heard(s)
                             \/ /\ s[1] = n + 1 /\ s[2] \in 1..Len(m.text)
                                /\ Heard(s)' = m.text[s[2]]
        /\ n \in Nat /\ Len(sent') = n + 1 /\ sent'[n + 1] = m
        /\ \A i \in 1..n : sent'[i] = sent[i]
    BY <1>1, <2>2, SpotsGrow
  <2>5. ASSUME NEW i \in 1..Len(sent'), sent'[i].type = "reply"
        PROVE  /\ \A l \in 1..Len(wrote') : Audible(wrote[l])' =>
                     \E s \in Spots' : s[1] < i /\ Heard(s)' = wrote'[l]
               /\ \A s \in Spots' : i < s[1] => Heard(s)'.by # Main
    <3>1. i \in 1..n /\ sent[i].type = "reply"
      BY <2>2, <2>4, <2>5
    <3>2. ASSUME NEW l \in 1..Len(wrote'), Audible(wrote[l])'
          PROVE  \E s \in Spots' : s[1] < i /\ Heard(s)' = wrote'[l]
      <4>1. l \in 1..Len(wrote) /\ Audible(wrote[l]) /\ wrote'[l] = wrote[l]
        BY <1>1, <3>2 DEF Audible
      <4>2. PICK s \in Spots : s[1] < i /\ Heard(s) = wrote[l]
        BY <3>1, <4>1 DEF BInv, OutputBeforeReply
      <4> QED BY <2>4, <4>1, <4>2
    <3>3. ASSUME NEW s \in Spots', i < s[1] PROVE Heard(s)'.by # Main
      BY <2>2, <2>3, <2>4, <3>1, <3>3 DEF BInv, OutputBeforeReply
    <3> QED BY <3>2, <3>3
  <2>6. OutputBeforeReply'
    BY <2>5 DEF OutputBeforeReply
  <2> QED BY <1>1, <1>4, <2>6 DEF BInv
<1> QED BY <1>2, <1>3, <1>4

\* Every step keeps BInv.
LEMMA NextBInv == KnownL /\ BInv /\ [Next]_vars => BInv'
<1> SUFFICES ASSUME KnownL, BInv, [Next]_vars PROVE BInv'
  OBVIOUS
<1> USE DEF requestVars, textVars
<1>t. TypeOK /\ Progress /\ "cout" \in Streams /\ "cerr" \in Streams
  BY DEF KnownL, KnownA, KnownH, Streams
<1>a. {"dispatch", "preamble", "silence", "begin", "run", "read", "input", "extract",
       "captured", "report", "flush", "publish", "reply"} \subseteq Answering
  BY DEF Answering, Busy
<1>b. {"start", "idle", "stopped", "crashed", "unwind"} \cap Answering = {}
  BY DEF Answering, Busy
\* The steps that send nothing, of the interpreter's life or of a request.
<1>1. ASSUME Construct \/ Destroy \/ Unwind \/ UNCHANGED vars
      PROVE  BInv'
  BY <1>1, <1>b, NothingSent DEF Construct, Destroy, Unwind, vars
<1>2. ASSUME NEW silent, NEW allow, Receive(silent, allow) PROVE BInv'
  BY <1>2, NoneBefore DEF Receive, NoReply
<1>3. ASSUME UNCHANGED sent, pc \in Answering PROVE BInv'
  BY <1>3, <1>t, TextUnchanged, AnsweringKept
<1>4. ASSUME \/ \E kind \in Kinds : Dispatch(kind)
             \/ Silence \/ BeginCapture \/ Refuse \/ Extract \/ IntrospectionThrows
      PROVE  BInv'
  BY <1>3, <1>4, <1>a
  DEF Dispatch, Silence, BeginCapture, Refuse, Extract, IntrospectionThrows
\* Those that send text.
<1>5. ASSUME EndCapture \/ Report PROVE BInv'
  BY <1>5, <1>a, <1>t, MoreCaptured, AnsweringKept DEF EndCapture, ProcessEnded, Report
<1>6. ASSUME Flush \/ \E kind, how \in {"ok"} \cup Kinds : PreambleEnds(kind, how) PROVE BInv'
  BY <1>6, <1>a, <1>t, MoreFlushes, AnsweringKept DEF Flush, PreambleEnds, PreambleFlush
<1>7. ASSUME NEW kind, PreambleFails(kind) PROVE BInv'
  BY <1>7, <1>a, <1>t, MoreWrite, AnsweringKept DEF PreambleFails
<1>8. ASSUME NEW kind, NEW s \in Streams, PreambleWrite(kind, s) PROVE BInv'
  BY <1>8, <1>a, <1>t, MoreWrite, AnsweringKept DEF PreambleWrite
\* The other messages.
<1>9. ASSUME Ask PROVE BInv'
  BY <1>9, <1>a, <1>t, SaidBefore DEF Ask
<1>10. ASSUME PublishError PROVE BInv'
  BY <1>3, <1>10, <1>a, <1>t, SaidBefore DEF PublishError
<1>11. ASSUME Kernel PROVE BInv'
  BY <1>1, <1>4, <1>5, <1>6, <1>7, <1>9, <1>10, <1>11, ReplyLast
  DEF Kernel, ShellDone, ShellFails, MagicDone, MagicUnknown, IntrospectionFound,
      IntrospectionNotFound, Kinds
\* The code of a cell.
<1>12. ASSUME NEW s \in Streams, CellWrite(s) PROVE BInv'
  BY <1>12, <1>a, <1>t, MoreWrite, AnsweringKept DEF CellWrite
<1>13. ASSUME CellFlush \/ CellRead PROVE BInv'
  BY <1>13, <1>a, <1>t, MoreFlushes, AnsweringKept DEF CellFlush, CellRead, Tie
<1>14. ASSUME Code PROVE BInv'
  BY <1>3, <1>8, <1>12, <1>13, <1>14, <1>a, <1>t
  DEF Code, ShellOutput, MagicWrite, CellPrintf, CellStartsThread
<1>15. ASSUME End \/ Reading PROVE BInv'
  BY <1>3, <1>15, <1>a DEF End, CellDoesNotCompile, CellEnds, Reading, Answer
\* The threads.
<1>16. ASSUME NEW w \in Workers, WorkerFetch(w) \/ WorkerPut(w) \/ WorkerLoses(w)
       PROVE  BInv'
  BY <1>16, NothingSent DEF WorkerFetch, WorkerPut, WorkerLoses, Returned
<1>17. ASSUME NEW w \in Workers, WorkerCrashes(w) PROVE BInv'
  BY <1>17, <1>b, NothingSent DEF WorkerCrashes
<1> QED
  BY <1>1, <1>2, <1>11, <1>14, <1>15, <1>16, <1>17, ThreadsAfter DEF Next, Threads, Client

\* When the reply comes the client has all that the request wrote and may hear, of four
\* streams and of a compiler's diagnostic, and nothing of the request comes after it;
\* whether its code returned, threw or did not compile, and whatever threads do
\* (the flushes of execute_request_impl and of the preambles, before cb(kernel_res)).
THEOREM RepliesEndOutput == Spec => []OutputBeforeReply
<1>1. BInv => OutputBeforeReply
  BY DEF BInv
<1> QED BY <1>1, InitBInv, NextBInv, OrderHolds, PTL DEF Spec
=============================================================================
