------------------------- MODULE Interpreter_proofs -------------------------
(***************************************************************************)
(* The variables of the interpreter have their types, however a request    *)
(* ends the streams are put back (StreamsRestored), and a silent cell is   *)
(* not heard (SilentUnheard), for any number of requests, statements,      *)
(* workers, worker calls and characters of an answer; with lemmas on what  *)
(* the operations on text leave, whatever the text is made of, for the     *)
(* proofs about what the client hears.                                     *)
(***************************************************************************)
EXTENDS Interpreter, SequenceTheorems, TLAPS

\* Messages of the types in T whose text is made of the pieces in S, and text that
\* is made of them, buffered or in messages.
MessagesOf(T, S) == [type : T,
                     name : CStreams \cup {"stdin", "error", "ok"},
                     text : Seq(S)]
TextOf(T, S) == [pending : [Streams -> Seq(S)], out : Seq(MessagesOf(T, S))]

\* The types of all messages.
Types == {"stream", "input_request", "error", "reply"}

\* A message of a stream carries the text it is made of.
LEMMA StreamMessageType ==
    ASSUME NEW T, NEW S, "stream" \in T, NEW s \in Streams, NEW text \in Seq(S)
    PROVE  StreamMessage(s, text) \in MessagesOf(T, S)
BY DEF StreamMessage, StreamName, MessagesOf, CStreams, Streams

\* A message without text keeps the messages what they are.
LEMMA SayType ==
    ASSUME NEW T, NEW S, sent \in Seq(MessagesOf(T, S)), NEW type \in T,
           NEW name \in CStreams \cup {"stdin", "error", "ok"},
           Say(type, name)
    PROVE  sent' \in Seq(MessagesOf(T, S))
<1>1. << >> \in Seq(S)
  OBVIOUS
<1>2. [type |-> type, name |-> name, text |-> << >>] \in MessagesOf(T, S)
  BY <1>1 DEF MessagesOf
<1> QED BY <1>2 DEF Say

\* Text put into a buffer is kept; a stream that has no such buffer drops any text.
LEMMA InsertType ==
    ASSUME NEW T, NEW S, "stream" \in T, NEW s \in Streams, NEW text,
           NEW o \in TextOf(T, S),
           rdbuf[s] = "buffer" => text \in Seq(S)
    PROVE  Insert(s, text, o) \in TextOf(T, S)
<1>1. CASE rdbuf[s] = "buffer"
  <2>1. o.pending[s] \o text \in Seq(S)
    BY <1>1 DEF TextOf
  <2>2. [o.pending EXCEPT ![s] = o.pending[s] \o text] \in [Streams -> Seq(S)]
    BY <2>1 DEF TextOf
  <2> QED BY <1>1, <2>2 DEF Insert, TextOf
<1> QED BY <1>1 DEF Insert

\* A flush moves the text of a buffer into a message.
LEMMA FlushStreamType ==
    ASSUME NEW T, NEW S, "stream" \in T, NEW s \in Streams, NEW o \in TextOf(T, S)
    PROVE  FlushStream(s, o) \in TextOf(T, S)
<1>1. CASE rdbuf[s] = "buffer" /\ o.pending[s] # << >>
  <2>1. StreamMessage(s, o.pending[s]) \in MessagesOf(T, S)
    BY StreamMessageType DEF TextOf
  <2>2. Append(o.out, StreamMessage(s, o.pending[s])) \in Seq(MessagesOf(T, S))
    BY <2>1 DEF TextOf
  <2>3. << >> \in Seq(S)
    OBVIOUS
  <2>4. [o.pending EXCEPT ![s] = << >>] \in [Streams -> Seq(S)]
    BY <2>3 DEF TextOf
  <2> QED BY <1>1, <2>2, <2>4 DEF FlushStream, TextOf
<1> QED BY <1>1 DEF FlushStream

\* A write to a C++ stream, with the flushes it causes, keeps text what it is.
LEMMA OutputType ==
    ASSUME NEW T, NEW S, "stream" \in T, NEW s \in Streams, NEW text,
           NEW o \in TextOf(T, S),
           rdbuf[s] = "buffer" => text \in Seq(S)
    PROVE  Output(s, text, o) \in TextOf(T, S)
<1> "cout" \in Streams /\ "cerr" \in Streams /\ Streams = {"cout", "cerr"}
  BY DEF Streams
<1>1. CASE s = "cout"
  BY <1>1, InsertType DEF Output
<1>2. CASE s = "cerr"
  <2>1. Tie(o) \in TextOf(T, S)
    BY FlushStreamType DEF Tie
  <2>2. Insert("cerr", text, Tie(o)) \in TextOf(T, S)
    BY <1>2, <2>1, InsertType
  <2> QED BY <1>2, <2>2, FlushStreamType DEF Output
<1> QED BY <1>1, <1>2

\* What the variables hold after an operation on text.
LEMMA TextBecomesType ==
    ASSUME NEW T, NEW S, NEW o \in TextOf(T, S), TextBecomes(o)
    PROVE  m_output' \in [Streams -> Seq(S)] /\ sent' \in Seq(MessagesOf(T, S))
BY DEF TextBecomes, TextOf

\* What the variables hold before it.
LEMMA TextType ==
    ASSUME NEW T, NEW S, m_output \in [Streams -> Seq(S)], sent \in Seq(MessagesOf(T, S))
    PROVE  Text \in TextOf(T, S)
BY DEF Text, TextOf

\* The messages of the type invariant, in these terms.
LEMMA AllMessages == Messages = MessagesOf(Types, Pieces) /\ "stream" \in Types
BY DEF Messages, MessagesOf, Types

\* The next piece of text of a request has its type.
LEMMA PieceType == ASSUME TypeOK, NEW ch \in Streams \cup CStreams
                   PROVE  Piece(ch) \in Pieces
<1>1. Len(wrote) + 1 \in Nat
  BY DEF TypeOK
<1> QED BY <1>1 DEF Piece, Pieces, TypeOK, SilentCell

\* So has that of a worker.
LEMMA WorkerPieceType == ASSUME TypeOK, NEW w \in Workers PROVE WorkerPiece(w) \in Pieces
BY BoundsAssumption DEF WorkerPiece, Pieces, TypeOK, Streams

\* Text written to a C stream goes to a capture.
LEMMA CaptureTextType ==
    ASSUME NEW S, captures \in Seq([stream : CStreams, text : Seq(S)]),
           NEW ch, NEW text \in Seq(S), CaptureText(ch, text)
    PROVE  captures' \in Seq([stream : CStreams, text : Seq(S)])
<1> DEFINE C == [stream : CStreams, text : Seq(S)]
<1>a. captures \in Seq(C)
  OBVIOUS
<1>b. ASSUME NEW c \in C PROVE [c EXCEPT !.text = @ \o text] \in C
  <2>1. c.text \o text \in Seq(S)
    BY <1>b
  <2>2. c.stream \in CStreams
    BY <1>b
  <2> HIDE DEF CaptureText
  <2> DEFINE t == c.text \o text
  <2>3. t \in Seq(S)
    BY <2>1
  <2> HIDE DEF t
  <2>4. [c EXCEPT !.text = t] \in C
    BY <2>2, <2>3
  <2> QED BY <2>4 DEF t
<1> HIDE DEF C
<1>1. ASSUME NEW i \in 1..Len(captures)
      PROVE  (IF captures[i].stream = ch
              THEN [captures[i] EXCEPT !.text = @ \o text]
              ELSE captures[i]) \in C
  <2>1. captures[i] \in C
    BY <1>a
  <2> QED BY <2>1, <1>b
<1>2. Len(captures) \in Nat
  BY <1>a
<1>3. captures' \in [1..Len(captures) -> C]
  BY <1>1 DEF CaptureText
<1>4. captures' \in Seq(C)
  BY <1>2, <1>3, SeqDef
<1> QED BY <1>4 DEF C

-----------------------------------------------------------------------------
\* Where the C streams are captured.
Capturing == {"run", "read", "input", "extract", "captured"}

\* TypeOK is not inductive: that the captures can be ended takes that both have begun,
\* and that an answer belongs to a request takes that there is one.
Progress ==
    /\ pc \in Capturing => Len(captures) = 2
    /\ pc \in Busy => request.n >= 1

\* The type invariant holds when the process starts.
LEMMA InitTypeOK == Init => TypeOK
<1> SUFFICES ASSUME Init PROVE TypeOK
  OBVIOUS
<1>1. /\ << >> \in Seq(Pieces) /\ << >> \in Seq(Messages)
      /\ << >> \in Seq([stream : CStreams, text : Seq(Pieces)])
      /\ << >> \in Seq(1..MaxRequests \cup {NewLine})
  OBVIOUS
<1>2. 0 \in 0..MaxRequests /\ 0 \in 0..MaxStatements /\ 0 \in 0..MaxWorkerCalls
  BY BoundsAssumption
<1>3. request \in [n : 0..MaxRequests, silent : BOOLEAN, allow : BOOLEAN,
                   kind : Kinds \cup {"none"}]
  BY <1>2 DEF Init
<1>4. /\ rdbuf \in [Streams -> {"terminal", "buffer", "null"}]
      /\ m_output \in [Streams -> Seq(Pieces)]
      /\ worker \in [Workers -> [state : {"none", "running", "calling"},
                target : {"none", "terminal", "buffer", "null", "dangling"}]]
  BY <1>1 DEF Init
<1> QED
  BY <1>1, <1>2, <1>3, <1>4 DEF Init, TypeOK, Input!Init, Input!TypeOK

\* A statement respects its bound.
LEMMA StatementType == ASSUME TypeOK, Statement PROVE steps' \in 0..MaxStatements
BY BoundsAssumption DEF TypeOK, Statement

\* What a write to a C++ stream, or to a C stream, leaves of the text and of wrote.
LEMMA WriteType ==
    ASSUME TypeOK, NEW s \in Streams, Write(s)
    PROVE  /\ m_output' \in [Streams -> Seq(Pieces)]
           /\ sent' \in Seq(Messages)
           /\ wrote' \in Seq(Pieces)
<1>1. Piece(s) \in Pieces
  BY PieceType
<1>2. <<Piece(s)>> \in Seq(Pieces)
  BY <1>1
<1>3. Text \in TextOf(Types, Pieces)
  BY TextType, AllMessages DEF TypeOK
<1>4. Output(s, <<Piece(s)>>, Text) \in TextOf(Types, Pieces)
  BY <1>2, <1>3, OutputType, AllMessages
<1>5. wrote' \in Seq(Pieces)
  BY <1>1 DEF Write, TypeOK
<1> QED BY <1>4, <1>5, TextBecomesType, AllMessages DEF Write

\* What a flush, or none, leaves of the text.
LEMMA FlushesType ==
    ASSUME TypeOK, NEW o \in {Tie(Text), FlushStream("cout", Text), FlushAll(Text),
                             PreambleFlush(Text), Text}, TextBecomes(o)
    PROVE  m_output' \in [Streams -> Seq(Pieces)] /\ sent' \in Seq(Messages)
<1> "cout" \in Streams /\ "cerr" \in Streams
  BY DEF Streams
<1>1. Text \in TextOf(Types, Pieces)
  BY TextType, AllMessages DEF TypeOK
<1>2. FlushStream("cout", Text) \in TextOf(Types, Pieces)
  BY <1>1, FlushStreamType, AllMessages
<1>3. FlushAll(Text) \in TextOf(Types, Pieces)
  BY <1>2, FlushStreamType, AllMessages DEF FlushAll
<1>4. o \in TextOf(Types, Pieces)
  BY <1>1, <1>2, <1>3 DEF Tie, PreambleFlush
<1> QED BY <1>4, TextBecomesType, AllMessages

\* What the interpreter says has the type of a message.
LEMMA SayTypeOK ==
    ASSUME TypeOK, NEW type \in Types,
           NEW name \in CStreams \cup {"stdin", "error", "ok"}, Say(type, name)
    PROVE  sent' \in Seq(Messages)
BY SayType, AllMessages DEF TypeOK

\* Every step keeps the type invariant, given Progress.
LEMMA NextTypeOK == TypeOK /\ Progress /\ [Next]_vars => TypeOK'
<1> SUFFICES ASSUME TypeOK, Progress, [Next]_vars PROVE TypeOK'
  OBVIOUS
<1> USE DEF requestVars, guardVars, captureVars, inputVars, workerVars, textVars,
            Input!inputVars
<1>s. "cout" \in Streams /\ "cerr" \in Streams /\ "stderr" \in CStreams
  BY DEF Streams, CStreams
<1>1. ASSUME Construct PROVE TypeOK'
  BY <1>1 DEF Construct, RedirectOutput, TypeOK, Input!TypeOK, Busy
<1>2. ASSUME NEW buffer, Dangle(buffer)
      PROVE  worker' \in [Workers -> [state : {"none", "running", "calling"},
                target : {"none", "terminal", "buffer", "null", "dangling"}]]
  <2>1. ASSUME NEW w \in Workers
        PROVE  [worker[w] EXCEPT !.target = "dangling"] \in
                 [state : {"none", "running", "calling"},
                  target : {"none", "terminal", "buffer", "null", "dangling"}]
    <3>1. worker[w] \in [state : {"none", "running", "calling"},
                target : {"none", "terminal", "buffer", "null", "dangling"}]
      BY <2>1 DEF TypeOK
    <3> QED BY <3>1
  <2> QED BY <1>2, <2>1 DEF Dangle, TypeOK
<1>3. ASSUME Destroy PROVE TypeOK'
  <2>1. << >> \in Seq(Pieces)
    OBVIOUS
  <2>2. lost' \subseteq Pieces
    <3>1. m_output["cout"] \in Seq(Pieces)
      BY <1>s DEF TypeOK
    <3>2. \A i \in 1..Len(m_output["cout"]) : m_output["cout"][i] \in Pieces
      BY <3>1
    <3>3. lost' = lost \cup {m_output["cout"][i] : i \in 1..Len(m_output["cout"])}
      BY <1>3 DEF Destroy
    <3>4. lost \subseteq Pieces
      BY DEF TypeOK
    <3> QED BY <3>2, <3>3, <3>4
  <2>3. worker' \in [Workers -> [state : {"none", "running", "calling"},
                target : {"none", "terminal", "buffer", "null", "dangling"}]]
    BY <1>3, <1>2 DEF Destroy
  <2> QED BY <1>3, <2>1, <2>2, <2>3 DEF Destroy, RestoreOutput, TypeOK, Input!TypeOK, Busy
<1>4. ASSUME NEW silent \in BOOLEAN, NEW allow \in BOOLEAN, Receive(silent, allow)
      PROVE  TypeOK'
  <2>1. << >> \in Seq(Pieces) /\ << >> \in Seq(Messages)
        /\ << >> \in Seq(1..MaxRequests \cup {NewLine})
    OBVIOUS
  <2>2. request' \in [n : 0..MaxRequests, silent : BOOLEAN, allow : BOOLEAN,
                      kind : Kinds \cup {"none"}]
    BY <1>4, BoundsAssumption DEF Receive, TypeOK
  <2>3. steps' \in 0..MaxStatements
    BY <1>4, BoundsAssumption DEF Receive
  <2> QED
    BY <1>4, <2>1, <2>2, <2>3 DEF Receive, Input!Redirect, TypeOK, Input!TypeOK, Busy
<1>5. ASSUME NEW kind \in Kinds, Dispatch(kind) PROVE TypeOK'
  BY <1>5 DEF Dispatch, TypeOK, Input!TypeOK, Busy
<1>6. ASSUME Silence PROVE TypeOK'
  BY <1>6 DEF Silence, TypeOK, Input!TypeOK, Busy
<1>7. ASSUME BeginCapture PROVE TypeOK'
  <2>1. captures' \in Seq([stream : CStreams, text : Seq(Pieces)])
    <3>1. << >> \in Seq(Pieces)
      OBVIOUS
    <3>2. CaptureOrder[1] \in CStreams /\ CaptureOrder[2] \in CStreams
      BY DEF CaptureOrder, CStreams
    <3>3. captures' \in [1..2 -> [stream : CStreams, text : Seq(Pieces)]]
      BY <1>7, <3>1, <3>2 DEF BeginCapture
    <3>4. \A C : \A c \in [1..2 -> C] : c \in Seq(C)
      <4>1. \A C : \A c \in [1..2 -> C] : \E n \in Nat : c \in [1..n -> C]
        OBVIOUS
      <4> QED BY <4>1, SeqDef
    <3> QED BY <3>3, <3>4, Zenon
  <2> QED BY <1>7, <2>1 DEF BeginCapture, TypeOK, Input!TypeOK, Busy
<1>8. ASSUME Ask PROVE TypeOK'
  <2>1. sent' \in Seq(Messages)
    BY <1>8, SayTypeOK DEF Ask, Types
  <2> QED BY <1>8, <2>1 DEF Ask, TypeOK, Input!TypeOK, Busy
<1>9. ASSUME Refuse PROVE TypeOK'
  BY <1>9 DEF Refuse, Input!Refuse, TypeOK, Input!TypeOK, Busy
<1>e. ASSUME Extract PROVE TypeOK'
  <2>1. m_value' \in Seq(1..MaxRequests \cup {NewLine})
    BY <1>e DEF Extract, Input!Extract, TypeOK, Input!TypeOK
  <2> QED BY <1>e, <2>1 DEF Extract, Input!Extract, TypeOK, Input!TypeOK, Busy
<1>10. ASSUME EndCapture PROVE TypeOK'
  <2>1. captures[1].text \in Seq(Pieces) /\ captures[2].text \in Seq(Pieces)
    <3>1. Len(captures) = 2
      BY <1>10 DEF EndCapture, ProcessEnded, Progress, Capturing
    <3>2. captures \in Seq([stream : CStreams, text : Seq(Pieces)])
      BY DEF TypeOK
    <3>3. captures[1] \in [stream : CStreams, text : Seq(Pieces)]
      <4>1. 1 \in 1..Len(captures)
        BY <3>1
      <4> QED BY <3>2, <4>1, ElementOfSeq
    <3>4. captures[2] \in [stream : CStreams, text : Seq(Pieces)]
      <4>1. 2 \in 1..Len(captures)
        BY <3>1
      <4> QED BY <3>2, <4>1, ElementOfSeq
    <3> QED BY <3>3, <3>4
  <2>2. Text \in TextOf(Types, Pieces)
    BY TextType, AllMessages DEF TypeOK
  <2>3. Output("cout", captures[2].text, Text) \in TextOf(Types, Pieces)
    BY <2>1, <2>2, <1>s, OutputType, AllMessages
  <2>4. m_output' \in [Streams -> Seq(Pieces)] /\ sent' \in Seq(Messages)
    BY <1>10, <2>3, TextBecomesType, AllMessages DEF EndCapture
  <2>5. captures' \in Seq([stream : CStreams, text : Seq(Pieces)])
    BY <1>10 DEF EndCapture
  <2> QED BY <1>10, <2>1, <2>4, <2>5 DEF EndCapture, TypeOK, Input!TypeOK, Busy
<1>11. ASSUME Report PROVE TypeOK'
  <2>1. Text \in TextOf(Types, Pieces)
    BY TextType, AllMessages DEF TypeOK
  <2>2. Output("cerr", err, Text) \in TextOf(Types, Pieces)
    BY <2>1, <1>s, OutputType, AllMessages DEF TypeOK
  <2>3. m_output' \in [Streams -> Seq(Pieces)] /\ sent' \in Seq(Messages)
    BY <1>11, <2>1, <2>2, TextBecomesType, AllMessages DEF Report
  <2> QED BY <1>11, <2>3 DEF Report, TypeOK, Input!TypeOK, Busy
<1>12. ASSUME Flush PROVE TypeOK'
  <2>1. m_output' \in [Streams -> Seq(Pieces)] /\ sent' \in Seq(Messages)
    BY <1>12, FlushesType DEF Flush
  <2> QED BY <1>12, <2>1 DEF Flush, TypeOK, Input!TypeOK, Busy
<1>13. ASSUME PublishError PROVE TypeOK'
  <2>1. sent' \in Seq(Messages)
    BY <1>13, SayTypeOK DEF PublishError, TypeOK, Types
  <2> QED BY <1>13, <2>1 DEF PublishError, TypeOK, Input!TypeOK, Busy
<1>14. ASSUME Reply PROVE TypeOK'
  <2>1. sent' \in Seq(Messages)
    BY <1>14, SayTypeOK DEF Reply, ReplyStatus, Types
  <2> QED BY <1>14, <2>1 DEF Reply, TypeOK, Input!TypeOK, Busy
<1>15. ASSUME Unwind PROVE TypeOK'
  <2>1. rdbuf' \in [Streams -> {"terminal", "buffer", "null"}]
    BY <1>15 DEF Unwind, RestoredBuffers, TypeOK
  <2>2. worker' \in [Workers -> [state : {"none", "running", "calling"},
                target : {"none", "terminal", "buffer", "null", "dangling"}]]
    BY <1>15, <1>2 DEF Unwind
  <2> QED BY <1>15, <2>1, <2>2 DEF Unwind, Input!Restore, TypeOK, Input!TypeOK, Busy
<1>16. ASSUME NEW kind, NEW how \in {"ok", "error"}, PreambleEnds(kind, how) PROVE TypeOK'
  <2>1. m_output' \in [Streams -> Seq(Pieces)] /\ sent' \in Seq(Messages)
    BY <1>16, FlushesType DEF PreambleEnds
  <2> QED BY <1>16, <2>1 DEF PreambleEnds, TypeOK, Input!TypeOK, Busy
<1>17. ASSUME NEW kind, NEW s \in Streams, PreambleWrite(kind, s) PROVE TypeOK'
  BY <1>17, WriteType, StatementType DEF PreambleWrite, TypeOK, Input!TypeOK
<1>18. ASSUME NEW kind, PreambleFails(kind) PROVE TypeOK'
  BY <1>18, <1>s, WriteType DEF PreambleFails, TypeOK, Input!TypeOK, Busy
<1>19. ASSUME IntrospectionThrows PROVE TypeOK'
  BY <1>19 DEF IntrospectionThrows, TypeOK, Input!TypeOK, Busy
<1>20. ASSUME Kernel PROVE TypeOK'
  <2>1. ASSUME ShellDone \/ MagicDone \/ IntrospectionFound PROVE TypeOK'
    BY <2>1, <1>16 DEF ShellDone, MagicDone, IntrospectionFound
  <2>2. ASSUME ShellFails \/ MagicUnknown \/ IntrospectionNotFound PROVE TypeOK'
    BY <2>2, <1>18 DEF ShellFails, MagicUnknown, IntrospectionNotFound
  <2>3. ASSUME NEW k \in {"introspection", "magics", "shell", "code"}, Dispatch(k)
        PROVE  TypeOK'
    BY <2>3, <1>5 DEF Kinds
  <2> QED
    BY <1>1, <1>6, <1>7, <1>8, <1>9, <1>e, <1>10, <1>11, <1>12, <1>13, <1>14, <1>15,
       <1>19, <1>20, <2>1, <2>2, <2>3 DEF Kernel
<1>21. ASSUME NEW s \in Streams, CellWrite(s) PROVE TypeOK'
  BY <1>21, WriteType, StatementType DEF CellWrite, TypeOK, Input!TypeOK
<1>22. ASSUME NEW ch \in CStreams, CaptureText(ch, <<Piece(ch)>>)
       PROVE  /\ captures' \in Seq([stream : CStreams, text : Seq(Pieces)])
              /\ Append(wrote, Piece(ch)) \in Seq(Pieces)
              /\ <<Piece(ch)>> \in Seq(Pieces)
  <2>1. Piece(ch) \in Pieces
    BY PieceType
  <2>2. <<Piece(ch)>> \in Seq(Pieces)
    BY <2>1
  <2>3. captures' \in Seq([stream : CStreams, text : Seq(Pieces)])
    BY <1>22, <2>2, CaptureTextType DEF TypeOK
  <2> QED BY <2>1, <2>2, <2>3 DEF TypeOK
<1>23. ASSUME NEW ch \in CStreams, CellPrintf(ch) PROVE TypeOK'
  BY <1>23, <1>22, StatementType DEF CellPrintf, TypeOK, Input!TypeOK
<1>24. ASSUME CellFlush PROVE TypeOK'
  BY <1>24, FlushesType, StatementType DEF CellFlush, TypeOK, Input!TypeOK
<1>25. ASSUME CellRead PROVE TypeOK'
  BY <1>25, FlushesType, StatementType DEF CellRead, TypeOK, Input!TypeOK, Busy
<1>26. ASSUME NEW w \in Workers, CellStartsThread(w) PROVE TypeOK'
  <2>1. worker[w] \in [state : {"none", "running", "calling"},
                target : {"none", "terminal", "buffer", "null", "dangling"}]
    BY DEF TypeOK
  <2>2. [worker[w] EXCEPT !.state = "running"] \in
          [state : {"none", "running", "calling"},
           target : {"none", "terminal", "buffer", "null", "dangling"}]
    BY <2>1
  <2>3. worker' \in [Workers -> [state : {"none", "running", "calling"},
                target : {"none", "terminal", "buffer", "null", "dangling"}]]
    BY <1>26, <2>2 DEF CellStartsThread, TypeOK
  <2> QED BY <1>26, <2>3, StatementType DEF CellStartsThread, TypeOK, Input!TypeOK
<1>27. ASSUME Code PROVE TypeOK'
  BY <1>s, <1>17, <1>21, <1>23, <1>24, <1>25, <1>26, <1>27 DEF Code, ShellOutput, MagicWrite
<1>28. ASSUME CellDoesNotCompile PROVE TypeOK'
  BY <1>28, <1>s, <1>22 DEF CellDoesNotCompile, TypeOK, Input!TypeOK, Busy
<1>29. ASSUME NEW how \in {"ok", "exception"}, CellEnds(how) PROVE TypeOK'
  BY <1>29 DEF CellEnds, TypeOK, Input!TypeOK, Busy
<1>30. ASSUME NEW length \in 0..MaxLine, Answer(length) PROVE TypeOK'
  <2>1. length \in Nat
    BY BoundsAssumption
  <2>2. request.n \in 1..MaxRequests
    BY <1>30, BoundsAssumption DEF Answer, Progress, Busy, TypeOK
  <2>3. [i \in 1..length |-> request.n] \in [1..length -> 1..MaxRequests \cup {NewLine}]
    BY <2>2
  <2>4. [i \in 1..length |-> request.n] \in Seq(1..MaxRequests \cup {NewLine})
    BY <2>1, <2>3, SeqDef
  <2>5. m_value' \in Seq(1..MaxRequests \cup {NewLine})
    BY <1>30, <2>4 DEF Answer, Input!Answer
  <2> QED BY <1>30, <2>5 DEF Answer, Input!Answer, TypeOK, Input!TypeOK, Busy
<1>31. ASSUME NEW w \in Workers, WorkerFetch(w) PROVE TypeOK'
  <2>1. workerCalls' \in 0..MaxWorkerCalls
    BY <1>31, BoundsAssumption DEF WorkerFetch, TypeOK
  <2>2. rdbuf["cout"] \in {"terminal", "buffer", "null"}
    BY <1>s DEF TypeOK
  <2> QED BY <1>31, <2>1, <2>2 DEF WorkerFetch, TypeOK, Input!TypeOK
<1>32. ASSUME NEW w \in Workers, Returned(w)
       PROVE  worker' \in [Workers -> [state : {"none", "running", "calling"},
                target : {"none", "terminal", "buffer", "null", "dangling"}]]
  BY <1>32 DEF Returned, TypeOK
<1>33. ASSUME NEW w \in Workers, WorkerPut(w) PROVE TypeOK'
  <2>1. Append(m_output["cout"], WorkerPiece(w)) \in Seq(Pieces)
    BY <1>s, WorkerPieceType DEF TypeOK
  <2>2. m_output' \in [Streams -> Seq(Pieces)]
    BY <1>33, <2>1 DEF WorkerPut, TypeOK
  <2> QED BY <1>33, <1>32, <2>2 DEF WorkerPut, TypeOK, Input!TypeOK
<1>34. ASSUME NEW w \in Workers, WorkerSync(w) PROVE TypeOK'
  <2>1. m_output["cout"] \in Seq(Pieces) /\ << >> \in Seq(Pieces)
    BY <1>s DEF TypeOK
  <2>2. m_output' \in [Streams -> Seq(Pieces)]
    BY <1>34, <2>1 DEF WorkerSync, TypeOK
  <2>3. StreamMessage("cout", m_output["cout"]) \in Messages
    BY <2>1, <1>s, StreamMessageType, AllMessages
  <2>4. sent' \in Seq(Messages)
    BY <1>34, <2>3 DEF WorkerSync, TypeOK
  <2> QED BY <1>34, <1>32, <2>2, <2>4 DEF WorkerSync, TypeOK, Input!TypeOK
<1>35. ASSUME NEW w \in Workers, WorkerLoses(w) PROVE TypeOK'
  BY <1>35, <1>32, WorkerPieceType DEF WorkerLoses, TypeOK, Input!TypeOK
<1>36. ASSUME NEW w \in Workers, WorkerCrashes(w) PROVE TypeOK'
  BY <1>36, <1>32 DEF WorkerCrashes, TypeOK, Input!TypeOK
<1>37. ASSUME UNCHANGED vars PROVE TypeOK'
  BY <1>37 DEF vars, TypeOK, Input!TypeOK
<1> QED
  BY <1>3, <1>4, <1>20, <1>27, <1>28, <1>29, <1>30, <1>31, <1>33, <1>34, <1>35, <1>36, <1>37
  DEF Next, End, Reading, Client, Threads

\* Every step keeps Progress.
LEMMA NextProgress == TypeOK /\ Progress /\ [Next]_vars => Progress'
<1> SUFFICES ASSUME TypeOK, Progress, [Next]_vars PROVE Progress'
  OBVIOUS
<1> USE DEF Progress, Capturing, Busy, requestVars, captureVars
<1>1. ASSUME NEW silent \in BOOLEAN, NEW allow \in BOOLEAN, Receive(silent, allow)
      PROVE  Progress'
  BY <1>1 DEF Receive, TypeOK
<1>2. ASSUME NEW ch, NEW text, CaptureText(ch, text) PROVE Len(captures') = Len(captures)
  BY <1>2 DEF CaptureText, TypeOK
<1>3. ASSUME NEW kind \in Kinds, Dispatch(kind) PROVE Progress'
  BY <1>3 DEF Dispatch, TypeOK
<1>4. ASSUME BeginCapture PROVE Progress'
  BY <1>4 DEF BeginCapture
<1>5. ASSUME Construct \/ Silence \/ Ask \/ Refuse \/ Extract \/ EndCapture \/ Report
             \/ Flush \/ PublishError \/ Reply \/ Unwind \/ IntrospectionThrows
      PROVE  Progress'
  BY <1>5 DEF Construct, Silence, Ask, Refuse, Extract, EndCapture, ProcessEnded, Report,
              Flush, PublishError, Reply, Unwind, IntrospectionThrows
<1>6. ASSUME NEW kind, NEW how, PreambleEnds(kind, how) PROVE Progress'
  BY <1>6 DEF PreambleEnds
<1>7. ASSUME NEW kind, NEW s, PreambleWrite(kind, s) PROVE Progress'
  BY <1>7 DEF PreambleWrite
<1>8. ASSUME NEW kind, PreambleFails(kind) PROVE Progress'
  BY <1>8 DEF PreambleFails
<1>9. ASSUME Kernel PROVE Progress'
  BY <1>3, <1>4, <1>5, <1>6, <1>8, <1>9
  DEF Kernel, ShellDone, ShellFails, MagicDone, MagicUnknown, IntrospectionFound,
      IntrospectionNotFound, Kinds
<1>10. ASSUME NEW s, CellWrite(s) PROVE Progress'
  BY <1>10 DEF CellWrite
<1>11. ASSUME NEW ch, CellPrintf(ch) PROVE Progress'
  BY <1>11, <1>2 DEF CellPrintf
<1>12. ASSUME CellFlush \/ CellRead PROVE Progress'
  BY <1>12 DEF CellFlush, CellRead
<1>13. ASSUME NEW w, CellStartsThread(w) PROVE Progress'
  BY <1>13 DEF CellStartsThread
<1>14. ASSUME Code PROVE Progress'
  BY <1>7, <1>10, <1>11, <1>12, <1>13, <1>14 DEF Code, ShellOutput, MagicWrite
<1>15. ASSUME CellDoesNotCompile PROVE Progress'
  BY <1>15, <1>2 DEF CellDoesNotCompile
<1>16. ASSUME NEW how, CellEnds(how) PROVE Progress'
  BY <1>16 DEF CellEnds
<1>17. ASSUME Reading PROVE Progress'
  BY <1>17 DEF Reading, Answer
<1>18. ASSUME Destroy PROVE Progress'
  BY <1>18 DEF Destroy
<1>19. ASSUME Threads PROVE Progress'
  BY <1>19 DEF Threads, WorkerFetch, WorkerPut, WorkerSync, WorkerLoses, WorkerCrashes,
               Returned
<1>20. ASSUME UNCHANGED vars PROVE Progress'
  BY <1>20 DEF vars
<1> QED
  BY <1>1, <1>9, <1>14, <1>15, <1>16, <1>17, <1>18, <1>19, <1>20 DEF Next, End, Client

\* The inductive invariant, which proofs of other properties build on.
LEMMA TypesHold == Spec => [](TypeOK /\ Progress)
<1>1. Init => TypeOK /\ Progress
  <2>1. Init => Progress
    BY DEF Init, Progress, Capturing, Busy
  <2> QED BY <2>1, InitTypeOK
<1>2. TypeOK /\ Progress /\ [Next]_vars => (TypeOK /\ Progress)'
  BY NextTypeOK, NextProgress
<1> QED BY <1>1, <1>2, PTL DEF Spec

\* Every variable has its type, for any bounds: in particular the client is only sent
\* the messages of the protocol, made of text that some thread wrote, and a stream has
\* the terminal's buffer, the interpreter's or the null one.
THEOREM TypeCorrect == Spec => []TypeOK
BY TypesHold, PTL

-----------------------------------------------------------------------------
(* However a request ends, the streams are put back.                       *)

\* Where the guard of a silent cell is in force.
Guarded == {"begin", "run", "read", "input", "extract", "captured", "report",
            "flush", "publish", "reply", "unwind"}

\* The C++ streams have the interpreter's buffers from the constructor on, but for
\* a silent cell inside its guard.
BuffersInPlace ==
    pc \notin {"start", "stopped", "crashed"} =>
        \/ rdbuf = [s \in Streams |-> "buffer"]
        \/ pc \in Guarded /\ SilentCell

\* The C streams are captured by a running cell only.
CapturesOff ==
    pc \notin Capturing \cup {"crashed"} => captures = << >>

\* Between requests std::cin is the terminal's.
InputOff == pc \in {"start", "idle"} => cin = "terminal" /\ cinbad = FALSE

\* A request has its type, it is of no kind until it is dispatched, and the silent guard
\* is only met by C++ code.
RequestKnown ==
    /\ request \in [n : 0..MaxRequests, silent : BOOLEAN, allow : BOOLEAN,
                    kind : Kinds \cup {"none"}]
    /\ pc = "dispatch" => request.kind = "none"
    /\ pc = "silence" => request.kind = "code"

RInv == RequestKnown /\ BuffersInPlace /\ CapturesOff /\ InputOff

\* The invariant of RequestsRestoreStreams holds when the process starts.
LEMMA InitRInv == Init => RInv
BY BoundsAssumption
DEF Init, RInv, RequestKnown, Kinds, BuffersInPlace, CapturesOff, InputOff, Input!Init,
    Guarded, Capturing

\* The invariant implies the property.
LEMMA RInvImplies == RInv => StreamsRestored
BY DEF RInv, StreamsRestored, BuffersInPlace, CapturesOff, InputOff, Guarded, Capturing

\* Every step keeps the invariant.
LEMMA NextRInv == RInv /\ [Next]_vars => RInv'
<1> SUFFICES ASSUME RInv, [Next]_vars PROVE RInv'
  OBVIOUS
<1> USE DEF RInv, RequestKnown, BuffersInPlace, CapturesOff, InputOff,
            Guarded, Capturing, SilentCell
<1> USE DEF requestVars, guardVars, captureVars, inputVars, Input!inputVars
\* The life of the interpreter, and the steps of the kernel in a request.
<1>1. ASSUME Construct PROVE RInv'
  BY <1>1 DEF Construct, RedirectOutput
<1>2. ASSUME Destroy PROVE RInv'
  BY <1>2 DEF Destroy
<1>3. ASSUME NEW silent \in BOOLEAN, NEW allow \in BOOLEAN, Receive(silent, allow)
      PROVE  RInv'
  BY <1>3, BoundsAssumption DEF Receive, Kinds
<1>4. ASSUME NEW kind \in Kinds, Dispatch(kind) PROVE RInv'
  BY <1>4 DEF Dispatch, Kinds
<1>5. ASSUME Silence PROVE RInv'
  BY <1>5 DEF Silence, SilencedStreams
<1>6. ASSUME BeginCapture PROVE RInv'
  BY <1>6 DEF BeginCapture
<1>7. ASSUME Ask \/ Refuse \/ Extract PROVE RInv'
  BY <1>7 DEF Ask, Refuse, Extract, Input!Refuse, Input!Extract
<1>8. ASSUME EndCapture PROVE RInv'
  BY <1>8 DEF EndCapture, ProcessEnded
<1>9. ASSUME Report \/ Flush \/ PublishError \/ Reply PROVE RInv'
  BY <1>9 DEF Report, Flush, PublishError, Reply
<1>10. ASSUME Unwind PROVE RInv'
  BY <1>10 DEF Unwind, RestoredBuffers, Input!Restore
\* The preambles.
<1>11. ASSUME NEW kind, NEW how, PreambleEnds(kind, how) PROVE RInv'
  BY <1>11 DEF PreambleEnds
<1>12. ASSUME NEW kind, NEW s, PreambleWrite(kind, s) PROVE RInv'
  BY <1>12 DEF PreambleWrite
<1>13. ASSUME NEW kind, PreambleFails(kind) PROVE RInv'
  BY <1>13 DEF PreambleFails
<1>14. ASSUME IntrospectionThrows PROVE RInv'
  BY <1>14 DEF IntrospectionThrows
<1>15. ASSUME Kernel PROVE RInv'
  BY <1>1, <1>4, <1>5, <1>6, <1>7, <1>8, <1>9, <1>10, <1>11, <1>13, <1>14, <1>15
  DEF Kernel, ShellDone, ShellFails, MagicDone, MagicUnknown, IntrospectionFound,
      IntrospectionNotFound, Kinds
\* The code of the cell, the user and the client.
<1>16. ASSUME NEW s, CellWrite(s) PROVE RInv'
  BY <1>16 DEF CellWrite
<1>17. ASSUME NEW ch, CellPrintf(ch) PROVE RInv'
  BY <1>17 DEF CellPrintf
<1>18. ASSUME CellFlush \/ CellRead PROVE RInv'
  BY <1>18 DEF CellFlush, CellRead
<1>19. ASSUME NEW w, CellStartsThread(w) PROVE RInv'
  BY <1>19 DEF CellStartsThread
<1>20. ASSUME Code PROVE RInv'
  BY <1>12, <1>16, <1>17, <1>18, <1>19, <1>20 DEF Code, ShellOutput, MagicWrite
<1>21. ASSUME End PROVE RInv'
  BY <1>21 DEF End, CellDoesNotCompile, CellEnds
<1>22. ASSUME Reading PROVE RInv'
  BY <1>22 DEF Reading, Answer, Input!Answer
<1>23. ASSUME Client PROVE RInv'
  BY <1>3, <1>23 DEF Client
\* The threads that cells left running.
<1>24. ASSUME Threads PROVE RInv'
  BY <1>24 DEF Threads, WorkerFetch, WorkerPut, WorkerSync, WorkerLoses,
               WorkerCrashes, Returned
<1>25. ASSUME UNCHANGED vars PROVE RInv'
  BY <1>25 DEF vars
<1> QED
  BY <1>2, <1>15, <1>20, <1>21, <1>22, <1>23, <1>24, <1>25 DEF Next

\* Whichever way a request ends, with a reply, by an exception of its code or without
\* a reply after an exception of an inspection, the C++ streams, the C streams and
\* std::cin are as the constructor left them (the three scope guards of
\* execute_request_impl).
THEOREM RequestsRestoreStreams == Spec => []StreamsRestored
<1>1. Spec => []RInv
  BY InitRInv, NextRInv, PTL DEF Spec
<1> QED
  BY <1>1, RInvImplies, PTL

-----------------------------------------------------------------------------
(* A silent cell is not heard.                                             *)

\* The pieces of text that no silent cell wrote, and the types of message that the
\* request may cause.
Loud == {p \in Pieces : ~ p.silent}
Broadcast == IF request.silent THEN Types \ {"error"} ELSE Types

\* The buffers and the messages hold loud text only, and no error of a silent request.
LoudOnly ==
    /\ m_output \in [Streams -> Seq(Loud)]
    /\ sent \in Seq(MessagesOf(Broadcast, Loud))

\* While a silent cell is guarded, neither C++ stream has the interpreter's buffer.
GuardInForce ==
    pc \in Guarded /\ SilentCell => \A s \in Streams : rdbuf[s] # "buffer"

\* The captures hold silent text only for a silent cell, for which they are printed
\* to the null buffer.
CapturesLoud ==
    ~ SilentCell => /\ captures \in Seq([stream : CStreams, text : Seq(Loud)])
                    /\ err \in Seq(Loud)

SInv == LoudOnly /\ GuardInForce /\ CapturesLoud

\* What the steps of a proof about SInv may assume.
Known == TypeOK /\ Progress /\ RInv /\ SInv

\* A stream message is allowed to every request.
LEMMA BroadcastStream == "stream" \in Broadcast
BY DEF Broadcast, Types

\* SInv holds when the process starts.
LEMMA InitSInv == Init => SInv
<1> SUFFICES ASSUME Init PROVE SInv
  OBVIOUS
<1>1. /\ << >> \in Seq(Loud) /\ << >> \in Seq(MessagesOf(Broadcast, Loud))
      /\ << >> \in Seq([stream : CStreams, text : Seq(Loud)])
  OBVIOUS
<1> QED BY <1>1 DEF Init, SInv, LoudOnly, GuardInForce, CapturesLoud, Guarded

\* The elements of the text of a message are pieces, so SInv says what SilentUnheard says.
LEMMA SInvImplies == SInv => SilentUnheard
<1> SUFFICES ASSUME SInv PROVE SilentUnheard
  OBVIOUS
<1>1. ASSUME NEW text \in Seq(Loud), NEW j \in 1..Len(text) PROVE ~ text[j].silent
  <2>1. text[j] \in Loud
    BY <1>1, ElementOfSeq
  <2> QED BY <2>1 DEF Loud
<1>2. ASSUME NEW i \in 1..Len(sent)
      PROVE  sent[i].text \in Seq(Loud) /\ sent[i].type \in Broadcast
  <2>1. sent[i] \in MessagesOf(Broadcast, Loud)
    BY <1>2, ElementOfSeq DEF SInv, LoudOnly
  <2> QED BY <2>1 DEF MessagesOf
<1>3. ASSUME NEW i \in 1..Len(sent)
      PROVE  /\ \A j \in 1..Len(sent[i].text) : ~ sent[i].text[j].silent
             /\ sent[i].type = "error" => ~ request.silent
  BY <1>1, <1>2 DEF Broadcast
<1>4. ASSUME NEW s \in Streams
      PROVE  \A j \in 1..Len(m_output[s]) : ~ m_output[s][j].silent
  BY <1>1 DEF SInv, LoudOnly
<1> QED BY <1>3, <1>4 DEF SilentUnheard

\* An operation on text leaves loud text.
LEMMA LoudBecomes ==
    ASSUME NEW o \in TextOf(Broadcast, Loud), TextBecomes(o),
           request'.silent = request.silent
    PROVE  LoudOnly'
<1>1. Broadcast' = Broadcast
  BY DEF Broadcast
<1>2. m_output' \in [Streams -> Seq(Loud)] /\ sent' \in Seq(MessagesOf(Broadcast, Loud))
  BY TextBecomesType
<1>3. Loud' = Loud
  BY DEF Loud, Pieces
<1> QED BY <1>1, <1>2, <1>3 DEF LoudOnly, MessagesOf

\* Known says that the text is loud before a step.
LEMMA LoudText == ASSUME Known PROVE Text \in TextOf(Broadcast, Loud)
BY TextType DEF Known, SInv, LoudOnly

\* What a request that is not a silent cell writes is loud.
LEMMA LoudPiece ==
    ASSUME Known, ~ SilentCell, NEW ch \in Streams \cup CStreams
    PROVE  <<Piece(ch)>> \in Seq(Loud)
<1>1. Piece(ch) \in Pieces
  BY PieceType DEF Known
<1>2. Piece(ch) \in Loud
  BY <1>1 DEF Loud, Piece
<1> QED BY <1>2

\* The null buffers swallow what a silent cell writes.
LEMMA LoudWrite ==
    ASSUME Known, NEW s \in Streams, Write(s), request'.silent = request.silent,
           pc \in Guarded \/ ~ SilentCell
    PROVE  LoudOnly'
<1>1. rdbuf[s] = "buffer" => <<Piece(s)>> \in Seq(Loud)
  BY LoudPiece DEF Known, SInv, GuardInForce
<1>2. Output(s, <<Piece(s)>>, Text) \in TextOf(Broadcast, Loud)
  BY <1>1, LoudText, BroadcastStream, OutputType
<1> QED BY <1>2, LoudBecomes DEF Write

\* A flush moves text.
LEMMA LoudFlush ==
    ASSUME Known, request'.silent = request.silent,
           NEW o \in {Tie(Text), FlushStream("cout", Text), FlushAll(Text),
                      PreambleFlush(Text), Text}, TextBecomes(o)
    PROVE  LoudOnly'
<1> "cout" \in Streams /\ "cerr" \in Streams
  BY DEF Streams
<1>1. FlushStream("cout", Text) \in TextOf(Broadcast, Loud)
  BY LoudText, BroadcastStream, FlushStreamType
<1>2. FlushAll(Text) \in TextOf(Broadcast, Loud)
  BY <1>1, BroadcastStream, FlushStreamType DEF FlushAll
<1>3. o \in TextOf(Broadcast, Loud)
  BY <1>1, <1>2, LoudText DEF Tie, PreambleFlush
<1> QED BY <1>3, LoudBecomes

\* A message that the request may cause, without text.
LEMMA LoudSay ==
    ASSUME Known, request'.silent = request.silent, UNCHANGED m_output,
           NEW type \in Broadcast, NEW name \in CStreams \cup {"stdin", "error", "ok"},
           Say(type, name)
    PROVE  LoudOnly'
<1>1. sent' \in Seq(MessagesOf(Broadcast, Loud))
  BY SayType DEF Known, SInv, LoudOnly
<1>2. Broadcast' = Broadcast /\ Loud' = Loud
  BY DEF Broadcast, Loud, Pieces
<1> QED BY <1>1, <1>2 DEF LoudOnly, MessagesOf, Known, SInv

\* Steps that leave the text alone.
LEMMA LoudUnchanged ==
    ASSUME LoudOnly, request'.silent = request.silent, UNCHANGED textVars
    PROVE  LoudOnly'
BY DEF LoudOnly, Broadcast, textVars, Loud, Pieces, MessagesOf

\* A capture of a loud cell takes loud text.
LEMMA LoudCapture ==
    ASSUME Known, NEW ch \in CStreams, CaptureText(ch, <<Piece(ch)>>),
           UNCHANGED <<request, err>>
    PROVE  CapturesLoud'
<1>1. ASSUME ~ SilentCell
      PROVE  captures' \in Seq([stream : CStreams, text : Seq(Loud)]) /\ err' \in Seq(Loud)
  <2>1. <<Piece(ch)>> \in Seq(Loud)
    BY <1>1, LoudPiece
  <2> QED BY <1>1, <2>1, CaptureTextType DEF Known, SInv, CapturesLoud
<1> QED BY <1>1 DEF CapturesLoud, SilentCell, Loud, Pieces

\* Steps that leave the text, the captures and the buffers alone.
LEMMA QuietStep ==
    ASSUME Known, UNCHANGED <<textVars, captureVars, request, rdbuf>>,
           pc' \in Guarded => pc \in Guarded \/ ~ SilentCell
    PROVE  SInv'
<1>1. LoudOnly'
  BY LoudUnchanged DEF Known, SInv
<1>2. CapturesLoud'
  BY DEF Known, SInv, CapturesLoud, SilentCell, captureVars, Loud, Pieces
<1>3. GuardInForce'
  BY DEF Known, SInv, GuardInForce, SilentCell
<1> QED BY <1>1, <1>2, <1>3 DEF SInv

\* Steps that only move or add text.
LEMMA TextStep ==
    ASSUME Known, UNCHANGED <<captureVars, request, rdbuf>>, LoudOnly',
           pc' \in Guarded => pc \in Guarded \/ ~ SilentCell
    PROVE  SInv'
<1>1. CapturesLoud'
  BY DEF Known, SInv, CapturesLoud, SilentCell, captureVars, Loud, Pieces
<1>2. GuardInForce'
  BY DEF Known, SInv, GuardInForce, SilentCell
<1> QED BY <1>1, <1>2 DEF SInv

\* Every step keeps SInv.
LEMMA NextSInv == Known /\ [Next]_vars => SInv'
<1> SUFFICES ASSUME Known, [Next]_vars PROVE SInv'
  OBVIOUS
<1> USE DEF requestVars, guardVars, captureVars, workerVars, textVars
<1>s. "cout" \in Streams /\ "cerr" \in Streams /\ "stderr" \in CStreams
  BY DEF Streams, CStreams
<1>n. << >> \in Seq(Loud) /\ << >> \in Seq(MessagesOf(Broadcast', Loud))
      /\ << >> \in Seq([stream : CStreams, text : Seq(Loud)])
  OBVIOUS
<1>c. Loud' = Loud
  BY DEF Loud, Pieces
\* The life of the interpreter.
<1>1. ASSUME Construct PROVE SInv'
  <2>1. LoudOnly'
    BY <1>1, LoudUnchanged DEF Construct, Known, SInv
  <2>2. CapturesLoud'
    BY <1>1, <1>c DEF Construct, Known, SInv, CapturesLoud, SilentCell
  <2> QED BY <1>1, <2>1, <2>2 DEF Construct, SInv, GuardInForce, Guarded
<1>2. ASSUME Destroy PROVE SInv'
  <2>1. m_output' \in [Streams -> Seq(Loud)]
    BY <1>2, <1>n DEF Destroy
  <2>2. Broadcast' = Broadcast
    BY <1>2 DEF Destroy, Broadcast
  <2>3. LoudOnly'
    BY <1>2, <2>1, <2>2, <1>c DEF Destroy, LoudOnly, MessagesOf, Known, SInv
  <2>4. CapturesLoud'
    BY <1>2, <1>c DEF Destroy, Known, SInv, CapturesLoud, SilentCell
  <2> QED BY <1>2, <2>3, <2>4 DEF Destroy, SInv, GuardInForce, Guarded
\* A request arrives: nothing is captured, and no cell is silent yet.
<1>3. ASSUME NEW silent \in BOOLEAN, NEW allow \in BOOLEAN, Receive(silent, allow)
      PROVE  SInv'
  <2>1. captures = << >>
    BY <1>3 DEF Receive, Known, RInv, CapturesOff, Capturing
  <2>2. CapturesLoud'
    BY <1>3, <2>1, <1>n, <1>c DEF Receive, CapturesLoud
  <2>3. LoudOnly'
    BY <1>3, <1>n, <1>c DEF Receive, LoudOnly, Known, SInv, MessagesOf
  <2> QED BY <1>3, <2>2, <2>3 DEF Receive, SInv, GuardInForce, Guarded
<1>4. ASSUME NEW kind \in Kinds, Dispatch(kind) PROVE SInv'
  <2>1. ~ SilentCell /\ request'.silent = request.silent
    BY <1>4 DEF Dispatch, Known, RInv, RequestKnown, SilentCell, TypeOK
  <2>2. LoudOnly'
    BY <1>4, <2>1, LoudUnchanged DEF Dispatch, Known, SInv
  <2>3. CapturesLoud'
    BY <1>4, <2>1, <1>c DEF Dispatch, Known, SInv, CapturesLoud
  <2> QED BY <1>4, <2>2, <2>3 DEF Dispatch, SInv, GuardInForce, Guarded
<1>5. ASSUME Silence PROVE SInv'
  <2>1. LoudOnly'
    BY <1>5, LoudUnchanged DEF Silence, Known, SInv
  <2>2. CapturesLoud'
    BY <1>5, <1>c DEF Silence, Known, SInv, CapturesLoud, SilentCell
  <2>3. GuardInForce'
    BY <1>5 DEF Silence, SilencedStreams, GuardInForce, SilentCell
  <2> QED BY <2>1, <2>2, <2>3 DEF SInv
\* The captures begin, take text and end.
<1>6. ASSUME BeginCapture PROVE SInv'
  <2>1. LoudOnly'
    BY <1>6, LoudUnchanged DEF BeginCapture, Known, SInv
  <2>2. GuardInForce'
    BY <1>6 DEF BeginCapture, Known, SInv, GuardInForce, SilentCell, Guarded
  <2>3. captures' \in Seq([stream : CStreams, text : Seq(Loud)])
    <3>1. CaptureOrder[1] \in CStreams /\ CaptureOrder[2] \in CStreams
      BY DEF CaptureOrder, CStreams
    <3>2. captures' \in [1..2 -> [stream : CStreams, text : Seq(Loud)]]
      BY <1>6, <1>n, <3>1 DEF BeginCapture
    <3>3. \A C : \A c \in [1..2 -> C] : c \in Seq(C)
      <4>1. \A C : \A c \in [1..2 -> C] : \E n \in Nat : c \in [1..n -> C]
        OBVIOUS
      <4> QED BY <4>1, SeqDef
    <3> QED BY <3>2, <3>3, Zenon
  <2>4. CapturesLoud'
    BY <1>6, <2>3, <1>c DEF BeginCapture, Known, SInv, CapturesLoud, SilentCell
  <2> QED BY <2>1, <2>2, <2>4 DEF SInv
<1>7. ASSUME NEW ch \in CStreams, CaptureText(ch, <<Piece(ch)>>), pc = "run",
             pc' \in {"run", "captured"}, UNCHANGED <<request, err, rdbuf, textVars>>
      PROVE  SInv'
  <2>1. LoudOnly' /\ CapturesLoud'
    BY <1>7, LoudCapture, LoudUnchanged DEF Known, SInv
  <2> QED BY <1>7, <2>1 DEF SInv, GuardInForce, SilentCell, Guarded, Known
<1>8. ASSUME EndCapture PROVE SInv'
  <2>1. pc = "captured" /\ Len(captures) = 2
    BY <1>8 DEF EndCapture, ProcessEnded, Known, Progress, Capturing
  <2>2. ASSUME ~ SilentCell
        PROVE  captures[1].text \in Seq(Loud) /\ captures[2].text \in Seq(Loud)
    <3>1. captures \in Seq([stream : CStreams, text : Seq(Loud)])
      BY <2>2 DEF Known, SInv, CapturesLoud
    <3>2. 1 \in 1..Len(captures) /\ 2 \in 1..Len(captures)
      BY <2>1
    <3>3. captures[1] \in [stream : CStreams, text : Seq(Loud)]
      BY <3>1, <3>2, ElementOfSeq
    <3>4. captures[2] \in [stream : CStreams, text : Seq(Loud)]
      BY <3>1, <3>2, ElementOfSeq
    <3> QED BY <3>3, <3>4
  <2>3. rdbuf["cout"] = "buffer" => ~ SilentCell
    BY <2>1, <1>s DEF Known, SInv, GuardInForce, Guarded
  <2>4. Output("cout", captures[2].text, Text) \in TextOf(Broadcast, Loud)
    BY <2>2, <2>3, <1>s, LoudText, BroadcastStream, OutputType
  <2>5. LoudOnly'
    BY <1>8, <2>4, LoudBecomes DEF EndCapture
  <2>6. CapturesLoud'
    BY <1>8, <2>2, <1>n, <1>c DEF EndCapture, CapturesLoud, SilentCell
  <2> QED BY <1>8, <2>1, <2>5, <2>6
    DEF EndCapture, SInv, GuardInForce, SilentCell, Guarded, Known
<1>9. ASSUME Report PROVE SInv'
  <2>1. rdbuf["cerr"] = "buffer" => ~ SilentCell
    BY <1>9, <1>s DEF Report, Known, SInv, GuardInForce, Guarded
  <2>2. rdbuf["cerr"] = "buffer" => err \in Seq(Loud)
    BY <2>1 DEF Known, SInv, CapturesLoud
  <2>3. Output("cerr", err, Text) \in TextOf(Broadcast, Loud)
    BY <2>2, <1>s, LoudText, BroadcastStream, OutputType
  <2>4. LoudOnly'
    BY <1>9, <2>3, LoudText, LoudBecomes DEF Report
  <2> QED BY <1>9, <2>4, TextStep DEF Report, Guarded
<1>10. ASSUME Flush PROVE SInv'
  <2>1. LoudOnly'
    BY <1>10, LoudFlush DEF Flush
  <2> QED BY <1>10, <2>1, TextStep DEF Flush, Guarded
<1>11. ASSUME PublishError PROVE SInv'
  <2>1. CASE result # "ok" /\ ~ request.silent
    <3>1. "error" \in Broadcast
      BY <2>1 DEF Broadcast, Types
    <3>2. LoudOnly'
      BY <1>11, <2>1, <3>1, LoudSay DEF PublishError
    <3> QED BY <1>11, <3>2, TextStep DEF PublishError, Guarded
  <2>2. CASE ~ (result # "ok" /\ ~ request.silent)
    BY <1>11, <2>2, QuietStep DEF PublishError, Guarded
  <2> QED BY <2>1, <2>2
<1>12. ASSUME Reply PROVE SInv'
  <2>1. "reply" \in Broadcast /\ ReplyStatus \in CStreams \cup {"stdin", "error", "ok"}
    BY DEF Broadcast, Types, ReplyStatus
  <2>2. LoudOnly'
    BY <1>12, <2>1, LoudSay DEF Reply
  <2>3. pc \in Guarded
    BY <1>12 DEF Reply, Guarded
  <2> QED BY <1>12, <2>2, <2>3, TextStep DEF Reply
<1>13. ASSUME Unwind PROVE SInv'
  <2>1. LoudOnly'
    BY <1>13, LoudUnchanged DEF Unwind, Known, SInv
  <2>2. CapturesLoud'
    BY <1>13, <1>c DEF Unwind, Known, SInv, CapturesLoud, SilentCell
  <2> QED BY <1>13, <2>1, <2>2 DEF Unwind, SInv, GuardInForce, Guarded
\* The reads.
<1>14. ASSUME Ask PROVE SInv'
  <2>1. "input_request" \in Broadcast
    BY DEF Broadcast, Types
  <2>2. LoudOnly'
    BY <1>14, <2>1, LoudSay DEF Ask
  <2> QED BY <1>14, <2>2, TextStep DEF Ask, Guarded
<1>15. ASSUME Refuse \/ Extract PROVE SInv'
  BY <1>15, QuietStep DEF Refuse, Extract, Guarded
\* The preambles are never silenced.
<1>16. ASSUME NEW kind \in {"shell", "magics", "introspection"}, request.kind = kind
       PROVE  ~ SilentCell
  BY <1>16 DEF SilentCell
<1>17. ASSUME NEW kind \in {"shell", "magics", "introspection"}, NEW how,
              PreambleEnds(kind, how)
       PROVE  SInv'
  <2>1. LoudOnly'
    BY <1>17, LoudFlush DEF PreambleEnds
  <2> QED BY <1>16, <1>17, <2>1, TextStep DEF PreambleEnds
<1>18. ASSUME NEW kind \in {"shell", "magics", "introspection"}, NEW s \in Streams,
              PreambleWrite(kind, s)
       PROVE  SInv'
  <2>1. LoudOnly'
    BY <1>16, <1>18, LoudWrite DEF PreambleWrite
  <2> QED BY <1>16, <1>18, <2>1, TextStep DEF PreambleWrite
<1>19. ASSUME NEW kind \in {"shell", "magics", "introspection"}, PreambleFails(kind)
       PROVE  SInv'
  <2>1. LoudOnly'
    BY <1>s, <1>16, <1>19, LoudWrite DEF PreambleFails
  <2> QED BY <1>16, <1>19, <2>1, TextStep DEF PreambleFails
<1>20. ASSUME IntrospectionThrows PROVE SInv'
  BY <1>16, <1>20, QuietStep DEF IntrospectionThrows
<1>21. ASSUME Kernel PROVE SInv'
  <2>1. ASSUME ShellDone \/ MagicDone \/ IntrospectionFound PROVE SInv'
    BY <2>1, <1>17 DEF ShellDone, MagicDone, IntrospectionFound
  <2>2. ASSUME ShellFails \/ MagicUnknown \/ IntrospectionNotFound PROVE SInv'
    BY <2>2, <1>19 DEF ShellFails, MagicUnknown, IntrospectionNotFound
  <2>3. ASSUME NEW k \in {"introspection", "magics", "shell", "code"}, Dispatch(k)
        PROVE  SInv'
    BY <2>3, <1>4 DEF Kinds
  <2> QED
    BY <1>1, <1>5, <1>6, <1>8, <1>9, <1>10, <1>11, <1>12, <1>13, <1>14, <1>15, <1>20,
       <1>21, <2>1, <2>2, <2>3 DEF Kernel
\* The code of the cell, inside the guard.
<1>22. ASSUME NEW s \in Streams, CellWrite(s) PROVE SInv'
  <2>1. LoudOnly'
    BY <1>22, LoudWrite DEF CellWrite, Guarded
  <2> QED BY <1>22, <2>1, TextStep DEF CellWrite
<1>23. ASSUME NEW ch \in CStreams, CellPrintf(ch) PROVE SInv'
  BY <1>7, <1>23 DEF CellPrintf
<1>24. ASSUME CellFlush PROVE SInv'
  <2>1. LoudOnly'
    BY <1>24, LoudFlush DEF CellFlush
  <2> QED BY <1>24, <2>1, TextStep DEF CellFlush
<1>25. ASSUME CellRead PROVE SInv'
  <2>1. LoudOnly'
    BY <1>25, LoudFlush DEF CellRead
  <2> QED BY <1>25, <2>1, TextStep DEF CellRead, Guarded
<1>26. ASSUME NEW w \in Workers, CellStartsThread(w) PROVE SInv'
  BY <1>26, QuietStep DEF CellStartsThread
<1>27. ASSUME Code PROVE SInv'
  BY <1>s, <1>18, <1>22, <1>23, <1>24, <1>25, <1>26, <1>27 DEF Code, ShellOutput, MagicWrite
<1>28. ASSUME End PROVE SInv'
  <2>1. ASSUME CellDoesNotCompile PROVE SInv'
    BY <1>s, <1>7, <2>1 DEF CellDoesNotCompile
  <2>2. ASSUME NEW how, CellEnds(how) PROVE SInv'
    BY <2>2, QuietStep DEF CellEnds, Guarded
  <2> QED BY <1>28, <2>1, <2>2 DEF End
<1>29. ASSUME Reading PROVE SInv'
  BY <1>29, QuietStep DEF Reading, Answer, Guarded
<1>30. ASSUME Client PROVE SInv'
  BY <1>3, <1>30 DEF Client
\* The threads that cells left running: no request is silent for them.
<1>31. ASSUME NEW w \in Workers, WorkerFetch(w) \/ WorkerLoses(w) PROVE SInv'
  BY <1>31, QuietStep DEF WorkerFetch, WorkerLoses, Returned
<1>32. ASSUME NEW w \in Workers, WorkerCrashes(w) PROVE SInv'
  BY <1>32, QuietStep DEF WorkerCrashes, Returned, Guarded
<1>33. ASSUME NEW w \in Workers, WorkerPut(w) PROVE SInv'
  <2>1. WorkerPiece(w) \in Loud
    BY WorkerPieceType DEF Known, Loud, WorkerPiece
  <2>2. m_output["cout"] \in Seq(Loud)
    BY <1>s DEF Known, SInv, LoudOnly
  <2>3. Append(m_output["cout"], WorkerPiece(w)) \in Seq(Loud)
    BY <2>1, <2>2
  <2>4. m_output' \in [Streams -> Seq(Loud)]
    BY <1>33, <2>3 DEF WorkerPut, Known, SInv, LoudOnly
  <2>5. Broadcast' = Broadcast
    BY <1>33 DEF WorkerPut, Broadcast
  <2>6. LoudOnly'
    BY <1>33, <2>4, <2>5, <1>c DEF WorkerPut, LoudOnly, MessagesOf, Known, SInv
  <2> QED BY <1>33, <2>6, TextStep DEF WorkerPut
<1>34. ASSUME NEW w \in Workers, WorkerSync(w) PROVE SInv'
  <2>1. m_output["cout"] \in Seq(Loud)
    BY <1>s DEF Known, SInv, LoudOnly
  <2>2. m_output' \in [Streams -> Seq(Loud)]
    BY <1>34, <1>n DEF WorkerSync, Known, SInv, LoudOnly
  <2>3. StreamMessage("cout", m_output["cout"]) \in MessagesOf(Broadcast, Loud)
    BY <1>s, <2>1, BroadcastStream, StreamMessageType
  <2>4. sent' \in Seq(MessagesOf(Broadcast, Loud))
    BY <1>34, <2>3 DEF WorkerSync, Known, SInv, LoudOnly
  <2>5. Broadcast' = Broadcast
    BY <1>34 DEF WorkerSync, Broadcast
  <2>6. LoudOnly'
    BY <2>2, <2>4, <2>5, <1>c DEF LoudOnly, MessagesOf
  <2> QED BY <1>34, <2>6, TextStep DEF WorkerSync
<1>35. ASSUME UNCHANGED vars PROVE SInv'
  BY <1>35, QuietStep DEF vars
<1> QED
  BY <1>2, <1>21, <1>27, <1>28, <1>29, <1>30, <1>31, <1>32, <1>33, <1>34, <1>35
  DEF Next, Threads

\* Nothing that a silent cell writes, to the C++ streams, to the C ones or as a
\* diagnostic, reaches the client or is kept in a buffer for a later request, and its
\* failure is not broadcast, whatever the threads of earlier cells do meanwhile
\* (SilentStreamRedirectRAII, execute_request_impl).
THEOREM SilentCellsUnheard == Spec => []SilentUnheard
<1>1. Spec => [](TypeOK /\ Progress)
  BY TypesHold
<1>2. Spec => []RInv
  BY InitRInv, NextRInv, PTL DEF Spec
<1>3. TypeOK /\ Progress /\ RInv /\ SInv /\ [Next]_vars => SInv'
  BY NextSInv DEF Known
<1>4. Spec => []SInv
  BY <1>1, <1>2, <1>3, InitSInv, PTL DEF Spec
<1> QED BY <1>4, SInvImplies, PTL

-----------------------------------------------------------------------------
(* A read takes only what was typed for its request.                       *)

\* The characters that the request may read.
Own == {request.n, NewLine}

\* What is left of an answer was typed for the request, and a line that has just been
\* answered is not empty.
OInv ==
    /\ m_value \in Seq(Own)
    /\ pc = "extract" => m_value # << >>

\* OInv holds when the process starts.
LEMMA InitOInv == Init => OInv
<1> SUFFICES ASSUME Init PROVE OInv
  OBVIOUS
<1>1. << >> \in Seq(Own)
  OBVIOUS
<1> QED BY <1>1 DEF Init, Input!Init, OInv

\* OInv says of sequences what InputOwned says of their elements.
LEMMA OInvImplies == OInv => InputOwned
<1> SUFFICES ASSUME OInv PROVE InputOwned
  OBVIOUS
<1>1. ASSUME NEW j \in 1..Len(m_value) PROVE m_value[j] \in Own
  BY <1>1, ElementOfSeq DEF OInv
<1> QED BY <1>1 DEF OInv, InputOwned, Own

\* Steps that leave std::cin and the request alone.
LEMMA OwnKept ==
    ASSUME OInv, UNCHANGED m_value, request'.n = request.n,
           pc' = "extract" => pc = "extract"
    PROVE  OInv'
BY DEF OInv, Own

\* Every step keeps OInv.
LEMMA NextOInv == TypeOK /\ Progress /\ OInv /\ [Next]_vars => OInv'
<1> SUFFICES ASSUME TypeOK, Progress, OInv, [Next]_vars PROVE OInv'
  OBVIOUS
<1> USE DEF requestVars, inputVars, Input!inputVars
\* A new request has a new, empty buffer.
<1>1. ASSUME NEW silent \in BOOLEAN, NEW allow \in BOOLEAN, Receive(silent, allow)
      PROVE  OInv'
  <2>1. << >> \in Seq(Own')
    OBVIOUS
  <2> QED BY <1>1, <2>1 DEF Receive, Input!Redirect, OInv
\* The line is typed for the request that asks, and its newline makes it not empty.
<1>2. ASSUME NEW length \in 0..MaxLine, Answer(length) PROVE OInv'
  <2>1. length \in Nat /\ Own' = Own
    BY <1>2, BoundsAssumption DEF Answer, Own
  <2>2. [i \in 1..length |-> request.n] \in [1..length -> Own]
    BY DEF Own
  <2>3. [i \in 1..length |-> request.n] \in Seq(Own)
    BY <2>1, <2>2, SeqDef
  <2>4. NewLine \in Own
    BY DEF Own
  <2>5. m_value' \in Seq(Own) /\ m_value' # << >>
    BY <1>2, <2>3, <2>4, AppendProperties DEF Answer, Input!Answer
  <2> QED BY <2>1, <2>5 DEF OInv
<1>3. ASSUME Extract PROVE OInv'
  <2>1. m_value' \in Seq(Own) /\ Own' = Own
    BY <1>3, HeadTailProperties DEF Extract, Input!Extract, OInv, Own
  <2> QED BY <1>3, <2>1 DEF Extract, OInv
<1>4. ASSUME NEW kind \in Kinds, Dispatch(kind) PROVE OInv'
  BY <1>4, OwnKept DEF Dispatch, TypeOK
<1>5. ASSUME Construct \/ Silence \/ BeginCapture \/ EndCapture \/ Report \/ Flush
             \/ PublishError \/ Reply \/ IntrospectionThrows \/ Ask \/ Refuse \/ Unwind
             \/ Destroy
      PROVE  OInv'
  BY <1>5, OwnKept
  DEF Construct, Silence, BeginCapture, EndCapture, ProcessEnded, Report, Flush,
      PublishError, Reply, IntrospectionThrows, Ask, Refuse, Input!Refuse, Unwind,
      Input!Restore, Destroy
<1>6. ASSUME NEW kind, NEW how, PreambleEnds(kind, how) PROVE OInv'
  BY <1>6, OwnKept DEF PreambleEnds
<1>7. ASSUME NEW kind, NEW s, PreambleWrite(kind, s) PROVE OInv'
  BY <1>7, OwnKept DEF PreambleWrite
<1>8. ASSUME NEW kind, PreambleFails(kind) PROVE OInv'
  BY <1>8, OwnKept DEF PreambleFails
<1>9. ASSUME Kernel PROVE OInv'
  BY <1>3, <1>4, <1>5, <1>6, <1>8, <1>9
  DEF Kernel, ShellDone, ShellFails, MagicDone, MagicUnknown, IntrospectionFound,
      IntrospectionNotFound, Kinds
<1>10. ASSUME NEW s, CellWrite(s) PROVE OInv'
  BY <1>10, OwnKept DEF CellWrite
<1>11. ASSUME NEW ch, CellPrintf(ch) PROVE OInv'
  BY <1>11, OwnKept DEF CellPrintf
<1>12. ASSUME CellFlush \/ CellRead PROVE OInv'
  BY <1>12, OwnKept DEF CellFlush, CellRead
<1>13. ASSUME NEW w, CellStartsThread(w) PROVE OInv'
  BY <1>13, OwnKept DEF CellStartsThread
<1>14. ASSUME Code PROVE OInv'
  BY <1>7, <1>10, <1>11, <1>12, <1>13, <1>14 DEF Code, ShellOutput, MagicWrite
<1>15. ASSUME End PROVE OInv'
  BY <1>15, OwnKept DEF End, CellDoesNotCompile, CellEnds
<1>16. ASSUME Threads PROVE OInv'
  BY <1>16, OwnKept DEF Threads, WorkerFetch, WorkerPut, WorkerSync, WorkerLoses,
                        WorkerCrashes, Returned
<1>17. ASSUME UNCHANGED vars PROVE OInv'
  BY <1>17, OwnKept DEF vars
<1> QED
  BY <1>1, <1>2, <1>5, <1>9, <1>14, <1>15, <1>16, <1>17 DEF Next, Client, Reading

\* A cell reads characters typed for its own request and newlines only, however many
\* lines earlier cells left unread, and underflow always has a character to give, also
\* of an empty line (input_guard, and the new buffer it makes for every request).
THEOREM ReadsOwnInput == Spec => []InputOwned
<1>1. Spec => []OInv
  BY TypesHold, InitOInv, NextOInv, PTL DEF Spec
<1> QED BY <1>1, OInvImplies, PTL
=============================================================================
