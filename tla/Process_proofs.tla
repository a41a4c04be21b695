--------------------------- MODULE Process_proofs ---------------------------
(***************************************************************************)
(* Proofs about xoutput_buffer and the end of the process, for any number  *)
(* of threads and calls.                                                   *)
(*                                                                         *)
(* The first part is about OutputBuffer alone.  The steps of Process on    *)
(* the buffer are steps of OutputBuffer, whose invariant IInv they         *)
(* preserve; only the flush at exit enters sync in a way of its own.  The  *)
(* rest follows a handler from the signal to the end.                      *)
(***************************************************************************)
EXTENDS Process, SequenceTheorems, TLAPS

-----------------------------------------------------------------------------
(* Type correctness.                                                       *)

\* A character write adds one of the texts.
LEMMA OverflowTextType ==
    ASSUME NEW c \in Char \cup {Eof}
    PROVE  OverflowText(c) \in Texts
BY EofAssumption DEF OverflowText, Texts

\* Every text is a sequence of characters.
LEMMA TextsAreSequences == Texts \subseteq Seq(Char)
<1>1. \A c \in Char : <<c>> \in Seq(Char)
  OBVIOUS
<1>2. << >> \in Seq(Char)
  OBVIOUS
<1> QED BY <1>1, <1>2, StringsAssumption DEF Texts

LEMMA InitTypeOK == Init => TypeOK
BY MaxCallsAssumption DEF Init, TypeOK, PC, Texts

LEMMA NextTypeOK == TypeOK /\ [Next]_vars => TypeOK'
<1> USE DEF TypeOK, PC
<1> SUFFICES ASSUME TypeOK, [Next]_vars PROVE TypeOK'
  OBVIOUS
<1>1. ASSUME NEW t \in Threads, NEW entry \in {"put", "sync"},
             NEW s \in Texts, Begin(t, entry, s)
      PROVE  TypeOK'
  BY <1>1, MaxCallsAssumption DEF Begin
<1>2. ASSUME NEW t \in Threads, Call(t) PROVE TypeOK'
  <2>1. ASSUME NEW c \in Char \cup {Eof}, Overflow(t, c) PROVE TypeOK'
    BY <2>1, <1>1, OverflowTextType DEF Overflow
  <2>2. ASSUME NEW s \in Strings, Xsputn(t, s) PROVE TypeOK'
    BY <2>2, <1>1 DEF Xsputn, Texts
  <2>3. ASSUME Sync(t) PROVE TypeOK'
    BY <2>3, <1>1 DEF Sync, Texts
  <2> QED BY <1>2, <2>1, <2>2, <2>3 DEF Call
<1>3. ASSUME NEW t \in Threads, Step(t) PROVE TypeOK'
  <2>1. CASE Lock(t)
    BY <2>1 DEF Lock
  <2>2. CASE Put(t)
    <3>1. text[t] \in Seq(Char)
      BY TextsAreSequences
    <3>2. m_output \o text[t] \in Seq(Char) /\ written \o text[t] \in Seq(Char)
      BY <3>1, ConcatProperties
    <3> QED BY <2>2, <3>2 DEF Put
  <2>3. CASE SyncEmpty(t)
    BY <2>3 DEF SyncEmpty
  <2>4. CASE Publish(t)
    <3>1. published \o m_output \in Seq(Char)
      BY ConcatProperties
    <3> QED BY <2>4, <3>1 DEF Publish
  <2>5. CASE PublishThrows(t)
    BY <2>5 DEF PublishThrows
  <2>6. CASE Clear(t)
    BY <2>6 DEF Clear
  <2>7. CASE Unlock(t)
    BY <2>7 DEF Unlock
  <2> QED BY <1>3, <2>1, <2>2, <2>3, <2>4, <2>5, <2>6, <2>7 DEF Step
<1>4. CASE UNCHANGED vars
  BY <1>4 DEF vars
<1> QED BY <1>2, <1>3, <1>4 DEF Next

\* The variables of the buffer keep their types: in particular the end-of-file
\* marker that overflow may be called with never becomes text.
THEOREM TypeCorrect == Spec => []TypeOK
BY InitTypeOK, NextTypeOK, PTL DEF Spec

-----------------------------------------------------------------------------
(* Mutual exclusion.                                                       *)

LEMMA InitMutexHeld == Init => MutexHeld
BY ThreadsAssumption DEF Init, MutexHeld, Critical, PC

LEMMA NextMutexHeld == TypeOK /\ MutexHeld /\ [Next]_vars => MutexHeld'
<1> SUFFICES ASSUME TypeOK, MutexHeld, [Next]_vars,
                    NEW u \in Threads
             PROVE  (pc[u] \in Critical <=> m_mutex = u)'
  BY DEF MutexHeld
<1> USE ThreadsAssumption DEF TypeOK, MutexHeld, Critical, PC
<1>1. ASSUME NEW t \in Threads, Call(t)
      PROVE  (pc[u] \in Critical <=> m_mutex = u)'
  BY <1>1 DEF Call, Overflow, Xsputn, Sync, Begin
<1>2. ASSUME NEW t \in Threads, Step(t)
      PROVE  (pc[u] \in Critical <=> m_mutex = u)'
  <2>1. CASE Lock(t)
    BY <2>1 DEF Lock
  <2>2. CASE Put(t)
    BY <2>2 DEF Put
  <2>3. CASE SyncEmpty(t)
    BY <2>3 DEF SyncEmpty
  <2>4. CASE Publish(t)
    BY <2>4 DEF Publish
  <2>5. CASE PublishThrows(t)
    BY <2>5 DEF PublishThrows
  <2>6. CASE Clear(t)
    BY <2>6 DEF Clear
  <2>7. CASE Unlock(t)
    BY <2>7 DEF Unlock
  <2> QED BY <1>2, <2>1, <2>2, <2>3, <2>4, <2>5, <2>6, <2>7 DEF Step
<1>3. CASE UNCHANGED vars
  BY <1>3 DEF vars
<1> QED BY <1>1, <1>2, <1>3 DEF Next

\* A thread is inside one of the three functions exactly when it holds
\* m_mutex, so at most one is.
THEOREM MutualExclusion == Spec => []MutexHeld
BY InitMutexHeld, NextMutexHeld, TypeCorrect, PTL DEF Spec

-----------------------------------------------------------------------------
(* Conservation.  Under the mutex a thread that published and has not yet  *)
(* cleared is the only one inside, so nobody appends to text that is about *)
(* to be cleared, and nobody publishes it a second time.                   *)

IInv == TypeOK /\ MutexHeld /\ Conservation /\ SyncPublishesAll

LEMMA InitConservation == Init => Conservation /\ SyncPublishesAll
<1> SUFFICES ASSUME Init PROVE Conservation /\ SyncPublishesAll
  OBVIOUS
<1>1. ~ \E t \in Threads : pc[t] = "clear"
  BY DEF Init
<1>2. SyncPublishesAll
  BY DEF Init, SyncPublishesAll
<1>3. << >> \o << >> = << >>
  BY ConcatEmptySeq, EmptySeq
<1> QED BY <1>1, <1>2, <1>3 DEF Init, Conservation, Unpublished

\* A step that touches none of the texts and moves no thread to or from
\* "clear" and none to "synced" preserves conservation.
LEMMA FrameConservation ==
    ASSUME IInv,
           UNCHANGED <<m_output, published, written>>,
           (\E t \in Threads : pc[t] = "clear")
             <=> (\E t \in Threads : pc'[t] = "clear"),
           \A t \in Threads : pc'[t] = "synced" => pc[t] = "synced"
    PROVE  Conservation' /\ SyncPublishesAll'
BY DEF IInv, Conservation, SyncPublishesAll, Unpublished

LEMMA NextConservation ==
    IInv /\ [Next]_vars => Conservation' /\ SyncPublishesAll'
<1> SUFFICES ASSUME IInv, [Next]_vars
             PROVE  Conservation' /\ SyncPublishesAll'
  OBVIOUS
<1> USE ThreadsAssumption
<1>a. TypeOK /\ MutexHeld /\ Conservation /\ SyncPublishesAll
  BY DEF IInv
\* Only the holder of the mutex is inside.
<1>b. ASSUME NEW t \in Threads, NEW u \in Threads,
             pc[t] \in Critical, pc[u] \in Critical
      PROVE  t = u
  BY <1>a, <1>b DEF MutexHeld
<1>1. ASSUME NEW t \in Threads, Call(t)
      PROVE  Conservation' /\ SyncPublishesAll'
  <2>1. pc[t] = "idle" /\ \E e \in {"put", "sync"} : pc' = [pc EXCEPT ![t] = e]
    BY <1>1 DEF Call, Overflow, Xsputn, Sync, Begin
  <2>2. UNCHANGED <<m_output, published, written>>
    BY <1>1 DEF Call, Overflow, Xsputn, Sync, Begin
  <2> QED BY <1>a, <2>1, <2>2, FrameConservation DEF TypeOK
<1>2. ASSUME NEW t \in Threads, Step(t)
      PROVE  Conservation' /\ SyncPublishesAll'
  <2>1. CASE Lock(t)
    BY <2>1, <1>a, FrameConservation DEF Lock, TypeOK
  <2>2. CASE Put(t)
    <3>1. \A u \in Threads : u # t => pc[u] \notin Critical
      BY <2>2, <1>b DEF Put, Critical, PC
    <3>2. ~ \E u \in Threads : pc[u] = "clear"
      BY <2>2, <3>1 DEF Put, Critical, PC
    <3>3. /\ ~ \E u \in Threads : pc'[u] = "clear"
          /\ \A u \in Threads : pc'[u] # "synced"
      BY <2>2, <3>1, <1>a DEF Put, Critical, PC, TypeOK
    <3>4. written = published \o m_output
      BY <3>2, <1>a DEF Conservation, Unpublished
    <3>5. (published \o m_output) \o text[t]
            = published \o (m_output \o text[t])
      BY <1>a, TextsAreSequences, ConcatAssociative DEF TypeOK
    <3> QED BY <2>2, <3>3, <3>4, <3>5
            DEF Put, Conservation, SyncPublishesAll, Unpublished
  <2>3. CASE SyncEmpty(t)
    <3>1. \A u \in Threads : u # t => pc[u] \notin Critical
      BY <2>3, <1>b DEF SyncEmpty, Critical, PC
    <3>2. /\ ~ \E u \in Threads : pc[u] = "clear"
          /\ ~ \E u \in Threads : pc'[u] = "clear"
      BY <2>3, <3>1, <1>a DEF SyncEmpty, Critical, PC, TypeOK
    <3>3. published \o m_output = published
      BY <2>3, <1>a, ConcatEmptySeq DEF SyncEmpty, TypeOK
    <3> QED BY <2>3, <3>2, <3>3, <1>a
            DEF SyncEmpty, Conservation, SyncPublishesAll, Unpublished
  <2>4. CASE Publish(t)
    <3>1. \A u \in Threads : u # t => pc[u] \notin Critical
      BY <2>4, <1>b DEF Publish, Critical, PC
    <3>2. /\ ~ \E u \in Threads : pc[u] = "clear"
          /\ pc'[t] = "clear"
          /\ \A u \in Threads : pc'[u] # "synced"
      BY <2>4, <3>1, <1>a DEF Publish, Critical, PC, TypeOK
    <3>3. (published \o m_output) \o << >> = published \o m_output
      BY <1>a, ConcatEmptySeq, ConcatProperties DEF TypeOK
    <3> QED BY <2>4, <3>2, <3>3, <1>a
            DEF Publish, Conservation, SyncPublishesAll, Unpublished
  <2>5. CASE PublishThrows(t)
    BY <2>5, <1>a, FrameConservation DEF PublishThrows, TypeOK
  <2>6. CASE Clear(t)
    <3>1. \A u \in Threads : u # t => pc[u] \notin Critical
      BY <2>6, <1>b DEF Clear, Critical, PC
    <3>2. ~ \E u \in Threads : pc'[u] = "clear"
      BY <2>6, <3>1, <1>a DEF Clear, Critical, PC, TypeOK
    <3>3. published \o << >> = written
      BY <2>6, <1>a DEF Clear, Conservation, Unpublished
    <3>4. published = written
      BY <3>3, <1>a, ConcatEmptySeq DEF TypeOK
    <3> QED BY <2>6, <3>2, <3>3, <3>4
            DEF Clear, Conservation, SyncPublishesAll, Unpublished
  <2>7. CASE Unlock(t)
    BY <2>7, <1>a, FrameConservation DEF Unlock, TypeOK
  <2> QED BY <1>2, <2>1, <2>2, <2>3, <2>4, <2>5, <2>6, <2>7 DEF Step
<1>3. CASE UNCHANGED vars
  BY <1>3, FrameConservation DEF vars
<1> QED BY <1>1, <1>2, <1>3 DEF Next

LEMMA Invariance == Spec => []IInv
<1>1. Init => Conservation /\ SyncPublishesAll
  BY InitConservation
<1>2. IInv /\ [Next]_vars => Conservation' /\ SyncPublishesAll'
  BY NextConservation
<1> QED BY <1>1, <1>2, TypeCorrect, MutualExclusion, PTL DEF Spec, IInv

\* No text is lost, doubled or reordered, for any number of threads.
THEOREM TextConserved == Spec => []Conservation
BY Invariance, PTL DEF IInv

\* A sync that returns normally has published all that was written.
THEOREM SyncComplete == Spec => []SyncPublishesAll
BY Invariance, PTL DEF IInv

-----------------------------------------------------------------------------
(* Refinement: the abstract write is Put, the abstract flush is Publish    *)
(* (not Clear), and every other step is a stutter.                         *)

\* A step that leaves the texts alone and moves no thread to or from "clear"
\* is a stutter of the abstract stream.
LEMMA FrameStutter ==
    ASSUME UNCHANGED <<m_output, published>>,
           (\E t \in Threads : pc[t] = "clear")
             <=> (\E t \in Threads : pc'[t] = "clear")
    PROVE  UNCHANGED Abstract!vars
BY DEF Abstract!vars, Unpublished

LEMMA InitImplements == Init => Abstract!Init
BY DEF Init, Abstract!Init, Unpublished

LEMMA NextImplements == IInv /\ [Next]_vars => [Abstract!Next]_Abstract!vars
<1> SUFFICES ASSUME IInv, [Next]_vars
             PROVE  [Abstract!Next]_Abstract!vars
  OBVIOUS
<1> USE ThreadsAssumption
<1>a. TypeOK /\ MutexHeld
  BY DEF IInv
<1>b. ASSUME NEW t \in Threads, NEW u \in Threads,
             pc[t] \in Critical, pc[u] \in Critical
      PROVE  t = u
  BY <1>a, <1>b DEF MutexHeld
<1>1. ASSUME NEW t \in Threads, Call(t) PROVE UNCHANGED Abstract!vars
  <2>1. pc[t] = "idle" /\ \E e \in {"put", "sync"} : pc' = [pc EXCEPT ![t] = e]
    BY <1>1 DEF Call, Overflow, Xsputn, Sync, Begin
  <2>2. UNCHANGED <<m_output, published>>
    BY <1>1 DEF Call, Overflow, Xsputn, Sync, Begin
  <2> QED BY <1>a, <2>1, <2>2, FrameStutter DEF TypeOK
<1>2. ASSUME NEW t \in Threads, Step(t)
      PROVE  [Abstract!Next]_Abstract!vars
  <2>1. CASE Lock(t)
    BY <2>1, <1>a, FrameStutter DEF Lock, TypeOK
  <2>2. CASE Put(t)
    <3>1. \A u \in Threads : u # t => pc[u] \notin Critical
      BY <2>2, <1>b DEF Put, Critical, PC
    <3>2. /\ ~ \E u \in Threads : pc[u] = "clear"
          /\ ~ \E u \in Threads : pc'[u] = "clear"
      BY <2>2, <3>1, <1>a DEF Put, Critical, PC, TypeOK
    <3>3. Unpublished = m_output /\ Unpublished' = m_output \o text[t]
      BY <2>2, <3>2 DEF Put, Unpublished
    <3>4. Abstract!Write(text[t])
      BY <2>2, <3>3 DEF Put, Abstract!Write
    <3>5. text[t] \in Texts
      BY <1>a DEF TypeOK
    <3> QED BY <3>4, <3>5 DEF Abstract!Next
  <2>3. CASE SyncEmpty(t)
    BY <2>3, <1>a, FrameStutter DEF SyncEmpty, TypeOK
  <2>4. CASE Publish(t)
    <3>1. \A u \in Threads : u # t => pc[u] \notin Critical
      BY <2>4, <1>b DEF Publish, Critical, PC
    <3>2. ~ (\E u \in Threads : pc[u] = "clear") /\ pc'[t] = "clear"
      BY <2>4, <3>1, <1>a DEF Publish, Critical, PC, TypeOK
    <3>3. Unpublished = m_output /\ Unpublished' = << >>
      BY <3>2 DEF Unpublished
    <3>4. Abstract!Flush
      BY <2>4, <3>3 DEF Publish, Abstract!Flush
    <3> QED BY <3>4 DEF Abstract!Next
  <2>5. CASE PublishThrows(t)
    BY <2>5, <1>a, FrameStutter DEF PublishThrows, TypeOK
  <2>6. CASE Clear(t)
    <3>1. \A u \in Threads : u # t => pc[u] \notin Critical
      BY <2>6, <1>b DEF Clear, Critical, PC
    <3>2. pc[t] = "clear" /\ ~ \E u \in Threads : pc'[u] = "clear"
      BY <2>6, <3>1, <1>a DEF Clear, Critical, PC, TypeOK
    <3>3. Unpublished = << >> /\ Unpublished' = << >>
      BY <2>6, <3>2 DEF Clear, Unpublished
    <3> QED BY <2>6, <3>3 DEF Clear, Abstract!vars
  <2>7. CASE Unlock(t)
    BY <2>7, <1>a, FrameStutter DEF Unlock, TypeOK
  <2> QED BY <1>2, <2>1, <2>2, <2>3, <2>4, <2>5, <2>6, <2>7 DEF Step
<1>3. CASE UNCHANGED vars
  BY <1>3, FrameStutter DEF vars
<1> QED BY <1>1, <1>2, <1>3 DEF Next

\* xoutput_buffer implements the ordered, lossless stream OutputStream.
THEOREM Implements == Spec => ImplementsStream
<1>1. Init => Abstract!Init
  BY InitImplements
<1>2. IInv /\ [Next]_vars => [Abstract!Next]_Abstract!vars
  BY NextImplements
<1> QED BY <1>1, <1>2, Invariance, PTL DEF Spec, ImplementsStream, Abstract!Spec

-----------------------------------------------------------------------------
(* Prefixes.                                                               *)

LEMMA PrefixReflexive == ASSUME NEW s PROVE IsPrefixOf(s, s)
<1> QED BY DEF IsPrefixOf

LEMMA EmptyPrefix == ASSUME NEW t \in Seq(Char) PROVE IsPrefixOf(<< >>, t)
<1>1. Len(<< >>) = 0 /\ Len(t) \in Nat
  BY EmptySeq, LenProperties
<1> QED BY <1>1 DEF IsPrefixOf

LEMMA PrefixExtended ==
    ASSUME NEW s \in Seq(Char), NEW t \in Seq(Char), NEW u \in Seq(Char),
           IsPrefixOf(s, t)
    PROVE  IsPrefixOf(s, t \o u)
<1>1. /\ Len(t \o u) = Len(t) + Len(u)
      /\ \A i \in 1..Len(t) : (t \o u)[i] = t[i]
  BY ConcatProperties, LenProperties
<1>2. Len(s) \in Nat /\ Len(t) \in Nat /\ Len(u) \in Nat
  BY LenProperties
<1> QED BY <1>1, <1>2 DEF IsPrefixOf

-----------------------------------------------------------------------------
(* The invariant.                                                          *)

\* The handler's context calls sync once, at exit.
HandlerSyncs ==
    /\ pc[Handler] \in {"idle", "sync", "publish", "clear", "synced", "unwind"}
    /\ life \in {"starting", "running", "exiting"} => pc[Handler] = "idle"

NothingBeforeStart ==
    life = "starting" => interrupted = NoThread /\ atSignal = << >>

\* The flush at exit has entered sync, which needs m_mutex, and has not been
\* given up.
FlushEntered ==
    \/ life = "flushing" /\ pc[Handler] # "sync"
    \/ life = "exited" /\ signal # "SIGKILL" /\ ~refused /\ ~muted

InterruptedOutside == \A t \in Threads : interrupted = t => pc[t] \notin Critical

\* The flush at exit has published.
FlushDone ==
    \/ life = "flushing" /\ pc[Handler] \in {"synced", "idle"} /\ ~refused
    \/ life = "exited" /\ signal # "SIGKILL" /\ ~refused /\ ~muted

PInv ==
    /\ ProcessTypeOK
    /\ IInv
    /\ HandlerSyncs
    /\ NothingBeforeStart
    /\ IsPrefixOf(atSignal, written)
    /\ FlushEntered => InterruptedOutside
    /\ FlushDone => IsPrefixOf(atSignal, published)

LEMMA PInvImplies == PInv => ExitHeard /\ InterruptInsideHangs
BY DEF PInv, FlushEntered, FlushDone, InterruptedOutside, ExitHeard,
       InterruptInsideHangs

LEMMA PInvInit == ProcessInit => PInv
<1> SUFFICES ASSUME ProcessInit PROVE PInv
  OBVIOUS
<1>1. Init
  BY DEF ProcessInit
<1>2. IInv
  BY <1>1, InitTypeOK, InitMutexHeld, InitConservation DEF IInv
<1>3. ProcessTypeOK
  <2>1. TypeOK /\ << >> \in Seq(Char)
    BY <1>1, InitTypeOK DEF TypeOK, Init
  <2>2. 0 \in 0..MaxSilent
    BY MaxSilentAssumption
  <2> QED BY <2>1, <2>2 DEF ProcessInit, ProcessTypeOK
<1>4. HandlerSyncs /\ NothingBeforeStart
  BY <1>1, HandlerAssumption DEF ProcessInit, Init, HandlerSyncs, NothingBeforeStart
<1>5. IsPrefixOf(atSignal, written)
  BY <1>1, PrefixReflexive DEF ProcessInit, Init
<1> QED BY <1>2, <1>3, <1>4, <1>5 DEF PInv, ProcessInit, FlushEntered, FlushDone

-----------------------------------------------------------------------------
(* Steps on the buffer.                                                    *)

\* What a step of OutputBuffer does to the histories and to other threads.
LEMMA BufferStep ==
    ASSUME PInv, NEW t \in Threads, Call(t) \/ Step(t)
    PROVE  /\ TypeOK' /\ IInv'
           /\ IsPrefixOf(atSignal, written')
           /\ IsPrefixOf(atSignal, published) => IsPrefixOf(atSignal, published')
           /\ \A u \in Threads \ {t} : pc'[u] = pc[u]
<1>0. IInv /\ TypeOK /\ atSignal \in Seq(Char) /\ IsPrefixOf(atSignal, written)
  BY DEF PInv, IInv, ProcessTypeOK
<1>1. Next
  BY DEF Next
<1>2. TypeOK' /\ IInv'
  BY <1>0, <1>1, NextTypeOK, NextMutexHeld, NextConservation DEF IInv
<1>3. \A u \in Threads \ {t} : pc'[u] = pc[u]
  BY <1>0 DEF TypeOK, Call, Overflow, Xsputn, Sync, Begin, Step, Lock, Put,
       SyncEmpty, Publish, PublishThrows, Clear, Unlock
<1>4. CASE Call(t)
  <2>1. UNCHANGED <<written, published>>
    BY <1>4 DEF Call, Overflow, Xsputn, Sync, Begin
  <2> QED BY <1>0, <1>2, <1>3, <2>1
<1>5. CASE Put(t)
  <2>1. text[t] \in Seq(Char) /\ written \in Seq(Char)
    BY <1>0, TextsAreSequences DEF TypeOK
  <2>2. IsPrefixOf(atSignal, written \o text[t])
    BY <1>0, <2>1, PrefixExtended
  <2> QED BY <1>2, <1>3, <1>5, <2>2 DEF Put
<1>6. CASE Publish(t)
  <2>1. published \in Seq(Char) /\ m_output \in Seq(Char)
    BY <1>0 DEF TypeOK
  <2>2. IsPrefixOf(atSignal, published) => IsPrefixOf(atSignal, published \o m_output)
    BY <1>0, <2>1, PrefixExtended
  <2> QED BY <1>0, <1>2, <1>3, <1>6, <2>2 DEF Publish
<1>7. CASE Step(t) /\ ~Put(t) /\ ~Publish(t)
  <2>1. UNCHANGED <<written, published>>
    BY <1>7 DEF Step, Lock, SyncEmpty, PublishThrows, Clear, Unlock
  <2> QED BY <1>0, <1>2, <1>3, <2>1
<1> QED BY <1>4, <1>5, <1>6, <1>7

\* A cell's call or step leaves the handler's context and the interrupted
\* thread where they are.
LEMMA CellStep ==
    ASSUME PInv, NEW t \in Cells, t # interrupted,
           Call(t) \/ Step(t),
           UNCHANGED <<life, signal, interrupted, silenced, silentCells, refused,
                       muted, atSignal>>,
           badbit' \in BOOLEAN
    PROVE  PInv'
<1>0. t \in Threads /\ Handler \in Threads /\ Handler # t
  BY HandlerAssumption DEF Cells
<1>1. /\ TypeOK' /\ IInv' /\ IsPrefixOf(atSignal, written')
      /\ IsPrefixOf(atSignal, published) => IsPrefixOf(atSignal, published')
      /\ \A u \in Threads \ {t} : pc'[u] = pc[u]
  BY <1>0, BufferStep
<1>2. pc'[Handler] = pc[Handler]
  BY <1>0, <1>1
<1>3. FlushEntered' => InterruptedOutside'
  BY <1>1, <1>2 DEF PInv, FlushEntered, InterruptedOutside
<1>4. FlushDone' => IsPrefixOf(atSignal, published')
  BY <1>1, <1>2 DEF PInv, FlushDone
<1>5. ProcessTypeOK' /\ HandlerSyncs' /\ NothingBeforeStart'
  BY <1>1, <1>2 DEF PInv, ProcessTypeOK, HandlerSyncs, NothingBeforeStart
<1> QED BY <1>1, <1>3, <1>4, <1>5 DEF PInv

\* The flush at exit goes on: it enters sync only while no other thread is
\* inside, the interrupted one included, and a sync that returns has published
\* all that was written.
LEMMA HandlerStep ==
    ASSUME PInv, Runs(Handler), Step(Handler),
           UNCHANGED <<life, signal, interrupted, silenced, silentCells, muted,
                       atSignal>>,
           refused' = (refused \/ pc[Handler] = "unwind"),
           badbit' \in BOOLEAN
    PROVE  PInv'
<1>0. Handler \in Threads /\ TypeOK /\ IInv /\ MutexHeld /\ interrupted # Handler
  BY HandlerAssumption DEF PInv, ProcessTypeOK, IInv, Runs
<1>1. /\ TypeOK' /\ IInv' /\ IsPrefixOf(atSignal, written')
      /\ IsPrefixOf(atSignal, published) => IsPrefixOf(atSignal, published')
      /\ \A u \in Threads \ {Handler} : pc'[u] = pc[u]
  BY <1>0, BufferStep
<1>2. /\ pc[Handler] \in {"sync", "publish", "clear", "synced", "unwind"}
      /\ life = "flushing"
  BY <1>0 DEF PInv, HandlerSyncs, Runs, Step, Lock, Put, SyncEmpty, Publish,
       PublishThrows, Clear, Unlock
<1>3. /\ pc[Handler] = "sync" => m_mutex = NoThread /\ pc'[Handler] = "publish"
      /\ pc[Handler] = "publish" => pc'[Handler] \in {"clear", "synced", "unwind"}
      /\ pc[Handler] = "clear" => pc'[Handler] = "synced"
      /\ pc[Handler] \in {"synced", "unwind"} => pc'[Handler] = "idle"
  BY <1>0, <1>2 DEF Step, Lock, Put, SyncEmpty, Publish, PublishThrows, Clear,
       Unlock, TypeOK
<1>4. HandlerSyncs' /\ NothingBeforeStart'
  BY <1>2, <1>3 DEF HandlerSyncs, NothingBeforeStart
<1>5. InterruptedOutside'
  <2>1. CASE pc[Handler] = "sync"
    BY <1>0, <1>1, <1>3, <2>1, ThreadsAssumption DEF MutexHeld, InterruptedOutside
  <2>2. CASE pc[Handler] # "sync"
    BY <1>0, <1>1, <1>2, <2>2 DEF PInv, FlushEntered, InterruptedOutside
  <2> QED BY <2>1, <2>2
<1>6. FlushDone' => IsPrefixOf(atSignal, published')
  <2>1. CASE pc'[Handler] = "synced"
    BY <1>0, <1>1, <2>1 DEF IInv, SyncPublishesAll
  <2>2. CASE pc[Handler] = "synced"
    BY <1>1, <1>2, <2>2 DEF PInv, FlushDone
  <2>3. CASE pc[Handler] # "synced" /\ pc'[Handler] # "synced"
    BY <1>2, <1>3, <2>3 DEF FlushDone
  <2> QED BY <2>1, <2>2, <2>3
<1>7. ProcessTypeOK'
  BY <1>1 DEF PInv, ProcessTypeOK
<1> QED BY <1>1, <1>4, <1>5, <1>6, <1>7 DEF PInv

-----------------------------------------------------------------------------
(* The other steps.                                                        *)

\* A step that moves no thread keeps what the invariant says of the buffer.
LEMMA Frame == ASSUME PInv, UNCHANGED vars
               PROVE  /\ TypeOK' /\ IInv'
                      /\ InterruptedOutside /\ UNCHANGED interrupted
                           => InterruptedOutside'
<1>1. TypeOK /\ IInv
  BY DEF PInv, IInv
<1>2. TypeOK' /\ IInv'
  BY <1>1, NextTypeOK, NextMutexHeld, NextConservation DEF IInv
<1> QED BY <1>2 DEF vars, InterruptedOutside

\* A signal arrives: nothing of the buffer changes, and the handler's context
\* has yet to flush.
LEMMA SignalStep ==
    ASSUME PInv, NEW t \in Threads, NEW sig \in {"SIGINT", "SIGSEGV"}, Exit(t, sig)
    PROVE  PInv'
<1>1. TypeOK' /\ IInv'
  BY Frame DEF Exit
<1>2. written \in Seq(Char) /\ IsPrefixOf(written, written)
  BY PrefixReflexive DEF PInv, IInv, TypeOK
<1>3. ProcessTypeOK'
  BY <1>1, <1>2 DEF Exit, vars, stream, PInv, ProcessTypeOK, Cells
<1>4. HandlerSyncs' /\ NothingBeforeStart'
  BY DEF Exit, vars, PInv, HandlerSyncs, NothingBeforeStart
<1>5. ~FlushEntered' /\ ~FlushDone'
  BY DEF Exit, FlushEntered, FlushDone
<1> QED BY <1>1, <1>2, <1>3, <1>4, <1>5 DEF Exit, vars, PInv

\* exit begins its flush: the handler's context is in front of the lock.
LEMMA DestructorStep == ASSUME PInv, StaticDestructors PROVE PInv'
<1>0. TypeOK /\ IInv /\ Handler \in Threads /\ pc[Handler] = "idle"
  BY HandlerAssumption DEF PInv, IInv, HandlerSyncs, StaticDestructors
<1>1. /\ pc' = [pc EXCEPT ![Handler] = "sync"] /\ pc'[Handler] = "sync"
      /\ UNCHANGED <<m_output, m_mutex, text, calls, published, written>>
  BY <1>0 DEF StaticDestructors, TypeOK
<1>2. TypeOK'
  BY <1>0, <1>1 DEF TypeOK, PC
<1>3. MutexHeld'
  BY <1>0, <1>1 DEF IInv, TypeOK, MutexHeld, Critical, PC
<1>4. Conservation' /\ SyncPublishesAll'
  BY <1>0, <1>1, FrameConservation DEF TypeOK
<1>5. ProcessTypeOK'
  BY <1>2 DEF PInv, ProcessTypeOK, StaticDestructors, stream
<1>6. HandlerSyncs' /\ NothingBeforeStart'
  BY <1>1 DEF StaticDestructors, HandlerSyncs, NothingBeforeStart
<1>7. ~FlushEntered' /\ ~FlushDone'
  BY <1>1 DEF StaticDestructors, FlushEntered, FlushDone
<1> QED BY <1>1, <1>2, <1>3, <1>4, <1>5, <1>6, <1>7
        DEF PInv, IInv, StaticDestructors

LEMMA PInvNext == PInv /\ [ProcessNext]_allVars => PInv'
<1> SUFFICES ASSUME PInv, [ProcessNext]_allVars PROVE PInv'
  OBVIOUS
<1>0. NoThread \notin Threads /\ written \in Seq(Char)
  BY ThreadsAssumption DEF PInv, IInv, TypeOK
<1> USE DEF stream, PInv, ProcessTypeOK, HandlerSyncs, NothingBeforeStart, FlushEntered,
            FlushDone
<1>1. CASE Construct
  BY <1>1, Frame DEF Construct, vars
<1>2. CASE SignalAtStart
  <2>1. TypeOK' /\ IInv'
    BY <1>2, Frame DEF SignalAtStart
  <2>2. InterruptedOutside'
    BY <1>0, <1>2 DEF SignalAtStart, InterruptedOutside
  <2>3. IsPrefixOf(<< >>, written) /\ IsPrefixOf(<< >>, published)
    BY EmptyPrefix DEF IInv, TypeOK
  <2>4. ProcessTypeOK'
    BY <1>2, <2>1 DEF SignalAtStart, vars
  <2>5. HandlerSyncs' /\ NothingBeforeStart'
    BY <1>2 DEF SignalAtStart, vars
  <2>6. atSignal' = << >> /\ UNCHANGED <<written, published>>
    BY <1>2 DEF SignalAtStart, vars
  <2> HIDE DEF ProcessTypeOK, HandlerSyncs, NothingBeforeStart
  <2> QED BY <2>1, <2>2, <2>3, <2>4, <2>5, <2>6
<1>3. CASE BeginSilent \/ EndSilent
  <2>1. /\ TypeOK' /\ IInv'
        /\ InterruptedOutside => InterruptedOutside'
    BY <1>3, Frame DEF BeginSilent, EndSilent
  <2>2. silentCells' \in 0..MaxSilent
    BY <1>3, MaxSilentAssumption DEF BeginSilent, EndSilent
  <2>3. ProcessTypeOK'
    BY <1>3, <2>1, <2>2 DEF BeginSilent, EndSilent, vars
  <2> QED BY <1>3, <2>1, <2>3 DEF BeginSilent, EndSilent, vars
<1>4. CASE Kill
  BY <1>4, Frame DEF Kill, vars
<1>5. CASE StaticDestructors
  BY <1>5, DestructorStep
<1>6. CASE FlushRefused
  BY <1>6, Frame DEF FlushRefused, vars
<1>7. CASE Exited
  BY <1>7, Frame DEF Exited, vars
<1>8. ASSUME NEW t \in Threads, Write(t) PROVE PInv'
  <2>1. t \in Cells /\ t # interrupted /\ UNCHANGED processVars
    BY <1>8 DEF Write, Runs
  <2>2. Call(t)
    BY <1>8 DEF Write, Call
  <2> QED BY <2>1, <2>2, CellStep DEF processVars
<1>9. ASSUME NEW t \in Threads, Flush(t) PROVE PInv'
  <2>1. t \in Cells /\ t # interrupted /\ UNCHANGED processVars
    BY <1>9 DEF Flush, Runs
  <2>2. Call(t)
    BY <1>9 DEF Flush, Call
  <2> QED BY <2>1, <2>2, CellStep DEF processVars
<1>10. ASSUME NEW t \in Threads, Continue(t) PROVE PInv'
  <2>1. /\ t # interrupted /\ Step(t) /\ badbit' \in BOOLEAN
        /\ UNCHANGED <<life, signal, interrupted, silenced, silentCells, muted,
                       atSignal>>
    BY <1>10 DEF Continue, Runs
  <2>2. CASE t = Handler
    BY <1>10, <2>1, <2>2, HandlerStep DEF Continue
  <2>3. CASE t # Handler
    BY <1>10, <2>1, <2>3, CellStep DEF Continue, Cells
  <2> QED BY <2>2, <2>3
<1>11. ASSUME NEW t \in Threads, stop_handler(t) \/ handler(t) PROVE PInv'
  BY <1>11, SignalStep DEF stop_handler, handler
<1>12. CASE UNCHANGED allVars
  BY <1>12, Frame DEF allVars, processVars, vars
<1>13. CASE FlushSilenced
  BY <1>13, Frame DEF FlushSilenced, vars
<1> QED BY <1>1, <1>2, <1>3, <1>4, <1>5, <1>6, <1>7, <1>8, <1>9, <1>10, <1>11,
           <1>12, <1>13 DEF ProcessNext, ExitStep

-----------------------------------------------------------------------------
(* The theorems.                                                           *)

LEMMA ProcessInvariance == ProcessSpec => []PInv
BY PInvInit, PInvNext, PTL DEF ProcessSpec

\* The variables of the process and of the buffer keep their types.
THEOREM ProcessTypeCorrect == ProcessSpec => []ProcessTypeOK
BY ProcessInvariance, PTL DEF PInv

\* A process ended by SIGINT or by the fault of a cell has published all that
\* was written before the signal, unless the flush at exit was skipped, its
\* publication threw, or a silent cell had replaced the buffer at that moment
\* (stop_handler, handler, sync, SilentStreamRedirectRAII).
THEOREM OutputSurvivesExit == ProcessSpec => []ExitHeard
BY ProcessInvariance, PInvImplies, PTL

\* The flush at exit cannot have reached m_output if the signal interrupted a
\* thread inside overflow, xsputn or sync, or a cell's bad bytes faulted in
\* append: that process hangs (m_mutex is not recursive).
THEOREM InterruptInsideDeadlocks == ProcessSpec => []InterruptInsideHangs
BY ProcessInvariance, PInvImplies, PTL
=============================================================================
