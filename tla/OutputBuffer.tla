---------------------------- MODULE OutputBuffer ----------------------------
(***************************************************************************)
(* xoutput_buffer (include/xeus-cpp/xbuffer.hpp): the stream buffer behind *)
(* std::cout and std::cerr.  Cells may start threads, so its three virtual *)
(* functions run concurrently; each holds m_mutex from its first statement *)
(* to its return (std::lock_guard).  sync hands the text to the callback   *)
(* and clears it in two steps, and the callback (the publisher of xeus)    *)
(* may throw between them.                                                 *)
(***************************************************************************)
EXTENDS Naturals, Sequences

CONSTANTS
    Threads,          \* the threads that write to the stream
    NoThread,         \* the mutex is free
    Char,             \* the characters they write
    Eof,              \* traits_type::eof(), which is no character
    Strings,          \* the arguments of xsputn
    MaxCalls          \* bound: calls made by all the threads together

ASSUME ThreadsAssumption == NoThread \notin Threads
ASSUME EofAssumption == Eof \notin Char
ASSUME StringsAssumption == Strings \subseteq Seq(Char)
ASSUME MaxCallsAssumption == MaxCalls \in Nat

VARIABLES
    m_output,         \* the text not published yet
    m_mutex,          \* the thread that holds the mutex, or NoThread
    pc,               \* where each thread is in the call it makes
    text,             \* the text each thread's call adds
    calls,            \* calls begun so far, up to MaxCalls
    published,        \* text accepted by m_callback, in order
    written           \* history: text added to m_output, in order

vars == <<m_output, m_mutex, pc, text, calls, published, written>>

\* "put" and "sync" are the entries of a call, before the lock; "append",
\* "publish" and "clear" are the statements under the lock; "synced",
\* "return" and "unwind" are the three ways out.
PC == {"idle", "put", "sync", "append", "publish", "clear",
       "synced", "return", "unwind"}

\* What one call can add to the buffer; sync, and overflow(eof), add nothing.
Texts == Strings \cup {<<c>> : c \in Char} \cup {<< >>}

Critical == PC \ {"idle", "put", "sync"}

Init ==
    /\ m_output = << >>
    /\ m_mutex = NoThread
    /\ pc = [t \in Threads |-> "idle"]
    /\ text = [t \in Threads |-> << >>]
    /\ calls = 0
    /\ published = << >>
    /\ written = << >>

-----------------------------------------------------------------------------
(* A thread enters one of the three functions.                             *)

Begin(t, entry, s) ==
    /\ pc[t] = "idle"
    /\ calls < MaxCalls
    /\ calls' = calls + 1
    /\ pc' = [pc EXCEPT ![t] = entry]
    /\ text' = [text EXCEPT ![t] = s]
    /\ UNCHANGED <<m_output, m_mutex, published, written>>

OverflowText_NoEofTest(c) == <<c>>

\* What overflow(c) adds: nothing for eof, the character otherwise.
OverflowText(c) == IF c = Eof THEN << >> ELSE <<c>>
Overflow(t, c) == Begin(t, "put", OverflowText(c))
Xsputn(t, s) == Begin(t, "put", s)
Sync(t) == Begin(t, "sync", << >>)

-----------------------------------------------------------------------------
(* The body of a call.                                                     *)

\* std::lock_guard<std::mutex> lock(m_mutex).
Lock_Unguarded(t) ==
    /\ pc[t] \in {"put", "sync"}
    /\ m_mutex' = t
    /\ pc' = [pc EXCEPT ![t] = IF pc[t] = "put" THEN "append" ELSE "publish"]
    /\ UNCHANGED <<m_output, text, calls, published, written>>

Lock(t) ==
    /\ pc[t] \in {"put", "sync"}
    /\ m_mutex = NoThread
    /\ m_mutex' = t
    /\ pc' = [pc EXCEPT ![t] = IF pc[t] = "put" THEN "append" ELSE "publish"]
    /\ UNCHANGED <<m_output, text, calls, published, written>>

\* m_output.push_back and m_output.append.
Put(t) ==
    /\ pc[t] = "append"
    /\ m_output' = m_output \o text[t]
    /\ written' = written \o text[t]
    /\ pc' = [pc EXCEPT ![t] = "return"]
    /\ UNCHANGED <<m_mutex, text, calls, published>>

SyncEmpty_StaysInside(t) ==
    /\ pc[t] = "publish"
    /\ m_output = << >>
    /\ pc' = [pc EXCEPT ![t] = "publish"]
    /\ UNCHANGED <<m_output, m_mutex, text, calls, published, written>>

\* sync with nothing to publish.
SyncEmpty(t) ==
    /\ pc[t] = "publish"
    /\ m_output = << >>
    /\ pc' = [pc EXCEPT ![t] = "synced"]
    /\ UNCHANGED <<m_output, m_mutex, text, calls, published, written>>

\* m_callback(m_output) returns.
Publish(t) ==
    /\ pc[t] = "publish"
    /\ m_output # << >>
    /\ published' = published \o m_output
    /\ pc' = [pc EXCEPT ![t] = "clear"]
    /\ UNCHANGED <<m_output, m_mutex, text, calls, written>>

PublishThrows_DropsText(t) ==
    /\ pc[t] = "publish"
    /\ m_output # << >>
    /\ m_output' = << >>
    /\ pc' = [pc EXCEPT ![t] = "unwind"]
    /\ UNCHANGED <<m_mutex, text, calls, published, written>>

PublishThrows_ReportsSuccess(t) ==
    /\ pc[t] = "publish"
    /\ m_output # << >>
    /\ pc' = [pc EXCEPT ![t] = "synced"]
    /\ UNCHANGED <<m_output, m_mutex, text, calls, published, written>>

\* m_callback(m_output) throws: the clear is skipped.
PublishThrows(t) ==
    /\ pc[t] = "publish"
    /\ m_output # << >>
    /\ pc' = [pc EXCEPT ![t] = "unwind"]
    /\ UNCHANGED <<m_output, m_mutex, text, calls, published, written>>

\* m_output.clear().
Clear(t) ==
    /\ pc[t] = "clear"
    /\ m_output' = << >>
    /\ pc' = [pc EXCEPT ![t] = "synced"]
    /\ UNCHANGED <<m_mutex, text, calls, published, written>>

Unlock_NotByException(t) ==
    /\ pc[t] \in {"synced", "return", "unwind"}
    /\ m_mutex' = IF pc[t] = "unwind" THEN m_mutex ELSE NoThread
    /\ pc' = [pc EXCEPT ![t] = "idle"]
    /\ UNCHANGED <<m_output, text, calls, published, written>>

\* The lock_guard is destroyed, by a return or by unwinding.
Unlock(t) ==
    /\ pc[t] \in {"synced", "return", "unwind"}
    /\ m_mutex' = NoThread
    /\ pc' = [pc EXCEPT ![t] = "idle"]
    /\ UNCHANGED <<m_output, text, calls, published, written>>

-----------------------------------------------------------------------------
Call(t) ==
    \/ \E c \in Char \cup {Eof} : Overflow(t, c)
    \/ \E s \in Strings : Xsputn(t, s)
    \/ Sync(t)

\* What a thread inside a call does next.
Step(t) ==
    \/ Lock(t)
    \/ Put(t)
    \/ SyncEmpty(t)
    \/ Publish(t)
    \/ PublishThrows(t)
    \/ Clear(t)
    \/ Unlock(t)

Next == \E t \in Threads : Call(t) \/ Step(t)

Spec == Init /\ [][Next]_vars

-----------------------------------------------------------------------------
(* Properties.                                                             *)

\* Every variable has its type.
TypeOK ==
    /\ m_output \in Seq(Char)
    /\ m_mutex \in Threads \cup {NoThread}
    /\ pc \in [Threads -> PC]
    /\ text \in [Threads -> Texts]
    /\ calls \in 0..MaxCalls
    /\ published \in Seq(Char)
    /\ written \in Seq(Char)

\* A thread is between its lock and its unlock exactly when it is the
\* holder of the mutex.
MutexHeld == \A t \in Threads : pc[t] \in Critical <=> m_mutex = t

\* The text a thread would publish if it flushed now: between the callback
\* and the clear the buffer still holds text that is already published.
Unpublished == IF \E t \in Threads : pc[t] = "clear" THEN << >> ELSE m_output

\* Nothing written is lost, doubled or reordered, whatever the threads
\* interleave and even when the callback throws: the published text followed
\* by what is still to publish is what was written (overflow, xsputn, sync).
Conservation == published \o Unpublished = written

\* A sync that returns normally leaves nothing behind: when it still holds
\* the mutex on its way out, all that any thread wrote before is published.
SyncPublishesAll ==
    \A t \in Threads : pc[t] = "synced" => published = written

Abstract == INSTANCE OutputStream WITH
    Texts <- Texts,
    pending <- Unpublished,
    delivered <- published

\* The buffer implements the stream that the cells rely on: threads, mutex
\* and the two steps of sync are invisible.
ImplementsStream == Abstract!Spec
=============================================================================
