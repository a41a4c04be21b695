--------------------------- MODULE ExecuteService ---------------------------
(***************************************************************************)
(* The execute service as its client sees it: what the kernel may send     *)
(* between a request and the next one.  Interpreter implements it.         *)
(***************************************************************************)
EXTENDS Naturals, Sequences

VARIABLES
    phase,            \* "start", "idle", "stopped" or "crashed"; with a request:
                      \*   "busy" or "waiting", an Outcome, "published" or "done"
    silent,           \* the request asked for no output
    allow,            \* the request allows input requests
    sent              \* messages sent since the request arrived

vars == <<phase, silent, allow, sent>>

Message(type, name) == [type |-> type, name |-> name, text |-> << >>]

\* How the handling of a request ends: its code or magic succeeded, its code failed,
\* it was refused (an unknown magic, a failed command, nothing found), or an
\* inspection threw.
Outcomes == {"succeeded", "failed", "refused", "thrown"}

Init ==
    /\ phase = "start"
    /\ silent = FALSE
    /\ allow = FALSE
    /\ sent = << >>

Move(from, to) == phase \in from /\ phase' = to

Say(message) == sent' = Append(sent, message)

Same == UNCHANGED <<silent, allow>>

Start == Move({"start"}, "idle") /\ Same /\ UNCHANGED sent

Receive(s, a) ==
    /\ Move({"idle"}, "busy")
    /\ silent' = s
    /\ allow' = a
    /\ sent' = << >>

\* Any number of stream messages.
Stream ==
    /\ Len(sent') >= Len(sent)
    /\ SubSeq(sent', 1, Len(sent)) = sent
    /\ \A i \in (Len(sent) + 1)..Len(sent') : sent'[i].type = "stream"

\* They may come at any time, also from threads that cells left running.
Text ==
    /\ phase \notin {"start", "stopped", "crashed"}
    /\ Stream
    /\ Same /\ UNCHANGED phase

\* The client is asked for input only if it said that it can answer.
Ask ==
    /\ allow
    /\ Move({"busy"}, "waiting")
    /\ Say(Message("input_request", "stdin"))
    /\ Same

Answered == Move({"waiting"}, "busy") /\ Same /\ UNCHANGED sent

\* The handling ends, and may flush what it wrote.
End(outcome) == Move({"busy"}, outcome) /\ Stream /\ Same

\* The failure of code is broadcast, once, unless the request is silent ...
PublishError ==
    /\ ~ silent
    /\ Move({"failed"}, "published")
    /\ Say(Message("error", "error"))
    /\ Same

\* ... and the reply says whether the request succeeded.
ReplyOk ==
    /\ Move({"succeeded"}, "done")
    /\ Say(Message("reply", "ok"))
    /\ Same

ReplyError ==
    /\ Move({"refused", "published"} \cup IF silent THEN {"failed"} ELSE {}, "done")
    /\ Say(Message("reply", "error"))
    /\ Same

\* A request is over when it is replied to; one whose inspection threw never is.
Finish == Move({"done", "thrown"}, "idle") /\ Same /\ UNCHANGED sent

Stop == Move({"idle"}, "stopped") /\ Same /\ UNCHANGED sent

Crash == phase' = "crashed" /\ Same /\ UNCHANGED sent

Next ==
    \/ Start
    \/ \E s, a \in BOOLEAN : Receive(s, a)
    \/ Text
    \/ Ask
    \/ Answered
    \/ \E outcome \in Outcomes : End(outcome)
    \/ PublishError
    \/ ReplyOk
    \/ ReplyError
    \/ Finish
    \/ Stop
    \/ Crash

Spec == Init /\ [][Next]_vars
=============================================================================
