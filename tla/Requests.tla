------------------------------ MODULE Requests -------------------------------
(***************************************************************************)
(* The requests about code that is not executed: complete_request and      *)
(* inspect_request of a frontend, and a cell that begins with a question   *)
(* mark.  They share a session with the cells: what a lookup declares      *)
(* stays declared.                                                         *)
(***************************************************************************)
EXTENDS Introspection, Completion

CONSTANTS
    Codes,            \* codes whose completion is asked for
    Inspectable,       \* codes that are inspected
    Directories,      \* what tags.d may hold
    MaxLookups        \* bound: inspections in one session

ASSUME CodesAssumption == Codes \subseteq Seq(Char)

\* A tag file is a sequence of compounds, each with a name and a sequence of members.
IsSequence(s) == s \in Seq({s[i] : i \in DOMAIN s})
IsTagFile(tags) ==
    /\ IsSequence(tags)
    /\ \A i \in DOMAIN tags : tags[i].name # << >> /\ IsSequence(tags[i].members)

ASSUME DirectoriesAssumption ==
    \A directory \in Directories :
        IsFiniteSet(directory) /\ \A conf \in directory : IsTagFile(conf.tags)

ASSUME MaxLookupsAssumption == MaxLookups \in Nat

VARIABLES
    reply,            \* the reply to the request that is being answered
    lookups           \* inspections so far, up to MaxLookups

vars == <<tagconfs, typeOf, var_count, aliases, reply, lookups>>

NoReply == [request |-> "none"]

Init ==
    /\ SessionInit
    /\ tagconfs \in Directories
    /\ reply = NoReply
    /\ lookups = 0

\* complete_request_impl.
complete_request ==
    /\ reply = NoReply
    /\ \E code \in Codes : \E cursor_pos \in 0..Len(code) :
          reply' = [request |-> "complete", code |-> code,
                    range |-> complete_request_impl(code, cursor_pos)]
    /\ UNCHANGED <<sessionVars, lookups>>

Inspect(request, code) ==
    /\ reply = NoReply
    /\ lookups < MaxLookups
    /\ lookups' = lookups + 1
    /\ \E order \in Orders :
          LET i == Inspection(code, order)
          IN  /\ Inspected(i)
              /\ reply' = [request |-> request, inspected |-> i]

\* inspect_request_impl: the word behind the cursor.
inspect_request ==
    \E code \in Inspectable : \E cursor_pos \in 0..Len(code) :
        Inspect("inspect", LastWord(SubSeq(code, 1, cursor_pos)))

\* xintrospection::apply: the whole of what follows the question mark.
apply == \E code \in Inspectable : Inspect("help", code)

\* A cell is executed.
execute_request ==
    /\ reply = NoReply
    /\ Declare
    /\ UNCHANGED <<reply, lookups>>

\* The reply goes out, and the next request is taken.
Replied ==
    /\ reply # NoReply
    /\ reply' = NoReply
    /\ UNCHANGED <<sessionVars, lookups>>

Next ==
    \/ complete_request \/ inspect_request \/ apply
    \/ execute_request \/ Replied

Spec == Init /\ [][Next]_vars

-----------------------------------------------------------------------------
(* Properties.                                                             *)

IsInspection == reply.request \in {"inspect", "help"}
Completed == reply.range
Found == reply.inspected

\* A completion replaces the word behind the cursor, all of it and nothing
\* else, provided that the cursor is at the end of that word
\* (complete_request_impl, split_line).
CompletesWord ==
    reply.request = "complete" /\ AtWordEnd(reply.code, Completed.cursor_end) =>
        Completed.cursor_start = WordStart(reply.code, Completed.cursor_end)

\* The comment in complete_request_impl: the word is the one in the back of
\* the cursor, wherever the cursor is.
WordBehindCursor ==
    reply.request = "complete" =>
        Completed.cursor_start = WordStart(reply.code, Completed.cursor_end)

\* The pages on which a configuration's tag file documents a name, or the
\* member of a class.
Documents(conf, name, dot, member) ==
    LET compounds == {conf.tags[i] : i \in DOMAIN conf.tags}
        Members(c) == {c.members[i] : i \in DOMAIN c.members}
        all == compounds \cup UNION {Members(c) : c \in compounds}
    IN  IF dot > 0
        THEN {m.page : m \in {m \in UNION {Members(c) : c \in
                  {c \in compounds : c.name = name
                                     /\ c.kind \in {"class", "struct"}}} :
                    m.name = member /\ m.kind = "function"}}
        ELSE {n.page : n \in {n \in all : n.name = name
                  /\ n.kind \in {"class", "struct", "function"}}}

\* Of these, the pages that can be shown: a node that names no page is passed over,
\* a member is not.
Shown(conf, name, dot, member) ==
    LET pages == Documents(conf, name, dot, member)
    IN  IF dot > 0 THEN pages ELSE pages \ {EmptyPage}

\* The page that an inspection shows is one on which the configuration with
\* that URL documents what was asked for, a member on a page of its own class;
\* and if nothing is shown, then in whatever order the directory is read no
\* configuration documents it, unless a node of that name has no page, which
\* hides those behind it (inspect).
PageDocumented ==
    IsInspection /\ ~Found.threw =>
        LET Documented(conf) ==
                Documents(conf, Found.name, Found.dot, Found.member)
            Shows(conf) == Shown(conf, Found.name, Found.dot, Found.member)
        IN  IF Found.result = NoPage
            THEN \A conf \in tagconfs :
                    Documented(conf) = {} \/ Shows(conf) # Documented(conf)
            ELSE \E conf \in tagconfs :
                    conf.url = Found.result[1] /\ Found.result[2] \in Shows(conf)

\* Whatever was inspected before, and whether its declaration failed or not, a
\* valid expression is looked up under the name of its own type
\* (find_type_slow).
TypeResolved ==
    IsInspection /\ Found.asked /\ Found.object \in DOMAIN typeOf =>
        Found.name = typeOf[Found.object]
=============================================================================
