------------------------------ MODULE XAssist -------------------------------
(***************************************************************************)
(* The %%xassist magic (src/xmagics/xassist.cpp): chats with a language    *)
(* model whose key, model name, URL and history are kept in text files of  *)
(* the working directory.  Several kernels may share the directory, nobody *)
(* locks a file, and a kernel may die between two file operations.         *)
(*                                                                         *)
(* One step is one operation on one file, or the request.  What an ofstream*)
(* buffers is written by its close: an entry of the history, separator     *)
(* included, reaches the file in one appending write.  Each opening of a   *)
(* file may fail (permissions, no descriptor left), and the code carries   *)
(* on in its own way after each.                                           *)
(***************************************************************************)
EXTENDS Naturals, SequencesExt

CONSTANTS
    Kernels,          \* the processes that share the working directory
    Providers,        \* "gemini", "openai", "ollama"
    Keyed,            \* those that want an API key; the others want a URL
    Settings,         \* values of a key, a model name or a URL
    None,             \* no value: an absent or empty file
    MaxChats,         \* bound: chats begun by all the kernels
    MaxSaves,         \* bound: settings saved
    MaxRefreshes,     \* bound: histories refreshed
    MaxCrashes        \* bound: kernels that die

ASSUME ProvidersAssumption == Keyed \subseteq Providers
ASSUME NoneAssumption == None \notin Settings
ASSUME BoundsAssumption ==
    {MaxChats, MaxSaves, MaxRefreshes, MaxCrashes} \subseteq Nat

VARIABLES
    setting,          \* setting[p][f]: the content of <p>_<f>.txt
    history,          \* history[p]: the content of <p>_chat_history.txt
    pc,               \* pc[k]: where the magic is in kernel k
    job,              \* job[k]: its local variables
    unseen,           \* history: the turns <<chat, role>> in front of which
                      \*   is_file_empty could not open the file
    chats, saves, refreshes, crashes   \* counters of the bounds

counters == <<chats, saves, refreshes, crashes>>
vars == <<setting, history, pc, job, unseen, counters>>

Files == {"api_key", "model", "url"}

\* A history is a sequence of turns and of separators (", ").  The content of a
\* turn is the number of the chat it belongs to, 0 for one of an earlier session,
\* or None for a JSON null.
Roles == {"user", "assistant"}
Turns == [role : Roles, chat : 0..MaxChats, content : (0..MaxChats) \cup {None}]
EarlierTurn == [role |-> "user", chat |-> 0, content |-> 0]
Separator == [role |-> "separator", chat |-> 0, content |-> None]

PC == {"idle", "truncate", "write", "refresh", "key", "url", "look", "append",
       "readback", "model", "check", "post", "response", "done"}

NoJob == [provider |-> None, file |-> None, value |-> None, chat |-> 0,
          key |-> None, url |-> None, model |-> None, role |-> "user",
          content |-> None, empty |-> FALSE, messages |-> << >>]

\* The files are as earlier sessions left them.
Init ==
    /\ setting \in [Providers -> [Files -> Settings \cup {None}]]
    /\ \A p \in Keyed : setting[p]["url"] = None
    /\ history \in [Providers -> {<< >>, <<EarlierTurn>>}]
    /\ pc = [k \in Kernels |-> "idle"]
    /\ job = [k \in Kernels |-> NoJob]
    /\ unseen = {}
    /\ chats = 0 /\ saves = 0 /\ refreshes = 0 /\ crashes = 0

Goto(k, label) == pc' = [pc EXCEPT ![k] = label]

-----------------------------------------------------------------------------
(* xassist::operator(): the command, by its flags.                         *)

\* --save-key, --save-model, and --set-url for a provider that has a URL.
Save(k, p, f, v) ==
    /\ pc[k] = "idle" /\ saves < MaxSaves
    /\ f = "url" => p \notin Keyed
    /\ saves' = saves + 1
    /\ job' = [job EXCEPT ![k] = [NoJob EXCEPT !.provider = p, !.file = f, !.value = v]]
    /\ Goto(k, "truncate")
    /\ UNCHANGED <<setting, history, unseen, chats, refreshes, crashes>>

Refresh(k, p) ==
    /\ pc[k] = "idle" /\ refreshes < MaxRefreshes
    /\ refreshes' = refreshes + 1
    /\ job' = [job EXCEPT ![k] = [NoJob EXCEPT !.provider = p]]
    /\ Goto(k, "refresh")
    /\ UNCHANGED <<setting, history, unseen, chats, saves, crashes>>

\* Anything else is a prompt, a flag that the provider does not have included.
Chat(k, p) ==
    /\ pc[k] = "idle" /\ chats < MaxChats
    /\ chats' = chats + 1
    /\ job' = [job EXCEPT ![k] = [NoJob EXCEPT !.provider = p, !.chat = chats + 1,
                                               !.content = chats + 1]]
    /\ Goto(k, IF p \in Keyed THEN "key" ELSE "url")
    /\ UNCHANGED <<setting, history, unseen, saves, refreshes, crashes>>

\* A name that is no model's.  Without a name, tokens[1] is read beyond the end of
\* the vector: the kernel dies (Crash), or some name is found there.
UnknownModel(k) ==
    /\ pc[k] = "idle"
    /\ Goto(k, "done")
    /\ UNCHANGED <<setting, history, job, unseen, counters>>

-----------------------------------------------------------------------------
(* save_api_key, save_model, save_url and refresh.                         *)

\* The ofstream empties the file ...
Truncate(k) ==
    /\ pc[k] = "truncate"
    /\ setting' = [setting EXCEPT ![job[k].provider][job[k].file] = None]
    /\ Goto(k, "write")
    /\ UNCHANGED <<history, job, unseen, counters>>

\* ... or cannot open it.
OpenFails(k) ==
    /\ pc[k] \in {"truncate", "refresh"}
    /\ Goto(k, "done")
    /\ UNCHANGED <<setting, history, job, unseen, counters>>

WriteSetting(k) ==
    /\ pc[k] = "write"
    /\ setting' = [setting EXCEPT ![job[k].provider][job[k].file] = job[k].value]
    /\ Goto(k, "done")
    /\ UNCHANGED <<history, job, unseen, counters>>

RefreshHistory(k) ==
    /\ pc[k] = "refresh"
    /\ history' = [history EXCEPT ![job[k].provider] = << >>]
    /\ Goto(k, "done")
    /\ UNCHANGED <<setting, job, unseen, counters>>

-----------------------------------------------------------------------------
(* gemini, ollama and openai: what precedes the request.                   *)

Load_Unchecked(k, field, f, found, missing) ==
    \E v \in {setting[job[k].provider][f], None} :
        /\ job' = [job EXCEPT ![k][field] = v]
        /\ Goto(k, found)
        /\ UNCHANGED <<setting, history, unseen, counters>>

\* A file that cannot be opened yields no value, as an empty one does.
Load(k, field, f, found, missing) ==
    \E v \in {setting[job[k].provider][f], None} :
        /\ job' = [job EXCEPT ![k][field] = v]
        /\ Goto(k, IF v = None THEN missing ELSE found)
        /\ UNCHANGED <<setting, history, unseen, counters>>

\* No key, no chat; a missing URL or model is noticed after the prompt is in the
\* history.
LoadKey(k) == pc[k] = "key" /\ Load(k, "key", "api_key", "look", "done")
LoadUrl(k) == pc[k] = "url" /\ Load(k, "url", "url", "look", "look")
LoadModel(k) == pc[k] = "model" /\ Load(k, "model", "model", "check", "done")

CheckUrl_Skipped(k) ==
    /\ pc[k] = "check"
    /\ Goto(k, "post")
    /\ UNCHANGED <<setting, history, job, unseen, counters>>

CheckUrl(k) ==
    /\ pc[k] = "check"
    /\ Goto(k, IF job[k].provider \notin Keyed /\ job[k].url = None
               THEN "done" ELSE "post")
    /\ UNCHANGED <<setting, history, job, unseen, counters>>

-----------------------------------------------------------------------------
(* append_and_read_back, for the prompt and then for the answer.           *)

\* is_file_empty.
IsFileEmpty_Never(file) == FALSE
IsFileEmpty(file) == file = << >>

Look(k) ==
    /\ pc[k] = "look"
    /\ job' = [job EXCEPT ![k].empty = IsFileEmpty(history[job[k].provider])]
    /\ Goto(k, "append")
    /\ UNCHANGED <<setting, history, unseen, counters>>

\* "If the file cannot be opened, it might not exist": it counts as empty.
LookFails(k) ==
    /\ pc[k] = "look"
    /\ job' = [job EXCEPT ![k].empty = TRUE]
    /\ unseen' = unseen \cup {<<job[k].chat, job[k].role>>}
    /\ Goto(k, "append")
    /\ UNCHANGED <<setting, history, counters>>

\* What is written to the file that is open for appending.
Turn_RoleAndModelSwapped(j) ==
    [role |-> j.provider, chat |-> j.chat, content |-> j.content]
Turn(j) == [role |-> j.role, chat |-> j.chat, content |-> j.content]
Entry_NoSeparator(j) == <<Turn(j)>>
Entry(j) == IF j.empty THEN <<Turn(j)>> ELSE <<Separator, Turn(j)>>

AppendEntry_Unflushed(k) ==
    /\ pc[k] = "append"
    /\ Goto(k, "readback")
    /\ UNCHANGED <<setting, history, job, unseen, counters>>

AppendEntry(k) ==
    /\ pc[k] = "append"
    /\ history' = [history EXCEPT ![job[k].provider] = @ \o Entry(job[k])]
    /\ Goto(k, "readback")
    /\ UNCHANGED <<setting, job, unseen, counters>>

\* The answer is done with after its turn; the prompt goes on to the request.
AfterHistory_AlwaysPosts(j) == "model"
AfterHistory(j) == IF j.role = "user" THEN "model" ELSE "done"

\* The file cannot be opened: the chat goes on with no messages.
AppendFails(k) ==
    /\ pc[k] = "append"
    /\ job' = [job EXCEPT ![k].messages = << >>]
    /\ Goto(k, AfterHistory(job[k]))
    /\ UNCHANGED <<setting, history, unseen, counters>>

ReadBack(k) ==
    /\ pc[k] = "readback"
    /\ job' = [job EXCEPT ![k].messages = history[job[k].provider]]
    /\ Goto(k, AfterHistory(job[k]))
    /\ UNCHANGED <<setting, history, unseen, counters>>

\* The file cannot be opened for reading: what is read is empty.
ReadBackFails(k) ==
    /\ pc[k] = "readback"
    /\ job' = [job EXCEPT ![k].messages = << >>]
    /\ Goto(k, AfterHistory(job[k]))
    /\ UNCHANGED <<setting, history, unseen, counters>>

-----------------------------------------------------------------------------
(* The request and its response.                                           *)

Post(k) ==
    /\ pc[k] = "post"
    /\ Goto(k, "response")
    /\ UNCHANGED <<setting, history, job, unseen, counters>>

\* The answer becomes a turn; a response without the expected fields yields null.
Response(k, content) ==
    /\ pc[k] = "response"
    /\ job' = [job EXCEPT ![k].role = "assistant", ![k].content = content]
    /\ Goto(k, "look")
    /\ UNCHANGED <<setting, history, unseen, counters>>

NoResponse_Retries(k) ==
    /\ pc[k] = "response"
    /\ Goto(k, "post")
    /\ UNCHANGED <<setting, history, job, unseen, counters>>

\* curl fails, the response is no JSON, or it reports an error.
NoResponse(k) ==
    /\ pc[k] = "response"
    /\ Goto(k, "done")
    /\ UNCHANGED <<setting, history, job, unseen, counters>>

\* Every exception is caught; the magic returns.
Return(k) ==
    /\ pc[k] = "done"
    /\ Goto(k, "idle")
    /\ job' = [job EXCEPT ![k] = NoJob]
    /\ UNCHANGED <<setting, history, unseen, counters>>

\* The kernel dies and is started again; the files stay.
Crash(k) ==
    /\ pc[k] # "idle" /\ crashes < MaxCrashes
    /\ crashes' = crashes + 1
    /\ Goto(k, "idle")
    /\ job' = [job EXCEPT ![k] = NoJob]
    /\ UNCHANGED <<setting, history, unseen, chats, saves, refreshes>>

-----------------------------------------------------------------------------
Command(k) ==
    \/ UnknownModel(k)
    \/ \E p \in Providers :
          \/ \E f \in Files, v \in Settings : Save(k, p, f, v)
          \/ Refresh(k, p)
          \/ Chat(k, p)

Step(k) ==
    \/ Truncate(k)
    \/ OpenFails(k)
    \/ WriteSetting(k)
    \/ RefreshHistory(k)
    \/ LoadKey(k)
    \/ LoadUrl(k)
    \/ LoadModel(k)
    \/ CheckUrl(k)
    \/ Look(k)
    \/ LookFails(k)
    \/ AppendEntry(k)
    \/ AppendFails(k)
    \/ ReadBack(k)
    \/ ReadBackFails(k)
    \/ Post(k)
    \/ Return(k)

Server(k) == NoResponse(k) \/ \E c \in {job[k].chat, None} : Response(k, c)

Next == \E k \in Kernels : Command(k) \/ Step(k) \/ Server(k) \/ Crash(k)

Spec == Init /\ [][Next]_vars

\* curl_easy_perform has no time limit: a chat ends only if the server answers
\* or the connection breaks.
FairSpec == Spec /\ \A k \in Kernels : WF_vars(Step(k)) /\ WF_vars(Server(k))

-----------------------------------------------------------------------------
(* Properties.                                                             *)

\* Every variable has its type, and every command is about a known provider.
TypeOK ==
    /\ setting \in [Providers -> [Files -> Settings \cup {None}]]
    /\ history \in [Providers -> Seq(Turns \cup {Separator})]
    /\ pc \in [Kernels -> PC]
    /\ \A k \in Kernels :
          /\ job[k].provider \in Providers \cup {None}
          /\ job[k].file \in Files \cup {None}
          /\ {job[k].value, job[k].key, job[k].url, job[k].model}
                \subseteq Settings \cup {None}
          /\ job[k].messages \in Seq(Turns \cup {Separator})
          /\ pc[k] \notin {"idle", "done"} => job[k].provider \in Providers
    /\ unseen \subseteq (0..MaxChats) \X Roles
    /\ chats \in 0..MaxChats
    /\ saves \in 0..MaxSaves
    /\ refreshes \in 0..MaxRefreshes
    /\ crashes \in 0..MaxCrashes

\* Where a history has no separator between two turns, except in front of a turn
\* for which is_file_empty could not open the file.
Missing(p) ==
    {i \in 2..Len(history[p]) :
        LET turn == history[p][i] IN
        /\ Separator \notin {turn, history[p][i - 1]}
        /\ <<turn.chat, turn.role>> \notin unseen}

\* With one kernel the history is the inside of a JSON array: turns with one
\* separator between two of them, whatever else fails, wherever the kernel dies and
\* whenever the history is refreshed, unless is_file_empty could not open a
\* history: then its turn, and no other, lacks its separator
\* (append_and_read_back, is_file_empty).
HistoryWellFormed ==
    \A p \in Providers :
        /\ Missing(p) = {}
        /\ \A i \in 1..Len(history[p]) : history[p][i] = Separator =>
              /\ i # 1 /\ i # Len(history[p])
              /\ history[p][i + 1] # Separator

\* What kernels that share a history without a lock do to it is bounded: as they
\* look and append in two steps, each but one may leave out one separator, however
\* long they chat and die in between, and a superfluous one stands only at the
\* beginning, after a refresh (append_and_read_back, refresh).
SeparatorsKept ==
    \A p \in Providers :
        /\ Cardinality(Missing(p)) < Cardinality(Kernels)
        /\ \A i \in 1..Len(history[p]) : history[p][i] = Separator =>
              /\ i = 1 => refreshes > 0
              /\ i # Len(history[p])
              /\ history[p][i + 1] # Separator

\* With one kernel there is nothing but a separator between a prompt that is in the
\* history and its answer, although earlier chats may have left prompts without an
\* answer and a history that could not be looked at is short of separators.
AnswerFollowsPrompt ==
    \A p \in Providers : \A i, j \in 1..Len(history[p]) :
        LET h == history[p] IN
        /\ Separator \notin {h[i], h[j]}
        /\ h[i].role = "user" /\ h[j].role = "assistant"
        /\ h[i].chat = h[j].chat
        => i < j /\ \A m \in (i + 1)..(j - 1) : h[m] = Separator

\* Also when kernels share the history, the messages that go to the provider contain
\* the prompt, unless the history could not be opened or is being refreshed: the
\* entry is closed before the file is read back (append_and_read_back).
PostsOwnPrompt ==
    \A k \in Kernels :
        pc[k] = "response" /\ job[k].messages # << >> /\ refreshes = 0 =>
            \E i \in 1..Len(job[k].messages) :
                LET turn == job[k].messages[i] IN
                turn # Separator /\ turn.role = "user" /\ turn.chat = job[k].chat

\* No request is made without all that the provider wants, although a save that
\* is under way, or died, leaves an empty file.
PostsConfigured ==
    \A k \in Kernels : pc[k] \in {"post", "response"} =>
        /\ job[k].model # None
        /\ IF job[k].provider \in Keyed THEN job[k].key # None ELSE job[k].url # None

\* Every command returns, if the server answers or the connection breaks.
CommandsEnd == \A k \in Kernels : pc[k] # "idle" ~> pc[k] = "idle"

\* "Reset model and clear chat history" (docs/source/magics.rst, --refresh): once
\* a history is cleared, the model is reset as well.  It is not.
RefreshResetsModel ==
    [][\A k \in Kernels : RefreshHistory(k) /\ history' # history =>
          setting'[job[k].provider]["model"] = None]_vars
=============================================================================
