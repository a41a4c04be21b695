---------------------------- MODULE XAssist_proofs ----------------------------
(***************************************************************************)
(* The xassist magic for any number of kernels, providers, settings, chats *)
(* and failures: its types, what a request has, and what kernels that race *)
(* do to a history; for one kernel, that its histories stay well formed    *)
(* and answers follow prompts; and, without refreshes, that a request has  *)
(* its own prompt.                                                         *)
(***************************************************************************)
EXTENDS XAssist, FiniteSetTheorems, TLAPS

-----------------------------------------------------------------------------
(* The invariant: TypeOK says nothing of which fields a job has, and a     *)
(* step that changes one of them needs to know.                            *)

Value == Settings \cup {None}
Elements == Turns \cup {Separator}

Jobs ==
    [provider : Providers \cup {None}, file : Files \cup {None}, value : Value,
     chat : 0..MaxChats, key : Value, url : Value, model : Value, role : Roles,
     content : (0..MaxChats) \cup {None}, empty : BOOLEAN, messages : Seq(Elements)]

FilesOK ==
    /\ setting \in [Providers -> [Files -> Value]]
    /\ history \in [Providers -> Seq(Elements)]

JobsOK ==
    /\ pc \in [Kernels -> PC]
    /\ job \in [Kernels -> Jobs]
    /\ \A k \in Kernels :
          /\ pc[k] \notin {"idle", "done"} => job[k].provider \in Providers
          /\ pc[k] \in {"truncate", "write"} => job[k].file \in Files

CountersOK ==
    /\ chats \in 0..MaxChats
    /\ saves \in 0..MaxSaves
    /\ refreshes \in 0..MaxRefreshes
    /\ crashes \in 0..MaxCrashes

UnseenOK == unseen \subseteq (0..MaxChats) \X Roles

IInv == FilesOK /\ JobsOK /\ CountersOK /\ UnseenOK

LEMMA NoJobType == NoJob \in Jobs
<1>1. 0 \in 0..MaxChats
  BY BoundsAssumption
<1>2. << >> \in Seq(Elements)
  OBVIOUS
<1> QED
  BY <1>1, <1>2 DEF NoJob, Jobs, Value, Roles

LEMMA InvType == IInv => TypeOK
<1> SUFFICES ASSUME IInv PROVE TypeOK
  OBVIOUS
<1>1. ASSUME NEW k \in Kernels
      PROVE  /\ job[k].provider \in Providers \cup {None}
             /\ job[k].file \in Files \cup {None}
             /\ {job[k].value, job[k].key, job[k].url, job[k].model} \subseteq Value
             /\ job[k].messages \in Seq(Elements)
             /\ pc[k] \notin {"idle", "done"} => job[k].provider \in Providers
  <2>1. job[k] \in Jobs
    BY DEF IInv, JobsOK
  <2> QED
    BY <2>1 DEF IInv, JobsOK, Jobs
<1> QED
  BY <1>1 DEF IInv, FilesOK, JobsOK, CountersOK, UnseenOK, TypeOK, Value, Elements

LEMMA InitIInv == Init => IInv
<1> SUFFICES ASSUME Init PROVE IInv
  OBVIOUS
<1>1. FilesOK
  <2>1. EarlierTurn \in Turns
    BY BoundsAssumption DEF EarlierTurn, Turns, Roles
  <2>2. {<< >>, <<EarlierTurn>>} \subseteq Seq(Elements)
    BY <2>1 DEF Elements
  <2> QED
    BY <2>2 DEF Init, FilesOK, Value
<1>2. JobsOK
  BY NoJobType DEF Init, JobsOK, PC
<1>3. CountersOK
  BY BoundsAssumption DEF Init, CountersOK
<1> QED
  BY <1>1, <1>2, <1>3 DEF IInv, UnseenOK, Init

-----------------------------------------------------------------------------
(* A step changes the job and the place of one kernel.                     *)

LEMMA JobsStep ==
    ASSUME JobsOK, NEW k \in Kernels, NEW j \in Jobs, NEW label \in PC,
           job' = [job EXCEPT ![k] = j], Goto(k, label),
           label \notin {"idle", "done"} => j.provider \in Providers,
           label \in {"truncate", "write"} => j.file \in Files
    PROVE  JobsOK'
BY DEF JobsOK, Goto

\* A step of kernel k that leaves its job alone.
LEMMA PcStep ==
    ASSUME JobsOK, NEW k \in Kernels, NEW label \in PC,
           UNCHANGED job, Goto(k, label), pc[k] \notin {"idle", "done"},
           label = "write" => pc[k] = "truncate", label # "truncate"
    PROVE  JobsOK'
BY DEF JobsOK, Goto

\* What a job is while the magic is at work.
LEMMA JobOf ==
    ASSUME JobsOK, NEW k \in Kernels
    PROVE  /\ job[k] \in Jobs
           /\ pc[k] \notin {"idle", "done"} => job[k].provider \in Providers
           /\ pc[k] \in {"truncate", "write"} => job[k].file \in Files
BY DEF JobsOK

\* What is appended to a history are turns and separators.
LEMMA EntryType ==
    ASSUME NEW j \in Jobs
    PROVE  Turn(j) \in Turns /\ Entry(j) \in Seq(Elements)
<1>1. Turn(j) \in Turns
  BY DEF Turn, Turns, Jobs
<1>2. Turn(j) \in Elements /\ Separator \in Elements
  BY <1>1 DEF Elements
<1> QED
  BY <1>1, <1>2 DEF Entry

LEMMA CommandIInv ==
    ASSUME IInv, NEW k \in Kernels, Command(k)
    PROVE  IInv'
<1>0. CASE UnknownModel(k)
  <2>1. JobsOK'
    BY <1>0 DEF UnknownModel, Goto, IInv, JobsOK, PC
  <2> QED
    BY <1>0, <2>1 DEF UnknownModel, IInv, FilesOK, CountersOK, UnseenOK, counters
<1>1. ASSUME ~ UnknownModel(k)
      PROVE  \E p \in Providers : \/ \E f \in Files, v \in Settings : Save(k, p, f, v)
                                  \/ Refresh(k, p)
                                  \/ Chat(k, p)
  BY <1>1 DEF Command
<1>2. ASSUME NEW p \in Providers, NEW f \in Files, NEW v \in Settings, Save(k, p, f, v)
      PROVE  IInv'
  <2>1. [NoJob EXCEPT !.provider = p, !.file = f, !.value = v] \in Jobs
    BY NoJobType DEF Jobs, NoJob, Value
  <2>2. JobsOK'
    BY <1>2, <2>1, JobsStep DEF Save, IInv, PC, NoJob
  <2> QED
    BY <1>2, <2>2, BoundsAssumption DEF Save, IInv, FilesOK, CountersOK, UnseenOK
<1>3. ASSUME NEW p \in Providers, Refresh(k, p)
      PROVE  IInv'
  <2>1. [NoJob EXCEPT !.provider = p] \in Jobs
    BY NoJobType DEF Jobs, NoJob
  <2>2. JobsOK'
    BY <1>3, <2>1, JobsStep DEF Refresh, IInv, PC, NoJob
  <2> QED
    BY <1>3, <2>2, BoundsAssumption DEF Refresh, IInv, FilesOK, CountersOK, UnseenOK
<1>4. ASSUME NEW p \in Providers, Chat(k, p)
      PROVE  IInv'
  <2>1. chats + 1 \in 0..MaxChats
    BY <1>4, BoundsAssumption DEF Chat, IInv, CountersOK
  <2>2. [NoJob EXCEPT !.provider = p, !.chat = chats + 1, !.content = chats + 1] \in Jobs
    BY <2>1, NoJobType DEF Jobs, NoJob
  <2>3. JobsOK'
    BY <1>4, <2>2, JobsStep DEF Chat, IInv, PC, NoJob
  <2> QED
    BY <1>4, <2>1, <2>3 DEF Chat, IInv, FilesOK, CountersOK, UnseenOK
<1> QED
  BY <1>0, <1>1, <1>2, <1>3, <1>4

\* The steps that touch neither a file nor a job.
LEMMA QuietIInv ==
    ASSUME IInv, NEW k \in Kernels,
           \/ OpenFails(k) \/ CheckUrl(k) \/ Post(k) \/ NoResponse(k)
    PROVE  IInv'
<1>1. JobsOK'
  BY PcStep DEF IInv, OpenFails, CheckUrl, Post, NoResponse, Goto, PC
<1>2. UNCHANGED <<setting, history, unseen, counters>>
  BY DEF OpenFails, CheckUrl, Post, NoResponse
<1> QED
  BY <1>1, <1>2 DEF IInv, FilesOK, CountersOK, UnseenOK, counters

LEMMA FileIInv ==
    ASSUME IInv, NEW k \in Kernels,
           \/ Truncate(k) \/ WriteSetting(k) \/ RefreshHistory(k) \/ AppendEntry(k)
    PROVE  IInv'
<1>1. /\ job[k] \in Jobs /\ job[k].provider \in Providers
      /\ pc[k] \in {"truncate", "write"} => job[k].file \in Files
      /\ job[k].value \in Value
  BY JobOf DEF IInv, Truncate, WriteSetting, RefreshHistory, AppendEntry, Jobs
<1>2. JobsOK'
  BY PcStep DEF IInv, Truncate, WriteSetting, RefreshHistory, AppendEntry, Goto, PC
<1>3. CountersOK' /\ UnseenOK'
  BY DEF IInv, CountersOK, UnseenOK, Truncate, WriteSetting, RefreshHistory, AppendEntry,
         counters
<1>4. FilesOK'
  <2>1. CASE Truncate(k)
    BY <1>1, <2>1 DEF Truncate, IInv, FilesOK, Value
  <2>2. CASE WriteSetting(k)
    BY <1>1, <2>2 DEF WriteSetting, IInv, FilesOK
  <2>3. CASE RefreshHistory(k)
    BY <1>1, <2>3 DEF RefreshHistory, IInv, FilesOK
  <2>4. CASE AppendEntry(k)
    <3>1. history[job[k].provider] \o Entry(job[k]) \in Seq(Elements)
      BY <1>1, EntryType DEF IInv, FilesOK
    <3> QED
      BY <1>1, <2>4, <3>1 DEF AppendEntry, IInv, FilesOK
  <2> QED
    BY <2>1, <2>2, <2>3, <2>4
<1> QED
  BY <1>2, <1>3, <1>4 DEF IInv

\* The steps that read a file, receive an answer or leave the magic.
LEMMA JobIInv ==
    ASSUME IInv, NEW k \in Kernels,
           \/ LoadKey(k) \/ LoadUrl(k) \/ LoadModel(k) \/ Look(k) \/ LookFails(k)
           \/ AppendFails(k) \/ ReadBack(k) \/ ReadBackFails(k) \/ Return(k) \/ Crash(k)
           \/ \E c \in {job[k].chat, None} : Response(k, c)
    PROVE  IInv'
<1> DEFINE p == job[k].provider
<1>1. job[k] \in Jobs /\ (pc[k] \notin {"idle", "done"} => p \in Providers)
  BY JobOf DEF IInv
<1>2. p \in Providers =>
          /\ \A f \in Files : setting[p][f] \in Value
          /\ history[p] \in Seq(Elements)
  BY DEF IInv, FilesOK
<1>3. JobsOK'
  <2>1. CASE LoadKey(k)
    <3>1. PICK v \in {setting[p]["api_key"], None} :
              /\ job' = [job EXCEPT ![k]["key"] = v]
              /\ Goto(k, IF v = None THEN "done" ELSE "look")
      BY <2>1 DEF LoadKey, Load
    <3>2. [job[k] EXCEPT !["key"] = v] \in Jobs
      BY <1>1, <1>2, <2>1 DEF LoadKey, Jobs, Files, Value
    <3> QED
      BY <1>1, <2>1, <3>1, <3>2, JobsStep DEF LoadKey, Goto, IInv, PC, Jobs
  <2>2. CASE LoadUrl(k)
    <3>1. PICK v \in {setting[p]["url"], None} :
              /\ job' = [job EXCEPT ![k]["url"] = v]
              /\ Goto(k, IF v = None THEN "look" ELSE "look")
      BY <2>2 DEF LoadUrl, Load
    <3>2. [job[k] EXCEPT !["url"] = v] \in Jobs
      BY <1>1, <1>2, <2>2 DEF LoadUrl, Jobs, Files, Value
    <3> QED
      BY <1>1, <2>2, <3>1, <3>2, JobsStep DEF LoadUrl, Goto, IInv, PC, Jobs
  <2>3. CASE LoadModel(k)
    <3>1. PICK v \in {setting[p]["model"], None} :
              /\ job' = [job EXCEPT ![k]["model"] = v]
              /\ Goto(k, IF v = None THEN "done" ELSE "check")
      BY <2>3 DEF LoadModel, Load
    <3>2. [job[k] EXCEPT !["model"] = v] \in Jobs
      BY <1>1, <1>2, <2>3 DEF LoadModel, Jobs, Files, Value
    <3> QED
      BY <1>1, <2>3, <3>1, <3>2, JobsStep DEF LoadModel, Goto, IInv, PC, Jobs
  <2>4. CASE Look(k)
    <3>1. [job[k] EXCEPT !.empty = IsFileEmpty(history[p])] \in Jobs
      BY <1>1 DEF Jobs, IsFileEmpty
    <3> QED
      BY <1>1, <2>4, <3>1, JobsStep DEF Look, Goto, IInv, PC, Jobs
  <2>9. CASE LookFails(k)
    <3>1. [job[k] EXCEPT !.empty = TRUE] \in Jobs
      BY <1>1 DEF Jobs
    <3> QED
      BY <1>1, <2>9, <3>1, JobsStep DEF LookFails, Goto, IInv, PC, Jobs
  <2>5. CASE AppendFails(k) \/ ReadBackFails(k)
    <3>0. << >> \in Seq(Elements)
      OBVIOUS
    <3>1. [job[k] EXCEPT !.messages = << >>] \in Jobs
      BY <1>1, <3>0 DEF Jobs
    <3> QED
      BY <1>1, <2>5, <3>1, JobsStep
         DEF AppendFails, ReadBackFails, AfterHistory, Goto, IInv, PC, Jobs
  <2>6. CASE ReadBack(k)
    <3>1. [job[k] EXCEPT !.messages = history[p]] \in Jobs
      BY <1>1, <1>2, <2>6 DEF ReadBack, Jobs
    <3> QED
      BY <1>1, <2>6, <3>1, JobsStep DEF ReadBack, AfterHistory, Goto, IInv, PC, Jobs
  <2>7. CASE \E c \in {job[k].chat, None} : Response(k, c)
    <3>1. PICK c \in {job[k].chat, None} : Response(k, c)
      BY <2>7
    <3>2. [job[k] EXCEPT !.role = "assistant", !.content = c] \in Jobs
      BY <1>1 DEF Jobs, Roles
    <3>3. job' = [job EXCEPT ![k] = [job[k] EXCEPT !.role = "assistant", !.content = c]]
      BY <1>1, <3>1 DEF Response, IInv, JobsOK
    <3>4. [job[k] EXCEPT !.role = "assistant", !.content = c].provider = p
      BY <1>1 DEF Jobs
    <3>5. Goto(k, "look") /\ p \in Providers /\ "look" \in PC
      BY <1>1, <3>1 DEF Response, PC
    <3> QED
      BY <3>2, <3>3, <3>4, <3>5, JobsStep DEF IInv
  <2>8. CASE Return(k) \/ Crash(k)
    BY <2>8, NoJobType, JobsStep DEF Return, Crash, Goto, IInv, PC
  <2> QED
    BY <2>1, <2>2, <2>3, <2>4, <2>5, <2>6, <2>7, <2>8, <2>9
<1>4. UNCHANGED <<setting, history>>
  BY DEF LoadKey, LoadUrl, LoadModel, Load, Look, LookFails, AppendFails, ReadBack,
         ReadBackFails, Return, Crash, Response
<1>5. CountersOK'
  BY BoundsAssumption
     DEF IInv, CountersOK, counters, LoadKey, LoadUrl, LoadModel, Load, Look, LookFails,
         AppendFails, ReadBack, ReadBackFails, Return, Crash, Response
<1>6. UnseenOK'
  <2>1. CASE LookFails(k)
    <3>1. <<job[k].chat, job[k].role>> \in (0..MaxChats) \X Roles
      BY <1>1 DEF Jobs
    <3> QED
      BY <2>1, <3>1 DEF LookFails, IInv, UnseenOK
  <2>2. CASE ~ LookFails(k)
    BY <2>2 DEF LoadKey, LoadUrl, LoadModel, Load, Look, AppendFails, ReadBack,
                ReadBackFails, Return, Crash, Response, IInv, UnseenOK
  <2> QED
    BY <2>1, <2>2
<1> QED
  BY <1>3, <1>4, <1>5, <1>6 DEF IInv, FilesOK

LEMMA NextIInv == IInv /\ [Next]_vars => IInv'
<1> SUFFICES ASSUME IInv, [Next]_vars PROVE IInv'
  OBVIOUS
<1>1. CASE Next
  <2>1. PICK k \in Kernels : Command(k) \/ Step(k) \/ Server(k) \/ Crash(k)
    BY <1>1 DEF Next
  <2> QED
    BY <2>1, CommandIInv, QuietIInv, FileIInv, JobIInv DEF Step, Server
<1>2. CASE UNCHANGED vars
  BY <1>2 DEF vars, counters, IInv, FilesOK, JobsOK, CountersOK, UnseenOK
<1> QED
  BY <1>1, <1>2

LEMMA Invariance == Spec => []IInv
BY InitIInv, NextIInv, PTL DEF Spec

\* Every variable has its type, for any kernels, providers, settings and bounds.
THEOREM TypeCorrect == Spec => []TypeOK
BY Invariance, InvType, PTL

-----------------------------------------------------------------------------
(* What a request has.                                                     *)

\* What has been loaded by the time a kernel gets to a place stays loaded: a job changes
\* its settings only when they are read, and the checks send it to "done".
Loaded(j, place) ==
    /\ place = "url" => j.provider \notin Keyed
    /\ place \in {"check", "post", "response"} => j.model # None
    /\ place \in {"look", "append", "readback", "model", "check", "post", "response"}
          => (j.provider \in Keyed => j.key # None)
    /\ place \in {"post", "response"} => (j.provider \notin Keyed => j.url # None)

AllLoaded == \A k \in Kernels : Loaded(job[k], pc[k])

\* A step of one kernel that keeps its job loaded keeps all of them loaded.
LEMMA LoadedStep ==
    ASSUME JobsOK, AllLoaded, NEW k \in Kernels, NEW label,
           Goto(k, label),
           \A i \in Kernels \ {k} : job'[i] = job[i],
           Loaded(job'[k], label)
    PROVE  AllLoaded'
<1> SUFFICES ASSUME NEW i \in Kernels PROVE Loaded(job'[i], pc'[i])
  BY DEF AllLoaded, Loaded
<1>1. pc'[i] = IF i = k THEN label ELSE pc[i]
  BY DEF Goto, JobsOK
<1>2. Loaded(job[i], pc[i])
  BY DEF AllLoaded
<1>3. CASE i = k
  BY <1>1, <1>3
<1>4. CASE i # k
  BY <1>1, <1>2, <1>4
<1> QED
  BY <1>3, <1>4

LEMMA StepLoaded ==
    ASSUME IInv, AllLoaded, NEW k \in Kernels,
           Command(k) \/ Step(k) \/ Server(k) \/ Crash(k)
    PROVE  AllLoaded'
<1>1. /\ job \in [Kernels -> Jobs] /\ job[k] \in Jobs /\ JobsOK
      /\ Loaded(job[k], pc[k])
  BY DEF IInv, JobsOK, AllLoaded
<1>2. ASSUME NEW p \in Providers,
             \/ \E f \in Files, v \in Settings : Save(k, p, f, v)
             \/ Refresh(k, p)
             \/ Chat(k, p)
      PROVE  AllLoaded'
  <2>1. CASE Chat(k, p)
    <3>1. job'[k].provider = p
      BY <1>1, <2>1 DEF Chat, NoJob
    <3>2. Loaded(job'[k], IF p \in Keyed THEN "key" ELSE "url")
      BY <3>1 DEF Loaded
    <3> QED
      BY <1>1, <2>1, <3>2, LoadedStep DEF Chat
  <2> QED
    BY <1>1, <1>2, <2>1, LoadedStep DEF Save, Refresh, Loaded
<1>3. CASE Truncate(k) \/ OpenFails(k) \/ WriteSetting(k) \/ RefreshHistory(k)
  BY <1>1, <1>3, LoadedStep DEF Truncate, OpenFails, WriteSetting, RefreshHistory, Loaded
<1>4. CASE LoadKey(k)
  <2>1. PICK v : /\ job' = [job EXCEPT ![k]["key"] = v]
                 /\ Goto(k, IF v = None THEN "done" ELSE "look")
    BY <1>4 DEF LoadKey, Load
  <2>2. v # None => job'[k].key # None
    BY <1>1, <2>1 DEF Jobs
  <2>3. Loaded(job'[k], IF v = None THEN "done" ELSE "look")
    BY <2>2 DEF Loaded
  <2> QED
    BY <1>1, <2>1, <2>3, LoadedStep
<1>5. CASE LoadUrl(k)
  <2>1. PICK v : /\ job' = [job EXCEPT ![k]["url"] = v]
                 /\ Goto(k, "look")
    BY <1>5 DEF LoadUrl, Load
  <2>2. job'[k].provider \notin Keyed
    BY <1>1, <1>5, <2>1 DEF LoadUrl, Loaded, Jobs
  <2>3. Loaded(job'[k], "look")
    BY <2>2 DEF Loaded
  <2> QED
    BY <1>1, <2>1, <2>3, LoadedStep
<1>6. CASE LoadModel(k)
  <2>1. PICK v : /\ job' = [job EXCEPT ![k]["model"] = v]
                 /\ Goto(k, IF v = None THEN "done" ELSE "check")
    BY <1>6 DEF LoadModel, Load
  <2>2. /\ v # None => job'[k].model # None
        /\ job'[k].provider = job[k].provider /\ job'[k].key = job[k].key
    BY <1>1, <2>1 DEF Jobs
  <2>3. Loaded(job'[k], IF v = None THEN "done" ELSE "check")
    BY <1>1, <1>6, <2>2 DEF LoadModel, Loaded
  <2> QED
    BY <1>1, <2>1, <2>3, LoadedStep
<1>7. CASE CheckUrl(k)
  BY <1>1, <1>7, LoadedStep DEF CheckUrl, Loaded
<1>8. CASE Look(k) \/ LookFails(k)
  <2>1. Loaded(job'[k], "append")
    BY <1>1, <1>8 DEF Look, LookFails, Loaded, Jobs
  <2> QED
    BY <1>1, <1>8, <2>1, LoadedStep DEF Look, LookFails
<1>9. CASE AppendEntry(k)
  BY <1>1, <1>9, LoadedStep DEF AppendEntry, Loaded
<1>10. CASE AppendFails(k)
  <2>1. Loaded(job'[k], AfterHistory(job[k]))
    BY <1>1, <1>10 DEF AppendFails, AfterHistory, Loaded, Jobs
  <2> QED
    BY <1>1, <1>10, <2>1, LoadedStep DEF AppendFails
<1>11. CASE ReadBack(k) \/ ReadBackFails(k)
  <2>1. Loaded(job'[k], AfterHistory(job[k]))
    BY <1>1, <1>11 DEF ReadBack, ReadBackFails, AfterHistory, Loaded, Jobs
  <2> QED
    BY <1>1, <1>11, <2>1, LoadedStep DEF ReadBack, ReadBackFails
<1>12. CASE Post(k)
  BY <1>1, <1>12, LoadedStep DEF Post, Loaded
<1>13. CASE Return(k) \/ Crash(k)
  BY <1>1, <1>13, LoadedStep DEF Return, Crash, Loaded
<1>14. CASE NoResponse(k)
  BY <1>1, <1>14, LoadedStep DEF NoResponse, Loaded
<1>15. CASE \E c \in {job[k].chat, None} : Response(k, c)
  <2>1. PICK c \in {job[k].chat, None} : Response(k, c)
    BY <1>15
  <2>2. /\ job'[k].provider = job[k].provider /\ job'[k].key = job[k].key
        /\ \A i \in Kernels \ {k} : job'[i] = job[i]
    BY <1>1, <2>1 DEF Response, Jobs
  <2>3. Loaded(job'[k], "look")
    BY <1>1, <2>1, <2>2 DEF Response, Loaded
  <2> QED
    BY <1>1, <2>1, <2>2, <2>3, LoadedStep DEF Response
<1>16. CASE Command(k)
  <2>1. CASE UnknownModel(k)
    BY <1>1, <2>1, LoadedStep DEF UnknownModel, Loaded
  <2> QED
    BY <1>2, <1>16, <2>1 DEF Command
<1> QED
  BY <1>3, <1>4, <1>5, <1>6, <1>7, <1>8, <1>9, <1>10, <1>11, <1>12, <1>13, <1>14, <1>15,
     <1>16 DEF Step, Server

\* No request is made without the model, the key or the URL that the provider wants,
\* whatever saves of these are under way, cut off or failed in other kernels (the
\* checks of load_api_key, load_url and load_model).
THEOREM RequestsConfigured == Spec => []PostsConfigured
<1>1. Init => AllLoaded
  BY DEF Init, AllLoaded, Loaded
<1>2. IInv /\ AllLoaded /\ [Next]_vars => AllLoaded'
  <2> SUFFICES ASSUME IInv, AllLoaded, [Next]_vars PROVE AllLoaded'
    OBVIOUS
  <2>1. CASE Next
    BY <2>1, StepLoaded DEF Next
  <2>2. CASE UNCHANGED vars
    BY <2>2 DEF vars, AllLoaded, Loaded
  <2> QED
    BY <2>1, <2>2
<1>3. AllLoaded => PostsConfigured
  BY DEF AllLoaded, Loaded, PostsConfigured
<1> QED
  BY <1>1, <1>2, <1>3, Invariance, PTL DEF Spec

-----------------------------------------------------------------------------
(* What a step does to the files.                                          *)

\* Which steps change a file, and of which provider.
LEMMA StepFiles ==
    ASSUME IInv, NEW k \in Kernels,
           Command(k) \/ Step(k) \/ Server(k) \/ Crash(k)
    PROVE  \/ UNCHANGED <<setting, history>>
           \/ Truncate(k) \/ WriteSetting(k) \/ RefreshHistory(k) \/ AppendEntry(k)
BY DEF Command, Step, Server, Save, Refresh, Chat, OpenFails, LoadKey, LoadUrl, LoadModel,
       Load, CheckUrl, Look, LookFails, AppendFails, ReadBack, ReadBackFails, Post, Return,
       Response, NoResponse, UnknownModel, Crash

-----------------------------------------------------------------------------
(* What an entry adds to a history.                                        *)

\* The turns after an entry has been appended: those of before, a separator if the file
\* was found not to be empty, and the new turn.
LEMMA EntryTurns ==
    ASSUME NEW h \in Seq(Elements), NEW j \in Jobs
    PROVE  LET g == h \o Entry(j)
               n == Len(h)
           IN  /\ n \in Nat
               /\ Len(g) = IF j.empty THEN n + 1 ELSE n + 2
               /\ g[Len(g)] = Turn(j)
               /\ ~ j.empty => g[n + 1] = Separator
               /\ \A i \in 1..n : g[i] = h[i]
<1> DEFINE g == h \o Entry(j)
<1>1. Turn(j) \in Elements /\ Separator \in Elements
  BY EntryType DEF Elements
<1>2. CASE j.empty
  <2>1. g = h \o <<Turn(j)>>
    BY <1>2 DEF Entry
  <2> QED
    BY <1>1, <1>2, <2>1
<1>3. CASE ~ j.empty
  <2>1. g = h \o <<Separator, Turn(j)>>
    BY <1>3 DEF Entry
  <2> QED
    BY <1>1, <1>3, <2>1
<1> QED
  BY <1>2, <1>3

LEMMA TurnForm ==
    ASSUME NEW j \in Jobs
    PROVE  /\ Turn(j) # Separator /\ Turn(j).role = j.role /\ Turn(j).chat = j.chat
           /\ j.role \in Roles /\ Separator.role \notin Roles
BY DEF Turn, Separator, Jobs, Roles

-----------------------------------------------------------------------------
(* One kernel.                                                             *)

OneKernel == \A k, l \in Kernels : k = l

\* Turns with one separator between two of them, but for the turns in U, which have none
\* in front.
WellFormed(h, U) ==
    /\ \A i \in 2..Len(h) :
          Separator \in {h[i], h[i - 1]} \/ <<h[i].chat, h[i].role>> \in U
    /\ \A i \in 1..Len(h) : h[i] = Separator =>
          /\ i # 1 /\ i # Len(h)
          /\ h[i + 1] # Separator

AllFormed == \A p \in Providers : WellFormed(history[p], unseen)

\* What was seen of the file still holds when the entry is written, since nobody else
\* can change it in between; or nothing was seen.
Fresh(j, h, U) ==
    /\ j.empty => h = << >> \/ <<j.chat, j.role>> \in U
    /\ ~ j.empty => h # << >>

LookIsFresh ==
    \A k \in Kernels :
        pc[k] = "append" => Fresh(job[k], history[job[k].provider], unseen)

LEMMA MoreUnseen ==
    ASSUME NEW h, NEW U, NEW W, U \subseteq W
    PROVE  /\ WellFormed(h, U) => WellFormed(h, W)
           /\ \A j : Fresh(j, h, U) => Fresh(j, h, W)
BY DEF WellFormed, Fresh

\* An entry with the separator that the state of the history calls for keeps it formed.
LEMMA EntryKeepsForm ==
    ASSUME NEW h \in Seq(Elements), NEW U, WellFormed(h, U),
           NEW j \in Jobs, Fresh(j, h, U)
    PROVE  WellFormed(h \o Entry(j), U)
<1> DEFINE g == h \o Entry(j)
           n == Len(h)
           t == Turn(j)
<1>1. /\ n \in Nat
      /\ Len(g) = IF j.empty THEN n + 1 ELSE n + 2
      /\ g[Len(g)] = t
      /\ ~ j.empty => g[n + 1] = Separator
      /\ \A i \in 1..n : g[i] = h[i]
  BY EntryTurns
<1>2. t # Separator /\ t.chat = j.chat /\ t.role = j.role
  BY TurnForm
<1>3. n > 0 => h[n] # Separator
  BY <1>1 DEF WellFormed
<1>4. ~ j.empty => n > 0
  BY <1>1 DEF Fresh
<1>5. j.empty => n = 0 \/ <<j.chat, j.role>> \in U
  BY DEF Fresh
<1>6. /\ \A i \in 2..n : Separator \in {h[i], h[i - 1]} \/ <<h[i].chat, h[i].role>> \in U
      /\ \A i \in 1..n : h[i] = Separator => i # 1 /\ i # n /\ h[i + 1] # Separator
  BY DEF WellFormed
<1> HIDE DEF g, n, t
<1>7. ASSUME NEW i \in 2..Len(g)
      PROVE  Separator \in {g[i], g[i - 1]} \/ <<g[i].chat, g[i].role>> \in U
  <2>1. CASE i <= n
    BY <1>1, <1>6, <1>7, <2>1
  <2>2. CASE i = n + 1
    BY <1>1, <1>2, <1>5, <1>7, <2>2
  <2>3. CASE i = n + 2
    BY <1>1, <1>7, <2>3
  <2> QED
    BY <1>1, <1>7, <2>1, <2>2, <2>3
<1>8. ASSUME NEW i \in 1..Len(g), g[i] = Separator
      PROVE  i # 1 /\ i # Len(g) /\ g[i + 1] # Separator
  <2>1. CASE i <= n
    BY <1>1, <1>3, <1>6, <1>8, <2>1
  <2>2. CASE i = n + 1
    BY <1>1, <1>2, <1>4, <1>8, <2>2
  <2>3. CASE i = n + 2
    BY <1>1, <1>2, <1>8, <2>3
  <2> QED
    BY <1>1, <1>8, <2>1, <2>2, <2>3
<1>9. WellFormed(g, U)
  BY <1>7, <1>8 DEF WellFormed
<1> QED
  BY <1>9 DEF g

\* Which steps take a kernel in front of an append, and which look is not one that saw.
LEMMA StepLooks ==
    ASSUME IInv, NEW k \in Kernels, Command(k) \/ Step(k) \/ Server(k) \/ Crash(k)
    PROVE  /\ unseen \subseteq unseen'
           /\ ~ LookFails(k) => unseen' = unseen
           /\ pc'[k] = "append" => Look(k) \/ LookFails(k)
           /\ \A l \in Kernels \ {k} : pc'[l] = pc[l] /\ job'[l] = job[l]
<1>1. job \in [Kernels -> Jobs] /\ pc \in [Kernels -> PC]
  BY DEF IInv, JobsOK
<1>2. CASE Command(k)
  BY <1>1, <1>2 DEF Command, UnknownModel, Save, Refresh, Chat, Goto
<1>3. CASE Truncate(k) \/ OpenFails(k) \/ WriteSetting(k) \/ RefreshHistory(k)
  BY <1>1, <1>3 DEF Truncate, OpenFails, WriteSetting, RefreshHistory, Goto
<1>4. CASE LoadKey(k) \/ LoadUrl(k) \/ LoadModel(k) \/ CheckUrl(k)
  BY <1>1, <1>4 DEF LoadKey, LoadUrl, LoadModel, Load, CheckUrl, Goto
<1>5. CASE Look(k) \/ LookFails(k)
  BY <1>1, <1>5 DEF Look, LookFails, Goto
<1>6. CASE AppendEntry(k) \/ AppendFails(k) \/ ReadBack(k) \/ ReadBackFails(k)
  BY <1>1, <1>6
     DEF AppendEntry, AppendFails, ReadBack, ReadBackFails, AfterHistory, Goto
<1>7. CASE Post(k) \/ Return(k) \/ Server(k) \/ Crash(k)
  BY <1>1, <1>7 DEF Post, Return, Server, Response, NoResponse, Crash, Goto
<1> QED
  BY <1>2, <1>3, <1>4, <1>5, <1>6, <1>7 DEF Step

LEMMA StepKeepsForm ==
    ASSUME OneKernel, IInv, LookIsFresh, AllFormed,
           NEW k \in Kernels, Command(k) \/ Step(k) \/ Server(k) \/ Crash(k)
    PROVE  LookIsFresh' /\ AllFormed'
<1>1. /\ history \in [Providers -> Seq(Elements)] /\ job[k] \in Jobs
      /\ job \in [Kernels -> Jobs] /\ pc \in [Kernels -> PC]
      /\ pc[k] \notin {"idle", "done"} => job[k].provider \in Providers
  BY DEF IInv, FilesOK, JobsOK
<1>2. unseen \subseteq unseen'
  BY StepLooks
<1>3. \A p \in Providers : WellFormed(history'[p], unseen)
  <2>1. CASE RefreshHistory(k)
    <3>1. WellFormed(<< >>, unseen)
      BY DEF WellFormed
    <3> QED
      BY <1>1, <2>1, <3>1 DEF RefreshHistory, AllFormed
  <2>2. CASE AppendEntry(k)
    <3> DEFINE q == job[k].provider
    <3>1. q \in Providers /\ Fresh(job[k], history[q], unseen)
      BY <1>1, <2>2 DEF AppendEntry, LookIsFresh
    <3>2. WellFormed(history[q] \o Entry(job[k]), unseen)
      BY <1>1, <3>1, EntryKeepsForm DEF AllFormed
    <3>3. history' = [history EXCEPT ![q] = history[q] \o Entry(job[k])]
      BY <2>2 DEF AppendEntry
    <3> HIDE DEF q
    <3> QED
      BY <1>1, <3>2, <3>3 DEF AllFormed
  <2> QED
    BY <2>1, <2>2, StepFiles DEF Truncate, WriteSetting, AllFormed
<1>4. AllFormed'
  BY <1>2, <1>3, MoreUnseen DEF AllFormed
<1>5. LookIsFresh'
  <2>1. CASE Look(k)
    <3>1. /\ job'[k].empty = (history[job[k].provider] = << >>)
          /\ job'[k].provider = job[k].provider /\ history' = history
      BY <1>1, <2>1 DEF Look, IsFileEmpty, Jobs
    <3> QED
      BY <3>1 DEF LookIsFresh, Fresh, OneKernel
  <2>2. CASE LookFails(k)
    <3>1. /\ job'[k].empty /\ job'[k].chat = job[k].chat /\ job'[k].role = job[k].role
          /\ <<job[k].chat, job[k].role>> \in unseen'
      BY <1>1, <2>2 DEF LookFails, Jobs
    <3> QED
      BY <3>1 DEF LookIsFresh, Fresh, OneKernel
  <2>3. CASE ~ Look(k) /\ ~ LookFails(k)
    BY <2>3, StepLooks DEF LookIsFresh, OneKernel
  <2> QED
    BY <2>1, <2>2, <2>3
<1> QED
  BY <1>4, <1>5

\* What earlier sessions left is formed.
LEMMA InitForm == Init => LookIsFresh /\ AllFormed
<1> SUFFICES ASSUME Init PROVE LookIsFresh /\ AllFormed
  OBVIOUS
<1>1. WellFormed(<< >>, unseen)
  BY DEF WellFormed
<1>2. WellFormed(<<EarlierTurn>>, unseen)
  <2>1. EarlierTurn # Separator
    BY DEF EarlierTurn, Separator
  <2> QED
    BY <2>1 DEF WellFormed
<1> QED
  BY <1>1, <1>2 DEF Init, LookIsFresh, AllFormed

\* With one kernel the history stays the inside of a JSON array, however many chats,
\* refreshes, failures and deaths there are; a turn lacks its separator only if
\* is_file_empty could not open the file for it (append_and_read_back, is_file_empty).
THEOREM HistoriesWellFormed == OneKernel => (Spec => []HistoryWellFormed)
<1> SUFFICES ASSUME OneKernel PROVE Spec => []HistoryWellFormed
  OBVIOUS
<1>1. Init => LookIsFresh /\ AllFormed
  BY InitForm
<1>2. IInv /\ LookIsFresh /\ AllFormed /\ [Next]_vars => LookIsFresh' /\ AllFormed'
  <2> SUFFICES ASSUME IInv, LookIsFresh, AllFormed, [Next]_vars
               PROVE  LookIsFresh' /\ AllFormed'
    OBVIOUS
  <2>1. CASE Next
    BY <2>1, StepKeepsForm DEF Next
  <2>2. CASE UNCHANGED vars
    BY <2>2 DEF vars, LookIsFresh, AllFormed
  <2> QED
    BY <2>1, <2>2
<1>3. AllFormed => HistoryWellFormed
  BY DEF AllFormed, WellFormed, HistoryWellFormed, Missing
<1> QED
  BY <1>1, <1>2, <1>3, Invariance, PTL DEF Spec

-----------------------------------------------------------------------------
(* One kernel: an answer follows its prompt.                               *)

\* No turn of chat c is in h; or none but its prompt, which is the last.
Absent(h, c) == \A i \in 1..Len(h) : ~ (h[i].role \in Roles /\ h[i].chat = c)
Latest(h, c) ==
    \A i \in 1..Len(h) : h[i].role \in Roles /\ h[i].chat = c =>
        h[i].role = "user" /\ i = Len(h)

Answered(h) ==
    \A i, j \in 1..Len(h) :
        h[i].role = "user" /\ h[j].role = "assistant" /\ h[i].chat = h[j].chat
            => i < j /\ \A m \in (i + 1)..(j - 1) : h[m] = Separator

\* The prompt has not been written; or the answer has not.
Prompting(k) ==
    \/ pc[k] \in {"key", "url"}
    \/ pc[k] \in {"look", "append"} /\ job[k].role = "user"
Pending(k) ==
    \/ Prompting(k)
    \/ pc[k] \in {"look", "append", "model", "check", "post", "response"}
    \/ pc[k] = "readback" /\ job[k].role = "user"

\* The numbers of the chats are those given so far, so a new chat has no turn; and until
\* its answer is written its prompt stays the last turn.
ChatsNumbered ==
    /\ \A p \in Providers : \A i \in 1..Len(history[p]) : history[p][i].chat \in 0..chats
    /\ \A k \in Kernels : job[k].chat \in 0..chats
PromptLast ==
    \A k \in Kernels :
        /\ Prompting(k) => Absent(history[job[k].provider], job[k].chat)
        /\ Pending(k) => Latest(history[job[k].provider], job[k].chat)
AllAnswered == \A p \in Providers : Answered(history[p])

\* The prompt or the answer is appended.
LEMMA EntryAnswers ==
    ASSUME NEW h \in Seq(Elements), NEW j \in Jobs,
           Answered(h), Latest(h, j.chat), j.role = "user" => Absent(h, j.chat)
    PROVE  /\ Answered(h \o Entry(j))
           /\ j.role = "user" => Latest(h \o Entry(j), j.chat)
<1> DEFINE g == h \o Entry(j)
           t == Turn(j)
           n == Len(h)
<1>1. /\ n \in Nat
      /\ Len(g) = IF j.empty THEN n + 1 ELSE n + 2
      /\ g[Len(g)] = t
      /\ ~ j.empty => g[n + 1] = Separator
      /\ \A i \in 1..n : g[i] = h[i]
  BY EntryTurns
<1>2. t.role = j.role /\ t.chat = j.chat /\ j.role \in Roles /\ Separator.role \notin Roles
  BY TurnForm
<1>3. /\ n < Len(g) /\ Len(g) \in Nat
      /\ \A i \in (n + 1)..(Len(g) - 1) : g[i] = Separator
  <2> HIDE DEF g, t, n
  <2> QED
    BY <1>1
<1>4. \A i \in 1..Len(g) : \/ i \in 1..n /\ g[i] = h[i]
                           \/ i = Len(g) /\ g[i] = t
                           \/ g[i] = Separator
  <2> HIDE DEF g, t, n
  <2> QED
    BY <1>1, <1>3
<1>5. /\ \A i, l \in 1..n :
            h[i].role = "user" /\ h[l].role = "assistant" /\ h[i].chat = h[l].chat
                => i < l /\ \A m \in (i + 1)..(l - 1) : h[m] = Separator
      /\ \A i \in 1..n : h[i].role \in Roles /\ h[i].chat = j.chat =>
            h[i].role = "user" /\ i = n
      /\ j.role = "user" => \A i \in 1..n : ~ (h[i].role \in Roles /\ h[i].chat = j.chat)
  BY DEF Answered, Latest, Absent
<1> HIDE DEF g, t, n
<1>6. ASSUME NEW i \in 1..Len(g), NEW l \in 1..Len(g), g[i].role = "user",
             g[l].role = "assistant", g[i].chat = g[l].chat
      PROVE  i < l /\ \A m \in (i + 1)..(l - 1) : g[m] = Separator
  <2>1. /\ (i \in 1..n /\ g[i] = h[i]) \/ (i = Len(g) /\ g[i] = t)
        /\ (l \in 1..n /\ g[l] = h[l]) \/ (l = Len(g) /\ g[l] = t)
    BY <1>2, <1>4, <1>6 DEF Roles
  <2>2. CASE i \in 1..n /\ g[i] = h[i] /\ l \in 1..n /\ g[l] = h[l]
    <3>1. i < l /\ \A m \in (i + 1)..(l - 1) : h[m] = Separator
      BY <1>5, <1>6, <2>2
    <3> QED
      BY <1>1, <2>2, <3>1
  <2>3. CASE i \in 1..n /\ g[i] = h[i] /\ l = Len(g) /\ g[l] = t
    <3>1. i = n
      BY <1>2, <1>5, <1>6, <2>3 DEF Roles
    <3> QED
      BY <1>3, <2>3, <3>1
  <2>4. CASE i = Len(g) /\ g[i] = t /\ l \in 1..n /\ g[l] = h[l]
    BY <1>2, <1>5, <1>6, <2>4 DEF Roles
  <2>5. CASE i = Len(g) /\ g[i] = t /\ l = Len(g) /\ g[l] = t
    BY <1>6, <2>5
  <2> QED
    BY <2>1, <2>2, <2>3, <2>4, <2>5
<1>7. ASSUME j.role = "user", NEW i \in 1..Len(g), g[i].role \in Roles, g[i].chat = j.chat
      PROVE  g[i].role = "user" /\ i = Len(g)
  <2>1. (i \in 1..n /\ g[i] = h[i]) \/ (i = Len(g) /\ g[i] = t)
    BY <1>2, <1>4, <1>7
  <2> QED
    BY <1>2, <1>5, <1>7, <2>1
<1>8. Answered(g) /\ (j.role = "user" => Latest(g, j.chat))
  BY <1>6, <1>7 DEF Answered, Latest
<1> QED
  BY <1>8 DEF g

\* A step that is about no turn.
LEMMA ChatGoesOn ==
    ASSUME IInv, NEW k \in Kernels, Command(k) \/ Step(k) \/ Server(k) \/ Crash(k),
           \A p \in Providers : ~ Chat(k, p)
    PROVE  /\ chats' = chats /\ job'[k].chat \in {job[k].chat, 0}
           /\ Pending(k)' /\ ~ AppendEntry(k) =>
                 /\ Pending(k) /\ job'[k].chat = job[k].chat
                 /\ job'[k].provider = job[k].provider
                 /\ Prompting(k)' => Prompting(k)
<1> USE DEF Pending, Prompting
<1>1. job \in [Kernels -> Jobs] /\ pc \in [Kernels -> PC] /\ job[k] \in Jobs
  BY DEF IInv, JobsOK
<1>2. CASE Command(k)
  <2>1. /\ chats' = chats /\ job'[k].chat \in {job[k].chat, 0}
        /\ pc'[k] \in {"truncate", "refresh", "done"}
    BY <1>1, <1>2 DEF Command, UnknownModel, Save, Refresh, Goto, NoJob, counters
  <2> QED
    BY <2>1
<1>3. CASE Return(k) \/ Crash(k)
  <2>1. chats' = chats /\ job'[k].chat = 0 /\ pc'[k] = "idle"
    BY <1>1, <1>3 DEF Return, Crash, Goto, NoJob, counters
  <2> QED
    BY <2>1
<1>4. CASE Truncate(k) \/ OpenFails(k) \/ WriteSetting(k) \/ RefreshHistory(k) \/ NoResponse(k)
  <2>1. chats' = chats /\ job' = job /\ pc'[k] \in {"write", "done"}
    BY <1>1, <1>4 DEF Truncate, OpenFails, WriteSetting, RefreshHistory, NoResponse, Goto,
                      counters
  <2> QED
    BY <2>1
<1>5. CASE CheckUrl(k) \/ Post(k)
  <2>1. /\ chats' = chats /\ job' = job /\ pc[k] \in {"check", "post"}
        /\ pc'[k] \in {"post", "response", "done"}
    BY <1>1, <1>5 DEF CheckUrl, Post, Goto, counters
  <2> QED
    BY <2>1
<1>6. CASE LoadKey(k) \/ LoadUrl(k) \/ LoadModel(k)
  <2>1. /\ chats' = chats /\ job'[k].chat = job[k].chat /\ job'[k].role = job[k].role
        /\ job'[k].provider = job[k].provider
    BY <1>1, <1>6 DEF LoadKey, LoadUrl, LoadModel, Load, Jobs, counters
  <2>2. \/ pc[k] \in {"key", "url"} /\ pc'[k] \in {"look", "done"}
        \/ pc[k] = "model" /\ pc'[k] \in {"check", "done"}
    BY <1>1, <1>6 DEF LoadKey, LoadUrl, LoadModel, Load, Goto
  <2> QED
    BY <2>1, <2>2
<1>7. CASE Look(k) \/ LookFails(k) \/ AppendFails(k) \/ ReadBack(k) \/ ReadBackFails(k)
  <2>1. /\ chats' = chats /\ job'[k].chat = job[k].chat /\ job'[k].role = job[k].role
        /\ job'[k].provider = job[k].provider
    BY <1>1, <1>7
       DEF Look, LookFails, AppendFails, ReadBack, ReadBackFails, Jobs, counters
  <2>2. \/ pc[k] = "look" /\ pc'[k] = "append"
        \/ pc[k] \in {"append", "readback"} /\ pc'[k] = AfterHistory(job[k])
    BY <1>1, <1>7 DEF Look, LookFails, AppendFails, ReadBack, ReadBackFails, Goto
  <2> QED
    BY <2>1, <2>2 DEF AfterHistory
<1>8. CASE \E c \in {job[k].chat, None} : Response(k, c)
  <2>1. /\ chats' = chats /\ job'[k].chat = job[k].chat /\ job'[k].role = "assistant"
        /\ job'[k].provider = job[k].provider
    BY <1>1, <1>8 DEF Response, Jobs, counters
  <2>2. pc[k] = "response" /\ pc'[k] = "look"
    BY <1>1, <1>8 DEF Response, Goto
  <2> QED
    BY <2>1, <2>2
<1>9. CASE AppendEntry(k)
  BY <1>9 DEF AppendEntry, counters
<1> QED
  BY <1>2, <1>3, <1>4, <1>5, <1>6, <1>7, <1>8, <1>9 DEF Step, Server

LEMMA StepAnswers ==
    ASSUME OneKernel, IInv, ChatsNumbered, PromptLast, AllAnswered,
           NEW k \in Kernels, Command(k) \/ Step(k) \/ Server(k) \/ Crash(k)
    PROVE  ChatsNumbered' /\ PromptLast' /\ AllAnswered'
<1> DEFINE q == job[k].provider
<1>1. /\ history \in [Providers -> Seq(Elements)] /\ job[k] \in Jobs /\ chats \in Nat
      /\ job \in [Kernels -> Jobs] /\ pc \in [Kernels -> PC]
      /\ pc[k] \notin {"idle", "done"} => q \in Providers
  BY BoundsAssumption DEF IInv, FilesOK, JobsOK, CountersOK
<1>2. \A l \in Kernels : l = k
  BY DEF OneKernel
<1>3. /\ Prompting(k) => Absent(history[q], job[k].chat)
      /\ Pending(k) => Latest(history[q], job[k].chat)
  BY DEF PromptLast
<1>4. CASE \E p \in Providers : Chat(k, p)
  <2>1. PICK p \in Providers : Chat(k, p)
    BY <1>4
  <2>2. /\ history' = history /\ chats' = chats + 1 /\ job'[k].chat = chats + 1
        /\ job'[k].provider = p
    BY <1>1, <2>1 DEF Chat, NoJob
  <2>3. Absent(history[p], chats + 1)
    BY <1>1 DEF Absent, ChatsNumbered
  <2>4. Latest(history[p], chats + 1)
    BY <2>3 DEF Absent, Latest
  <2>5. 0..chats \subseteq 0..(chats + 1) /\ chats + 1 \in 0..(chats + 1)
    BY <1>1
  <2>6. ChatsNumbered'
    BY <1>2, <2>2, <2>5 DEF ChatsNumbered
  <2>7. PromptLast'
    BY <1>2, <2>2, <2>3, <2>4 DEF PromptLast
  <2> QED
    BY <2>2, <2>6, <2>7 DEF AllAnswered
<1>5. CASE AppendEntry(k)
  <2>1. /\ q \in Providers /\ pc[k] = "append"
        /\ job' = job /\ chats' = chats /\ pc'[k] = "readback"
        /\ history' = [history EXCEPT ![q] = history[q] \o Entry(job[k])]
    BY <1>1, <1>5
       DEF AppendEntry, Goto, counters
  <2>2. Latest(history[q], job[k].chat)
    BY <1>3, <2>1 DEF Pending
  <2>3. job[k].role = "user" => Absent(history[q], job[k].chat)
    BY <1>3, <2>1 DEF Prompting
  <2>4. history[q] \in Seq(Elements) /\ Answered(history[q])
    BY <1>1, <2>1 DEF AllAnswered
  <2> HIDE DEF q
  <2>5. /\ Answered(history[q] \o Entry(job[k]))
        /\ job[k].role = "user" => Latest(history[q] \o Entry(job[k]), job[k].chat)
    BY <1>1, <2>1, <2>2, <2>3, <2>4, EntryAnswers
  <2>6. /\ history'[q] = history[q] \o Entry(job[k])
        /\ \A p \in Providers : p # q => history'[p] = history[p]
    BY <1>1, <2>1
  <2>7. AllAnswered'
    BY <2>5, <2>6 DEF AllAnswered
  <2>8. PromptLast'
    BY <1>2, <2>1, <2>5, <2>6 DEF PromptLast, Pending, Prompting, q
  <2>9. ASSUME NEW i \in 1..Len(history'[q]) PROVE history'[q][i].chat \in 0..chats
    <3> DEFINE h == history[q]
               g == h \o Entry(job[k])
    <3>1. \/ i \in 1..Len(h) /\ g[i] = h[i]
          \/ i = Len(g) /\ g[i] = Turn(job[k])
          \/ g[i] = Separator
      <4>1. LET n == Len(h)
            IN  /\ n \in Nat
                /\ Len(g) = IF job[k].empty THEN n + 1 ELSE n + 2
                /\ g[Len(g)] = Turn(job[k])
                /\ ~ job[k].empty => g[n + 1] = Separator
                /\ \A m \in 1..n : g[m] = h[m]
        BY <1>1, <2>4, EntryTurns
      <4>2. i \in 1..Len(g)
        BY <2>6, <2>9
      <4> HIDE DEF h, g
      <4> QED
        BY <4>1, <4>2
    <3>2. Turn(job[k]).chat = job[k].chat /\ Separator.chat = 0 /\ 0 \in 0..chats
      BY <1>1 DEF Turn, Separator
    <3>3. job[k].chat \in 0..chats /\ (i \in 1..Len(h) => h[i].chat \in 0..chats)
      BY <2>1 DEF ChatsNumbered
    <3> QED
      BY <2>6, <3>1, <3>2, <3>3
  <2>10. ChatsNumbered'
    BY <2>1, <2>6, <2>9 DEF ChatsNumbered
  <2> QED
    BY <2>7, <2>8, <2>10
<1>6. CASE ~ AppendEntry(k) /\ \A p \in Providers : ~ Chat(k, p)
  <2>1. /\ chats' = chats /\ job'[k].chat \in {job[k].chat, 0}
        /\ Pending(k)' => /\ Pending(k) /\ job'[k].chat = job[k].chat
                          /\ job'[k].provider = q
                          /\ Prompting(k)' => Prompting(k)
    BY <1>6, ChatGoesOn
  <2>2. job'[k].chat \in 0..chats
    BY <1>1, <2>1 DEF ChatsNumbered
  <2>3. CASE RefreshHistory(k)
    <3>1. \A p \in Providers : history'[p] \in {history[p], << >>}
      BY <1>1, <2>3 DEF RefreshHistory
    <3>2. ~ Pending(k)'
      BY <1>1, <2>3 DEF RefreshHistory, Goto, Pending, Prompting
    <3>3. PromptLast'
      BY <1>2, <3>2 DEF PromptLast, Pending
    <3>4. Answered(<< >>)
      BY DEF Answered
    <3>5. AllAnswered'
      BY <3>1, <3>4 DEF AllAnswered
    <3>6. ChatsNumbered'
      BY <1>2, <2>1, <2>2, <3>1 DEF ChatsNumbered
    <3> QED
      BY <3>3, <3>5, <3>6
  <2>4. CASE ~ RefreshHistory(k)
    <3>1. history' = history
      BY <1>6, <2>4, StepFiles DEF Truncate, WriteSetting
    <3>2. Prompting(k)' => Pending(k)'
      BY DEF Pending
    <3>3. PromptLast'
      BY <1>2, <1>3, <2>1, <3>1, <3>2 DEF PromptLast
    <3> QED
      BY <1>2, <2>1, <2>2, <3>1, <3>3 DEF AllAnswered, ChatsNumbered
  <2> QED
    BY <2>3, <2>4
<1> QED
  BY <1>4, <1>5, <1>6

\* With one kernel nothing but a separator comes between a prompt and its answer, whatever
\* prompts were left without one by failures, deaths and lost responses, and also where a
\* history that could not be looked at lacks a separator (append_and_read_back).
THEOREM AnswersFollow == OneKernel => (Spec => []AnswerFollowsPrompt)
<1> SUFFICES ASSUME OneKernel PROVE Spec => []AnswerFollowsPrompt
  OBVIOUS
<1> DEFINE AInv == ChatsNumbered /\ PromptLast /\ AllAnswered
<1>1. Init => AInv
  <2> SUFFICES ASSUME Init PROVE AInv
    OBVIOUS
  <2>2. \A p \in Providers : history[p] \in {<< >>, <<EarlierTurn>>}
    BY DEF Init
  <2>3. \A p \in Providers : \A i \in 1..Len(history[p]) :
           history[p][i].role = "user" /\ history[p][i].chat = 0
    BY <2>2 DEF EarlierTurn
  <2>4. AllAnswered
    BY <2>3 DEF AllAnswered, Answered
  <2>5. ChatsNumbered
    BY <2>3 DEF Init, ChatsNumbered, NoJob
  <2>6. PromptLast
    BY DEF Init, PromptLast, Pending, Prompting
  <2> QED
    BY <2>4, <2>5, <2>6
<1>2. IInv /\ AInv /\ [Next]_vars => AInv'
  <2> SUFFICES ASSUME IInv, AInv, [Next]_vars PROVE AInv'
    OBVIOUS
  <2>1. CASE Next
    BY <2>1, StepAnswers DEF Next
  <2>2. CASE UNCHANGED vars
    BY <2>2 DEF vars, counters, ChatsNumbered, PromptLast, AllAnswered, Pending,
                Prompting
  <2> QED
    BY <2>1, <2>2
<1>3. AInv => AnswerFollowsPrompt
  BY DEF AllAnswered, Answered, AnswerFollowsPrompt
<1> QED
  BY <1>1, <1>2, <1>3, Invariance, PTL DEF Spec

-----------------------------------------------------------------------------
(* Before any refresh.                                                     *)

\* The prompt of chat c is in h.
Holds(h, c) ==
    \E i \in 1..Len(h) : h[i] # Separator /\ h[i].role = "user" /\ h[i].chat = c

\* The prompt is in the file from the append on, and in the messages once they are read.
PromptKept ==
    refreshes = 0 => \A k \in Kernels :
        /\ pc[k] # "refresh"
        /\ pc[k] = "readback" /\ job[k].role = "user" =>
              Holds(history[job[k].provider], job[k].chat)
        /\ pc[k] \in {"model", "check", "post", "response"} =>
              job[k].messages = << >> \/ Holds(job[k].messages, job[k].chat)

LEMMA HoldsMore ==
    ASSUME NEW h \in Seq(Elements), NEW t \in Seq(Elements), NEW c, Holds(h, c)
    PROVE  Holds(h \o t, c)
<1>1. PICK i \in 1..Len(h) : h[i] # Separator /\ h[i].role = "user" /\ h[i].chat = c
  BY DEF Holds
<1>2. i \in 1..Len(h \o t) /\ (h \o t)[i] = h[i]
  OBVIOUS
<1> QED
  BY <1>1, <1>2 DEF Holds

LEMMA HoldsPrompt ==
    ASSUME NEW h \in Seq(Elements), NEW j \in Jobs, j.role = "user"
    PROVE  Holds(h \o Entry(j), j.chat)
<1> DEFINE g == h \o Entry(j)
<1>1. Turn(j) # Separator /\ Turn(j).role = "user" /\ Turn(j).chat = j.chat
  BY DEF Turn, Separator
<1>2. Turn(j) \in Elements /\ Separator \in Elements
  BY EntryType DEF Elements
<1>3. Len(g) \in 1..Len(g) /\ g[Len(g)] = Turn(j)
  BY <1>2 DEF Entry
<1> HIDE DEF g
<1>4. Holds(g, j.chat)
  BY <1>1, <1>3 DEF Holds
<1> QED
  BY <1>4 DEF g

LEMMA StepKeepsPrompt ==
    ASSUME IInv, PromptKept, refreshes' = 0,
           NEW k \in Kernels, Command(k) \/ Step(k) \/ Server(k) \/ Crash(k)
    PROVE  PromptKept'
<1>1. /\ history \in [Providers -> Seq(Elements)]
      /\ job \in [Kernels -> Jobs] /\ pc \in [Kernels -> PC]
      /\ \A i \in Kernels : job[i] \in Jobs
      /\ \A i \in Kernels : pc[i] \notin {"idle", "done"} => job[i].provider \in Providers
  BY DEF IInv, FilesOK, JobsOK
<1>0. refreshes = 0 /\ \A p \in Providers : ~ Refresh(k, p)
  <2>1. refreshes \in Nat
    BY BoundsAssumption DEF IInv, CountersOK
  <2>2. \A p \in Providers : ~ Refresh(k, p)
    BY <2>1 DEF Refresh
  <2> QED
    BY <2>2 DEF Command, Step, Server, UnknownModel, Save, Chat, Truncate, OpenFails,
                WriteSetting, RefreshHistory, LoadKey, LoadUrl, LoadModel, Load, CheckUrl,
                Look, LookFails, AppendEntry, AppendFails, ReadBack, ReadBackFails, Post,
                Return, Response, NoResponse, Crash, counters
<1>2. ~ RefreshHistory(k) /\ \A p \in Providers : ~ Refresh(k, p)
  BY <1>0 DEF RefreshHistory, PromptKept
\* Other kernels stay where they are, and find their prompts in the files.
<1>3. \A i \in Kernels \ {k} : pc'[i] = pc[i] /\ job'[i] = job[i]
  BY StepLooks
<1>4. ASSUME NEW p \in Providers, NEW c, Holds(history[p], c) PROVE Holds(history'[p], c)
  <2>1. CASE AppendEntry(k)
    <3>1. history'[p] = history[p] \/ history'[p] = history[p] \o Entry(job[k])
      BY <1>1, <2>1 DEF AppendEntry
    <3> QED
      BY <1>1, <1>4, <3>1, EntryType, HoldsMore
  <2> QED
    BY <1>2, <1>4, <2>1, StepFiles DEF Truncate, WriteSetting
<1> DEFINE Kept(i) ==
        /\ pc'[i] # "refresh"
        /\ pc'[i] = "readback" /\ job'[i].role = "user" =>
              Holds(history'[job'[i].provider], job'[i].chat)
        /\ pc'[i] \in {"model", "check", "post", "response"} =>
              job'[i].messages = << >> \/ Holds(job'[i].messages, job'[i].chat)
<1>5. ASSUME NEW i \in Kernels \ {k} PROVE Kept(i)
  BY <1>0, <1>1, <1>3, <1>4 DEF PromptKept
<1>6. Kept(k)
  <2>1. CASE AppendEntry(k)
    <3> DEFINE q == job[k].provider
    <3>1. /\ job' = job /\ pc'[k] = "readback" /\ q \in Providers
          /\ history'[q] = history[q] \o Entry(job[k])
      BY <1>1, <2>1 DEF AppendEntry, Goto
    <3>2. job[k].role = "user" => Holds(history'[q], job[k].chat)
      BY <1>1, <3>1, HoldsPrompt
    <3> QED
      BY <3>1, <3>2
  <2>2. CASE ReadBack(k)
    <3>1. /\ job'[k].messages = history[job[k].provider] /\ job'[k].chat = job[k].chat
          /\ pc'[k] = AfterHistory(job[k]) /\ job[k].role \in Roles
      BY <1>1, <2>2 DEF ReadBack, Goto, Jobs
    <3>2. job[k].role = "user" => Holds(history[job[k].provider], job[k].chat)
      BY <1>0, <2>2 DEF ReadBack, PromptKept
    <3> QED
      BY <3>1, <3>2 DEF AfterHistory
  <2>3. CASE AppendFails(k) \/ ReadBackFails(k)
    <3>1. job'[k].messages = << >> /\ pc'[k] = AfterHistory(job[k])
      BY <1>1, <2>3 DEF AppendFails, ReadBackFails, Goto, Jobs
    <3> QED
      BY <3>1 DEF AfterHistory
  <2>4. CASE LoadModel(k)
    <3>1. /\ job'[k].messages = job[k].messages /\ job'[k].chat = job[k].chat
          /\ pc'[k] \in {"check", "done"} /\ pc[k] = "model"
      BY <1>1, <2>4 DEF LoadModel, Load, Goto, Jobs
    <3> QED
      BY <1>0, <3>1 DEF PromptKept
  <2>5. CASE CheckUrl(k) \/ Post(k)
    <3>1. /\ job' = job /\ pc'[k] \in {"post", "response", "done"}
          /\ pc[k] \in {"check", "post"}
      BY <1>1, <2>5 DEF CheckUrl, Post, Goto
    <3> QED
      BY <1>0, <3>1 DEF PromptKept
  <2>6. CASE ~ (\/ AppendEntry(k) \/ ReadBack(k) \/ AppendFails(k) \/ ReadBackFails(k)
                \/ LoadModel(k) \/ CheckUrl(k) \/ Post(k))
    <3>1. pc'[k] \notin {"refresh", "readback", "model", "check", "post", "response"}
      BY <1>1, <1>2, <2>6
         DEF Command, Step, Server, UnknownModel, Save, Chat, Truncate, OpenFails,
             WriteSetting, LoadKey, LoadUrl, Load, Look, LookFails, Return, Response,
             NoResponse, Crash, Goto
    <3> QED
      BY <3>1
  <2> QED
    BY <2>1, <2>2, <2>3, <2>4, <2>5, <2>6
<1> QED
  BY <1>5, <1>6 DEF PromptKept

\* Kernels that share histories: until somebody refreshes one, the messages of a request
\* contain its own prompt, unless the history could not be opened (append_and_read_back).
THEOREM OwnPromptPosted == Spec => []PostsOwnPrompt
<1>1. Init => PromptKept
  BY DEF Init, PromptKept
<1>2. IInv /\ PromptKept /\ [Next]_vars => PromptKept'
  <2> SUFFICES ASSUME IInv, PromptKept, [Next]_vars PROVE PromptKept'
    OBVIOUS
  <2>1. CASE Next
    <3>1. PICK k \in Kernels : Command(k) \/ Step(k) \/ Server(k) \/ Crash(k)
      BY <2>1 DEF Next
    <3>2. refreshes' # 0 => PromptKept'
      BY DEF PromptKept
    <3> QED
      BY <3>1, <3>2, StepKeepsPrompt
  <2>2. CASE UNCHANGED vars
    BY <2>2 DEF vars, counters, PromptKept, Holds
  <2> QED
    BY <2>1, <2>2
<1>3. PromptKept => PostsOwnPrompt
  BY DEF PromptKept, Holds, PostsOwnPrompt
<1> QED
  BY <1>1, <1>2, <1>3, Invariance, PTL DEF Spec


-----------------------------------------------------------------------------
(* Kernels that race.                                                      *)

\* Where h has no separator between two turns, and nobody failed to look.
Gaps(h, U) ==
    {i \in 2..Len(h) :
        /\ Separator \notin {h[i], h[i - 1]}
        /\ <<h[i].chat, h[i].role>> \notin U}

\* The kernels that are about to append to p's history without a separator, having seen
\* it empty.
Rash(p) ==
    {k \in Kernels :
        /\ pc[k] = "append" /\ job[k].provider = p /\ job[k].empty
        /\ <<job[k].chat, job[k].role>> \notin unseen}

SeparatorsPlaced(h) ==
    \A i \in 1..Len(h) : h[i] = Separator =>
        /\ i = 1 => refreshes > 0
        /\ i # Len(h)
        /\ h[i + 1] # Separator

\* A history that has begun leaves its kernels, all but the one that began it, one entry
\* each without a separator: made already, or still to come.
GapsBounded ==
    \A p \in Providers : history[p] # << >> =>
        Cardinality(Gaps(history[p], unseen)) + Cardinality(Rash(p)) < Cardinality(Kernels)

\* Only a refresh makes a history empty behind the back of a kernel that saw it begun.
EmptiedByRefresh ==
    /\ \A p \in Providers : SeparatorsPlaced(history[p])
    /\ \A k \in Kernels :
          /\ pc[k] = "refresh" => refreshes > 0
          /\ pc[k] = "append" /\ ~ job[k].empty =>
                refreshes > 0 \/ history[job[k].provider] # << >>

LEMMA FewerIsLess ==
    ASSUME NEW S, NEW T, IsFiniteSet(S), T \subseteq S
    PROVE  /\ IsFiniteSet(T) /\ Cardinality(T) <= Cardinality(S)
           /\ Cardinality(S) \in Nat /\ Cardinality(T) \in Nat
BY FS_Subset, FS_CardinalityType

LEMMA GapsFinite == ASSUME NEW h \in Seq(Elements), NEW U PROVE IsFiniteSet(Gaps(h, U))
<1>1. IsFiniteSet(2..Len(h))
  BY FS_Interval
<1>2. Gaps(h, U) \subseteq 2..Len(h)
  BY DEF Gaps
<1> QED
  BY <1>1, <1>2, FS_Subset

\* An entry leaves a gap only if it has no separator, is not the first and its look did
\* not fail.
LEMMA EntryGaps ==
    ASSUME NEW h \in Seq(Elements), NEW j \in Jobs, NEW U
    PROVE  LET g == h \o Entry(j)
           IN  /\ h = << >> => Gaps(g, U) = {}
               /\ Gaps(g, U) \subseteq Gaps(h, U) \cup {Len(h) + 1}
               /\ ~ j.empty \/ <<j.chat, j.role>> \in U => Gaps(g, U) \subseteq Gaps(h, U)
<1> DEFINE g == h \o Entry(j)
           n == Len(h)
<1>1. /\ n \in Nat /\ (h = << >> => n = 0)
      /\ Len(g) = IF j.empty THEN n + 1 ELSE n + 2
      /\ g[Len(g)] = Turn(j)
      /\ ~ j.empty => g[n + 1] = Separator
      /\ \A i \in 1..n : g[i] = h[i]
  BY EntryTurns
<1>2. Turn(j).chat = j.chat /\ Turn(j).role = j.role
  BY TurnForm
<1> HIDE DEF g, n
<1>3. ASSUME NEW i \in 2..Len(g), Separator \notin {g[i], g[i - 1]},
             <<g[i].chat, g[i].role>> \notin U
      PROVE  \/ i \in 2..n /\ i \in Gaps(h, U)
             \/ i = n + 1 /\ n > 0 /\ j.empty /\ <<j.chat, j.role>> \notin U
  <2>1. CASE i <= n
    <3>1. i \in 2..n /\ g[i] = h[i] /\ g[i - 1] = h[i - 1]
      BY <1>1, <1>3, <2>1
    <3> QED
      BY <1>3, <3>1 DEF Gaps, n
  <2>2. CASE i = n + 1
    BY <1>1, <1>2, <1>3, <2>2
  <2>3. CASE i = n + 2
    BY <1>1, <1>3, <2>3
  <2> QED
    BY <1>1, <1>3, <2>1, <2>2, <2>3
<1>4. \A i \in Gaps(g, U) : /\ i \in 2..Len(g) /\ Separator \notin {g[i], g[i - 1]}
                            /\ <<g[i].chat, g[i].role>> \notin U
  BY DEF Gaps
<1>5. \A i \in Gaps(g, U) :
          \/ i \in 2..n /\ i \in Gaps(h, U)
          \/ i = n + 1 /\ n > 0 /\ j.empty /\ <<j.chat, j.role>> \notin U
  BY <1>3, <1>4
<1>6. h = << >> => Gaps(g, U) = {}
  <2>1. n = 0 => \A i \in Gaps(g, U) : FALSE
    BY <1>5
  <2> QED
    BY <1>1, <2>1
<1>7. Gaps(g, U) \subseteq Gaps(h, U) \cup {n + 1}
  BY <1>5
<1>8. ~ j.empty \/ <<j.chat, j.role>> \in U => Gaps(g, U) \subseteq Gaps(h, U)
  BY <1>5
<1> QED
  BY <1>6, <1>7, <1>8 DEF g, n

LEMMA StepBoundsGaps ==
    ASSUME IsFiniteSet(Kernels), IInv, GapsBounded,
           NEW k \in Kernels, Command(k) \/ Step(k) \/ Server(k) \/ Crash(k)
    PROVE  GapsBounded'
<1>1. /\ history \in [Providers -> Seq(Elements)] /\ job[k] \in Jobs
      /\ job \in [Kernels -> Jobs] /\ pc \in [Kernels -> PC]
      /\ pc[k] \notin {"idle", "done"} => job[k].provider \in Providers
  BY DEF IInv, FilesOK, JobsOK
<1>2. /\ unseen \subseteq unseen'
      /\ ~ LookFails(k) => unseen' = unseen
      /\ pc'[k] = "append" => Look(k) \/ LookFails(k)
      /\ \A l \in Kernels \ {k} : pc'[l] = pc[l] /\ job'[l] = job[l]
  BY StepLooks
<1>3. ASSUME NEW p \in Providers, history[p] # << >>
      PROVE  Rash(p)' \subseteq Rash(p) \ (IF AppendEntry(k) THEN {k} ELSE {})
  <2>1. k \notin Rash(p)'
    <3>1. CASE Look(k)
      BY <1>1, <1>3, <3>1 DEF Rash, Look, IsFileEmpty, Jobs
    <3>2. CASE LookFails(k)
      BY <1>1, <3>2 DEF Rash, LookFails, Jobs
    <3> QED
      BY <1>2, <3>1, <3>2 DEF Rash
  <2>2. \A l \in Kernels \ {k} : l \in Rash(p)' => l \in Rash(p)
    BY <1>2 DEF Rash
  <2>3. Rash(p)' \subseteq Kernels
    BY DEF Rash
  <2> QED
    BY <2>1, <2>2, <2>3
<1>4. \A p \in Providers : IsFiniteSet(Rash(p)) /\ IsFiniteSet(Rash(p)')
  <2>1. \A p \in Providers : Rash(p) \subseteq Kernels /\ Rash(p)' \subseteq Kernels
    BY DEF Rash
  <2> QED
    BY <2>1, FS_Subset
<1>5. \A p \in Providers : IsFiniteSet(Gaps(history[p], unseen))
  BY <1>1, GapsFinite
\* The history is the same, and there are no more gaps and rash kernels.
<1>6. ASSUME NEW p \in Providers, history'[p] = history[p], history[p] # << >>
      PROVE  Cardinality(Gaps(history[p], unseen)') + Cardinality(Rash(p)')
                 < Cardinality(Kernels)
  <2>1. Gaps(history[p], unseen)' \subseteq Gaps(history[p], unseen)
    BY <1>2, <1>6 DEF Gaps
  <2>2. Rash(p)' \subseteq Rash(p)
    BY <1>3, <1>6
  <2>3. /\ Cardinality(Gaps(history[p], unseen)') <= Cardinality(Gaps(history[p], unseen))
        /\ Cardinality(Gaps(history[p], unseen)') \in Nat
        /\ Cardinality(Gaps(history[p], unseen)) \in Nat
    BY <1>5, <2>1, FewerIsLess
  <2>4. /\ Cardinality(Rash(p)') <= Cardinality(Rash(p))
        /\ Cardinality(Rash(p)') \in Nat /\ Cardinality(Rash(p)) \in Nat
    BY <1>4, <2>2, FewerIsLess
  <2>5. Cardinality(Kernels) \in Nat
    BY FS_CardinalityType
  <2> QED
    BY <1>6, <2>3, <2>4, <2>5 DEF GapsBounded
<1>7. CASE AppendEntry(k)
  <2>0. PICK q \in Providers : q = job[k].provider
    BY <1>1, <1>7 DEF AppendEntry
  <2>1. /\ pc[k] = "append" /\ pc'[k] = "readback" /\ unseen' = unseen
        /\ history'[q] = history[q] \o Entry(job[k])
        /\ \A p \in Providers \ {q} : history'[p] = history[p]
    BY <1>1, <1>7, <2>0 DEF AppendEntry, Goto
  <2> DEFINE h == history[q]
             g == h \o Entry(job[k])
  <2>2. /\ h = << >> => Gaps(g, unseen) = {}
        /\ Gaps(g, unseen) \subseteq Gaps(h, unseen) \cup {Len(h) + 1}
        /\ ~ job[k].empty \/ <<job[k].chat, job[k].role>> \in unseen =>
              Gaps(g, unseen) \subseteq Gaps(h, unseen)
    BY <1>1, <2>1, EntryGaps
  <2>3. Cardinality(Kernels) \in Nat /\ IsFiniteSet(Gaps(h, unseen))
    BY <1>5, <2>1, FS_CardinalityType
  <2> HIDE DEF h, g
  <2>4. Cardinality(Gaps(g, unseen)) + Cardinality(Rash(q)') < Cardinality(Kernels)
    <3>1. CASE h = << >>
      <4>1. Rash(q)' \subseteq Kernels \ {k}
        BY <2>1 DEF Rash
      <4>2. /\ IsFiniteSet(Kernels \ {k})
            /\ Cardinality(Kernels \ {k}) = Cardinality(Kernels) - 1
        BY FS_RemoveElement
      <4>3. /\ Cardinality(Rash(q)') <= Cardinality(Kernels) - 1
            /\ Cardinality(Rash(q)') \in Nat
        BY <4>1, <4>2, FewerIsLess
      <4>4. Cardinality(Gaps(g, unseen)) = 0
        BY <2>2, <3>1, FS_EmptySet
      <4> QED
        BY <2>3, <4>3, <4>4
    <3>2. CASE h # << >>
      <4>1. Cardinality(Gaps(h, unseen)) + Cardinality(Rash(q)) < Cardinality(Kernels)
        BY <2>1, <3>2 DEF GapsBounded, h
      <4>2. Rash(q)' \subseteq Rash(q) \ {k}
        BY <1>3, <1>7, <3>2 DEF h
      <4>3. CASE k \in Rash(q)
        <5>1. /\ IsFiniteSet(Rash(q) \ {k})
              /\ Cardinality(Rash(q) \ {k}) = Cardinality(Rash(q)) - 1
          BY <1>4, <4>3, FS_RemoveElement
        <5>2. /\ Cardinality(Rash(q)') <= Cardinality(Rash(q)) - 1
              /\ Cardinality(Rash(q)') \in Nat
          BY <4>2, <5>1, FewerIsLess
        <5>3. /\ IsFiniteSet(Gaps(h, unseen) \cup {Len(h) + 1})
              /\ Cardinality(Gaps(h, unseen) \cup {Len(h) + 1})
                    <= Cardinality(Gaps(h, unseen)) + 1
              /\ Cardinality(Gaps(h, unseen)) \in Nat
          <6>1. Cardinality(Gaps(h, unseen)) \in Nat
            BY <2>3, FS_CardinalityType
          <6>2. IsFiniteSet(Gaps(h, unseen) \cup {Len(h) + 1})
            BY <2>3, FS_AddElement
          <6>3. CASE Len(h) + 1 \in Gaps(h, unseen)
            <7>1. Gaps(h, unseen) \cup {Len(h) + 1} = Gaps(h, unseen)
              BY <6>3
            <7>2. Cardinality(Gaps(h, unseen)) <= Cardinality(Gaps(h, unseen)) + 1
              BY <6>1
            <7> QED
              BY <6>1, <6>2, <7>1, <7>2
          <6>4. CASE Len(h) + 1 \notin Gaps(h, unseen)
            <7>1. Cardinality(Gaps(h, unseen) \cup {Len(h) + 1})
                      = Cardinality(Gaps(h, unseen)) + 1
              BY <2>3, <6>4, FS_AddElement
            <7>2. Cardinality(Gaps(h, unseen)) + 1 <= Cardinality(Gaps(h, unseen)) + 1
              BY <6>1
            <7>3. Cardinality(Gaps(h, unseen) \cup {Len(h) + 1})
                      <= Cardinality(Gaps(h, unseen)) + 1
              BY <7>1, <7>2
            <7> QED
              BY <6>1, <6>2, <7>3
          <6> QED
            BY <6>3, <6>4
        <5>4. /\ Cardinality(Gaps(g, unseen))
                    <= Cardinality(Gaps(h, unseen) \cup {Len(h) + 1})
              /\ Cardinality(Gaps(g, unseen)) \in Nat
              /\ Cardinality(Gaps(h, unseen) \cup {Len(h) + 1}) \in Nat
          BY <2>2, <5>3, FewerIsLess
        <5>5. Cardinality(Rash(q)) \in Nat
          BY <1>4, <2>1, FS_CardinalityType
        <5> QED
          BY <2>3, <4>1, <5>2, <5>3, <5>4, <5>5
      <4>4. CASE k \notin Rash(q)
        <5>1. ~ job[k].empty \/ <<job[k].chat, job[k].role>> \in unseen
          BY <2>0, <2>1, <4>4 DEF Rash
        <5>2. /\ Cardinality(Gaps(g, unseen)) <= Cardinality(Gaps(h, unseen))
              /\ Cardinality(Gaps(g, unseen)) \in Nat
              /\ Cardinality(Gaps(h, unseen)) \in Nat
          BY <2>2, <2>3, <5>1, FewerIsLess
        <5>3. Rash(q)' \subseteq Rash(q)
          BY <4>2
        <5>4. /\ Cardinality(Rash(q)') <= Cardinality(Rash(q))
              /\ Cardinality(Rash(q)') \in Nat /\ Cardinality(Rash(q)) \in Nat
          BY <1>4, <2>1, <5>3, FewerIsLess
        <5> QED
          BY <2>3, <4>1, <5>2, <5>4
      <4> QED
        BY <4>3, <4>4
    <3> QED
      BY <3>1, <3>2
  <2>5. Gaps(history[q], unseen)' = Gaps(g, unseen)
    BY <2>1 DEF Gaps, g, h
  <2>6. \A p \in Providers \ {q} : history'[p] # << >> =>
            Cardinality(Gaps(history[p], unseen)') + Cardinality(Rash(p)')
                < Cardinality(Kernels)
    BY <1>6, <2>1
  <2> QED
    <3> SUFFICES ASSUME NEW p \in Providers, history'[p] # << >>
                 PROVE  Cardinality(Gaps(history[p], unseen)') + Cardinality(Rash(p)')
                            < Cardinality(Kernels)
      BY DEF GapsBounded
    <3>1. CASE p = q
      BY <2>4, <2>5, <3>1
    <3>2. CASE p # q
      BY <2>6, <3>2
    <3> QED
      BY <3>1, <3>2
<1>8. CASE ~ AppendEntry(k)
  <2>1. \A p \in Providers : history'[p] # << >> => history'[p] = history[p]
    BY <1>1, <1>8, StepFiles DEF Truncate, WriteSetting, RefreshHistory
  <2> QED
    BY <1>6, <2>1 DEF GapsBounded
<1> QED
  BY <1>7, <1>8

LEMMA StepPlacesSeparators ==
    ASSUME IInv, EmptiedByRefresh,
           NEW k \in Kernels, Command(k) \/ Step(k) \/ Server(k) \/ Crash(k)
    PROVE  EmptiedByRefresh'
<1>1. /\ history \in [Providers -> Seq(Elements)] /\ job[k] \in Jobs
      /\ job \in [Kernels -> Jobs] /\ pc \in [Kernels -> PC]
      /\ \A l \in Kernels : pc[l] \notin {"idle", "done"} => job[l].provider \in Providers
      /\ refreshes \in Nat
  BY BoundsAssumption DEF IInv, FilesOK, JobsOK, CountersOK
<1>2. /\ pc'[k] = "append" => Look(k) \/ LookFails(k)
      /\ \A l \in Kernels \ {k} : pc'[l] = pc[l] /\ job'[l] = job[l]
  BY StepLooks
<1>3. CASE \E p \in Providers : Refresh(k, p)
  <2>1. /\ refreshes' = refreshes + 1 /\ history' = history
    BY <1>3 DEF Refresh
  <2>2. refreshes' > 0
    BY <1>1, <2>1
  <2> QED
    BY <2>1, <2>2 DEF EmptiedByRefresh, SeparatorsPlaced
<1>4. CASE \A p \in Providers : ~ Refresh(k, p)
  <2>1. refreshes' = refreshes /\ pc'[k] # "refresh"
    BY <1>1, <1>4
       DEF Command, Step, Server, UnknownModel, Save, Chat, Truncate, OpenFails,
           WriteSetting, RefreshHistory, LoadKey, LoadUrl, LoadModel, Load, CheckUrl, Look,
           LookFails, AppendEntry, AppendFails, AfterHistory, ReadBack, ReadBackFails,
           Post, Return, Response, NoResponse, Crash, counters, Goto
  <2>2. \A p \in Providers : history'[p] = << >> => refreshes > 0 \/ history[p] = << >>
    <3>1. CASE RefreshHistory(k)
      BY <3>1 DEF RefreshHistory, EmptiedByRefresh
    <3>2. CASE AppendEntry(k)
      <4>0. PICK q \in Providers : q = job[k].provider
        BY <1>1, <3>2 DEF AppendEntry
      <4>1. /\ history'[q] = history[q] \o Entry(job[k])
            /\ \A p \in Providers \ {q} : history'[p] = history[p]
        BY <1>1, <3>2, <4>0 DEF AppendEntry
      <4>2. history[q] \o Entry(job[k]) # << >>
        <5>1. history[q] \in Seq(Elements)
          BY <1>1
        <5>2. /\ Len(history[q]) \in Nat
              /\ Len(history[q] \o Entry(job[k])) =
                    IF job[k].empty THEN Len(history[q]) + 1 ELSE Len(history[q]) + 2
          BY <1>1, <5>1, EntryTurns
        <5>3. Len(history[q] \o Entry(job[k])) # Len(<< >>)
          BY <5>2
        <5> QED
          BY <5>3
      <4> QED
        BY <4>1, <4>2
    <3> QED
      BY <3>1, <3>2, StepFiles DEF Truncate, WriteSetting
  <2>3. \A l \in Kernels :
            /\ pc'[l] = "refresh" => refreshes' > 0
            /\ pc'[l] = "append" /\ ~ job'[l].empty =>
                  refreshes' > 0 \/ history'[job'[l].provider] # << >>
    <3> SUFFICES ASSUME NEW l \in Kernels
                 PROVE  /\ pc'[l] = "refresh" => refreshes' > 0
                        /\ pc'[l] = "append" /\ ~ job'[l].empty =>
                              refreshes' > 0 \/ history'[job'[l].provider] # << >>
      OBVIOUS
    <3>1. CASE l # k
      <4>1. pc'[l] = pc[l] /\ job'[l] = job[l]
        BY <1>2, <3>1
      <4>2. pc[l] = "append" => job[l].provider \in Providers
        BY <1>1
      <4> QED
        BY <2>1, <2>2, <4>1, <4>2 DEF EmptiedByRefresh
    <3>2. CASE l = k /\ Look(k)
      <4>1. /\ job'[k].empty = (history[job[k].provider] = << >>)
            /\ job'[k].provider = job[k].provider
            /\ history' = history
        BY <1>1, <3>2 DEF Look, IsFileEmpty, Jobs
      <4> QED
        BY <2>1, <3>2, <4>1
    <3>3. CASE l = k /\ LookFails(k)
      <4>1. job'[k].empty
        BY <1>1, <3>3 DEF LookFails, Jobs
      <4> QED
        BY <2>1, <3>3, <4>1
    <3> QED
      BY <1>2, <2>1, <3>1, <3>2, <3>3
  <2>4. \A p \in Providers : SeparatorsPlaced(history[p])'
    <3>1. CASE AppendEntry(k)
      <4>0. PICK q \in Providers : q = job[k].provider
        BY <1>1, <3>1 DEF AppendEntry
      <4>1. /\ history'[q] = history[q] \o Entry(job[k])
            /\ \A p \in Providers \ {q} : history'[p] = history[p]
        BY <1>1, <3>1, <4>0 DEF AppendEntry
      <4> DEFINE h == history[q]
                 g == h \o Entry(job[k])
                 n == Len(h)
      <4>2. /\ n \in Nat /\ (h = << >> <=> n = 0)
            /\ Len(g) = IF job[k].empty THEN n + 1 ELSE n + 2
            /\ g[Len(g)] = Turn(job[k])
            /\ ~ job[k].empty => g[n + 1] = Separator
            /\ \A i \in 1..n : g[i] = h[i]
        BY <1>1, <4>1, EntryTurns
      <4>3. Turn(job[k]) # Separator
        BY <1>1, TurnForm
      <4>4. \A i \in 1..n : h[i] = Separator =>
                (i = 1 => refreshes > 0) /\ i # n /\ h[i + 1] # Separator
        BY <4>1 DEF EmptiedByRefresh, SeparatorsPlaced
      <4>5. ~ job[k].empty => refreshes > 0 \/ n # 0
        BY <3>1, <4>0, <4>2 DEF AppendEntry, EmptiedByRefresh
      <4> HIDE DEF h, g, n
      <4>6. ASSUME NEW i \in 1..Len(g), g[i] = Separator
            PROVE  (i = 1 => refreshes > 0) /\ i # Len(g) /\ g[i + 1] # Separator
        <5>1. CASE i <= n
          BY <4>2, <4>4, <4>6, <5>1
        <5>2. CASE i = n + 1
          BY <4>2, <4>3, <4>5, <4>6, <5>2
        <5>3. CASE i = n + 2
          BY <4>2, <4>3, <4>6, <5>3
        <5> QED
          BY <4>2, <4>6, <5>1, <5>2, <5>3
      <4>7. history'[q] = g
        BY <4>1 DEF g, h
      <4>8. SeparatorsPlaced(history[q])'
        BY <2>1, <4>6, <4>7 DEF SeparatorsPlaced
      <4>9. \A p \in Providers \ {q} : SeparatorsPlaced(history[p])'
        BY <2>1, <4>1 DEF SeparatorsPlaced, EmptiedByRefresh
      <4> QED
        BY <4>8, <4>9
    <3>2. CASE ~ AppendEntry(k)
      <4>1. \A p \in Providers : history'[p] = << >> \/ history'[p] = history[p]
        BY <1>1, <3>2, StepFiles DEF Truncate, WriteSetting, RefreshHistory
      <4> QED
        BY <2>1, <4>1 DEF SeparatorsPlaced, EmptiedByRefresh
    <3> QED
      BY <3>1, <3>2
  <2> QED
    BY <2>3, <2>4 DEF EmptiedByRefresh
<1> QED
  BY <1>3, <1>4

\* For any number of kernels that chat, refresh, fail and die: each of them but one may
\* leave out one separator of a history, in the race of the look with the append, and a
\* superfluous separator stands only at the beginning of a history that was refreshed
\* (append_and_read_back, refresh).
THEOREM RacesBounded ==
    IsFiniteSet(Kernels) /\ Kernels # {} => (Spec => []SeparatorsKept)
<1> SUFFICES ASSUME IsFiniteSet(Kernels), Kernels # {} PROVE Spec => []SeparatorsKept
  OBVIOUS
<1>1. Init => GapsBounded /\ EmptiedByRefresh
  <2> SUFFICES ASSUME Init PROVE GapsBounded /\ EmptiedByRefresh
    OBVIOUS
  <2>1. EarlierTurn # Separator
    BY DEF EarlierTurn, Separator
  <2>2. \A p \in Providers : history[p] \in {<< >>, <<EarlierTurn>>}
    BY DEF Init
  <2>3. \A p \in Providers : Gaps(history[p], unseen) = {} /\ Rash(p) = {}
    BY <2>2 DEF Gaps, Rash, Init
  <2>4. Cardinality(Kernels) \in Nat /\ Cardinality(Kernels) # 0
    BY FS_EmptySet, FS_CardinalityType
  <2>5. Cardinality({}) = 0
    BY FS_EmptySet
  <2>6. GapsBounded
    <3>1. 0 + 0 < Cardinality(Kernels)
      BY <2>4
    <3> QED
      BY <2>3, <2>5, <3>1 DEF GapsBounded
  <2>7. \A p \in Providers : SeparatorsPlaced(history[p])
    BY <2>1, <2>2 DEF SeparatorsPlaced
  <2> QED
    BY <2>6, <2>7 DEF EmptiedByRefresh, Init
<1>2. IInv /\ GapsBounded /\ EmptiedByRefresh /\ [Next]_vars
          => GapsBounded' /\ EmptiedByRefresh'
  <2> SUFFICES ASSUME IInv, GapsBounded, EmptiedByRefresh, [Next]_vars
               PROVE  GapsBounded' /\ EmptiedByRefresh'
    OBVIOUS
  <2>1. CASE Next
    BY <2>1, StepBoundsGaps, StepPlacesSeparators DEF Next
  <2>2. CASE UNCHANGED vars
    BY <2>2 DEF vars, counters, GapsBounded, Gaps, Rash, EmptiedByRefresh, SeparatorsPlaced
  <2> QED
    BY <2>1, <2>2
<1>3. IInv /\ GapsBounded /\ EmptiedByRefresh => SeparatorsKept
  <2> SUFFICES ASSUME IInv, GapsBounded, EmptiedByRefresh, NEW p \in Providers
               PROVE  /\ Cardinality(Missing(p)) < Cardinality(Kernels)
                      /\ SeparatorsPlaced(history[p])
    BY DEF SeparatorsKept, SeparatorsPlaced
  <2>1. Missing(p) = Gaps(history[p], unseen)
    BY DEF Missing, Gaps
  <2>2. history[p] \in Seq(Elements)
    BY DEF IInv, FilesOK
  <2>3. /\ Cardinality(Kernels) \in Nat /\ Cardinality(Kernels) # 0
        /\ Cardinality(Gaps(history[p], unseen)) \in Nat
    BY <2>2, GapsFinite, FS_EmptySet, FS_CardinalityType
  <2>4. Cardinality(Rash(p)) \in Nat
    <3>1. Rash(p) \subseteq Kernels
      BY DEF Rash
    <3> QED
      BY <3>1, FewerIsLess
  <2>5. CASE history[p] = << >>
    <3>1. Gaps(history[p], unseen) = {}
      BY <2>5 DEF Gaps
    <3> QED
      BY <2>1, <2>3, <3>1, FS_EmptySet DEF EmptiedByRefresh
  <2>6. CASE history[p] # << >>
    BY <2>1, <2>3, <2>4, <2>6 DEF GapsBounded, EmptiedByRefresh
  <2> QED
    BY <2>5, <2>6
<1> QED
  BY <1>1, <1>2, <1>3, Invariance, PTL DEF Spec
=============================================================================
