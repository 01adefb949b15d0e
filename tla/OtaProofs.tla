----------------------------- MODULE OtaProofs ------------------------------
(***************************************************************************)
(* What holds of the updates for any number of sessions and chunks: the    *)
(* type invariant, FlagHasOwner, AloneMeansWhole, StreamsReturn and        *)
(* SuccessPending.                                                         *)
(***************************************************************************)
EXTENDS Ota, SequenceTheorems, TLAPS

Events == ({"ota"} \X Downloads) \cup ({"completed"} \X Results)

(* TypeOK, with the type of the events and the chunk a write has left, in  *)
(* four parts: the progress of the sessions, ota_ctx with the flash,       *)
(* ipcam_task with its queue, and the ghosts. Only a download spawns.      *)
ProgressType ==
    /\ type \in [Sessions -> Types]
    /\ pc \in [Sessions -> Pcs]
    /\ sent \in [Sessions -> 0..Chunks]
    /\ result \in [Sessions -> Results]
    /\ met \subseteq Sessions
    /\ \A s \in Sessions : pc[s] \in {"begin", "write"} => sent[s] < Chunks
    /\ \A s \in Sessions : pc[s] \in {"spawning", "noTask"} => s \in Downloads

Handle == [type : Types, part : Parts, n : 0..Chunks, live : BOOLEAN]
Context == [in_progress : BOOLEAN, ops : Types,
            bytes : Nat, handle : Sessions \cup {None}]
UpdateType ==
    /\ ctx \in Context
    /\ handles \in [Sessions -> Handle]
    /\ arg \in [Sessions -> [ops : Types, handle : Sessions \cup {None}]]
    /\ flash \in [Parts -> [1..Chunks -> Cells]]
    /\ active \in {"fs_0", "fs_1"}
    /\ boot \in BOOLEAN
    /\ \A s \in Sessions :
          handles[s].live /\ handles[s].type = "config" => handles[s].part # "app"

AppType ==
    /\ timers \subseteq Web
    /\ events \in Seq(Events) /\ Len(events) <= QueueLen
    /\ ipcam \in Downloads \cup {None}
    /\ hung \in BOOLEAN
    /\ streaming \in BOOLEAN
    /\ up \in BOOLEAN

GhostType ==
    /\ owner \in Sessions \cup {None}
    /\ beside \in [Sessions -> Sessions \cup {None}]
    /\ stopper \in Downloads \cup {None}

TypeInv == ProgressType /\ UpdateType /\ AppType /\ GhostType

(* A request is in the queue at most once, and only while it is queued.    *)
QueuedOnce ==
    /\ \A i \in DOMAIN events :
          events[i][1] = "ota" => pc[events[i][2]] = "queued"
    /\ \A i, j \in DOMAIN events :
          events[i][1] = "ota" /\ events[i] = events[j] => i = j

(* A session has an outcome once it reports, and none before.              *)
Outcomes ==
    \A s \in Sessions :
        /\ pc[s] = "report" => result[s] \in {"SUCCESS", "NO_CHANGE", "FAILED"}
        /\ pc[s] \notin {"report", "done"} => result[s] = "none"

(* FlagHasOwner, with a session for the owner.                             *)
FlagInv ==
    ctx.in_progress => owner \in Sessions /\ (Open(owner) \/ pc[owner] = "noTask")

(* Two sessions that are under way or have succeeded have met.             *)
Involved(s) == Busy(s) \/ result[s] = "SUCCESS"
Meetings ==
    \A s, t \in Sessions :
        s # t /\ Involved(s) /\ Involved(t) => s \in met /\ t \in met

(* The session's own handle writes the partition of its type; nothing but  *)
(* its own chunks is there, and each is in its place while none failed.    *)
Area(s) == flash[handles[s].part]
Filling(s) ==
    /\ handles[s].type = type[s]
    /\ type[s] = "firmware" => handles[s].part = "app"
    /\ \A i \in 1..Chunks : Area(s)[i] = None \/ Area(s)[i][1] = s
    /\ handles[s].n <= sent[s]
    /\ handles[s].n = sent[s] => \A i \in 1..sent[s] : Area(s)[i] = <<s, i>>

Installed(s) == IF type[s] = "config" THEN flash[active] = Image(s)
                                      ELSE boot /\ flash["app"] = Image(s)

(* What is true of a session beside which no other was opened.             *)
Going(s) == pc[s] \in {"spawning", "recv", "begin", "write", "close", "closing"}
Alone(s) ==
    /\ pc[s] = "marking" \/ Open(s) \/ Going(s) => ctx.ops = type[s]
    /\ Open(s) => ctx.in_progress
    /\ pc[s] = "write" \/ (Going(s) /\ ctx.bytes > 0) => ctx.handle = s /\ Filling(s)
    /\ pc[s] = "ending" =>
          /\ arg[s] = [ops |-> type[s], handle |-> s]
          /\ Filling(s)
    /\ result[s] = "SUCCESS" => Installed(s)
AloneInv == \A s \in Sessions \ met : Involved(s) => Alone(s)

(* While the capture is stopped, or ipcam_task is about to stop it, either *)
(* a completion is on its way to ipcam_task, or the download it stopped    *)
(* for has its completion to post yet, or it was refused beside a web      *)
(* upload or a download of which this can be said.                         *)
Owes(d) == d \in Downloads /\ (Busy(d) \/ pc[d] = "noTask")
Posted == \E i \in DOMAIN events : events[i][1] = "completed"
RefusedBeside(d) == /\ result[d] = "IN_PROGRESS"
                    /\ beside[d] \in Web \/ Owes(beside[d])
Returning(d) == d \in Downloads /\ (Posted \/ Owes(d) \/ RefusedBeside(d))
StreamsInv == up => /\ ~streaming => Returning(stopper)
                    /\ ipcam # None => Returning(ipcam)

-----------------------------------------------------------------------------
(* The steps, one by one.                                                  *)
Step(s) == \/ WebOpen(s) /\ s \in Web
           \/ ResetTimer(s) /\ s \in Web
           \/ MqttRequest(s) /\ s \in Downloads
           \/ OtaOnMqtt(s) /\ s \in Downloads
           \/ OpenOps(s) \/ OpenFlag(s) \/ OpenBytes(s)
           \/ SpawnTask(s) \/ SpawnFails(s)
           \/ EndOfData(s)
           \/ OtaWrite(s) \/ Begin(s) \/ BeginFails(s)
           \/ Write(s) \/ WriteFails(s) \/ WildHandle(s)
           \/ CloseClear(s) \/ CloseRead(s) \/ End(s) \/ EndFails(s)
           \/ WebReport(s)
           \/ \E status \in BOOLEAN : DownloadReport(s, status)

(* Every step is one of a session, or one that concerns no session:        *)
(* ipcam_task stops or starts the capture, or another part's event hangs   *)
(* it.                                                                     *)
Apart == StopStreams \/ OtaOnCompleted \/ OtherHangs

LEMMA Steps ==
    ASSUME Next
    PROVE  (\E s \in Sessions : Step(s)) \/ Apart
BY DEF Next, Step, OpenStep, SpawnStep, WriteStep, CloseStep, Report, IpcamTask,
       Sessions, Apart

(* Taking an event off the queue, or putting one on it, leaves a queue.    *)
LEMMA Taking ==
    ASSUME NEW q \in Seq(Events), Len(q) <= QueueLen, q # <<>>
    PROVE  /\ Tail(q) \in Seq(Events)
           /\ Len(Tail(q)) <= QueueLen
           /\ Head(q) \in Events
<1>1. /\ Tail(q) \in Seq(Events) /\ Len(Tail(q)) = Len(q) - 1
      /\ Head(q) \in Events /\ Len(q) \in Nat
  BY HeadTailProperties, LenProperties
<1> QED
  BY <1>1, OtaAssumption

LEMMA Putting ==
    ASSUME NEW q \in Seq(Events), Len(q) < QueueLen, NEW e \in Events
    PROVE  Append(q, e) \in Seq(Events) /\ Len(Append(q, e)) <= QueueLen
<1>1. /\ Append(q, e) \in Seq(Events) /\ Len(Append(q, e)) = Len(q) + 1
      /\ Len(q) \in Nat
  BY AppendProperties, LenProperties
<1> QED
  BY <1>1, OtaAssumption

LEMMA TailAt ==
    ASSUME NEW q \in Seq(Events), q # <<>>
    PROVE  /\ DOMAIN q = 1..Len(q) /\ DOMAIN Tail(q) = 1..Len(q) - 1
           /\ q[1] = Head(q)
           /\ \A i \in 1..Len(q) - 1 : Tail(q)[i] = q[i + 1]
           /\ Len(q) \in Nat \ {0}
BY HeadTailProperties, LenProperties

LEMMA AppendAt ==
    ASSUME NEW q \in Seq(Events), NEW e \in Events
    PROVE  /\ DOMAIN q = 1..Len(q) /\ DOMAIN Append(q, e) = 1..Len(q) + 1
           /\ Append(q, e)[Len(q) + 1] = e
           /\ \A i \in 1..Len(q) : Append(q, e)[i] = q[i]
           /\ Len(q) \in Nat
BY AppendProperties, LenProperties

(* A handle that counts a chunk, or is freed, is the handle of the same.   *)
Same(g, h) == /\ g.type = h.type
              /\ g.part = h.part
              /\ g.live => h.live

LEMMA Counting ==
    ASSUME NEW hs \in [Sessions -> Handle], NEW t \in Sessions, hs[t].n < Chunks
    PROVE  /\ [hs EXCEPT ![t].n = @ + 1] \in [Sessions -> Handle]
           /\ \A u \in Sessions : Same([hs EXCEPT ![t].n = @ + 1][u], hs[u])
<1>1. hs[t].n + 1 \in 0..Chunks
  BY OtaAssumption DEF Handle
<1>2. [hs[t] EXCEPT !.n = hs[t].n + 1] \in Handle
  BY <1>1 DEF Handle
<1>3. [hs EXCEPT ![t].n = @ + 1] = [hs EXCEPT ![t] = [hs[t] EXCEPT !.n = hs[t].n + 1]]
  OBVIOUS
<1> QED
  BY <1>2, <1>3 DEF Handle, Same

LEMMA Freeing ==
    ASSUME NEW hs \in [Sessions -> Handle], NEW t \in Sessions
    PROVE  /\ [hs EXCEPT ![t].live = FALSE] \in [Sessions -> Handle]
           /\ \A u \in Sessions : /\ Same([hs EXCEPT ![t].live = FALSE][u], hs[u])
                                  /\ [hs EXCEPT ![t].live = FALSE][u].n = hs[u].n
<1>1. [hs[t] EXCEPT !.live = FALSE] \in Handle
  BY DEF Handle
<1>2. [hs EXCEPT ![t].live = FALSE] = [hs EXCEPT ![t] = [hs[t] EXCEPT !.live = FALSE]]
  OBVIOUS
<1> QED
  BY <1>1, <1>2 DEF Handle, Same

-----------------------------------------------------------------------------
(* Type correctness                                                        *)
LEMMA InitType == ASSUME Init PROVE TypeInv
<1>1. ProgressType
  BY OtaAssumption DEF Init, ProgressType, Pcs, Results
<1>2. Erased \in [1..Chunks -> Cells] /\ NoHandle \in Handle
  BY OtaAssumption DEF Erased, Cells, NoHandle, Handle, Types, Parts
<1>3. UpdateType
  BY <1>2, OtaAssumption DEF Init, UpdateType, Context, Types, NoHandle
<1>4. <<>> \in Seq(Events) /\ Len(<<>>) = 0
  BY EmptySeq
<1>7. hung \in BOOLEAN /\ streaming \in BOOLEAN /\ up \in BOOLEAN
  BY DEF Init
<1>8. Len(events) <= QueueLen
  BY <1>4, OtaAssumption DEF Init
<1>5. AppType
  BY <1>4, <1>7, <1>8 DEF Init, AppType
<1>6. GhostType
  BY DEF Init, GhostType
<1> QED
  BY <1>1, <1>3, <1>5, <1>6 DEF TypeInv

LEMMA TypeInvTypeOK == ASSUME TypeInv PROVE TypeOK
BY DEF TypeInv, TypeOK, ProgressType, UpdateType, Context, AppType, Handle, GhostType

(* An action that concerns one part leaves the type of the others.         *)
LEMMA ProgressStep ==
    ASSUME TypeInv, NEW s \in Sessions, Step(s)
    PROVE  ProgressType'
<1> USE OtaAssumption DEF TypeInv, ProgressType, Goto, Sessions, Pcs, ghosts
<1>1. CASE UNCHANGED <<type, pc, sent, result, met>>
  BY <1>1
<1>2. CASE WebOpen(s)
  BY <1>2 DEF WebOpen, OpenCheck, Refuse, Admit, Meet, Results
<1>3. CASE MqttRequest(s)
  BY <1>3 DEF MqttRequest
<1>4. CASE OtaOnMqtt(s)
  BY <1>4 DEF OtaOnMqtt, OpenCheck, Refuse, Admit, Meet, Results
<1>5. CASE OpenOps(s) \/ OpenFlag(s) \/ OpenBytes(s)
  BY <1>5 DEF OpenOps, OpenFlag, OpenBytes
<1>13. CASE SpawnTask(s) \/ SpawnFails(s) \/ EndOfData(s)
  BY <1>13 DEF SpawnTask, SpawnFails, EndOfData
<1>6. CASE OtaWrite(s)
  BY <1>6 DEF OtaWrite, AfterWrite
<1>7. CASE Begin(s) \/ BeginFails(s)
  BY <1>7 DEF Begin, BeginFails, AfterWrite
<1>8. CASE Write(s) \/ WriteFails(s)
  <2>1. CASE Write(s)
    BY <2>1 DEF Write, AfterWrite
  <2>2. CASE WriteFails(s)
    BY <2>2 DEF WriteFails, AfterWrite
  <2> QED
    BY <1>8, <2>1, <2>2
<1>9. CASE CloseClear(s) \/ CloseRead(s)
  BY <1>9 DEF CloseClear, CloseRead, Conclude, Results
<1>10. CASE End(s) \/ EndFails(s)
  BY <1>10 DEF End, EndConfig, EndFirmware, EndFails, Conclude, Results
<1>11. CASE WebReport(s)
  BY <1>11 DEF WebReport
<1>12. CASE \E status \in BOOLEAN : DownloadReport(s, status)
  BY <1>12 DEF DownloadReport, Results
<1> QED
  BY <1>1, <1>2, <1>3, <1>4, <1>5, <1>6, <1>7, <1>8, <1>9, <1>10, <1>11, <1>12,
     <1>13 DEF Step, ResetTimer, WildHandle, ghosts

LEMMA UpdateStep ==
    ASSUME TypeInv, NEW s \in Sessions, Step(s)
    PROVE  UpdateType'
<1> USE OtaAssumption DEF TypeInv
<1>1. CASE UNCHANGED otaVars
  BY <1>1 DEF otaVars, UpdateType
<1>2. CASE OpenOps(s) \/ OpenFlag(s) \/ OpenBytes(s)
  <2>1. /\ \/ ctx' = [ctx EXCEPT !.ops = type[s]]
           \/ ctx' = [ctx EXCEPT !.in_progress = TRUE]
           \/ ctx' = [ctx EXCEPT !.bytes = 0]
        /\ UNCHANGED <<handles, arg, flash, active, boot>>
    BY <1>2 DEF OpenOps, OpenFlag, OpenBytes
  <2>2. ctx \in Context /\ type[s] \in Types
    BY DEF ProgressType, UpdateType
  <2>3. ctx' \in Context
    <3>1. CASE ctx' = [ctx EXCEPT !.ops = type[s]]
      BY <2>2, <3>1 DEF Context
    <3>2. CASE ctx' = [ctx EXCEPT !.in_progress = TRUE]
      BY <2>2, <3>2 DEF Context
    <3>3. CASE ctx' = [ctx EXCEPT !.bytes = 0]
      BY <2>2, <3>3 DEF Context
    <3> QED
      BY <2>1, <3>1, <3>2, <3>3
  <2> QED
    BY <2>1, <2>3 DEF UpdateType
<1>3. CASE Begin(s)
  <2>1. Target(ctx.ops) \in Parts /\ Erased \in [1..Chunks -> Cells]
    BY DEF UpdateType, Target, Parts, Types, Erased, Cells
  <2>2. handles' \in [Sessions -> Handle]
    BY <1>3, <2>1 DEF Begin, UpdateType, Context, Handle
  <2>3. flash' \in [Parts -> [1..Chunks -> Cells]]
    BY <1>3, <2>1 DEF Begin, UpdateType
  <2>4. ctx' \in Context
    BY <1>3 DEF Begin, UpdateType, Context
  <2>5. \A t \in Sessions :
           handles'[t].live /\ handles'[t].type = "config" => handles'[t].part # "app"
    BY <1>3 DEF Begin, Target, UpdateType, Handle
  <2> QED
    BY <1>3, <2>2, <2>3, <2>4, <2>5 DEF Begin, UpdateType
<1>4. CASE Write(s)
  <2>1. /\ ctx.handle \in Sessions
        /\ handles \in [Sessions -> Handle]
        /\ handles[ctx.handle].n < Chunks
    BY <1>4 DEF Write, Usable, UpdateType, Context
  <2>2. handles[ctx.handle].n + 1 \in 1..Chunks /\ handles[ctx.handle].part \in Parts
    BY <2>1 DEF Handle
  <2>3. <<s, sent[s] + 1>> \in Cells
    BY <1>4 DEF Write, Cells, ProgressType
  <2>4. flash' = [flash EXCEPT ![handles[ctx.handle].part]
                                [handles[ctx.handle].n + 1] = <<s, sent[s] + 1>>]
    BY <1>4 DEF Write
  <2>5. flash' \in [Parts -> [1..Chunks -> Cells]]
    BY <2>2, <2>3, <2>4 DEF UpdateType
  <2>6. handles' = [handles EXCEPT ![ctx.handle].n = @ + 1]
    BY <1>4 DEF Write
  <2>7. /\ handles' \in [Sessions -> Handle]
        /\ \A t \in Sessions : Same(handles'[t], handles[t])
    BY <2>1, <2>6, Counting
  <2>8. ctx' = [ctx EXCEPT !.bytes = @ + 1]
    BY <1>4 DEF Write
  <2>14. ctx \in Context
    BY DEF UpdateType
  <2>9. ctx' \in Context
    BY <2>8, <2>14 DEF Context
  <2>10. UNCHANGED <<arg, active, boot>>
    BY <1>4 DEF Write
  <2>11. \A t \in Sessions :
            handles'[t].live /\ handles'[t].type = "config" => handles'[t].part # "app"
    BY <2>7 DEF UpdateType, Same
  <2>12. arg' \in [Sessions -> [ops : Types, handle : Sessions \cup {None}]]
    BY <2>10 DEF UpdateType
  <2>13. active' \in {"fs_0", "fs_1"} /\ boot' \in BOOLEAN
    BY <2>10 DEF UpdateType
  <2> QED
    BY <2>5, <2>7, <2>9, <2>11, <2>12, <2>13 DEF UpdateType
<1>5. CASE WriteFails(s)
  <2>1. CASE UNCHANGED handles
    BY <1>5, <2>1 DEF WriteFails, UpdateType
  <2>2. CASE Usable(ctx.ops, ctx.handle) /\ Freed(ctx.handle)
    <3>1. ctx.handle \in Sessions /\ handles \in [Sessions -> Handle]
      BY <2>2 DEF Usable, UpdateType, Context
    <3>2. /\ handles' \in [Sessions -> Handle]
          /\ \A t \in Sessions : Same(handles'[t], handles[t])
      BY <2>2, <3>1, Freeing DEF Freed
    <3> QED
      BY <1>5, <3>2 DEF WriteFails, UpdateType, Same
  <2> QED
    BY <1>5, <2>1, <2>2 DEF WriteFails, Freed
<1>6. CASE CloseClear(s)
  BY <1>6 DEF CloseClear, UpdateType, Context
<1>7. CASE CloseRead(s)
  <2>1. [ops |-> ctx.ops, handle |-> ctx.handle]
           \in [ops : Types, handle : Sessions \cup {None}]
    BY DEF UpdateType, Context
  <2>2. arg' \in [Sessions -> [ops : Types, handle : Sessions \cup {None}]]
    BY <1>7, <2>1 DEF CloseRead, UpdateType
  <2> QED
    BY <1>7, <2>2 DEF CloseRead, UpdateType
<1>8. CASE /\ Usable(arg[s].ops, arg[s].handle)
           /\ Freed(arg[s].handle)
           /\ \/ active' = active
              \/ /\ arg[s].ops = "config"
                 /\ active' = handles[arg[s].handle].part
           /\ boot' \in BOOLEAN
           /\ UNCHANGED <<ctx, arg, flash>>
  <2>1. arg[s].handle \in Sessions /\ handles \in [Sessions -> Handle]
    BY <1>8 DEF Usable, UpdateType
  <2>2. /\ handles' \in [Sessions -> Handle]
        /\ \A t \in Sessions : Same(handles'[t], handles[t])
    BY <1>8, <2>1, Freeing DEF Freed
  <2>3. active' \in {"fs_0", "fs_1"}
    BY <1>8, <2>1 DEF Usable, UpdateType, Handle, Parts
  <2> QED
    BY <1>8, <2>2, <2>3 DEF UpdateType, Same
<1>9. CASE End(s)
  <2>1. boot' \in BOOLEAN
    BY <1>9 DEF End, EndConfig, EndFirmware, UpdateType
  <2> QED
    BY <1>8, <1>9, <2>1 DEF End, EndConfig, EndFirmware
<1>10. CASE EndFails(s)
  <2>1. boot' \in BOOLEAN
    BY <1>10 DEF EndFails, UpdateType
  <2> QED
    BY <1>1, <1>8, <1>10, <2>1 DEF EndFails, otaVars
<1> QED
  BY <1>1, <1>2, <1>3, <1>4, <1>5, <1>6, <1>7, <1>9, <1>10
     DEF Step, WebOpen, ResetTimer, MqttRequest, OtaOnMqtt, OpenCheck, SpawnTask,
         SpawnFails, EndOfData, OtaWrite, BeginFails, WildHandle, WebReport,
         DownloadReport

LEMMA AppStep ==
    ASSUME TypeInv, NEW s \in Sessions, Step(s)
    PROVE  AppType'
<1> USE OtaAssumption DEF TypeInv, AppType
<1>1. CASE UNCHANGED appVars
  BY <1>1 DEF appVars
<1>2. CASE ResetTimer(s)
  BY <1>2, <<"completed", "SUCCESS">> \in Events, Putting
     DEF ResetTimer, Post, Events, Results
<1>3. CASE MqttRequest(s) /\ s \in Downloads
  BY <1>3, <<"ota", s>> \in Events, Putting DEF MqttRequest, Post, Events
<1>4. CASE OtaOnMqtt(s) /\ s \in Downloads
  BY <1>4, Taking DEF OtaOnMqtt, Takes
<1>5. CASE WildHandle(s)
  BY <1>5 DEF WildHandle, Restart
<1>6. CASE WebReport(s)
  BY <1>6 DEF WebReport
<1>7. ASSUME NEW status \in BOOLEAN, DownloadReport(s, status)
      PROVE  AppType'
  <2>1. result[s] \in Results
    BY DEF ProgressType
  <2>2. PICK r \in Results : Post(<<"completed", r>>)
    BY <1>7, <2>1 DEF DownloadReport, Results
  <2>3. <<"completed", r>> \in Events
    BY DEF Events
  <2> QED
    BY <1>7, <2>2, <2>3, Putting DEF DownloadReport, Post
<1> QED
  BY <1>1, <1>2, <1>3, <1>4, <1>5, <1>6, <1>7
     DEF Step, WebOpen, OpenOps, OpenFlag, OpenBytes, SpawnTask, SpawnFails, EndOfData,
         OtaWrite, Begin, BeginFails, Write, WriteFails, CloseClear, CloseRead, End,
         EndFails

(* The ghosts: a refused session is beside the one that set the flag.      *)
LEMMA GhostStep ==
    ASSUME TypeInv, NEW s \in Sessions, Step(s)
    PROVE  GhostType'
<1> USE DEF TypeInv, GhostType
<1>1. CASE UNCHANGED <<owner, beside, stopper>>
  BY <1>1
<1>2. CASE WebOpen(s) \/ OtaOnMqtt(s)
  BY <1>2 DEF WebOpen, OtaOnMqtt, OpenCheck, Refuse, Admit
<1>3. CASE OpenFlag(s)
  BY <1>3 DEF OpenFlag
<1> QED
  BY <1>1, <1>2, <1>3
     DEF Step, ResetTimer, MqttRequest, OpenOps, OpenBytes, SpawnTask, SpawnFails,
         EndOfData, OtaWrite, Begin, BeginFails, Write, WriteFails, WildHandle,
         CloseClear, CloseRead, End, EndFails, WebReport, DownloadReport, ghosts

(* What no step apart from the sessions touches.                           *)
sessionVars == <<type, otaVars, pc, sent, result, met, owner, beside>>

LEMMA ApartStep == ASSUME Apart PROVE UNCHANGED sessionVars
BY DEF Apart, StopStreams, OtaOnCompleted, OtherHangs, sessionVars, ghosts

LEMMA NextType == ASSUME TypeInv, [Next]_vars PROVE TypeInv'
<1>1. CASE \E s \in Sessions : Step(s)
  BY <1>1, ProgressStep, UpdateStep, AppStep, GhostStep DEF TypeInv
<1>2. CASE Apart
  <2>1. ProgressType' /\ UpdateType'
    BY <1>2, ApartStep DEF sessionVars, otaVars, TypeInv, ProgressType, UpdateType
  <2>2. GhostType'
    BY <1>2, ApartStep
       DEF Apart, StopStreams, OtaOnCompleted, OtherHangs, ghosts,
           sessionVars, TypeInv, GhostType, AppType
  <2>3. hung' \in BOOLEAN /\ streaming' \in BOOLEAN /\ up' \in BOOLEAN
    BY <1>2
       DEF Apart, StopStreams, OtaOnCompleted, OtherHangs, Restart,
           TypeInv, AppType
  <2>4. timers' = timers /\ (ipcam' = ipcam \/ ipcam' = None)
    BY <1>2 DEF Apart, StopStreams, OtaOnCompleted, OtherHangs
  <2>6. events' \in Seq(Events) /\ Len(events') <= QueueLen
    <3>1. events \in Seq(Events) /\ Len(events) <= QueueLen
      BY DEF TypeInv, AppType
    <3>2. CASE StopStreams \/ OtherHangs
      BY <3>1, <3>2 DEF StopStreams, OtherHangs
    <3>3. CASE OtaOnCompleted
      BY <3>1, <3>3, Taking DEF OtaOnCompleted, Takes
    <3> QED
      BY <1>2, <3>2, <3>3 DEF Apart
  <2>7. AppType'
    BY <2>3, <2>4, <2>6 DEF TypeInv, AppType
  <2> QED
    BY <2>1, <2>2, <2>7 DEF TypeInv
<1>3. CASE UNCHANGED vars
  BY <1>3 DEF vars, TypeInv, ProgressType, UpdateType, AppType, GhostType, otaVars,
     appVars, ghosts
<1> QED
  BY <1>1, <1>2, <1>3, Steps

(* Every variable keeps its type, and an update never writes past its      *)
(* partition or loses an event of event_queue.                             *)
THEOREM TypeCorrect == Spec => []TypeOK
<1>1. Init => TypeInv
  BY InitType
<1>2. TypeInv /\ [Next]_vars => TypeInv'
  BY NextType
<1>3. TypeInv => TypeOK
  BY TypeInvTypeOK
<1> QED
  BY <1>1, <1>2, <1>3, PTL DEF Spec

-----------------------------------------------------------------------------
(* A step of one session leaves the others where they are.                 *)
LEMMA Elsewhere ==
    ASSUME TypeInv, NEW s \in Sessions, Step(s), NEW t \in Sessions, t # s
    PROVE  /\ pc'[t] = pc[t] /\ result'[t] = result[t] /\ sent'[t] = sent[t]
           /\ beside'[t] = beside[t]
<1> USE DEF TypeInv, ProgressType, GhostType, Goto, ghosts
<1>1. CASE WebOpen(s) \/ OtaOnMqtt(s)
  BY <1>1 DEF WebOpen, OtaOnMqtt, OpenCheck, Refuse, Admit
<1>2. CASE MqttRequest(s) \/ ResetTimer(s) \/ WebReport(s) \/ WildHandle(s)
  BY <1>2 DEF MqttRequest, ResetTimer, WebReport, WildHandle
<1>3. CASE OpenOps(s) \/ OpenFlag(s) \/ OpenBytes(s) \/ SpawnTask(s) \/ SpawnFails(s)
  BY <1>3 DEF OpenOps, OpenFlag, OpenBytes, SpawnTask, SpawnFails
<1>8. CASE EndOfData(s) \/ Begin(s)
  BY <1>8 DEF EndOfData, Begin
<1>4. CASE OtaWrite(s) \/ BeginFails(s) \/ Write(s) \/ WriteFails(s)
  BY <1>4 DEF OtaWrite, BeginFails, Write, WriteFails, AfterWrite
<1>5. CASE CloseClear(s) \/ CloseRead(s) \/ EndFails(s)
  BY <1>5 DEF CloseClear, CloseRead, EndFails, Conclude
<1>6. CASE End(s)
  BY <1>6 DEF End, EndConfig, EndFirmware, Conclude
<1>7. CASE \E status \in BOOLEAN : DownloadReport(s, status)
  BY <1>7 DEF DownloadReport
<1> QED
  BY <1>1, <1>2, <1>3, <1>4, <1>5, <1>6, <1>7, <1>8 DEF Step

LEMMA QueuedStep ==
    ASSUME TypeInv, QueuedOnce, NEW s \in Sessions, Step(s)
    PROVE  QueuedOnce'
<1> DEFINE Stay == pc[s] # "queued" \/ pc'[s] = "queued"
<1>1. events \in Seq(Events)
  BY DEF TypeInv, AppType
<1>2. \A i \in DOMAIN events :
         events[i] \in Events /\ (events[i][1] = "ota" => events[i][2] \in Downloads)
  BY <1>1 DEF Events
<1>3. CASE UNCHANGED events /\ Stay
  BY <1>2, <1>3, Elsewhere DEF QueuedOnce, Sessions
<1>4. ASSUME NEW r \in Results, Post(<<"completed", r>>), Stay
      PROVE  QueuedOnce'
  <2>1. /\ DOMAIN events' = 1..Len(events) + 1
        /\ DOMAIN events = 1..Len(events)
        /\ events'[Len(events) + 1] = <<"completed", r>>
        /\ \A i \in 1..Len(events) : events'[i] = events[i]
        /\ Len(events) \in Nat
    BY <1>1, <1>4, AppendAt, <<"completed", r>> \in Events DEF Post, Events
  <2> QED
    BY <1>2, <1>4, <2>1, Elsewhere DEF QueuedOnce, Sessions
<1>5. CASE MqttRequest(s) /\ s \in Downloads
  <2>1. /\ DOMAIN events' = 1..Len(events) + 1
        /\ DOMAIN events = 1..Len(events)
        /\ events'[Len(events) + 1] = <<"ota", s>>
        /\ \A i \in 1..Len(events) : events'[i] = events[i]
        /\ Len(events) \in Nat
    BY <1>1, <1>5, AppendAt, <<"ota", s>> \in Events DEF MqttRequest, Post, Events
  <2>2. pc[s] = "new" /\ pc'[s] = "queued"
    BY <1>5 DEF MqttRequest, Goto, TypeInv, ProgressType
  <2>3. \A i \in DOMAIN events : events[i][1] = "ota" => events[i][2] # s
    BY <2>2 DEF QueuedOnce
  <2> QED
    BY <1>2, <2>1, <2>2, <2>3, Elsewhere DEF QueuedOnce, Sessions
<1>6. CASE OtaOnMqtt(s) /\ s \in Downloads
  <2>1. /\ DOMAIN events' = 1..Len(events) - 1
        /\ DOMAIN events = 1..Len(events)
        /\ events[1] = <<"ota", s>>
        /\ \A i \in 1..Len(events) - 1 : events'[i] = events[i + 1]
        /\ Len(events) \in Nat \ {0}
    BY <1>1, <1>6, TailAt DEF OtaOnMqtt, Takes
  <2>2. \A i \in DOMAIN events : i # 1 => events[i] # <<"ota", s>>
    BY <2>1 DEF QueuedOnce
  <2>3. \A i \in DOMAIN events :
           i # 1 /\ events[i][1] = "ota" => events[i][2] \in Downloads \ {s}
    BY <1>2, <2>2 DEF Events
  <2>4. \A i \in DOMAIN events' :
           /\ i + 1 \in DOMAIN events /\ i + 1 # 1
           /\ events'[i] = events[i + 1]
    BY <2>1
  <2>5. \A t \in Downloads \ {s} : pc'[t] = pc[t]
    BY Elsewhere DEF Sessions
  <2>6. \A i \in DOMAIN events' : events'[i][1] = "ota" => pc'[events'[i][2]] = "queued"
    BY <2>3, <2>4, <2>5 DEF QueuedOnce
  <2>7. ASSUME NEW i \in DOMAIN events', NEW j \in DOMAIN events',
               events'[i][1] = "ota", events'[i] = events'[j]
        PROVE  i = j
    <3>1. i + 1 = j + 1
      BY <2>4, <2>7 DEF QueuedOnce
    <3> QED
      BY <2>1, <3>1
  <2> QED
    BY <2>6, <2>7 DEF QueuedOnce
<1>7. CASE WebOpen(s) \/ WebReport(s) \/ WildHandle(s)
  BY <1>3, <1>7 DEF WebOpen, WebReport, WildHandle, appVars
<1>8. CASE ResetTimer(s)
  BY <1>4, <1>8 DEF ResetTimer, Results
<1>9. CASE EndOfData(s) \/ Begin(s) \/ OtaWrite(s) \/ BeginFails(s)
  BY <1>3, <1>9 DEF EndOfData, Begin, OtaWrite, BeginFails, appVars
<1>12. CASE OpenOps(s) \/ OpenFlag(s) \/ OpenBytes(s) \/ SpawnTask(s) \/ SpawnFails(s)
  BY <1>3, <1>12 DEF OpenOps, OpenFlag, OpenBytes, SpawnTask, SpawnFails, appVars
<1>10. CASE \/ Write(s) \/ WriteFails(s)
            \/ CloseClear(s) \/ CloseRead(s) \/ End(s) \/ EndFails(s)
  BY <1>3, <1>10
     DEF Write, WriteFails, CloseClear, CloseRead, End, EndFails, appVars
<1>11. CASE \E status \in BOOLEAN : DownloadReport(s, status)
  <2>1. result[s] \in Results /\ "FAILED" \in Results
    BY DEF TypeInv, ProgressType, Results
  <2> QED
    BY <1>4, <1>11, <2>1 DEF DownloadReport
<1> QED
  BY <1>5, <1>6, <1>7, <1>8, <1>9, <1>10, <1>11, <1>12 DEF Step

(* The types never change, and a meeting is never forgotten.               *)
LEMMA Lasting ==
    ASSUME NEW s \in Sessions, Step(s)
    PROVE  type' = type /\ met \subseteq met'
<1>1. CASE WebOpen(s) \/ OtaOnMqtt(s)
  BY <1>1 DEF WebOpen, OtaOnMqtt, OpenCheck, Refuse, Admit, Meet
<1> QED
  BY <1>1 DEF Step, MqttRequest, ResetTimer, WebReport, WildHandle, OpenOps, OpenFlag,
       OpenBytes, SpawnTask, SpawnFails, EndOfData, Begin, OtaWrite, BeginFails, Write,
       WriteFails, CloseClear, CloseRead, EndFails, End, DownloadReport, ghosts

(* What ipcam_task takes off the queue is a session that is queued.        *)
LEMMA TakesQueued ==
    ASSUME TypeInv, QueuedOnce, NEW s \in Sessions, OtaOnMqtt(s)
    PROVE  pc[s] = "queued"
<1>1. events # <<>> /\ Head(events) = <<"ota", s>> /\ events \in Seq(Events)
  BY DEF OtaOnMqtt, Takes, TypeInv, AppType
<1>2. 1 \in DOMAIN events /\ events[1] = <<"ota", s>>
  BY <1>1, TailAt
<1> QED
  BY <1>2 DEF QueuedOnce

(* The life of a session: where a step may take it, and with what outcome. *)
LEMMA Life ==
    ASSUME TypeInv, QueuedOnce, NEW s \in Sessions, Step(s)
    PROVE  \/ pc'[s] = pc[s] /\ result'[s] = result[s]
           \/ /\ pc[s] = "new" /\ pc'[s] = "queued"
              /\ result'[s] = result[s]
           \/ /\ pc[s] \in {"new", "queued"} /\ ctx.in_progress
              /\ pc'[s] = "done" /\ result'[s] = "IN_PROGRESS"
              /\ beside'[s] = owner
           \/ /\ pc[s] \in {"new", "queued"} /\ Admit(s)
              /\ pc'[s] = "opening" /\ result'[s] = result[s]
           \/ /\ pc[s] = "opening" /\ pc'[s] = "marking"
              /\ result'[s] = result[s]
           \/ /\ pc[s] = "marking" /\ pc'[s] = "resetting"
              /\ result'[s] = result[s]
           \/ /\ pc[s] = "spawning" /\ pc'[s] = "noTask"
              /\ result'[s] = result[s]
           \/ /\ Open(s) /\ Open(s)' /\ result'[s] = result[s]
           \/ /\ pc[s] = "close" /\ pc'[s] = "closing"
              /\ result'[s] = result[s]
           \/ /\ pc[s] = "closing" /\ pc'[s] = "ending"
              /\ result'[s] = result[s]
           \/ /\ pc[s] \in {"close", "closing", "ending"} /\ pc'[s] = "report"
              /\ result'[s] \in {"SUCCESS", "NO_CHANGE", "FAILED"}
           \/ /\ pc[s] = "report" /\ pc'[s] = "done"
              /\ result'[s] \in {result[s], "FAILED"}
<1> USE DEF TypeInv, ProgressType, GhostType, Goto
<1>1. CASE WebOpen(s)
  BY <1>1 DEF WebOpen, OpenCheck, Refuse, Admit
<1>2. CASE OtaOnMqtt(s)
  <2>1. pc[s] = "queued"
    BY <1>2, TakesQueued
  <2> QED
    BY <1>2, <2>1 DEF OtaOnMqtt, OpenCheck, Refuse, Admit
<1>3. CASE MqttRequest(s) \/ ResetTimer(s) \/ WebReport(s) \/ WildHandle(s)
  BY <1>3 DEF MqttRequest, ResetTimer, WebReport, WildHandle
<1>4. CASE EndOfData(s) \/ Begin(s)
  BY <1>4 DEF EndOfData, Begin, Open
<1>9. CASE OpenOps(s) \/ OpenFlag(s) \/ OpenBytes(s) \/ SpawnTask(s) \/ SpawnFails(s)
  BY <1>9 DEF OpenOps, OpenFlag, OpenBytes, SpawnTask, SpawnFails, Open
<1>5. CASE OtaWrite(s) \/ BeginFails(s) \/ Write(s) \/ WriteFails(s)
  BY <1>5 DEF OtaWrite, BeginFails, Write, WriteFails, AfterWrite, Open
<1>6. CASE CloseClear(s) \/ CloseRead(s) \/ EndFails(s)
  BY <1>6 DEF CloseClear, CloseRead, EndFails, Conclude
<1>7. CASE End(s)
  BY <1>7 DEF End, EndConfig, EndFirmware, Conclude
<1>8. CASE \E status \in BOOLEAN : DownloadReport(s, status)
  BY <1>8 DEF DownloadReport
<1> QED
  BY <1>1, <1>2, <1>3, <1>4, <1>5, <1>6, <1>7, <1>8, <1>9 DEF Step

LEMMA OutcomesStep ==
    ASSUME TypeInv, QueuedOnce, Outcomes, NEW s \in Sessions, Step(s)
    PROVE  Outcomes'
<1>1. pc[s] \in Pcs
  BY DEF TypeInv, ProgressType
<1>2. /\ pc'[s] = "report" => result'[s] \in {"SUCCESS", "NO_CHANGE", "FAILED"}
      /\ pc'[s] \notin {"report", "done"} => result'[s] = "none"
  BY <1>1, Life DEF Outcomes, Open
<1> QED
  BY <1>2, Elsewhere DEF Outcomes

(* Of a session that was not involved, only its admission makes one that   *)
(* is; the others involved meet it then.                                   *)
LEMMA MeetingsStep ==
    ASSUME TypeInv, QueuedOnce, Meetings, NEW s \in Sessions, Step(s)
    PROVE  Meetings'
<1>1. \A t \in Sessions \ {s} : Involved(t)' <=> Involved(t)
  BY Elsewhere DEF Involved, Busy
<1>2. CASE Involved(s)' => Involved(s)
  BY <1>1, <1>2, Lasting DEF Meetings
<1>3. CASE Admit(s)
  <2>1. \A t \in Sessions \ {s} : Involved(t) => t \in met' /\ s \in met'
    BY <1>3 DEF Admit, Meet, Involved
  <2>2. \A t, u \in Sessions \ {s} :
           t # u /\ Involved(t) /\ Involved(u) => t \in met' /\ u \in met'
    BY Lasting DEF Meetings
  <2> QED
    BY <1>1, <2>1, <2>2 DEF Meetings
<1>4. (Involved(s)' => Involved(s)) \/ Admit(s)
  BY Life DEF Involved, Busy, Open
<1> QED
  BY <1>2, <1>3, <1>4

(* The flag is set by the session that becomes its owner; an owner that     *)
(* leaves clears it, unless it leaves because it got no task.              *)
LEMMA FlagStep ==
    ASSUME TypeInv, QueuedOnce, FlagInv, NEW s \in Sessions, Step(s)
    PROVE  FlagInv'
<1>1. CASE OpenFlag(s)
  BY <1>1 DEF OpenFlag, Goto, FlagInv, Open, TypeInv, ProgressType
<1>2. CASE CloseClear(s) /\ ctx.in_progress
  BY <1>2 DEF CloseClear, FlagInv, TypeInv, UpdateType, Context
<1>3. CASE /\ ctx'.in_progress = ctx.in_progress
           /\ owner' = owner
           /\ pc[s] # "close" \/ ~ctx.in_progress
  BY <1>3, Elsewhere, Life DEF FlagInv, Open
<1>4. CASE Begin(s) \/ Write(s) \/ OpenOps(s) \/ OpenBytes(s)
  <2>1. ctx'.in_progress = ctx.in_progress
    BY <1>4 DEF Begin, Write, OpenOps, OpenBytes, TypeInv, UpdateType, Context
  <2> QED
    BY <1>3, <1>4, <2>1 DEF Begin, Write, OpenOps, OpenBytes, ghosts
<1>5. CASE CloseClear(s) /\ ~ctx.in_progress
  BY <1>3, <1>5 DEF CloseClear, ghosts
<1>6. CASE UNCHANGED <<ctx, owner>> /\ pc[s] # "close"
  BY <1>3, <1>6
<1>7. CASE WebOpen(s) \/ OtaOnMqtt(s) \/ WebReport(s) \/ EndOfData(s) \/ OtaWrite(s)
  <2>1. pc[s] # "close"
    BY <1>7, TakesQueued DEF WebOpen, WebReport, EndOfData, OtaWrite
  <2> QED
    BY <1>6, <1>7, <2>1
       DEF WebOpen, OtaOnMqtt, OpenCheck, WebReport, EndOfData, OtaWrite, otaVars, ghosts
<1>8. CASE ResetTimer(s) \/ WildHandle(s)
  BY <1>8 DEF ResetTimer, WildHandle, FlagInv, otaVars, Open, ghosts
<1>9. CASE \/ MqttRequest(s) \/ BeginFails(s) \/ WriteFails(s)
           \/ CloseRead(s) \/ EndFails(s) \/ End(s)
  BY <1>6, <1>9
     DEF MqttRequest, BeginFails, WriteFails, CloseRead, EndFails, End, otaVars, ghosts
<1>10. CASE \/ SpawnTask(s) \/ SpawnFails(s)
            \/ \E status \in BOOLEAN : DownloadReport(s, status)
  BY <1>6, <1>10 DEF SpawnTask, SpawnFails, DownloadReport, otaVars, ghosts
<1> QED
  BY <1>1, <1>2, <1>4, <1>5, <1>7, <1>8, <1>9, <1>10 DEF Step

-----------------------------------------------------------------------------
(* AloneMeansWhole. A session beside which no other was opened finds       *)
(* ota_ctx, its handle and its partition as it left them.                  *)
LEMMA AloneKept ==
    ASSUME NEW t \in Sessions, Alone(t), UNCHANGED <<type, otaVars>>,
           pc'[t] = pc[t], sent'[t] = sent[t],
           result'[t] = result[t] \/ result'[t] # "SUCCESS"
    PROVE  Alone(t)'
<1>1. Filling(t) => Filling(t)'
  BY DEF otaVars, Filling, Area
<1>2. Installed(t) => Installed(t)'
  BY DEF otaVars, Installed, Image
<1> QED
  BY <1>1, <1>2 DEF otaVars, Alone, Open, Going

(* Who is not under way may be refused or admitted, or may wait for its    *)
(* turn; it touches neither ota_ctx nor the flash.                         *)
LEMMA IdleTouchesNothing ==
    ASSUME NEW s \in Sessions, Step(s), ~Busy(s)
    PROVE  UNCHANGED otaVars
BY DEF Step, Busy, WebOpen, ResetTimer, MqttRequest, OtaOnMqtt, OpenCheck, OpenOps,
       OpenFlag, OpenBytes, SpawnTask, SpawnFails, EndOfData, OtaWrite, Begin, BeginFails, Write, WriteFails, WildHandle,
       CloseClear, CloseRead, End, EndFails, WebReport, DownloadReport

LEMMA OthersAlone ==
    ASSUME TypeInv, Meetings, AloneInv, NEW s \in Sessions, Step(s),
           NEW t \in Sessions \ met', t # s, Involved(t)'
    PROVE  Alone(t)'
<1>1. t \notin met /\ type' = type
  BY Lasting
<1>2. pc'[t] = pc[t] /\ result'[t] = result[t] /\ sent'[t] = sent[t]
  BY Elsewhere
<1>3. Involved(t) /\ Alone(t)
  BY <1>1, <1>2 DEF AloneInv, Involved, Busy
<1>4. ~Busy(s)
  BY <1>1, <1>3 DEF Meetings, Involved
<1> QED
  BY <1>1, <1>2, <1>3, <1>4, IdleTouchesNothing, AloneKept

(* Its own writes: a chunk goes where the count of the handle points, so   *)
(* the image is in order as long as the count keeps up with the chunks     *)
(* received; after a failure it never catches up.                          *)
LEMMA AloneWrites ==
    ASSUME TypeInv, Outcomes, NEW s \in Sessions, Alone(s), Write(s)
    PROVE  Alone(s)'
<1>1. /\ pc[s] = "write"
      /\ ctx.handle = s /\ Filling(s)
      /\ ctx.ops = type[s] /\ ctx.in_progress
      /\ result[s] = "none"
      /\ sent[s] \in 0..Chunks - 1
  <2>1. pc[s] = "write"
    BY DEF Write
  <2>2. sent[s] \in 0..Chunks - 1
    BY <2>1, OtaAssumption DEF TypeInv, ProgressType
  <2> QED
    BY <2>1, <2>2 DEF Alone, Open, Going, Outcomes
<1> DEFINE p == handles[s].part
           n == handles[s].n
<1>2. p \in Parts /\ n \in 0..Chunks - 1 /\ handles[s] \in Handle
  <2>1. handles[s] \in Handle /\ n < Chunks
    BY <1>1 DEF Write, TypeInv, UpdateType
  <2> QED
    BY <2>1, OtaAssumption DEF Handle
<1>3. handles' = [handles EXCEPT ![s].n = @ + 1]
  BY <1>1 DEF Write
<1>4. /\ handles'[s].type = type[s] /\ handles'[s].part = p
      /\ handles'[s].n = n + 1
  BY <1>1, <1>2, <1>3 DEF Filling, TypeInv, UpdateType, Handle
<1>5. flash' = [flash EXCEPT ![p][n + 1] = <<s, sent[s] + 1>>]
  BY <1>1 DEF Write
<1>6. /\ flash'[p][n + 1] = <<s, sent[s] + 1>>
      /\ \A i \in 1..Chunks : i # n + 1 => flash'[p][i] = flash[p][i]
  BY <1>2, <1>5, OtaAssumption DEF TypeInv, UpdateType
<1>7. sent'[s] = sent[s] + 1 /\ type' = type /\ result' = result
  BY DEF Write, AfterWrite, TypeInv, ProgressType
<1>8. pc'[s] = "recv"
  BY DEF Write, AfterWrite, Goto, TypeInv, ProgressType
<1>9. Filling(s)'
  <2> HIDE DEF p, n
  <2>1. type'[s] = "firmware" => p = "app"
    BY <1>1, <1>7 DEF Filling, p
  <2>2. \A i \in 1..Chunks : flash'[p][i] = None \/ flash'[p][i][1] = s
    BY <1>1, <1>6 DEF Filling, Area, p
  <2>3. n <= sent[s]
    BY <1>1 DEF Filling, n
  <2>4. n = sent[s] => \A i \in 1..sent[s] + 1 : flash'[p][i] = <<s, i>>
    <3>1. n = sent[s] => \A i \in 1..sent[s] : flash[p][i] = <<s, i>>
      BY <1>1 DEF Filling, Area, p, n
    <3>2. \A i \in 1..sent[s] + 1 : i \in 1..sent[s] \/ i = sent[s] + 1
      BY <1>1
    <3>3. \A i \in 1..sent[s] : i \in 1..Chunks /\ i # sent[s] + 1
      BY <1>1, OtaAssumption
    <3> QED
      BY <1>6, <3>1, <3>2, <3>3 DEF p, n
  <2> QED
    BY <1>1, <1>2, <1>4, <1>7, <2>1, <2>2, <2>3, <2>4 DEF Filling, Area
<1>10. ctx' = [ctx EXCEPT !.bytes = @ + 1]
  BY DEF Write
<1>11. ctx'.ops = ctx.ops /\ ctx'.in_progress = ctx.in_progress /\ ctx'.handle = ctx.handle
  BY <1>10 DEF TypeInv, UpdateType, Context
<1> QED
  BY <1>1, <1>7, <1>8, <1>9, <1>11 DEF Alone, Open, Going

(* A chunk that failed is counted as received, so the handle falls behind. *)
LEMMA AloneFails ==
    ASSUME TypeInv, Outcomes, NEW s \in Sessions, Alone(s), BeginFails(s) \/ WriteFails(s)
    PROVE  Alone(s)'
<1>1. /\ pc[s] \in {"begin", "write"} /\ sent'[s] = sent[s] + 1
      /\ pc'[s] \in {"recv", "close"}
      /\ UNCHANGED <<ctx, type, flash, result>>
  BY DEF BeginFails, WriteFails, AfterWrite, Goto, TypeInv, ProgressType, otaVars
<1>2. result[s] = "none" /\ sent[s] \in Nat
  BY <1>1 DEF Outcomes, TypeInv, ProgressType
<1>3. /\ handles'[s].type = handles[s].type
      /\ handles'[s].part = handles[s].part
      /\ handles'[s].n = handles[s].n
  <2>1. CASE UNCHANGED handles
    BY <2>1
  <2>2. CASE Usable(ctx.ops, ctx.handle) /\ Freed(ctx.handle)
    <3>1. ctx.handle \in Sessions /\ handles \in [Sessions -> Handle]
      BY <2>2 DEF Usable, TypeInv, UpdateType, Context
    <3> QED
      BY <2>2, <3>1, Freeing DEF Freed, Same
  <2> QED
    BY <2>1, <2>2 DEF BeginFails, WriteFails, Freed, otaVars
<1>4. Filling(s) => Filling(s)'
  <2>1. handles[s].n \in Nat
    BY DEF TypeInv, UpdateType, Handle
  <2> QED
    BY <1>1, <1>2, <1>3, <2>1 DEF Filling, Area
<1> QED
  BY <1>1, <1>2, <1>4 DEF Alone, Open, Going

LEMMA AloneBegins ==
    ASSUME TypeInv, Outcomes, NEW s \in Sessions, Alone(s), Begin(s)
    PROVE  Alone(s)'
<1>1. /\ pc[s] = "begin" /\ pc'[s] = "write"
      /\ UNCHANGED <<type, sent, result>>
  BY DEF Begin, Goto, TypeInv, ProgressType
<1>2. ctx.ops = type[s] /\ ctx.in_progress /\ result[s] = "none"
  BY <1>1 DEF Alone, Open, Going, Outcomes
<1>3. /\ ctx'.handle = s /\ ctx'.ops = ctx.ops
      /\ ctx'.in_progress = ctx.in_progress
  BY DEF Begin, TypeInv, UpdateType, Context
<1>4. Filling(s)'
  <2>1. handles'[s] = [type |-> type[s], part |-> Target(type[s]), n |-> 0, live |-> TRUE]
    BY <1>2 DEF Begin, TypeInv, UpdateType
  <2>2. flash'[Target(type[s])] = Erased /\ Target(type[s]) \in Parts
    BY <1>2 DEF Begin, TypeInv, UpdateType, Target, Parts
  <2>3. sent[s] \in Nat
    BY DEF TypeInv, ProgressType
  <2> QED
    <3>1. Area(s)' = Erased
      BY <2>1, <2>2 DEF Area
    <3>2. handles'[s].n = sent'[s] => sent'[s] = 0
      BY <1>1, <2>1, <2>3
    <3>3. \A i \in 1..sent'[s] : sent'[s] # 0
      BY <1>1, <2>3
    <3> QED
      BY <1>1, <2>1, <2>3, <3>1, <3>2, <3>3 DEF Filling, Erased, Target
<1> QED
  BY <1>1, <1>2, <1>3, <1>4 DEF Alone, Open, Going

(* What the end operation accepts is the session's own image: a config     *)
(* image by the count, a firmware image by what is in the partition.       *)
LEMMA AloneEnds ==
    ASSUME TypeInv, Outcomes, NEW s \in Sessions, Alone(s), End(s)
    PROVE  Alone(s)'
<1>1. pc[s] = "ending" /\ pc'[s] = "report" /\ UNCHANGED <<type, flash>>
  BY DEF End, EndConfig, EndFirmware, Conclude, Goto, TypeInv, ProgressType
<1>2. arg[s].handle = s /\ arg[s].ops = type[s] /\ Filling(s)
  BY <1>1 DEF Alone
<1>3. type[s] \in Types /\ sent[s] \in 0..Chunks
  BY DEF TypeInv, ProgressType
<1>4. CASE type[s] = "config"
  <2>1. handles[s].n = Chunks /\ active' = handles[s].part
    BY <1>2, <1>4 DEF End, EndConfig
  <2>2. sent[s] = Chunks
    BY <1>2, <1>3, <2>1, OtaAssumption DEF Filling
  <2>3. \A i \in 1..Chunks : Area(s)[i] = <<s, i>>
    BY <1>2, <2>1, <2>2 DEF Filling
  <2>4. Area(s) \in [1..Chunks -> Cells]
    BY DEF Area, TypeInv, UpdateType, Handle
  <2>5. Area(s) = Image(s)
    BY <2>3, <2>4 DEF Image
  <2> QED
    BY <1>1, <1>4, <2>1, <2>5 DEF Alone, Open, Going, Installed, Image, Area
<1>5. CASE type[s] = "firmware"
  <2>1. Whole(flash["app"]) /\ boot'
    BY <1>2, <1>5 DEF End, EndFirmware
  <2>2. Area(s) = flash["app"]
    BY <1>2, <1>5 DEF Filling, Area
  <2>3. PICK t \in Sessions : flash["app"] = Image(t)
    BY <2>1 DEF Whole
  <2>4. flash["app"][1] = <<t, 1>> /\ <<t, 1>> # None /\ 1 \in 1..Chunks
    BY <2>3, OtaAssumption DEF Image
  <2>5. t = s
    <3>1. Area(s)[1] = <<t, 1>>
      BY <2>2, <2>4
    <3>2. Area(s)[1] = None \/ Area(s)[1][1] = s
      BY <1>2, <2>4 DEF Filling
    <3> QED
      BY <2>4, <3>1, <3>2
  <2>6. flash'["app"] = Image(s)
    BY <1>1, <2>3, <2>5
  <2>7. Installed(s)'
    BY <1>1, <1>5, <2>1, <2>6 DEF Installed, Image
  <2> QED
    BY <1>1, <2>7 DEF Alone, Open, Going
<1> QED
  BY <1>3, <1>4, <1>5 DEF Types

LEMMA AloneCloses ==
    ASSUME TypeInv, Outcomes, NEW s \in Sessions, Alone(s),
           CloseClear(s) \/ CloseRead(s) \/ EndFails(s)
    PROVE  Alone(s)'
<1>1. result[s] = "none"
  BY DEF CloseClear, CloseRead, EndFails, Outcomes
<1>2. CASE CloseClear(s)
  <2>1. pc[s] = "close" /\ ctx.in_progress /\ ctx.ops = type[s]
    BY <1>2 DEF CloseClear, Alone, Open, Going
  <2>2. /\ pc'[s] = "closing" /\ ctx'.ops = ctx.ops
        /\ ctx'.bytes = ctx.bytes /\ ctx'.handle = ctx.handle
        /\ UNCHANGED <<type, handles, flash, sent, result>>
    BY <1>2, <2>1 DEF CloseClear, Goto, appVars, TypeInv, ProgressType, UpdateType, Context
  <2>3. ctx.bytes > 0 => ctx.handle = s /\ Filling(s)
    BY <2>1 DEF Alone, Open, Going
  <2>4. Filling(s) => Filling(s)'
    BY <2>2 DEF Filling, Area
  <2> QED
    BY <1>1, <2>1, <2>2, <2>3, <2>4 DEF Alone, Open, Going
<1>3. CASE CloseRead(s)
  <2>1. pc[s] = "closing" /\ ctx.ops = type[s] /\ ctx.bytes \in Nat
    BY <1>3 DEF CloseRead, Alone, Going, TypeInv, UpdateType, Context
  <2>2. UNCHANGED <<type, handles, flash, sent>>
    BY <1>3 DEF CloseRead
  <2>3. CASE ctx.bytes = 0
    <3>1. pc'[s] = "report" /\ result'[s] = "NO_CHANGE"
      BY <1>3, <2>3 DEF CloseRead, Conclude, Goto, TypeInv, ProgressType
    <3> QED
      BY <3>1 DEF Alone, Open, Going
  <2>4. CASE ctx.bytes # 0
    <3>1. pc'[s] = "ending" /\ result' = result
      BY <1>3, <2>4 DEF CloseRead, Goto, TypeInv, ProgressType
    <3>2. arg'[s] = [ops |-> ctx.ops, handle |-> ctx.handle]
      BY <1>3, <2>4 DEF CloseRead, TypeInv, UpdateType
    <3>3. ctx.handle = s /\ Filling(s)
      BY <2>1, <2>4 DEF Alone, Going
    <3>4. Filling(s)'
      BY <2>2, <3>3 DEF Filling, Area
    <3> QED
      BY <1>1, <2>1, <2>2, <3>1, <3>2, <3>3, <3>4 DEF Alone, Open, Going
  <2> QED
    BY <2>3, <2>4
<1>4. CASE EndFails(s)
  <2>1. pc'[s] = "report" /\ result'[s] = "FAILED"
    BY <1>4 DEF EndFails, Conclude, Goto, TypeInv, ProgressType
  <2> QED
    BY <2>1 DEF Alone, Open, Going
<1> QED
  BY <1>2, <1>3, <1>4

(* The other steps of the session leave the flash alone.                   *)
LEMMA AloneMoves ==
    ASSUME TypeInv, Outcomes, NEW s \in Sessions, Alone(s),
           \/ OpenOps(s) \/ OpenFlag(s) \/ OpenBytes(s)
           \/ SpawnTask(s) \/ SpawnFails(s)
           \/ EndOfData(s) \/ OtaWrite(s)
    PROVE  Alone(s)'
<1>1. /\ pc[s] \in {"opening", "marking", "resetting", "spawning", "recv"}
      /\ UNCHANGED <<type, handles, flash, result>>
  BY DEF OpenOps, OpenFlag, OpenBytes, SpawnTask, SpawnFails, EndOfData, OtaWrite, otaVars
<1>2. result[s] = "none"
  BY <1>1 DEF Outcomes
<1>3. CASE OpenOps(s) \/ OpenFlag(s) \/ OpenBytes(s)
  <2>1. /\ \/ pc[s] = "opening" /\ pc'[s] = "marking" /\ ctx'.ops = type[s]
           \/ /\ pc[s] = "marking" /\ pc'[s] = "resetting"
              /\ ctx'.ops = ctx.ops /\ ctx'.in_progress
           \/ /\ pc[s] = "resetting" /\ pc'[s] \in {"recv", "spawning"}
              /\ ctx'.ops = ctx.ops /\ ctx'.in_progress = ctx.in_progress
              /\ ctx'.bytes = 0
    BY <1>3 DEF OpenOps, OpenFlag, OpenBytes, Goto, TypeInv, ProgressType, UpdateType, Context
  <2> QED
    BY <1>1, <1>2, <2>1 DEF Alone, Open, Going
<1>7. CASE SpawnTask(s) \/ SpawnFails(s)
  <2>1. /\ pc[s] = "spawning" /\ pc'[s] \in {"recv", "noTask"}
        /\ UNCHANGED <<ctx, sent>>
    BY <1>7 DEF SpawnTask, SpawnFails, Goto, TypeInv, ProgressType, otaVars
  <2>2. Filling(s) => Filling(s)'
    BY <1>1, <2>1 DEF Filling, Area
  <2> QED
    BY <1>1, <1>2, <2>1, <2>2 DEF Alone, Open, Going
<1>4. /\ Open(s) => ctx.ops = type[s] /\ ctx.in_progress
      /\ Going(s) /\ ctx.bytes > 0 => ctx.handle = s /\ Filling(s)
  BY DEF Alone
<1>5. CASE EndOfData(s)
  <2>1. pc[s] = "recv" /\ pc'[s] = "close" /\ UNCHANGED <<ctx, sent>>
    BY <1>5 DEF EndOfData, Goto, TypeInv, ProgressType, otaVars
  <2>2. Filling(s) => Filling(s)'
    BY <1>1, <2>1 DEF Filling, Area
  <2> QED
    BY <1>1, <1>2, <1>4, <2>1, <2>2 DEF Alone, Open, Going
<1>6. CASE OtaWrite(s)
  <2>1. pc[s] = "recv" /\ ctx.in_progress
    BY <1>4, <1>6 DEF OtaWrite, Open
  <2>2. /\ pc'[s] = IF ctx.bytes = 0 THEN "begin" ELSE "write"
        /\ UNCHANGED <<ctx, sent>>
    BY <1>6, <2>1 DEF OtaWrite, Goto, TypeInv, ProgressType, otaVars
  <2>3. Filling(s) => Filling(s)'
    BY <1>1, <2>2 DEF Filling, Area
  <2>4. ctx.bytes = 0 \/ ctx.bytes > 0
    BY DEF TypeInv, UpdateType, Context
  <2> QED
    BY <1>1, <1>2, <1>4, <2>1, <2>2, <2>3, <2>4 DEF Alone, Open, Going
<1> QED
  BY <1>3, <1>5, <1>6, <1>7

LEMMA AloneArrives ==
    ASSUME TypeInv, QueuedOnce, Outcomes, NEW s \in Sessions, Step(s),
           WebOpen(s) \/ MqttRequest(s) \/ OtaOnMqtt(s)
    PROVE  Alone(s)'
<1>1. pc[s] \in {"new", "queued"}
  BY TakesQueued DEF WebOpen, MqttRequest
<1>2. result[s] = "none"
  BY <1>1 DEF Outcomes
<1>3. pc'[s] \in {"new", "queued", "opening", "done"} /\ result'[s] # "SUCCESS"
  BY <1>1, <1>2, Life DEF Open
<1> QED
  BY <1>3 DEF Alone, Open, Going

LEMMA AloneReports ==
    ASSUME TypeInv, NEW s \in Sessions, Step(s), Alone(s),
           WebReport(s) \/ \E status \in BOOLEAN : DownloadReport(s, status)
    PROVE  Alone(s)'
<1>1. /\ pc'[s] = "done"
      /\ result'[s] \in {result[s], "FAILED"}
      /\ UNCHANGED otaVars
  BY DEF WebReport, DownloadReport, Goto, TypeInv, ProgressType
<1>2. Installed(s) => Installed(s)'
  BY <1>1, Lasting DEF otaVars, Installed, Image
<1> QED
  BY <1>1, <1>2 DEF Alone, Open, Going

LEMMA AloneStep ==
    ASSUME TypeInv, QueuedOnce, Outcomes, Meetings, AloneInv, NEW s \in Sessions, Step(s)
    PROVE  AloneInv'
<1> SUFFICES ASSUME NEW t \in Sessions \ met', Involved(t)'
             PROVE  Alone(t)'
  BY DEF AloneInv
<1>1. CASE t # s
  BY <1>1, OthersAlone
<1>2. CASE t = s /\ ~Busy(s)
  <2>1. CASE WebOpen(s) \/ MqttRequest(s) \/ OtaOnMqtt(s)
    BY <1>2, <2>1, AloneArrives
  <2>2. CASE ResetTimer(s)
    <3>1. UNCHANGED <<type, otaVars, pc, sent, result>>
      BY <2>2, Lasting DEF ResetTimer
    <3>2. Alone(s)
      BY <1>2, <3>1, Lasting DEF AloneInv, Involved, Busy
    <3> QED
      BY <1>2, <3>1, <3>2, AloneKept
  <2> QED
    BY <1>2, <2>1, <2>2 DEF Step, Busy, OpenOps, OpenFlag, OpenBytes, SpawnTask,
       SpawnFails, EndOfData, OtaWrite, Begin, BeginFails, Write, WriteFails, WildHandle, CloseClear, CloseRead, End,
       EndFails, WebReport, DownloadReport
<1>3. CASE t = s /\ Busy(s)
  <2>1. Alone(s)
    BY <1>3, Lasting DEF AloneInv, Involved
  <2>2. CASE WebOpen(s) \/ MqttRequest(s) \/ OtaOnMqtt(s)
    BY <1>3, <2>2, AloneArrives
  <2>3. CASE ResetTimer(s) \/ WildHandle(s)
    <3>1. UNCHANGED <<type, otaVars, pc, sent, result>>
      BY <2>3 DEF ResetTimer, WildHandle
    <3> QED
      BY <1>3, <2>1, <3>1, AloneKept
  <2> QED
    BY <1>3, <2>1, <2>2, <2>3, AloneMoves, AloneReports, AloneCloses, AloneEnds,
       AloneBegins, AloneFails, AloneWrites DEF Step
<1> QED
  BY <1>1, <1>2, <1>3

-----------------------------------------------------------------------------
(* StreamsReturn. A completion that is owed is posted in the end, and one  *)
(* that was posted stays in the queue until ipcam_task takes it.           *)
LEMMA CompletionKept ==
    ASSUME TypeInv, QueuedOnce, NEW s \in Sessions, Step(s),
           NEW i \in DOMAIN events, events[i][1] = "completed"
    PROVE  \E j \in DOMAIN events' : events'[j] = events[i]
<1> DEFINE Kept == \E j \in DOMAIN events' : events'[j] = events[i]
<1>1. events \in Seq(Events)
  BY DEF TypeInv, AppType
<1>3. CASE UNCHANGED events
  BY <1>3
<1>4. ASSUME NEW e \in Events, Post(e)
      PROVE  Kept
  BY <1>1, <1>4, AppendAt DEF Post
<1>5. CASE OtaOnMqtt(s)
  <2>1. events # <<>> /\ Head(events) = <<"ota", s>> /\ events' = Tail(events)
    BY <1>5 DEF OtaOnMqtt, Takes
  <2>2. i - 1 \in DOMAIN events' /\ events'[i - 1] = events[i]
    BY <1>1, <2>1, TailAt
  <2> QED
    BY <2>2
<1>6. CASE MqttRequest(s) /\ s \in Downloads
  BY <1>4, <1>6, <<"ota", s>> \in Events DEF MqttRequest, Events
<1>7. CASE ResetTimer(s)
  BY <1>4, <1>7, <<"completed", "SUCCESS">> \in Events DEF ResetTimer, Events, Results
<1>8. CASE \E status \in BOOLEAN : DownloadReport(s, status)
  <2>1. result[s] \in Results
    BY DEF TypeInv, ProgressType
  <2>2. PICK r \in Results : Post(<<"completed", r>>)
    BY <1>8, <2>1 DEF DownloadReport, Results
  <2> QED
    BY <1>4, <2>2, <<"completed", r>> \in Events DEF Events
<1> QED
  BY <1>3, <1>5, <1>6, <1>7, <1>8
     DEF Step, WebOpen, OpenOps, OpenFlag, OpenBytes, SpawnTask, SpawnFails, EndOfData,
         OtaWrite, Begin, BeginFails, Write, WriteFails, WildHandle, CloseClear,
         CloseRead, End, EndFails, WebReport, appVars

LEMMA PostedKept ==
    ASSUME TypeInv, QueuedOnce, NEW s \in Sessions, Step(s), Posted
    PROVE  Posted'
BY CompletionKept DEF Posted

LEMMA OwedKept ==
    ASSUME TypeInv, QueuedOnce, NEW s \in Sessions, Step(s), NEW d, Owes(d)
    PROVE  Owes(d)' \/ Posted'
<1>1. d \in Downloads /\ (Busy(d) \/ pc[d] = "noTask")
  BY DEF Owes
<1>2. CASE d # s
  BY <1>1, <1>2, Elsewhere DEF Owes, Busy, Sessions
<1>3. CASE d = s /\ \E status \in BOOLEAN : DownloadReport(s, status)
  <2>1. result[s] \in Results /\ events \in Seq(Events)
    BY DEF TypeInv, ProgressType, AppType
  <2>2. PICK r \in Results : Post(<<"completed", r>>)
    BY <1>3, <2>1 DEF DownloadReport, Results
  <2>3. <<"completed", r>> \in Events
    BY DEF Events
  <2> QED
    BY <2>1, <2>2, <2>3, AppendAt DEF Post, Posted
<1>4. CASE d = s /\ pc[s] # "report"
  BY <1>1, <1>4, Life DEF Busy, Open, Owes
<1>5. CASE d = s /\ pc'[s] = pc[s]
  BY <1>1, <1>5 DEF Busy, Owes
<1>6. CASE d = s /\ OtaOnMqtt(s)
  BY <1>4, <1>6, TakesQueued
<1>7. CASE d = s /\ (ResetTimer(s) \/ WildHandle(s))
  BY <1>5, <1>7 DEF ResetTimer, WildHandle
<1>8. CASE d = s /\ WebReport(s)
  BY <1>1, <1>8, OtaAssumption DEF WebReport
<1> QED
  BY <1>2, <1>3, <1>4, <1>6, <1>7, <1>8
     DEF Step, WebOpen, MqttRequest, OpenOps, OpenFlag, OpenBytes, SpawnTask, SpawnFails,
         EndOfData, OtaWrite, Begin, BeginFails, Write, WriteFails, CloseClear,
         CloseRead, End, EndFails

(* A refused session is done, and stays refused beside the same session.   *)
LEMMA RefusalKept ==
    ASSUME TypeInv, QueuedOnce, Outcomes, NEW s \in Sessions, Step(s),
           NEW d \in Sessions, result[d] = "IN_PROGRESS"
    PROVE  result'[d] = "IN_PROGRESS" /\ beside'[d] = beside[d]
<1>1. pc[d] = "done"
  BY DEF Outcomes, TypeInv, ProgressType
<1>2. CASE d # s
  BY <1>2, Elsewhere
<1>3. CASE d = s
  <2>1. result'[s] = result[s]
    BY <1>1, <1>3, Life DEF Open
  <2>2. ~WebOpen(s) /\ ~OtaOnMqtt(s)
    BY <1>1, <1>3, TakesQueued DEF WebOpen
  <2>3. beside' = beside
    BY <2>2
       DEF Step, ResetTimer, MqttRequest, OpenOps, OpenFlag, OpenBytes, SpawnTask,
           SpawnFails, EndOfData, OtaWrite, Begin, BeginFails, Write, WriteFails,
           WildHandle, CloseClear, CloseRead, End, EndFails, WebReport, DownloadReport,
           ghosts
  <2> QED
    BY <1>3, <2>1, <2>3
<1> QED
  BY <1>2, <1>3

LEMMA ReturningKept ==
    ASSUME TypeInv, QueuedOnce, Outcomes, NEW s \in Sessions, Step(s),
           NEW d \in Downloads, Returning(d)
    PROVE  Returning(d)'
<1>1. CASE Posted
  BY <1>1, PostedKept DEF Returning
<1>2. CASE Owes(d)
  BY <1>2, OwedKept DEF Returning
<1>3. CASE RefusedBeside(d)
  <2>1. result'[d] = "IN_PROGRESS" /\ beside'[d] = beside[d]
    BY <1>3, RefusalKept DEF RefusedBeside, Sessions
  <2>2. beside[d] \in Web \/ Owes(beside[d])
    BY <1>3 DEF RefusedBeside
  <2>3. CASE beside[d] \in Web
    BY <2>1, <2>3 DEF Returning, RefusedBeside
  <2>4. CASE Owes(beside[d])
    BY <2>1, <2>4, OwedKept DEF Returning, RefusedBeside, Owes, Busy
  <2> QED
    BY <2>2, <2>3, <2>4
<1> QED
  BY <1>1, <1>2, <1>3 DEF Returning

(* The capture is only stopped for a download that was admitted, and owes  *)
(* a completion, or was refused beside the session that set the flag.      *)
LEMMA StreamsStep ==
    ASSUME TypeInv, QueuedOnce, Outcomes, FlagInv, StreamsInv,
           NEW s \in Sessions, Step(s)
    PROVE  StreamsInv'
<1>1. up /\ (~streaming => Returning(stopper))
  <2>1. up
    BY DEF Step, WebOpen, ResetTimer, MqttRequest, OtaOnMqtt, Takes, OpenOps, OpenFlag,
           OpenBytes, SpawnTask, SpawnFails, EndOfData, OtaWrite, Begin, BeginFails,
           Write, WriteFails, WildHandle, CloseClear, CloseRead, End, EndFails,
           WebReport, DownloadReport
  <2> QED
    BY <2>1 DEF StreamsInv
<1>2. UNCHANGED stopper
  BY DEF Step, WebOpen, ResetTimer, MqttRequest, OtaOnMqtt, OpenCheck, OpenOps, OpenFlag,
         OpenBytes, SpawnTask, SpawnFails, EndOfData, OtaWrite, Begin, BeginFails, Write,
         WriteFails, WildHandle, CloseClear, CloseRead, End, EndFails, WebReport,
         DownloadReport, ghosts
<1>3. ~streaming => Returning(stopper)'
  BY <1>1, <1>2, ReturningKept DEF Returning
<1>4. CASE OtaOnMqtt(s) /\ s \in Downloads
  <2>1. pc[s] = "queued"
    BY <1>4, TakesQueued
  <2>2. ASSUME Admit(s)
        PROVE  Returning(s)'
    <3>1. pc'[s] = "opening"
      BY <2>2 DEF Admit, Goto, TypeInv, ProgressType
    <3> QED
      BY <1>4, <3>1 DEF Returning, Owes, Busy
  <2>3. ASSUME Refuse(s)
        PROVE  Returning(s)'
    <3>1. owner \in Sessions /\ (Open(owner) \/ pc[owner] = "noTask")
      BY <2>3 DEF Refuse, FlagInv
    <3>2. result'[s] = "IN_PROGRESS" /\ beside'[s] = owner
      BY <2>3 DEF Refuse, TypeInv, ProgressType, GhostType
    <3>3. pc'[owner] = pc[owner]
      BY <2>1, <3>1, Elsewhere DEF Open
    <3>4. owner \in Web \/ owner \in Downloads
      BY <3>1 DEF Sessions
    <3>5. RefusedBeside(s)'
      <4>1. CASE owner \in Web
        BY <3>2, <4>1 DEF RefusedBeside
      <4>2. CASE owner \in Downloads
        <5>1. Owes(beside[s])'
          BY <3>1, <3>2, <3>3, <4>2 DEF Owes, Busy, Open
        <5> QED
          BY <3>2, <5>1 DEF RefusedBeside
      <4> QED
        BY <3>4, <4>1, <4>2
    <3> QED
      BY <1>4, <3>5 DEF Returning
  <2>4. Returning(s)'
    BY <1>4, <2>2, <2>3 DEF OtaOnMqtt, OpenCheck
  <2> QED
    BY <1>3, <1>4, <2>4 DEF OtaOnMqtt, StreamsInv
<1>5. CASE UNCHANGED <<ipcam, streaming>>
  <2>1. ipcam # None => ipcam \in Downloads /\ Returning(ipcam)
    BY <1>1 DEF StreamsInv, TypeInv, AppType
  <2>2. ipcam # None => Returning(ipcam)'
    BY <1>5, <2>1, ReturningKept
  <2> QED
    BY <1>3, <1>5, <2>2 DEF StreamsInv
<1> QED
  BY <1>4, <1>5
     DEF Step, WebOpen, ResetTimer, MqttRequest, OpenOps, OpenFlag, OpenBytes, SpawnTask,
         SpawnFails, EndOfData, OtaWrite, Begin, BeginFails, Write, WriteFails,
         WildHandle, CloseClear, CloseRead, End, EndFails, WebReport, DownloadReport,
         appVars

-----------------------------------------------------------------------------
(* Successes                                                               *)

(* Only a report makes a success of a session.                             *)
LEMMA NotYetWon ==
    ASSUME TypeInv, QueuedOnce, NEW s \in Sessions, Step(s),
           pc'[s] = "done", result'[s] = "SUCCESS",
           ~(pc[s] = "done" /\ result[s] = "SUCCESS")
    PROVE  WebReport(s) \/ \E status \in BOOLEAN : DownloadReport(s, status)
<1>1. pc[s] = "report"
  BY Life DEF Open
<1>2. ~OtaOnMqtt(s)
  BY <1>1, TakesQueued
<1>3. ~ResetTimer(s) /\ ~WildHandle(s)
  BY <1>1 DEF ResetTimer, WildHandle
<1> QED
  BY <1>1, <1>2, <1>3
     DEF Step, WebOpen, MqttRequest, OpenOps, OpenFlag, OpenBytes, SpawnTask,
         SpawnFails, EndOfData, OtaWrite, Begin, BeginFails, Write, WriteFails,
         CloseClear, CloseRead, End, EndFails

(* A session is done with a success when its report has started the timer  *)
(* or posted the completion; a timer that fires posts one.                 *)
LEMMA SuccessStep ==
    ASSUME TypeInv, QueuedOnce, SuccessPending, NEW s \in Sessions, Step(s)
    PROVE  SuccessPending'
<1> DEFINE Completion == <<"completed", "SUCCESS">>
           Waits == \E i \in DOMAIN events : events[i] = Completion
           Won(t) == pc[t] = "done" /\ result[t] = "SUCCESS"
<1>1. events \in Seq(Events) /\ Completion \in Events
  BY DEF TypeInv, AppType, Events, Results
<1>2. ASSUME Post(Completion)
      PROVE  Waits'
  BY <1>1, <1>2, AppendAt DEF Post
<1>3. ASSUME Waits
      PROVE  Waits'
  BY <1>3, CompletionKept
<1>4. up
  BY DEF Step, WebOpen, ResetTimer, MqttRequest, OtaOnMqtt, Takes, OpenOps, OpenFlag,
         OpenBytes, SpawnTask, SpawnFails, EndOfData, OtaWrite, Begin, BeginFails,
         Write, WriteFails, WildHandle, CloseClear, CloseRead, End, EndFails,
         WebReport, DownloadReport
<1>5. timers \subseteq timers' \/ Waits'
  <2>1. CASE ResetTimer(s)
    BY <1>2, <2>1 DEF ResetTimer
  <2>2. CASE ~ResetTimer(s)
    BY <2>2
       DEF Step, WebOpen, MqttRequest, OtaOnMqtt, OpenOps, OpenFlag, OpenBytes,
           SpawnTask, SpawnFails, EndOfData, OtaWrite, Begin, BeginFails, Write,
           WriteFails, WildHandle, CloseClear, CloseRead, End, EndFails, WebReport,
           DownloadReport, appVars
  <2> QED
    BY <2>1, <2>2
<1>6. ASSUME NEW t \in Sessions, Won(t)
      PROVE  t \in timers' \/ Waits'
  BY <1>3, <1>4, <1>5, <1>6 DEF SuccessPending
<1>7. ASSUME NEW t \in Sessions, Won(t)', ~Won(t)
      PROVE  t \in timers' \/ Waits'
  <2>1. t = s
    BY <1>7, Elsewhere
  <2>2. WebReport(s) \/ \E status \in BOOLEAN : DownloadReport(s, status)
    BY <1>7, <2>1, NotYetWon
  <2>3. CASE WebReport(s)
    BY <1>7, <2>1, <2>3 DEF WebReport
  <2>4. ASSUME NEW status \in BOOLEAN, DownloadReport(s, status)
        PROVE  Waits'
    <3>1. result'[s] = IF status THEN result[s] ELSE "FAILED"
      BY <2>4 DEF DownloadReport, TypeInv, ProgressType
    <3> QED
      BY <1>2, <1>7, <2>1, <2>4, <3>1 DEF DownloadReport
  <2> QED
    BY <2>1, <2>2, <2>3, <2>4
<1> QED
  BY <1>6, <1>7 DEF SuccessPending

-----------------------------------------------------------------------------
(* The inductive invariant                                                 *)
IInv == /\ TypeInv
        /\ QueuedOnce
        /\ Outcomes
        /\ FlagInv
        /\ Meetings
        /\ AloneInv
        /\ StreamsInv
        /\ SuccessPending

LEMMA InitIInv == ASSUME Init PROVE IInv
<1>1. TypeInv
  BY InitType
<1>2. \A s \in Sessions : pc[s] = "new" /\ result[s] = "none"
  BY DEF Init
<1>3. events = <<>> /\ DOMAIN events = {}
  BY DEF Init
<1>4. QueuedOnce
  BY <1>3 DEF QueuedOnce
<1>5. Outcomes /\ Meetings /\ AloneInv /\ SuccessPending
  BY <1>2 DEF Outcomes, Meetings, AloneInv, Involved, Busy, SuccessPending
<1>6. FlagInv /\ StreamsInv
  BY DEF Init, FlagInv, StreamsInv
<1> QED
  BY <1>1, <1>4, <1>5, <1>6 DEF IInv

(* Taking an event off the queue leaves what is known of the others.       *)
LEMMA QueueApart ==
    ASSUME IInv, Apart
    PROVE  QueuedOnce'
<1>1. events \in Seq(Events) /\ pc' = pc
  BY ApartStep DEF IInv, TypeInv, AppType, sessionVars
<1>2. CASE StopStreams \/ OtherHangs
  BY <1>1, <1>2 DEF StopStreams, OtherHangs, IInv, QueuedOnce
<1>3. CASE events # <<>> /\ events' = Tail(events)
  <2>1. /\ DOMAIN events' = 1..Len(events) - 1
        /\ DOMAIN events = 1..Len(events)
        /\ \A i \in 1..Len(events) - 1 : events'[i] = events[i + 1]
        /\ Len(events) \in Nat \ {0}
    BY <1>1, <1>3, TailAt
  <2>2. \A i \in DOMAIN events' : i + 1 \in DOMAIN events /\ events'[i] = events[i + 1]
    BY <2>1
  <2>3. \A i \in DOMAIN events' : events'[i][1] = "ota" => pc[events'[i][2]] = "queued"
    BY <2>2 DEF IInv, QueuedOnce
  <2>4. ASSUME NEW i \in DOMAIN events', NEW j \in DOMAIN events',
               events'[i][1] = "ota", events'[i] = events'[j]
        PROVE  i = j
    <3>1. i + 1 = j + 1
      BY <2>2, <2>4 DEF IInv, QueuedOnce
    <3> QED
      BY <2>1, <3>1
  <2> QED
    BY <1>1, <2>3, <2>4 DEF QueuedOnce
<1> QED
  BY <1>2, <1>3 DEF Apart, OtaOnCompleted, Takes

LEMMA StreamsApart ==
    ASSUME IInv, Apart
    PROVE  StreamsInv'
<1>1. /\ events \in Seq(Events)
      /\ UNCHANGED <<pc, result, beside>>
  BY ApartStep DEF IInv, TypeInv, AppType, sessionVars
<1>2. ASSUME NEW d, Returning(d), Posted => Posted'
      PROVE  Returning(d)'
  BY <1>1, <1>2 DEF Returning, RefusedBeside, Owes, Busy
<1>3. CASE StopStreams
  <2>1. Posted => Posted'
    BY <1>3 DEF StopStreams, Posted
  <2>2. Returning(ipcam)
    BY <1>3 DEF StopStreams, IInv, StreamsInv
  <2>3. stopper' = ipcam /\ ipcam' = None
    BY <1>3 DEF StopStreams
  <2>4. Returning(stopper)'
    BY <1>1, <2>1, <2>2, <2>3 DEF Returning, RefusedBeside, Owes, Busy
  <2> QED
    BY <2>3, <2>4 DEF StreamsInv
<1>4. CASE OtaOnCompleted
  BY <1>4 DEF OtaOnCompleted, Takes, Restart, StreamsInv
<1>5. CASE OtherHangs
  <2>1. UNCHANGED <<up, streaming, ipcam, stopper, events>>
    BY <1>5 DEF OtherHangs, ghosts
  <2> QED
    BY <1>1, <2>1 DEF IInv, StreamsInv, Returning, RefusedBeside, Owes, Busy, Posted
<1> QED
  BY <1>3, <1>4, <1>5 DEF Apart

LEMMA SuccessApart ==
    ASSUME IInv, Apart
    PROVE  SuccessPending'
<1>1. events \in Seq(Events) /\ UNCHANGED <<pc, result>>
  BY ApartStep DEF IInv, TypeInv, AppType, sessionVars
<1>2. CASE StopStreams \/ OtherHangs
  BY <1>1, <1>2 DEF StopStreams, OtherHangs, IInv, SuccessPending
<1>3. CASE OtaOnCompleted /\ Head(events)[2] = "SUCCESS"
  BY <1>3 DEF OtaOnCompleted, Restart, SuccessPending
<1>4. CASE OtaOnCompleted /\ Head(events)[2] # "SUCCESS"
  <2>1. events # <<>> /\ events' = Tail(events) /\ up' = up /\ timers' = timers
    BY <1>4 DEF OtaOnCompleted, Takes
  <2>2. ASSUME NEW i \in DOMAIN events, events[i] = <<"completed", "SUCCESS">>
        PROVE  \E j \in DOMAIN events' : events'[j] = <<"completed", "SUCCESS">>
    <3>1. i # 1
      BY <1>1, <1>4, <2>1, <2>2, TailAt
    <3>2. i - 1 \in DOMAIN events' /\ events'[i - 1] = events[i]
      BY <1>1, <2>1, <3>1, TailAt
    <3> QED
      BY <2>2, <3>2
  <2> QED
    BY <1>1, <2>1, <2>2 DEF IInv, SuccessPending
<1> QED
  BY <1>2, <1>3, <1>4 DEF Apart

LEMMA NextIInv == ASSUME IInv, [Next]_vars PROVE IInv'
<1>1. TypeInv'
  BY NextType DEF IInv
<1>2. ASSUME NEW s \in Sessions, Step(s)
      PROVE  IInv'
  BY <1>1, <1>2, QueuedStep, OutcomesStep, FlagStep, MeetingsStep, AloneStep, StreamsStep,
     SuccessStep DEF IInv
<1>3. ASSUME UNCHANGED sessionVars
      PROVE  Outcomes' /\ FlagInv' /\ Meetings' /\ AloneInv'
  <2>1. Outcomes' /\ FlagInv' /\ Meetings'
    BY <1>3 DEF IInv, Outcomes, FlagInv, Meetings, Involved, Busy, Open, otaVars,
       sessionVars
  <2>2. \A s \in Sessions : Alone(s) => Alone(s)'
    BY <1>3, AloneKept DEF sessionVars
  <2>3. AloneInv'
    BY <1>3, <2>2 DEF IInv, AloneInv, Involved, Busy, sessionVars
  <2> QED
    BY <2>1, <2>3
<1>4. CASE Apart
  BY <1>1, <1>3, <1>4, ApartStep, QueueApart, StreamsApart, SuccessApart
     DEF IInv
<1>5. CASE UNCHANGED vars
  <2>1. QueuedOnce' /\ StreamsInv' /\ SuccessPending'
    BY <1>5 DEF SuccessPending, vars, appVars, ghosts, IInv, QueuedOnce, StreamsInv, Returning, Posted,
       RefusedBeside, Owes, Busy
  <2> QED
    BY <1>1, <1>3, <1>5, <2>1 DEF IInv, vars, ghosts, sessionVars
<1> QED
  BY <1>2, <1>4, <1>5, Steps

THEOREM Invariance == Spec => []IInv
BY InitIInv, NextIInv, PTL DEF Spec

(* While ota_ctx.in_progress is set, the session that set it last is going *)
(* to clear it, or is a download that got no task: for any number of       *)
(* uploads and downloads in any interleaving.                              *)
THEOREM FlagAlwaysOwned == Spec => []FlagHasOwner
<1>1. IInv => FlagHasOwner
  BY DEF IInv, FlagInv, FlagHasOwner
<1> QED
  BY <1>1, Invariance, PTL

(* A session that succeeded, and that met no other, has left exactly its   *)
(* own image in the partition the device will use, however many chunks     *)
(* the image has and whichever of them could not be written.               *)
THEOREM AloneIsWhole == Spec => []AloneMeansWhole
<1>1. IInv => AloneMeansWhole
  BY DEF IInv, AloneInv, AloneMeansWhole, Involved, Alone, Installed
<1> QED
  BY <1>1, Invariance, PTL

(* Once nothing is going on any more the capture runs again, unless the    *)
(* download it stopped for got no task, or was refused beside a web upload *)
(* or beside a download that got no task.                                  *)
THEOREM CaptureReturns == Spec => []StreamsReturn
<1>1. ASSUME IInv, Quiet, ~streaming
      PROVE  \/ Abandoned(stopper)
             \/ /\ result[stopper] = "IN_PROGRESS"
                /\ beside[stopper] \in Web \/ Abandoned(beside[stopper])
  <2>1. events = <<>> /\ DOMAIN events = {}
    BY <1>1 DEF Quiet
  <2>2. ~Posted
    BY <2>1 DEF Posted
  <2>3. Returning(stopper)
    BY <1>1 DEF IInv, StreamsInv, Quiet
  <2>4. ASSUME NEW d, Owes(d)
        PROVE  Abandoned(d)
    BY <1>1, <2>4 DEF Owes, Abandoned, Quiet, Busy, Sessions
  <2> QED
    BY <2>2, <2>3, <2>4 DEF Returning, RefusedBeside
<1>2. IInv => StreamsReturn
  BY <1>1 DEF StreamsReturn
<1> QED
  BY <1>2, Invariance, PTL

(* A reported success ends in a restart, or the timer or the completion    *)
(* that is to bring it about is still there: for any number of uploads and *)
(* downloads, however they meet.                                           *)
THEOREM SuccessIsPending == Spec => []SuccessPending
<1>1. IInv => SuccessPending
  BY DEF IInv
<1> QED
  BY <1>1, Invariance, PTL
=============================================================================
