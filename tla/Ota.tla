-------------------------------- MODULE Ota ---------------------------------
(***************************************************************************)
(* ota.c and its two users: ota_handler of the HTTP server (web uploads)   *)
(* and ota_download with the task it spawns (downloads requested over      *)
(* MQTT, handled by ipcam_task). All of them share one ota_ctx, which no   *)
(* lock protects; a step below is one access to it, or one flash           *)
(* operation.                                                              *)
(*                                                                         *)
(* The model covers one boot: "up" turns FALSE when the program restarts.  *)
(* "streaming" is what updates do to the capture; the Capture topic, which *)
(* may stop and start it as well, is left out.                             *)
(***************************************************************************)
EXTENDS Integers, Sequences

CONSTANTS Web,        \* web uploads that may be posted
          Downloads,  \* downloads that may be requested
          Chunks,     \* chunks of an image
          QueueLen,   \* length of ipcam.c's event_queue
          None

Sessions == Web \cup Downloads

ASSUME OtaAssumption ==
    /\ Web \cap Downloads = {}
    /\ Chunks \in Nat \ {0}
    /\ QueueLen \in Nat \ {0}
    /\ None \notin Sessions \cup (Sessions \X (1..Chunks))

Types == {"firmware", "config"}
Parts == {"app", "fs_0", "fs_1"}   \* the spare app partition and the two fs
Cells == (Sessions \X (1..Chunks)) \cup {None}
Erased == [i \in 1..Chunks |-> None]
Image(s) == [i \in 1..Chunks |-> <<s, i>>]
Whole(p) == \E s \in Sessions : p = Image(s)

NoHandle == [type |-> "config", part |-> "app", n |-> 0, live |-> FALSE]

VARIABLES type,       \* session -> what it updates
          ctx,        \* ota_ctx: in_progress, ops, bytes, handle
          handles,    \* session whose begin allocated it -> update handle
          pc, sent,   \* session -> where it is, chunks received
          arg,        \* session -> ops and handle ota_close calls end with
          result,     \* session -> what ota_open or ota_close reported
          flash,      \* partition -> contents
          active,     \* the fs partition NVS names
          boot,       \* TRUE once the boot partition is "app"
          timers,     \* web uploads whose delayed_reset timer runs
          events,     \* event_queue of ipcam.c
          ipcam,      \* the download ipcam_task is starting, or None
          hung,       \* ipcam_task never returns from another part's event
          streaming,  \* camera and microphone capture
          up,
          met,        \* ghost: sessions another one was opened beside
          owner,      \* ghost: the session that last set in_progress
          beside,     \* ghost: a refused session -> the owner at that time
          stopper     \* ghost: the download the capture last stopped for

otaVars == <<ctx, handles, arg, flash, active, boot>>
appVars == <<timers, events, ipcam, hung, streaming, up>>
ghosts == <<met, owner, beside, stopper>>
vars == <<type, otaVars, pc, sent, result, appVars, ghosts>>

Results == {"none", "SUCCESS", "NO_CHANGE", "IN_PROGRESS", "FAILED"}
Pcs == {"new", "queued", "opening", "marking", "resetting", "spawning", "recv",
        "begin", "write", "close", "closing", "ending", "report", "done",
        "noTask"}

TypeOK ==
    /\ type \in [Sessions -> Types]
    /\ ctx \in [in_progress : BOOLEAN, ops : Types,
                bytes : Nat, handle : Sessions \cup {None}]
    /\ handles \in [Sessions -> [type : Types, part : Parts,
                                 n : 0..Chunks, live : BOOLEAN]]
    /\ pc \in [Sessions -> Pcs]
    /\ sent \in [Sessions -> 0..Chunks]
    /\ arg \in [Sessions -> [ops : Types,
                             handle : Sessions \cup {None}]]
    /\ result \in [Sessions -> Results]
    /\ flash \in [Parts -> [1..Chunks -> Cells]]
    /\ active \in {"fs_0", "fs_1"}
    /\ timers \subseteq Web
    /\ Len(events) <= QueueLen
    /\ ipcam \in Downloads \cup {None}
    /\ {boot, hung, streaming, up} \subseteq BOOLEAN
    /\ met \subseteq Sessions
    /\ owner \in Sessions \cup {None}
    /\ beside \in [Sessions -> Sessions \cup {None}]
    /\ stopper \in Downloads \cup {None}

Init ==
    /\ type \in [Sessions -> Types]
    /\ ctx = [in_progress |-> FALSE, ops |-> "firmware", bytes |-> 0,
              handle |-> None]
    /\ handles = [s \in Sessions |-> NoHandle]
    /\ pc = [s \in Sessions |-> "new"]
    /\ sent = [s \in Sessions |-> 0]
    /\ arg = [s \in Sessions |-> [ops |-> "firmware", handle |-> None]]
    /\ result = [s \in Sessions |-> "none"]
    /\ flash = [p \in Parts |-> Erased]
    /\ active = "fs_0"
    /\ boot = FALSE
    /\ timers = {}
    /\ events = <<>>
    /\ ipcam = None
    /\ hung = FALSE
    /\ streaming = TRUE
    /\ up = TRUE
    /\ met = {}
    /\ owner = None
    /\ beside = [s \in Sessions |-> None]
    /\ stopper = None

Goto(s, l) == pc' = [pc EXCEPT ![s] = l]
Opening(s) == pc[s] \in {"opening", "marking", "resetting", "spawning"}
Open(s) == pc[s] \in {"resetting", "spawning", "recv", "begin", "write", "close"}
Busy(s) == pc[s] \notin {"new", "queued", "done", "noTask"}

(* abort() or a crash: nothing of this boot runs any more. *)
Restart == up' = FALSE

-----------------------------------------------------------------------------
(* ota_open, for both users: the flag is read, then ops, the flag and the  *)
(* byte count are set, one after the other.                                *)

Meet(s) == LET rest == {t \in Sessions \ {s} :
                              Busy(t) \/ result[t] = "SUCCESS"}
           IN  met' = IF rest = {} THEN met ELSE met \cup rest \cup {s}

Refuse(s) == /\ ctx.in_progress
             /\ result' = [result EXCEPT ![s] = "IN_PROGRESS"]
             /\ beside' = [beside EXCEPT ![s] = owner]
             /\ Goto(s, "done")
             /\ UNCHANGED met

Admit(s) == /\ ~ctx.in_progress
            /\ Goto(s, "opening")
            /\ Meet(s)
            /\ UNCHANGED <<result, beside>>

OpenCheck(s) == /\ Refuse(s) \/ Admit(s)
                /\ UNCHANGED <<type, otaVars, sent, owner, stopper>>

OpenOps(s) ==
    /\ up
    /\ pc[s] = "opening"
    /\ ctx' = [ctx EXCEPT !.ops = type[s]]
    /\ Goto(s, "marking")
    /\ UNCHANGED <<handles, arg, flash, active, boot, sent, result, appVars, type, ghosts>>

OpenFlag(s) ==
    /\ up
    /\ pc[s] = "marking"
    /\ ctx' = [ctx EXCEPT !.in_progress = TRUE]
    /\ owner' = s
    /\ Goto(s, "resetting")
    /\ UNCHANGED <<handles, arg, flash, active, boot, sent, result, appVars, type,
                   met, beside, stopper>>

OpenBytes(s) ==
    /\ up
    /\ pc[s] = "resetting"
    /\ ctx' = [ctx EXCEPT !.bytes = 0]
    /\ Goto(s, IF s \in Web THEN "recv" ELSE "spawning")
    /\ UNCHANGED <<handles, arg, flash, active, boot, sent, result, appVars, type, ghosts>>

OpenStep(s) == OpenOps(s) \/ OpenFlag(s) \/ OpenBytes(s)

(* ota_handler: the HTTP server runs one handler at a time. *)
WebOpen(s) == /\ up
              /\ pc[s] = "new"
              /\ \A t \in Web : ~Busy(t)
              /\ OpenCheck(s)
              /\ UNCHANGED appVars

Post(e) == Len(events) < QueueLen /\ events' = Append(events, e)

(* An OTA topic is received; ota_on_mqtt runs when ipcam_task gets to it.  *)
MqttRequest(s) == /\ up
                  /\ pc[s] = "new"
                  /\ Post(<<"ota", s>>)
                  /\ Goto(s, "queued")
                  /\ UNCHANGED <<otaVars, sent, result, timers, ipcam, hung,
                                 streaming, up, type, ghosts>>

(* ipcam_task waits for an event, and takes the first one. *)
Takes == /\ up
         /\ ~hung
         /\ ipcam = None
         /\ events # <<>>
         /\ events' = Tail(events)

OtaOnMqtt(s) == /\ Takes
                /\ Head(events) = <<"ota", s>>
                /\ ipcam' = s
                /\ OpenCheck(s)
                /\ UNCHANGED <<timers, hung, streaming, up>>

(* ota_download does not look at the result of xTaskCreatePinnedToCore:    *)
(* without a task the update stays open, and nobody is there to close it.  *)
SpawnTask(s) ==
    /\ up
    /\ pc[s] = "spawning"
    /\ Goto(s, "recv")
    /\ UNCHANGED <<otaVars, sent, result, appVars, type, ghosts>>

SpawnFails(s) ==
    /\ up
    /\ pc[s] = "spawning"
    /\ Goto(s, "noTask")
    /\ UNCHANGED <<otaVars, sent, result, appVars, type, ghosts>>

SpawnStep(s) == SpawnTask(s) \/ SpawnFails(s)

(* ota_download has returned, whatever became of the download: ota_on_mqtt *)
(* stops the capture.                                                      *)
StopStreams == /\ up
               /\ ipcam # None /\ ~Opening(ipcam)
               /\ streaming' = FALSE
               /\ stopper' = ipcam
               /\ ipcam' = None
               /\ UNCHANGED <<otaVars, pc, sent, result, timers, events, hung,
                              up, type, met, owner, beside>>

(* The events of the other parts are left out, but for this: handling one  *)
(* may wait for the MQTT client and never return, which module EventLoop   *)
(* shows in detail. No event is taken from event_queue any more then.      *)
OtherHangs == /\ up
              /\ ~hung
              /\ ipcam = None
              /\ hung' = TRUE
              /\ UNCHANGED <<otaVars, pc, sent, result, timers, events, ipcam,
                             streaming, up, type, ghosts>>

-----------------------------------------------------------------------------
(* ota_write. A web upload stops at the first error; a download does not   *)
(* look at the result of http_event_cb and goes on with the next chunk.    *)

(* Mistake: a chunk that could not be written is fetched again. *)
AfterWriteRetry(s, ok) ==
    /\ sent' = IF ok \/ s \in Web THEN [sent EXCEPT ![s] = @ + 1] ELSE sent
    /\ Goto(s, IF ok \/ s \in Downloads THEN "recv" ELSE "close")

AfterWrite(s, ok) ==
    /\ sent' = [sent EXCEPT ![s] = @ + 1]
    /\ Goto(s, IF ok \/ s \in Downloads THEN "recv" ELSE "close")

(* Mistake: content_len is not looked at. *)
WriteWithoutEnd(s) ==
    /\ up
    /\ pc[s] = "recv"
    /\ IF ~ctx.in_progress THEN AfterWrite(s, FALSE)
       ELSE Goto(s, IF ctx.bytes = 0 THEN "begin" ELSE "write") /\ UNCHANGED sent
    /\ UNCHANGED <<otaVars, result, appVars, type, ghosts>>

OtaWrite(s) ==
    /\ up
    /\ pc[s] = "recv" /\ sent[s] < Chunks
    /\ IF ~ctx.in_progress THEN AfterWrite(s, FALSE)
       ELSE Goto(s, IF ctx.bytes = 0 THEN "begin" ELSE "write") /\ UNCHANGED sent
    /\ UNCHANGED <<otaVars, result, appVars, type, ghosts>>

Target(t) == IF t = "firmware" THEN "app"
             ELSE IF active = "fs_0" THEN "fs_1" ELSE "fs_0"

Begin(s) ==
    /\ up
    /\ pc[s] = "begin"
    /\ LET p == Target(ctx.ops)
       IN  /\ flash' = [flash EXCEPT ![p] = Erased]
           /\ handles' = [handles EXCEPT ![s] =
                  [type |-> ctx.ops, part |-> p, n |-> 0, live |-> TRUE]]
    /\ ctx' = [ctx EXCEPT !.handle = s]
    /\ Goto(s, "write")
    /\ UNCHANGED <<arg, active, boot, sent, result, appVars, type, ghosts>>

BeginFails(s) ==
    /\ up
    /\ pc[s] = "begin"
    /\ AfterWrite(s, FALSE)
    /\ UNCHANGED <<otaVars, result, appVars, type, ghosts>>

(* The handle belongs to the operations it is used with and was not freed. *)
Usable(ops, h) == h # None /\ handles[h].live /\ handles[h].type = ops

Write(s) ==
    /\ up
    /\ pc[s] = "write"
    /\ Usable(ctx.ops, ctx.handle)
    /\ LET h == handles[ctx.handle]
       IN  /\ h.n < Chunks
           /\ flash' = [flash EXCEPT ![h.part][h.n + 1] = <<s, sent[s] + 1>>]
           /\ handles' = [handles EXCEPT ![ctx.handle].n = @ + 1]
    /\ ctx' = [ctx EXCEPT !.bytes = @ + 1]
    /\ AfterWrite(s, TRUE)
    /\ UNCHANGED <<arg, active, boot, result, appVars, type, ghosts>>

(* config_update_write frees its handle when it fails; with a handle of    *)
(* the other kind, or a freed one, the write fails.                        *)
WriteFails(s) ==
    /\ up
    /\ pc[s] = "write"
    /\ handles' = IF Usable(ctx.ops, ctx.handle) /\ ctx.ops = "config"
                     THEN [handles EXCEPT ![ctx.handle].live = FALSE]
                     ELSE handles
    /\ AfterWrite(s, FALSE)
    /\ UNCHANGED <<ctx, arg, flash, active, boot, result, appVars, type, ghosts>>

(* ... or using such a handle brings the program down. *)
WildHandle(s) ==
    /\ up
    /\ \/ pc[s] = "write" /\ ~Usable(ctx.ops, ctx.handle)
       \/ pc[s] = "ending" /\ ~Usable(arg[s].ops, arg[s].handle)
    /\ Restart
    /\ UNCHANGED <<otaVars, pc, sent, result, timers, events,
                   ipcam, hung, streaming, type, ghosts>>

(* The end of the data, or a peer that went away. *)
EndOfData(s) == /\ up
                /\ pc[s] = "recv"
                /\ Goto(s, "close")
                /\ UNCHANGED <<otaVars, sent, result, appVars, type, ghosts>>

-----------------------------------------------------------------------------
(* ota_close: clear the flag, look at the byte count, end the update. *)

Conclude(s, r) == /\ result' = [result EXCEPT ![s] = r]
                  /\ Goto(s, "report")

(* Mistake: an update without data returns before it clears the flag. *)
CloseKeepsFlag(s) ==
    /\ up
    /\ pc[s] = "close"
    /\ IF ctx.in_progress /\ ctx.bytes > 0
          THEN /\ ctx' = [ctx EXCEPT !.in_progress = FALSE]
               /\ Goto(s, "closing")
               /\ UNCHANGED result
          ELSE /\ Conclude(s, "FAILED")
               /\ UNCHANGED ctx
    /\ UNCHANGED <<handles, arg, flash, active, boot, sent, appVars, type, ghosts>>

CloseClear(s) ==
    /\ up
    /\ pc[s] = "close"
    /\ IF ctx.in_progress
          THEN /\ ctx' = [ctx EXCEPT !.in_progress = FALSE]
               /\ Goto(s, "closing")
               /\ UNCHANGED result
          ELSE /\ Conclude(s, "FAILED")
               /\ UNCHANGED ctx
    /\ UNCHANGED <<handles, arg, flash, active, boot, sent, appVars, type, ghosts>>

CloseRead(s) ==
    /\ up
    /\ pc[s] = "closing"
    /\ IF ctx.bytes = 0
          THEN Conclude(s, "NO_CHANGE") /\ UNCHANGED arg
          ELSE /\ arg' = [arg EXCEPT ![s] = [ops |-> ctx.ops,
                                             handle |-> ctx.handle]]
               /\ Goto(s, "ending")
               /\ UNCHANGED result
    /\ UNCHANGED <<ctx, handles, flash, active, boot, sent, appVars, type, ghosts>>

Freed(h) == handles' = [handles EXCEPT ![h].live = FALSE]

(* config_update_end: the byte count is compared with the partition size.  *)
EndConfig(s) ==
    LET h == arg[s].handle
    IN  /\ handles[h].n = Chunks
        /\ active' = handles[h].part
        /\ Conclude(s, "SUCCESS")
        /\ Freed(h)
        /\ UNCHANGED boot

(* ota_firmware_end: esp_ota_end verifies the image in the partition.      *)
EndFirmware(s) ==
    /\ Whole(flash["app"])
    /\ boot' = TRUE
    /\ Conclude(s, "SUCCESS")
    /\ Freed(arg[s].handle)
    /\ UNCHANGED active

(* Mistake: end accepts whatever was written. *)
EndUnchecked(s) ==
    /\ up
    /\ pc[s] = "ending"
    /\ Usable(arg[s].ops, arg[s].handle)
    /\ active' = IF arg[s].ops = "config" THEN handles[arg[s].handle].part
                                          ELSE active
    /\ boot' = (boot \/ arg[s].ops = "firmware")
    /\ Conclude(s, "SUCCESS")
    /\ Freed(arg[s].handle)
    /\ UNCHANGED <<ctx, arg, flash, sent, appVars, type, ghosts>>

End(s) ==
    /\ up
    /\ pc[s] = "ending"
    /\ Usable(arg[s].ops, arg[s].handle)
    /\ IF arg[s].ops = "config" THEN EndConfig(s) ELSE EndFirmware(s)
    /\ UNCHANGED <<ctx, arg, flash, sent, appVars, type, ghosts>>

(* The image is not whole, NVS refuses, or the handle is not usable.       *)
EndFails(s) ==
    /\ up
    /\ pc[s] = "ending"
    /\ Conclude(s, "FAILED")
    /\ IF Usable(arg[s].ops, arg[s].handle) THEN Freed(arg[s].handle)
                                            ELSE UNCHANGED handles
    /\ UNCHANGED <<ctx, arg, flash, active, boot, sent, appVars, type, ghosts>>

-----------------------------------------------------------------------------
(* Reporting: a web upload that succeeded restarts the device a second     *)
(* later; a download reports every outcome to ipcam_task.                  *)

WebReport(s) == /\ up
                /\ s \in Web /\ pc[s] = "report"
                /\ timers' = IF result[s] = "SUCCESS" THEN timers \cup {s}
                                                      ELSE timers
                /\ Goto(s, "done")
                /\ UNCHANGED <<otaVars, sent, result, events,
                               ipcam, hung, streaming, up, type, ghosts>>

ResetTimer(s) == /\ up
                 /\ s \in timers
                 /\ Post(<<"completed", "SUCCESS">>)
                 /\ timers' = timers \ {s}
                 /\ UNCHANGED <<otaVars, pc, sent, result, ipcam,
                                hung, streaming, up, type, ghosts>>

(* Mistake: ota_on_completed runs in ota_task instead of being queued.     *)
ReportDirectly(s, status) ==
    /\ up
    /\ s \in Downloads /\ pc[s] = "report"
    /\ LET err == IF status THEN result[s] ELSE "FAILED"
       IN  /\ result' = [result EXCEPT ![s] = err]
           /\ IF err = "SUCCESS" THEN Restart /\ UNCHANGED streaming
                                 ELSE streaming' = TRUE /\ UNCHANGED up
    /\ Goto(s, "done")
    /\ UNCHANGED <<otaVars, sent, timers, events, ipcam, hung, type, ghosts>>

(* ota_task: an HTTP status other than 200 and 304 overrides the result.   *)
DownloadReport(s, status) ==
    /\ up
    /\ s \in Downloads /\ pc[s] = "report"
    /\ LET err == IF status THEN result[s] ELSE "FAILED"
       IN  /\ result' = [result EXCEPT ![s] = err]
           /\ Post(<<"completed", err>>)
    /\ Goto(s, "done")
    /\ UNCHANGED <<otaVars, sent, timers, ipcam, hung, streaming, up, type, ghosts>>

(* Mistake: any completion only starts the capture again. *)
CompletedNeverRestarts ==
    /\ Takes
    /\ Head(events)[1] = "completed"
    /\ streaming' = TRUE
    /\ UNCHANGED <<otaVars, pc, sent, result, timers, ipcam, hung, up, type, ghosts>>

(* ota_on_completed, run by ipcam_task. *)
OtaOnCompleted ==
    /\ Takes
    /\ Head(events)[1] = "completed"
    /\ IF Head(events)[2] = "SUCCESS"
          THEN Restart /\ UNCHANGED streaming
          ELSE streaming' = TRUE /\ UNCHANGED up
    /\ UNCHANGED <<otaVars, pc, sent, result, timers, ipcam, hung, type, ghosts>>

-----------------------------------------------------------------------------
CloseStep(s) == CloseClear(s) \/ CloseRead(s) \/ End(s) \/ EndFails(s)

WriteStep(s) == \/ OtaWrite(s)
                \/ Begin(s) \/ BeginFails(s)
                \/ Write(s) \/ WriteFails(s) \/ WildHandle(s)

Report(s) == WebReport(s) \/ \E status \in BOOLEAN : DownloadReport(s, status)

IpcamTask == \/ \E s \in Downloads : OtaOnMqtt(s)
             \/ StopStreams
             \/ OtaOnCompleted

Next == \/ \E s \in Web : WebOpen(s) \/ ResetTimer(s)
        \/ \E s \in Downloads : MqttRequest(s)
        \/ \E s \in Sessions : \/ OpenStep(s) \/ SpawnStep(s) \/ EndOfData(s)
                               \/ WriteStep(s) \/ CloseStep(s) \/ Report(s)
        \/ IpcamTask \/ OtherHangs

(* FreeRTOS runs every ready task, flash operations end, timers fire and   *)
(* esp_http_client gives up on a silent server. Nothing makes a web client *)
(* go on: ota_handler retries a receive that timed out for ever, so        *)
(* neither its next chunk nor its end of data is fair. ipcam_task is fair  *)
(* until another part's event hangs it: IpcamTask is not enabled then.     *)
Fairness ==
    /\ WF_vars(IpcamTask)
    /\ \A s \in Web : /\ WF_vars(OpenStep(s))
                      /\ WF_vars(pc[s] # "recv" /\ WriteStep(s))
                      /\ WF_vars(CloseStep(s))
                      /\ WF_vars(Report(s))
                      /\ WF_vars(ResetTimer(s))
    /\ \A s \in Downloads : /\ WF_vars(OpenStep(s))
                            /\ WF_vars(SpawnStep(s))
                            /\ WF_vars(WriteStep(s))
                            /\ WF_vars(EndOfData(s))
                            /\ WF_vars(CloseStep(s))
                            /\ WF_vars(Report(s))

Spec == Init /\ [][Next]_vars /\ Fairness

-----------------------------------------------------------------------------
(* While ota_ctx.in_progress is set, the session that last set it is still *)
(* open and will close it, or it is a download whose task was never        *)
(* created: only then is every later update refused until the next         *)
(* restart. Sessions that slipped in together clear each other's flag, but *)
(* never leave it set behind them.                                         *)
FlagHasOwner == ctx.in_progress => Open(owner) \/ pc[owner] = "noTask"

(* A session that reports success, and beside which no other was opened,   *)
(* has left exactly its own image, whole and in order, in the partition    *)
(* the device will use (ota_write, ota_close, the end operations).         *)
AloneMeansWhole ==
    \A s \in Sessions \ met :
        result[s] = "SUCCESS" =>
            IF type[s] = "config" THEN flash[active] = Image(s)
                                  ELSE boot /\ flash["app"] = Image(s)

Quiet == /\ up
         /\ \A s \in Sessions : pc[s] \in {"new", "done", "noTask"}
         /\ timers = {} /\ events = <<>> /\ ipcam = None

(* The download's ota_task was never created. *)
Abandoned(d) == d \in Downloads /\ pc[d] = "noTask"

(* ota_on_mqtt stops the capture, ota_on_completed starts it again. Once   *)
(* nothing is going on any more the capture runs, unless the download it   *)
(* was last stopped for was itself left without a task, or was refused     *)
(* while a web upload, or a download left without a task, held ota_ctx: in *)
(* these cases nobody posts a completion. A download that was refused      *)
(* beside another download does not keep the capture stopped.              *)
StreamsReturn ==
    Quiet /\ ~streaming =>
        \/ Abandoned(stopper)
        \/ /\ result[stopper] = "IN_PROGRESS"
           /\ beside[stopper] \in Web \/ Abandoned(beside[stopper])

(* A download whose ota_task was created ends, whatever chunks fail and    *)
(* whatever a web upload does beside it; unless, its work done, it waits   *)
(* for room in the queue of an ipcam_task that never takes an event again. *)
DownloadSettles ==
    \A d \in Downloads :
        pc[d] = "recv" ~> \/ pc[d] = "done"
                          \/ ~up
                          \/ hung /\ pc[d] = "report" /\ Len(events) = QueueLen

(* A success is not forgotten: as long as the device has not restarted     *)
(* after it, the timer of the upload still runs, or a completion that      *)
(* makes ota_on_completed restart it is in event_queue.                    *)
SuccessPending ==
    up => \A s \in Sessions :
              pc[s] = "done" /\ result[s] = "SUCCESS" =>
                  \/ s \in timers
                  \/ \E i \in DOMAIN events : events[i] = <<"completed", "SUCCESS">>

(* What ipcam.c says of ota_on_completed, "If upgrade failed, start stream *)
(* again": with nothing going on any more the capture runs.                *)
FailedUpgradeRestartsStream == Quiet => streaming

(* What config.c says of config_update_end, "We succeeded only if the      *)
(* entire partition was written": the partition that becomes active then   *)
(* has every chunk written.                                                *)
EntirePartitionWritten ==
    [][active' # active => \A i \in 1..Chunks : flash[active'][i] # None]_vars
=============================================================================
