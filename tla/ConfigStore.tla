---------------------------- MODULE ConfigStore -----------------------------
(***************************************************************************)
(* config.c: the configuration lives in one of two SPIFFS partitions, fs_0 *)
(* and fs_1; NVS names the active one. An update writes a raw image into   *)
(* the other partition and then moves the NVS byte. A boot loads the       *)
(* active partition and falls back to the other. The HTTP server can also  *)
(* rewrite or delete config.json in place on the mounted partition.        *)
(*                                                                         *)
(* Power may be cut between any two steps. One update session is open at a *)
(* time here (Ota.tla examines how ota.c sees to that).                    *)
(***************************************************************************)
EXTENDS Integers

CONSTANTS Images,    \* the images a sender may upload
          Valid,     \* those of the right size whose config.json parses
          Size,      \* image -> its number of chunks
          Chunks,    \* size of a partition, in chunks
          NoImage,   \* erased or freshly formatted flash
          Scrap,     \* half erased, half written or mixed flash
          Cut,       \* a partition filled from an image too long for it
          Edited     \* a file system whose config.json was written in place

ASSUME ConfigAssumption ==
    /\ Valid \subseteq Images
    /\ Chunks \in Nat \ {0}
    /\ Size \in [Images -> Nat \ {0}]
    /\ \A v \in Valid : Size[v] = Chunks
    /\ {NoImage, Scrap, Cut, Edited} \cap Images = {}
    /\ NoImage # Scrap /\ NoImage # Cut /\ NoImage # Edited
    /\ Scrap # Cut /\ Scrap # Edited /\ Cut # Edited

Slots == {0, 1}
Other(p) == 1 - p
NoSlot == 2
Labels == Images \cup {NoImage, Scrap, Cut, Edited}

(* A partition: what is in it, and whether mounting it and parsing its     *)
(* config.json succeeds.                                                   *)
Partition == [img : Labels, loads : BOOLEAN]
Blank == [img |-> NoImage, loads |-> FALSE]
Torn(b) == [img |-> Scrap, loads |-> b]

(* The update handle: "none", "live", or "freed" while ota.c still holds   *)
(* the pointer.                                                            *)
NoSession == [img |-> NoImage, phase |-> "idle", sent |-> 0, written |-> 0,
              handle |-> "none", id |-> NoSlot, gap |-> FALSE]
Sessions ==
    [img : Images \cup {NoImage}, phase : {"idle", "recv", "erasing", "write"},
     sent : Nat, written : 0..Chunks, handle : {"none", "live", "freed"},
     id : Slots \cup {NoSlot}, gap : BOOLEAN]

VARIABLES part,     \* slot -> contents of the flash partition
          nvs,      \* "active_part" in NVS
          power,    \* TRUE while the program runs
          mounted,  \* the slot mounted on /spiffs, or NoSlot
          config,   \* label of the configuration parsed at boot (RAM)
          update,   \* the OTA session of type CONFIG and its handle (RAM)
          editing   \* fs_post_handler holds config.json open (RAM)

vars == <<part, nvs, power, mounted, config, update, editing>>
flash == <<part, nvs>>

TypeOK == /\ part \in [Slots -> Partition]
          /\ nvs \in Slots
          /\ power \in BOOLEAN
          /\ mounted \in Slots \cup {NoSlot}
          /\ config \in Labels
          /\ update \in Sessions
          /\ editing \in BOOLEAN

Init == /\ \E v \in Valid :
              part = [p \in Slots |->
                         IF p = 0 THEN [img |-> v, loads |-> TRUE] ELSE Blank]
        /\ nvs = 0
        /\ power = FALSE
        /\ mounted = NoSlot
        /\ config = NoImage
        /\ update = NoSession
        /\ editing = FALSE

-----------------------------------------------------------------------------
(* Power and boot *)

PowerLoss == /\ power
             /\ power' = FALSE
             /\ mounted' = NoSlot
             /\ config' = NoImage
             /\ update' = NoSession
             /\ editing' = FALSE
             /\ UNCHANGED flash

(* config_load: registering a partition that cannot be mounted formats it. *)
LoadFailed(p) == {part[p], Blank}

(* config_active_partition_set: NVS keeps its old value when it fails.     *)
SetActive(p) == nvs' = p \/ nvs' = nvs

BootActive == /\ part[nvs].loads
              /\ mounted' = nvs
              /\ config' = part[nvs].img
              /\ UNCHANGED flash

BootFallback == /\ ~part[nvs].loads
                /\ part[Other(nvs)].loads
                /\ mounted' = Other(nvs)
                /\ config' = part[Other(nvs)].img
                /\ \E c \in LoadFailed(nvs) : part' = [part EXCEPT ![nvs] = c]
                /\ SetActive(Other(nvs))

BootNone == /\ \A p \in Slots : ~part[p].loads
            /\ mounted' = NoSlot
            /\ config' = NoImage
            /\ \E c \in LoadFailed(0), d \in LoadFailed(1) :
                  part' = [p \in Slots |-> IF p = 0 THEN c ELSE d]
            /\ UNCHANGED nvs

(* config_initialize *)
Boot == /\ ~power
        /\ power' = TRUE
        /\ BootActive \/ BootFallback \/ BootNone
        /\ UNCHANGED <<update, editing>>

-----------------------------------------------------------------------------
(* An update, driven by ota_open, ota_write and ota_close *)

RamSame == UNCHANGED <<power, mounted, config, editing>>

OtaOpen(v) == /\ power
              /\ update.phase = "idle"
              /\ update' = [NoSession EXCEPT !.img = v, !.phase = "recv"]
              /\ UNCHANGED flash
              /\ RamSame

(* Mistake: the target is chosen from the mounted partition, not from NVS. *)
BeginFromMounted ==
    /\ power
    /\ update.phase = "recv" /\ update.sent < Size[update.img]
    /\ update.written = 0
    /\ LET target == IF mounted = NoSlot THEN Other(nvs) ELSE Other(mounted)
       IN  /\ update' = [update EXCEPT !.phase = "erasing", !.id = target,
                                       !.handle = "none"]
           /\ part' = [part EXCEPT ![target] = Blank]
    /\ UNCHANGED nvs
    /\ RamSame

(* The first chunk, and every later one as long as none was written,       *)
(* begins the update: the partition NVS does not name is erased.           *)
UpdateBegin ==
    /\ power
    /\ update.phase = "recv" /\ update.sent < Size[update.img]
    /\ update.written = 0
    /\ update' = [update EXCEPT !.phase = "erasing", !.id = Other(nvs),
                                !.handle = "none"]
    /\ \E b \in BOOLEAN : part' = [part EXCEPT ![Other(nvs)] = Torn(b)]
    /\ UNCHANGED nvs
    /\ RamSame

EraseDone ==
    /\ power
    /\ update.phase = "erasing"
    /\ part' = [part EXCEPT ![update.id] = Blank]
    /\ update' = [update EXCEPT !.phase = "write", !.handle = "live"]
    /\ UNCHANGED nvs
    /\ RamSame

(* The chunk is lost; a download goes on with the next one.                *)
EraseFails ==
    /\ power
    /\ update.phase = "erasing"
    /\ update' = [update EXCEPT !.phase = "recv", !.sent = @ + 1, !.gap = TRUE]
    /\ UNCHANGED flash
    /\ RamSame

(* A later chunk needs no begin. *)
NextChunk ==
    /\ power
    /\ update.phase = "recv" /\ update.sent < Size[update.img]
    /\ update.written > 0
    /\ update' = [update EXCEPT !.phase = "write"]
    /\ UNCHANGED flash
    /\ RamSame

(* What the partition holds once n chunks of the session are in it.        *)
Assembled(n) ==
    IF n = Chunks /\ Size[update.img] > Chunks
       THEN {[img |-> Cut, loads |-> b] : b \in BOOLEAN}
    ELSE IF n = Chunks /\ ~update.gap
       THEN {[img |-> update.img, loads |-> update.img \in Valid]}
    ELSE {Torn(b) : b \in BOOLEAN}

(* Mistake: the end of the partition is checked one chunk too late. *)
WritePastEnd ==
    /\ power
    /\ update.phase = "write" /\ update.handle = "live"
    /\ update' = [update EXCEPT !.phase = "recv", !.sent = @ + 1,
                                !.written = @ + 1]
    /\ UNCHANGED flash
    /\ RamSame

UpdateWrite ==
    /\ power
    /\ update.phase = "write" /\ update.handle = "live"
    /\ update.written < Chunks
    /\ \E c \in Assembled(update.written + 1) :
          part' = [part EXCEPT ![update.id] = c]
    /\ update' = [update EXCEPT !.phase = "recv", !.sent = @ + 1,
                                !.written = @ + 1]
    /\ UNCHANGED nvs
    /\ RamSame

(* Mistake: bytes_written is advanced before the result is looked at. *)
CountFailedWrite ==
    /\ power
    /\ update.phase = "write" /\ update.handle = "live"
    /\ update' = [update EXCEPT !.phase = "recv", !.sent = @ + 1, !.gap = TRUE,
                                !.written = IF @ < Chunks THEN @ + 1 ELSE @]
    /\ UNCHANGED flash
    /\ RamSame

(* esp_partition_write refuses a chunk beyond the end of the partition, or *)
(* fails; the handle is freed and the pointer kept.                        *)
UpdateWriteFails ==
    /\ power
    /\ update.phase = "write" /\ update.handle = "live"
    /\ update' = [update EXCEPT !.phase = "recv", !.sent = @ + 1,
                                !.handle = "freed", !.gap = TRUE]
    /\ UNCHANGED flash
    /\ RamSame

(* A freed handle is used again: the write fails (or the program aborts,   *)
(* which PowerLoss covers).                                                *)
UseAfterFree ==
    /\ power
    /\ update.phase = "write" /\ update.handle = "freed"
    /\ update' = [update EXCEPT !.phase = "recv", !.sent = @ + 1]
    /\ UNCHANGED flash
    /\ RamSame

(* Mistake: any image of at least one chunk is taken for complete. *)
CloseWithoutSizeCheck ==
    /\ power
    /\ update.phase = "recv"
    /\ IF update.handle = "live" /\ update.written > 0
          THEN SetActive(update.id)
          ELSE UNCHANGED nvs
    /\ update' = NoSession
    /\ UNCHANGED part
    /\ RamSame

(* ota_close and config_update_end: all of the partition written means     *)
(* that its slot becomes the active one; anything less, a freed handle or  *)
(* a sender that stopped early, changes nothing.                           *)
OtaClose ==
    /\ power
    /\ update.phase = "recv"
    /\ IF update.handle = "live" /\ update.written = Chunks
          THEN SetActive(update.id)
          ELSE UNCHANGED nvs
    /\ update' = NoSession
    /\ UNCHANGED part
    /\ RamSame

-----------------------------------------------------------------------------
(* config.json rewritten in place by the HTTP server. A write into the     *)
(* partition an update is filling spoils that update.                      *)

EditMounted(b) ==
    /\ part' = [part EXCEPT ![mounted] = [img |-> Edited, loads |-> b]]
    /\ update' = IF update.id = mounted THEN [update EXCEPT !.gap = TRUE]
                                        ELSE update
    /\ UNCHANGED <<nvs, power, mounted, config>>

(* fs_post_handler opens the file with O_TRUNC ... *)
PostOpen == /\ power /\ mounted # NoSlot /\ ~editing
            /\ EditMounted(FALSE)
            /\ editing' = TRUE

(* ... and ends with a file that parses or not, or unlinks it. *)
PostDone == /\ power /\ editing
            /\ \E b \in BOOLEAN : EditMounted(b)
            /\ editing' = FALSE

FsDelete == /\ power /\ mounted # NoSlot /\ ~editing
            /\ EditMounted(FALSE)
            /\ UNCHANGED editing

-----------------------------------------------------------------------------
Next == \/ PowerLoss \/ Boot
        \/ \E v \in Images : OtaOpen(v)
        \/ UpdateBegin \/ EraseDone \/ EraseFails \/ NextChunk
        \/ UpdateWrite \/ UpdateWriteFails \/ UseAfterFree
        \/ OtaClose
        \/ PostOpen \/ PostDone \/ FsDelete

Spec == Init /\ [][Next]_vars

-----------------------------------------------------------------------------
(* An update in progress (config_update_begin to config_update_end) never  *)
(* erases or writes the partition NVS names: whatever happens to it, the   *)
(* active partition is as it was.                                          *)
TargetIsInactive == update.id # NoSlot => update.id # nvs

(* What config_initialize would load from the flash as it is now.          *)
NextBoot == IF part[nvs].loads THEN part[nvs].img
            ELSE IF part[Other(nvs)].loads THEN part[Other(nvs)].img
            ELSE NoImage

(* The device runs the partition NVS names, and config.json is intact.     *)
Sound == /\ power
         /\ mounted # NoSlot
         /\ mounted = nvs
         /\ part[nvs].loads
         /\ ~editing

Mode == IF ~power THEN "down"
        ELSE IF Sound THEN "sound"
        ELSE IF mounted # NoSlot /\ mounted # nvs THEN "restart"
        ELSE "open"

(* Refinement: the flash, seen through the next boot, is a configuration   *)
(* replaced atomically by config_update_end and by nothing else a sound    *)
(* device does, however the update is cut short (config.c "We succeeded    *)
(* only if the entire partition was written").                             *)
Atomic == INSTANCE AtomicConfig WITH
              Contents <- Labels, Misfit <- Cut, NoConfig <- NoImage,
              mode <- Mode, running <- config, durable <- NextBoot
AtomicUpdate == Atomic!Spec

(* The partition a sound device makes active holds one image from its      *)
(* first chunk to its last, although a download carries on after a chunk   *)
(* that could not be written (http_event_cb's result is not looked at).    *)
(* Only an image larger than the partition escapes the length check.       *)
CommitIsWhole ==
    [][Sound /\ nvs' # nvs =>
         \/ part[nvs'].img = update.img
         \/ Size[update.img] > Chunks]_vars
=============================================================================
