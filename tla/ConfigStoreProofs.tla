------------------------- MODULE ConfigStoreProofs --------------------------
(***************************************************************************)
(* Theorems about ConfigStore, for every set of images and every partition *)
(* size. The inductive invariant Inv adds to the type invariant the shape  *)
(* of an update session and what it has put into its target partition.     *)
(***************************************************************************)
EXTENDS ConfigStore, TLAPS

(* RAM is empty while the power is off.                                    *)
Unpowered == ~power => /\ update = NoSession
                       /\ mounted = NoSlot
                       /\ config = NoImage
                       /\ ~editing

(* What the phase and the handle say about a session.                      *)
SessionShape ==
    /\ update.phase = "idle" => update = NoSession
    /\ update.phase # "idle" => /\ update.img \in Images
                                /\ update.written <= update.sent
                                /\ update.sent <= Size[update.img]
    /\ update.phase \in {"erasing", "write"} => update.sent < Size[update.img]
    /\ update.phase = "erasing" => update.id # NoSlot /\ update.written = 0
    /\ update.phase = "write" => update.handle # "none"
    /\ update.handle # "none" => update.id # NoSlot
    /\ update.written > 0 => update.handle # "none"
    /\ update.gap => update.id # NoSlot

(* Chunks that were lost were received, but not written.                   *)
GapCounts == update.gap /\ update.id # mounted => update.sent > update.written

(* A live handle that filled its partition put there what Assembled says.  *)
TargetContents ==
    update.handle = "live" /\ update.written = Chunks =>
        /\ ~update.gap /\ Size[update.img] <= Chunks =>
               part[update.id] =
                   [img |-> update.img, loads |-> update.img \in Valid]
        /\ update.id # mounted /\ Size[update.img] > Chunks =>
               part[update.id].img = Cut

(* A partition that loads holds something; only a mounted one is edited.   *)
FlashShape == /\ \A p \in Slots : part[p].loads => part[p].img # NoImage
              /\ editing => mounted # NoSlot

Inv == /\ TypeOK
       /\ Unpowered
       /\ SessionShape
       /\ GapCounts
       /\ TargetIsInactive
       /\ TargetContents
       /\ FlashShape
-----------------------------------------------------------------------------
LEMMA SlotFacts ==
    /\ \A p \in Slots : Other(p) \in Slots /\ Other(p) # p /\ p # NoSlot
    /\ \A p, q \in Slots : p # q => q = Other(p)
BY DEF Slots, Other, NoSlot

LEMMA ContentFacts ==
    /\ Blank \in Partition /\ ~Blank.loads
    /\ \A b \in BOOLEAN : /\ Torn(b) \in Partition
                         /\ Torn(b).img = Scrap /\ Scrap # NoImage
                         /\ [img |-> Cut, loads |-> b] \in Partition
                         /\ Cut # NoImage
                         /\ [img |-> Edited, loads |-> b] \in Partition
                         /\ Edited # NoImage
    /\ \A v \in Images : /\ [img |-> v, loads |-> v \in Valid] \in Partition
                         /\ v # NoImage
BY ConfigAssumption DEF Blank, Torn, Partition, Labels

LEMMA SessionFacts ==
    /\ NoSession \in Sessions
    /\ \A s \in Sessions :
          /\ s.sent + 1 \in Nat
          /\ s.written < Chunks => s.written + 1 \in 1..Chunks
BY ConfigAssumption DEF NoSession, Sessions, NoSlot

LEMMA InitInv == Init => Inv
<1> SUFFICES ASSUME Init PROVE Inv
    OBVIOUS
<1>1. PICK v \in Valid : part = [p \in Slots |->
                            IF p = 0 THEN [img |-> v, loads |-> TRUE] ELSE Blank]
    BY DEF Init
<1>2. v \in Images /\ v \in Labels /\ v # NoImage
    BY ConfigAssumption DEF Labels
<1>3. part \in [Slots -> Partition]
    BY <1>1, <1>2, ContentFacts DEF Partition
<1>4. TypeOK
    BY <1>3, SessionFacts DEF Init, TypeOK, Slots, Labels, NoSlot
<1>5. FlashShape
    BY <1>1, <1>2 DEF Init, FlashShape, Blank
<1> QED
    BY <1>4, <1>5, ConfigAssumption
    DEF Init, Inv, Unpowered, SessionShape, GapCounts, TargetIsInactive,
        TargetContents, NoSession, NoSlot

LEMMA NoSessionInv ==
    ASSUME Inv, update' = NoSession, TypeOK', Unpowered', FlashShape'
    PROVE  Inv'
BY ConfigAssumption
DEF Inv, SessionShape, GapCounts, TargetIsInactive, TargetContents, NoSession,
    NoSlot

LEMMA PowerLossInv == ASSUME Inv, PowerLoss PROVE Inv'
<1>1. TypeOK'
    BY SessionFacts DEF Inv, PowerLoss, TypeOK, flash, Labels
<1>2. Unpowered' /\ FlashShape'
    BY DEF Inv, PowerLoss, Unpowered, FlashShape, flash
<1> QED
    BY <1>1, <1>2, NoSessionInv DEF PowerLoss

LEMMA BootInv == ASSUME Inv, Boot PROVE Inv'
<1>1. update = NoSession /\ ~editing
    BY DEF Inv, Unpowered, Boot
<1>2. part' \in [Slots -> Partition] /\ nvs' \in Slots
      /\ mounted' \in Slots \cup {NoSlot} /\ config' \in Labels
    <2>1. CASE BootActive
        BY <2>1 DEF BootActive, Inv, TypeOK, flash, Partition
    <2>2. CASE BootFallback
        BY <2>2, SlotFacts, ContentFacts
        DEF BootFallback, LoadFailed, SetActive, Inv, TypeOK, Partition
    <2>3. CASE BootNone
        BY <2>3, ContentFacts, ConfigAssumption
        DEF BootNone, LoadFailed, Inv, TypeOK, Labels, Slots
    <2> QED
        BY <2>1, <2>2, <2>3 DEF Boot
<1>3. TypeOK'
    BY <1>2 DEF Inv, TypeOK, Boot
<1>4. \A p \in Slots : part'[p] = part[p] \/ part'[p] = Blank
    <2>1. CASE BootActive
        BY <2>1 DEF BootActive, flash
    <2>2. CASE BootFallback
        BY <2>2 DEF BootFallback, LoadFailed, Inv, TypeOK
    <2>3. CASE BootNone
        BY <2>3 DEF BootNone, LoadFailed, Slots
    <2> QED
        BY <2>1, <2>2, <2>3 DEF Boot
<1>5. FlashShape'
    BY <1>1, <1>4, ContentFacts DEF Inv, FlashShape, Boot
<1>6. Unpowered'
    BY DEF Unpowered, Boot
<1> QED
    BY <1>1, <1>3, <1>5, <1>6, NoSessionInv DEF Boot

LEMMA OtaOpenInv == ASSUME Inv, NEW v \in Images, OtaOpen(v) PROVE Inv'
<1>1. TypeOK'
    BY SessionFacts
    DEF Inv, TypeOK, OtaOpen, flash, RamSame, NoSession, Sessions, NoSlot
<1> QED
    BY <1>1, ConfigAssumption
    DEF Inv, OtaOpen, Unpowered, SessionShape, GapCounts, TargetIsInactive,
        TargetContents, FlashShape, flash, RamSame, NoSession, NoSlot

LEMMA UpdateBeginInv == ASSUME Inv, UpdateBegin PROVE Inv'
<1>1. PICK b \in BOOLEAN : part' = [part EXCEPT ![Other(nvs)] = Torn(b)]
    BY DEF UpdateBegin
<1>2. Other(nvs) \in Slots /\ Other(nvs) # nvs /\ Other(nvs) # NoSlot
    BY SlotFacts DEF Inv, TypeOK
<1>3. TypeOK'
    BY <1>1, <1>2, ContentFacts DEF Inv, TypeOK, UpdateBegin, RamSame, Sessions
<1>4. FlashShape'
    BY <1>1, <1>2, ContentFacts DEF Inv, TypeOK, FlashShape, UpdateBegin, RamSame
<1>5. GapCounts'
    BY <1>2, SlotFacts
    DEF Inv, TypeOK, GapCounts, SessionShape, TargetIsInactive, UpdateBegin,
        RamSame, Sessions
<1> QED
    BY <1>2, <1>3, <1>4, <1>5
    DEF Inv, TypeOK, UpdateBegin, Unpowered, SessionShape, TargetIsInactive,
        TargetContents, RamSame, Sessions

LEMMA EraseDoneInv == ASSUME Inv, EraseDone PROVE Inv'
<1>1. update.id \in Slots
    BY DEF Inv, TypeOK, SessionShape, EraseDone, Sessions
<1>2. TypeOK'
    BY <1>1, ContentFacts DEF Inv, TypeOK, EraseDone, RamSame, Sessions
<1>3. FlashShape'
    BY <1>1, ContentFacts DEF Inv, TypeOK, FlashShape, EraseDone, RamSame
<1> QED
    BY <1>2, <1>3, ConfigAssumption
    DEF Inv, TypeOK, EraseDone, Unpowered, SessionShape, GapCounts,
        TargetIsInactive, TargetContents, RamSame, Sessions

LEMMA EraseFailsInv == ASSUME Inv, EraseFails PROVE Inv'
<1>1. TypeOK'
    <2>1. update \in Sessions /\ update.sent + 1 \in Nat
        BY SessionFacts DEF Inv, TypeOK
    <2>2. update' \in Sessions
        BY <2>1 DEF EraseFails, Sessions
    <2> QED
        BY <2>2 DEF Inv, TypeOK, EraseFails, RamSame, flash
<1> QED
    BY <1>1, ConfigAssumption
    DEF Inv, TypeOK, EraseFails, Unpowered, SessionShape, GapCounts,
        TargetIsInactive, TargetContents, FlashShape, RamSame, flash, Sessions

LEMMA NextChunkInv == ASSUME Inv, NextChunk PROVE Inv'
<1>1. TypeOK'
    BY DEF Inv, TypeOK, NextChunk, RamSame, flash, Sessions
<1> QED
    BY <1>1
    DEF Inv, TypeOK, NextChunk, Unpowered, SessionShape, GapCounts,
        TargetIsInactive, TargetContents, FlashShape, RamSame, flash, Sessions

LEMMA UpdateWriteInv == ASSUME Inv, UpdateWrite PROVE Inv'
<1>1. update.id \in Slots /\ update.img \in Images
    BY DEF Inv, TypeOK, SessionShape, UpdateWrite, Sessions
<1>2. PICK c \in Assembled(update.written + 1) :
         part' = [part EXCEPT ![update.id] = c]
    BY DEF UpdateWrite
<1>3. c \in Partition /\ (c.loads => c.img # NoImage)
    <2>1. CASE c = [img |-> update.img, loads |-> update.img \in Valid]
        BY <1>1, <2>1, ContentFacts
    <2>2. CASE \E b \in BOOLEAN : c = Torn(b)
        BY <2>2, ContentFacts
    <2>3. CASE \E b \in BOOLEAN : c = [img |-> Cut, loads |-> b]
        <3>1. PICK b \in BOOLEAN : c = [img |-> Cut, loads |-> b]
            BY <2>3
        <3>2. c \in Partition
            BY <3>1, ContentFacts
        <3>3. c.img # NoImage
            BY <3>1, ContentFacts
        <3> QED
            BY <3>2, <3>3
    <2>4. \/ c \in {[img |-> Cut, loads |-> b] : b \in BOOLEAN}
          \/ c \in {[img |-> update.img, loads |-> update.img \in Valid]}
          \/ c \in {Torn(b) : b \in BOOLEAN}
        BY <1>2, Zenon DEF Assembled
    <2> QED
        BY <2>1, <2>2, <2>3, <2>4
<1>4. TypeOK'
    <2>1. /\ update \in Sessions
          /\ update.sent + 1 \in Nat
          /\ update.written + 1 \in 0..Chunks
        BY SessionFacts DEF Inv, TypeOK, UpdateWrite
    <2>2. update' \in Sessions
        BY <2>1 DEF UpdateWrite, Sessions
    <2> QED
        BY <1>1, <1>2, <1>3, <2>2 DEF Inv, TypeOK, UpdateWrite, RamSame
<1>5. FlashShape'
    BY <1>1, <1>2, <1>3 DEF Inv, TypeOK, FlashShape, UpdateWrite, RamSame
<1>6. SessionShape'
    BY ConfigAssumption DEF Inv, TypeOK, SessionShape, UpdateWrite, Sessions
<1>7. TargetContents'
    <2>1. /\ update'.written = update.written + 1
          /\ update'.gap = update.gap /\ update'.id = update.id
          /\ update'.img = update.img /\ mounted' = mounted
        BY DEF Inv, TypeOK, UpdateWrite, Sessions, RamSame
    <2>2. part'[update.id] = c
        BY <1>1, <1>2 DEF Inv, TypeOK
    <2>0. Size[update.img] \in Nat /\ Chunks \in Nat
        BY <1>1, ConfigAssumption
    <2>3. CASE update.written + 1 = Chunks /\ Size[update.img] <= Chunks
        <3>1. ~update.gap =>
                  c = [img |-> update.img, loads |-> update.img \in Valid]
            BY <1>2, <2>0, <2>3 DEF Assembled
        <3> QED
            BY <2>0, <2>1, <2>2, <2>3, <3>1 DEF TargetContents
    <2>4. CASE update.written + 1 = Chunks /\ Size[update.img] > Chunks
        <3>1. PICK b \in BOOLEAN : c = [img |-> Cut, loads |-> b]
            BY <1>2, <2>4 DEF Assembled
        <3> QED
            BY <2>0, <2>1, <2>2, <2>4, <3>1 DEF TargetContents
    <2>5. CASE update.written + 1 # Chunks
        BY <2>1, <2>5 DEF TargetContents
    <2> QED
        BY <2>0, <2>3, <2>4, <2>5
<1> QED
    BY <1>4, <1>5, <1>6, <1>7
    DEF Inv, TypeOK, UpdateWrite, Unpowered, GapCounts, TargetIsInactive,
        RamSame, Sessions

LEMMA UpdateWriteFailsInv == ASSUME Inv, UpdateWriteFails PROVE Inv'
<1>1. TypeOK'
    <2>1. update \in Sessions /\ update.sent + 1 \in Nat
        BY SessionFacts DEF Inv, TypeOK
    <2>2. update' \in Sessions
        BY <2>1 DEF UpdateWriteFails, Sessions
    <2> QED
        BY <2>2 DEF Inv, TypeOK, UpdateWriteFails, RamSame, flash
<1>2. GapCounts'
    <2>1. update.sent \in Nat /\ update.written \in Nat
          /\ update.written <= update.sent
        BY ConfigAssumption
        DEF Inv, TypeOK, UpdateWriteFails, SessionShape, Sessions
    <2>2. update'.sent = update.sent + 1 /\ update'.written = update.written
        BY DEF Inv, TypeOK, UpdateWriteFails, Sessions
    <2> QED
        BY <2>1, <2>2 DEF GapCounts
<1> QED
    BY <1>1, <1>2, ConfigAssumption
    DEF Inv, TypeOK, UpdateWriteFails, Unpowered, SessionShape,
        TargetIsInactive, TargetContents, FlashShape, RamSame, flash, Sessions

LEMMA UseAfterFreeInv == ASSUME Inv, UseAfterFree PROVE Inv'
<1>1. TypeOK'
    <2>1. update \in Sessions /\ update.sent + 1 \in Nat
        BY SessionFacts DEF Inv, TypeOK
    <2>2. update' \in Sessions
        BY <2>1 DEF UseAfterFree, Sessions
    <2> QED
        BY <2>2 DEF Inv, TypeOK, UseAfterFree, RamSame, flash
<1> QED
    BY <1>1, ConfigAssumption
    DEF Inv, TypeOK, UseAfterFree, Unpowered, SessionShape, GapCounts,
        TargetIsInactive, TargetContents, FlashShape, RamSame, flash, Sessions

LEMMA OtaCloseInv == ASSUME Inv, OtaClose PROVE Inv'
<1>1. nvs' \in Slots
    BY DEF Inv, TypeOK, SessionShape, OtaClose, SetActive, Sessions
<1>2. TypeOK'
    BY <1>1, SessionFacts DEF Inv, TypeOK, OtaClose, RamSame
<1>3. Unpowered' /\ FlashShape'
    BY DEF Inv, OtaClose, Unpowered, FlashShape, RamSame
<1> QED
    BY <1>2, <1>3, NoSessionInv DEF OtaClose

(* The three handlers that touch config.json in place.                     *)
LEMMA EditInv ==
    ASSUME Inv, NEW b \in BOOLEAN, mounted # NoSlot, power,
           EditMounted(b), editing' \in BOOLEAN
    PROVE  Inv'
<1>1. mounted \in Slots /\ mounted # NoSlot
    BY DEF Inv, TypeOK
<1>2. CASE update.id = mounted
    <2>1. update' = [update EXCEPT !.gap = TRUE]
        BY <1>2 DEF EditMounted
    <2>2. TypeOK'
        BY <1>1, <2>1, ContentFacts DEF Inv, TypeOK, EditMounted, Sessions
    <2>3. FlashShape'
        BY <1>1, ContentFacts DEF Inv, TypeOK, FlashShape, EditMounted
    <2> QED
        BY <1>1, <1>2, <2>1, <2>2, <2>3
        DEF Inv, TypeOK, EditMounted, Unpowered, SessionShape, GapCounts,
            TargetIsInactive, TargetContents, Sessions, NoSession, NoSlot
<1>3. CASE update.id # mounted
    <2>1. update' = update
        BY <1>3 DEF EditMounted
    <2>2. TypeOK'
        BY <1>1, <2>1, ContentFacts DEF Inv, TypeOK, EditMounted
    <2>3. FlashShape'
        BY <1>1, ContentFacts DEF Inv, TypeOK, FlashShape, EditMounted
    <2> QED
        BY <1>1, <1>3, <2>1, <2>2, <2>3
        DEF Inv, TypeOK, EditMounted, Unpowered, SessionShape, GapCounts,
            TargetIsInactive, TargetContents
<1> QED
    BY <1>2, <1>3

LEMMA NextInv == ASSUME Inv, [Next]_vars PROVE Inv'
<1>1. CASE UNCHANGED vars
    BY <1>1
    DEF vars, Inv, TypeOK, Unpowered, SessionShape, GapCounts,
        TargetIsInactive, TargetContents, FlashShape
<1>2. CASE PowerLoss
    BY <1>2, PowerLossInv
<1>3. CASE Boot
    BY <1>3, BootInv
<1>4. CASE \E v \in Images : OtaOpen(v)
    BY <1>4, OtaOpenInv
<1>5. CASE UpdateBegin \/ EraseDone \/ EraseFails \/ NextChunk
    BY <1>5, UpdateBeginInv, EraseDoneInv, EraseFailsInv, NextChunkInv
<1>6. CASE UpdateWrite \/ UpdateWriteFails \/ UseAfterFree \/ OtaClose
    BY <1>6, UpdateWriteInv, UpdateWriteFailsInv, UseAfterFreeInv, OtaCloseInv
<1>7. CASE PostOpen \/ FsDelete
    <2>1. editing' \in BOOLEAN
        BY <1>7 DEF PostOpen, FsDelete, Inv, TypeOK
    <2> QED
        BY <1>7, <2>1, EditInv DEF PostOpen, FsDelete
<1>8. CASE PostDone
    BY <1>8, EditInv DEF PostDone, Inv, FlashShape
<1> QED
    BY <1>1, <1>2, <1>3, <1>4, <1>5, <1>6, <1>7, <1>8 DEF Next

-----------------------------------------------------------------------------
(* The variables keep their types: in particular no more chunks are counted *)
(* as written than the partition holds (config_update_write).              *)
THEOREM TypeCorrect == Spec => []TypeOK
<1>1. Init => Inv
    BY InitInv
<1>2. Inv /\ [Next]_vars => Inv'
    BY NextInv
<1>3. Inv => TypeOK
    BY DEF Inv
<1> QED
    BY <1>1, <1>2, <1>3, PTL DEF Spec

(* No update, however it is interrupted, touches the partition NVS names   *)
(* (config_update_begin picks the other one and nothing moves NVS before   *)
(* config_update_end).                                                     *)
THEOREM TargetIsSafe == Spec => []TargetIsInactive
<1>1. Init => Inv
    BY InitInv
<1>2. Inv /\ [Next]_vars => Inv'
    BY NextInv
<1>3. Inv => TargetIsInactive
    BY DEF Inv
<1> QED
    BY <1>1, <1>2, <1>3, PTL DEF Spec
(* A step that moves NVS on a sound device is the end of an update whose   *)
(* handle is live and whose partition is full.                             *)
LEMMA CommitStep ==
    ASSUME Inv, [Next]_vars, Sound, nvs' # nvs
    PROVE  /\ OtaClose
           /\ update.handle = "live" /\ update.written = Chunks
           /\ nvs' = update.id /\ part' = part
           /\ update.id \in Slots /\ update.id # nvs /\ mounted = nvs
           /\ update.img \in Images
<1>1. OtaClose
    <2>1. ~Boot
        BY DEF Boot, Sound
    <2> QED
        BY <2>1
        DEF Next, vars, flash, PowerLoss, OtaOpen, UpdateBegin, EraseDone,
            EraseFails, NextChunk, UpdateWrite, UpdateWriteFails, UseAfterFree,
            PostOpen, PostDone, FsDelete, EditMounted
<1> QED
    BY <1>1
    DEF OtaClose, SetActive, Sound, Inv, TypeOK, SessionShape,
        TargetIsInactive, Sessions

(* What fills a partition is one image from its first chunk to its last:   *)
(* a lost chunk is counted as received, never as written, so that it takes *)
(* an image with more chunks than the partition to make up for it.         *)
LEMMA FullTarget ==
    ASSUME Inv, update.phase = "recv", update.handle = "live",
           update.written = Chunks, update.id # mounted
    PROVE  \/ part[update.id] = [img |-> update.img,
                                 loads |-> update.img \in Valid]
           \/ Size[update.img] > Chunks /\ part[update.id].img = Cut
<1>1. /\ update.img \in Images /\ update.sent <= Size[update.img]
      /\ Size[update.img] \in Nat /\ Chunks \in Nat /\ update.sent \in Nat
    BY ConfigAssumption DEF Inv, TypeOK, SessionShape, Sessions
<1>2. CASE update.gap
    <2>1. Size[update.img] > Chunks
        BY <1>1, <1>2 DEF Inv, GapCounts
    <2> QED
        BY <2>1 DEF Inv, TargetContents
<1>3. CASE ~update.gap
    BY <1>1, <1>3 DEF Inv, TargetContents
<1> QED
    BY <1>2, <1>3

(* The partition a sound device makes active holds one whole image (the    *)
(* length check of config_update_end), unless the image was larger than    *)
(* the partition: lost chunks are counted as received, never as written.   *)
THEOREM CommitsAreWhole == Spec => CommitIsWhole
<1> DEFINE Whole == \/ part[nvs'].img = update.img
                    \/ Size[update.img] > Chunks
<1>1. ASSUME Inv, [Next]_vars, Sound, nvs' # nvs PROVE Whole
    <2>1. /\ update.handle = "live" /\ update.written = Chunks
          /\ nvs' = update.id /\ update.id # mounted
          /\ update.img \in Images
        BY <1>1, CommitStep
    <2>2. part[nvs'].img = update.img \/ Size[update.img] > Chunks
        BY <1>1, <2>1, CommitStep, FullTarget DEF OtaClose
    <2> QED
        BY <2>2
<1>2. Inv /\ [Next]_vars => [Sound /\ nvs' # nvs => Whole]_vars
    BY <1>1
<1>3. Init => Inv
    BY InitInv
<1>4. Inv /\ [Next]_vars => Inv'
    BY NextInv
<1> QED
    BY <1>2, <1>3, <1>4, PTL DEF Spec, CommitIsWhole

-----------------------------------------------------------------------------
(* The refinement: first what the next boot makes of the flash.            *)
LEMMA NextBootType == ASSUME Inv' PROVE NextBoot' \in Labels
BY SlotFacts, ConfigAssumption
DEF Inv, TypeOK, NextBoot, Partition, Labels

LEMMA ModeType ==
    /\ Mode \in {"down", "sound", "restart", "open"}
    /\ Mode = "down" <=> ~power
    /\ Mode = "sound" <=> Sound
BY DEF Mode, Sound

(* Between PowerLoss and Boot the program touches the inactive partition   *)
(* only, so a sound device keeps its next boot.                            *)
LEMMA TargetStep ==
    ASSUME Inv, Inv', power, power' = power, mounted' = mounted,
           config' = config, editing' = editing, nvs' = nvs,
           NEW c, NEW t \in Slots, t # nvs, part' = [part EXCEPT ![t] = c]
    PROVE  [Atomic!Next]_(Atomic!vars)
<1>1. part'[nvs] = part[nvs]
    BY DEF Inv, TypeOK
<1>2. Mode' = Mode /\ Mode # "down"
    BY <1>1 DEF Mode, Sound
<1>3. CASE Sound
    <2>1. NextBoot' = NextBoot
        BY <1>1, <1>3 DEF NextBoot, Sound
    <2> QED
        BY <1>2, <2>1 DEF Atomic!vars
<1>4. CASE ~Sound
    <2>1. Mode \in {"restart", "open"}
        BY <1>2, <1>4, ModeType
    <2> QED
        BY <1>2, <2>1, NextBootType DEF Atomic!Next, Atomic!Unprotected
<1> QED
    BY <1>3, <1>4

LEMMA SameStep ==
    ASSUME UNCHANGED <<part, nvs, power, mounted, config, editing>>
    PROVE  UNCHANGED Atomic!vars
BY DEF Atomic!vars, Mode, Sound, NextBoot

LEMMA BootStep == ASSUME Inv, Inv', Boot PROVE Atomic!Boot
<1>1. Mode = "down" /\ power' /\ ~editing' /\ nvs \in Slots
    BY DEF Inv, TypeOK, Unpowered, Boot, Mode
<1>2. CASE BootActive
    <2>1. NextBoot = part[nvs].img /\ NextBoot # NoImage
        BY <1>1, <1>2 DEF BootActive, NextBoot, Inv, FlashShape
    <2>2. config' = NextBoot /\ NextBoot' = NextBoot
        BY <1>2, <2>1 DEF BootActive, NextBoot, flash
    <2>3. Mode' = "sound"
        BY <1>1, <1>2, SlotFacts DEF BootActive, Mode, Sound, flash
    <2> QED
        BY <1>1, <2>1, <2>2, <2>3 DEF Atomic!Boot
<1>3. CASE BootFallback
    <2>1. Other(nvs) \in Slots /\ Other(nvs) # nvs /\ Other(Other(nvs)) = nvs
          /\ Other(nvs) # NoSlot
        BY <1>1, SlotFacts DEF Slots, Other
    <2>2. PICK c \in LoadFailed(nvs) : part' = [part EXCEPT ![nvs] = c]
        BY <1>3 DEF BootFallback
    <2>3. /\ ~part'[nvs].loads
          /\ part'[Other(nvs)] = part[Other(nvs)]
        BY <1>1, <1>3, <2>1, <2>2, ContentFacts
        DEF LoadFailed, BootFallback, Inv, TypeOK
    <2>4. NextBoot = part[Other(nvs)].img /\ NextBoot # NoImage
        BY <1>3, <2>1 DEF BootFallback, NextBoot, Inv, FlashShape
    <2>5. nvs' = Other(nvs) \/ nvs' = nvs
        BY <1>3 DEF BootFallback, SetActive
    <2>6. NextBoot' = NextBoot /\ config' = NextBoot
        BY <1>3, <2>1, <2>3, <2>4, <2>5 DEF BootFallback, NextBoot
    <2>7. Mode' \in {"sound", "restart"}
        BY <1>1, <1>3, <2>1, <2>3, <2>5 DEF BootFallback, Mode, Sound
    <2> QED
        BY <1>1, <2>4, <2>6, <2>7 DEF Atomic!Boot
<1>4. CASE BootNone
    <2>1. NextBoot = NoImage /\ config' = NoImage /\ nvs' = nvs
        BY <1>1, <1>4, SlotFacts DEF BootNone, NextBoot
    <2>2. \A p \in Slots : ~part'[p].loads
        BY <1>4, ContentFacts DEF BootNone, LoadFailed, Slots
    <2>3. NextBoot' = NoImage
        BY <1>1, <2>1, <2>2, SlotFacts DEF NextBoot
    <2>4. Mode' = "open"
        BY <1>1, <1>4 DEF BootNone, Mode, Sound
    <2> QED
        BY <1>1, <2>1, <2>3, <2>4 DEF Atomic!Boot
<1> QED
    BY <1>2, <1>3, <1>4 DEF Boot

LEMMA CloseStep == ASSUME Inv, Inv', OtaClose PROVE [Atomic!Next]_(Atomic!vars)
<1>1. CASE nvs' = nvs
    BY <1>1, SameStep DEF OtaClose, RamSame
<1>2. CASE nvs' # nvs /\ Sound
    <2>1. /\ update.handle = "live" /\ update.written = Chunks
          /\ nvs' = update.id /\ update.id \in Slots /\ part' = part
          /\ mounted = nvs /\ update.id # mounted /\ nvs \in Slots
        BY <1>2, CommitStep DEF Next, Inv, TypeOK
    <2>2. part[nvs'].img = Cut \/ (part[nvs'].loads => part[nvs'].img \in Valid)
        <3>1. \/ part[nvs'].img = Cut
              \/ part[nvs'] = [img |-> update.img,
                               loads |-> update.img \in Valid]
            BY <2>1, FullTarget DEF OtaClose
        <3>2. CASE part[nvs'] = [img |-> update.img,
                                 loads |-> update.img \in Valid]
            <4>1. part[nvs'].loads = (update.img \in Valid)
                  /\ part[nvs'].img = update.img
                BY <3>2
            <4> QED
                BY <4>1, Zenon
        <3> QED
            BY <3>1, <3>2
    <2>3. Other(nvs') = nvs
        BY <2>1, SlotFacts
    <2>4. NextBoot' \in Valid \cup {NextBoot, Cut}
        BY <1>2, <2>1, <2>2, <2>3 DEF NextBoot, Sound
    <2>5. Mode = "sound" /\ Mode' = "restart"
        BY <1>2, <2>1 DEF OtaClose, RamSame, Mode, Sound
    <2>6. config' = config
        BY DEF OtaClose, RamSame
    <2> QED
        BY <2>4, <2>5, <2>6 DEF Atomic!Next, Atomic!Install
<1>3. CASE nvs' # nvs /\ ~Sound
    <2>1. Mode \in {"restart", "open"}
        BY <1>3, ModeType DEF OtaClose
    <2>2. Mode' \in {"sound", "restart", "open"} /\ config' = config
        BY DEF OtaClose, RamSame, Mode
    <2> QED
        BY <2>1, <2>2, NextBootType DEF Atomic!Next, Atomic!Unprotected
<1> QED
    BY <1>1, <1>2, <1>3

LEMMA EditStep ==
    ASSUME Inv, Inv', power, mounted # NoSlot, NEW b \in BOOLEAN, EditMounted(b),
           editing' \/ ~b \/ editing
    PROVE  [Atomic!Next]_(Atomic!vars)
<1>1. power' /\ config' = config /\ nvs' = nvs /\ mounted' = mounted
    BY DEF EditMounted
<1>2. Mode' \in {"sound", "restart", "open"}
    BY <1>1 DEF Mode
<1>3. NextBoot' \in Labels
    BY NextBootType
<1>4. CASE ~Sound
    <2>1. Mode \in {"restart", "open"}
        BY <1>4, ModeType
    <2> QED
        BY <1>1, <1>2, <1>3, <2>1 DEF Atomic!Next, Atomic!Unprotected
<1>5. CASE Sound
    <2>1. part'[nvs].loads = b
        BY <1>5 DEF Sound, EditMounted, Inv, TypeOK
    <2>2. ~Sound' /\ mounted = nvs
        BY <1>1, <1>5, <2>1 DEF Sound
    <2>3. Mode' = "open"
        BY <1>1, <2>2 DEF Mode
    <2>4. Mode = "sound"
        BY <1>5, ModeType
    <2> QED
        BY <1>1, <1>3, <2>3, <2>4 DEF Atomic!Next, Atomic!Edit
<1> QED
    BY <1>4, <1>5

LEMMA NextStep ==
    ASSUME Inv, Inv', [Next]_vars PROVE [Atomic!Next]_(Atomic!vars)
<1>1. CASE UNCHANGED vars
    BY <1>1, SameStep DEF vars
<1>2. CASE PowerLoss
    <2>1. Mode # "down" /\ Mode' = "down" /\ config' = NoImage
        BY <1>2 DEF PowerLoss, Mode, Sound
    <2>2. NextBoot' = NextBoot
        BY <1>2 DEF PowerLoss, NextBoot, flash
    <2> QED
        BY <2>1, <2>2 DEF Atomic!Next, Atomic!PowerLoss
<1>3. CASE Boot
    BY <1>3, BootStep DEF Atomic!Next
<1>4. CASE \/ \E v \in Images : OtaOpen(v)
           \/ EraseFails \/ NextChunk \/ UpdateWriteFails \/ UseAfterFree
    BY <1>4, SameStep
    DEF OtaOpen, EraseFails, NextChunk, UpdateWriteFails, UseAfterFree, flash,
        RamSame
<1>5. CASE UpdateBegin
    <2>1. Other(nvs) \in Slots /\ Other(nvs) # nvs
        BY SlotFacts DEF Inv, TypeOK
    <2> QED
        BY <1>5, <2>1, TargetStep DEF UpdateBegin, RamSame
<1>6. CASE EraseDone \/ UpdateWrite
    <2>1. update.id \in Slots /\ update.id # nvs
        BY <1>6
        DEF Inv, TypeOK, SessionShape, TargetIsInactive, EraseDone,
            UpdateWrite, Sessions
    <2> QED
        BY <1>6, <2>1, TargetStep DEF EraseDone, UpdateWrite, RamSame
<1>7. CASE OtaClose
    BY <1>7, CloseStep
<1>8. CASE PostOpen \/ FsDelete
    BY <1>8, EditStep DEF PostOpen, FsDelete
<1>9. CASE PostDone
    BY <1>9, EditStep DEF PostDone, Inv, FlashShape
<1> QED
    BY <1>1, <1>2, <1>3, <1>4, <1>5, <1>6, <1>7, <1>8, <1>9 DEF Next

(* config.c implements an atomic configuration register: an update that is *)
(* cut short leaves the old configuration, one that ends installs the new. *)
THEOREM UpdateIsAtomic == Spec => AtomicUpdate
<1>1. Init => Atomic!Init
    <2> SUFFICES ASSUME Init PROVE Atomic!Init
        OBVIOUS
    <2>1. PICK v \in Valid : part = [p \in Slots |->
                            IF p = 0 THEN [img |-> v, loads |-> TRUE] ELSE Blank]
        BY DEF Init
    <2>2. NextBoot = v
        BY <2>1 DEF Init, NextBoot, Slots
    <2> QED
        BY <2>2 DEF Init, Atomic!Init, Mode
<1>2. Init => Inv
    BY InitInv
<1>3. Inv /\ [Next]_vars => Inv'
    BY NextInv
<1>4. Inv /\ Inv' /\ [Next]_vars => [Atomic!Next]_(Atomic!vars)
    BY NextStep
<1> QED
    BY <1>1, <1>2, <1>3, <1>4, PTL DEF Spec, AtomicUpdate, Atomic!Spec
=============================================================================
