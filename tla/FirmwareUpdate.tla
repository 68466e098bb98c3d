----------------------------- MODULE FirmwareUpdate -----------------------------
(***************************************************************************)
(* Firmware updates from the SD card (SdFirmwareUpdateActivity and         *)
(* FirmwareFlasher) and over the air (OtaUpdater), and the switch of the   *)
(* boot partition (OtaBootSwitch).                                         *)
(*                                                                         *)
(* There are two app partitions and two otadata entries, of which the      *)
(* bootloader follows the one with the higher sequence.  Flash is erased   *)
(* block by block and programmed chunk by chunk; every operation on it may *)
(* fail half done, and the power may go at any step.                       *)
(***************************************************************************)
EXTENDS Integers, FiniteSets

CONSTANTS
    Cells,       \* size of an app partition, in chunks
    BlockCells,  \* size of an erase block, in chunks
    Sizes,       \* sizes of the images offered, in chunks
    MaxImages    \* bound: images offered

ASSUME SizesAssumption ==
    /\ Cells \in Nat \ {0} /\ BlockCells \in Nat \ {0} /\ MaxImages \in Nat
    /\ Sizes \subseteq Nat \ {0}

Partitions == {0, 1}
Slots == {0, 1}
Positions == 1 .. Cells

\* What the three verifications say of an image.  The bootloader takes a patched image
\* that the running system's esp_image_verify() rejects (OtaBootSwitch.h:8-14).
Validated == {"plain", "patched", "refused"}   \* by validateImageFile()
Booted == {"plain", "patched"}                 \* by the bootloader
RuntimeVerified == {"plain"}                   \* by esp_image_verify()
Kinds == Validated \cup {"broken"}

Images == [id : 0 .. MaxImages, kind : Kinds, size : Sizes \cup {Cells}]
Erased == [id |-> -1, kind |-> "broken", size |-> 0]
Garbage == [id |-> -2, kind |-> "broken", size |-> 0]

VARIABLES
    flash,     \* the chunks of the app partitions: images' chunks, erased or garbage
    otadata,   \* the sequences of the two entries; 0: erased, torn or marked invalid
    running,   \* the partition that runs
    image,     \* the image on the card, or at the release's URL
    offered,   \* images offered so far
    manifest,  \* what the release says of it; size 0: unknown
    via,       \* "sd" or "ota"
    pc,        \* where the update is
    dest,      \* the partition it writes
    pos,       \* streamPos, or processedSize: chunks written
    erased     \* erasedUpto

vars == <<flash, otadata, running, image, offered, manifest, via, pc, dest, pos, erased>>
chip == <<flash, otadata, running>>
offer == <<image, offered, manifest, via>>
place == <<dest, pos, erased>>

Factory == [id |-> 0, kind |-> "plain", size |-> Cells]
NoManifest == [size |-> 0, digest |-> FALSE]

Init ==
    /\ flash = [p \in Partitions |-> [i \in Positions |-> IF p = 0 THEN Factory ELSE Erased]]
    /\ otadata = [s \in Slots |-> 0] /\ running = 0
    /\ image = Factory /\ offered = 0 /\ manifest = NoManifest /\ via = "sd"
    /\ pc = "idle" /\ dest = 1 /\ pos = 0 /\ erased = 0

---------------------------------------------------------------------------------
(* The bootloader                                                              *)

Whole(p) ==
    /\ flash[p][1].id >= 0 /\ flash[p][1].size <= Cells
    /\ \A i \in 1 .. flash[p][1].size : flash[p][i] = flash[p][1]

Bootable(p) == Whole(p) /\ flash[p][1].kind \in Booted

\* The entry with the highest sequence; none of the two: the first partition.
ActiveSeq == IF otadata[0] >= otadata[1] THEN otadata[0] ELSE otadata[1]
Selected == IF ActiveSeq = 0 THEN 0 ELSE (ActiveSeq - 1) % 2

\* It falls back to the other partition when it refuses the selected one.
Boots(p) == Bootable(p) /\ (p = Selected \/ ~ Bootable(Selected))

Restart ==
    /\ \E p \in Partitions : Boots(p) /\ running' = p
    /\ pc' = "idle"
    /\ UNCHANGED <<flash, otadata, offer, place>>

---------------------------------------------------------------------------------
(* The two ways an update starts                                               *)

Offered(kind, size) ==
    /\ offered < MaxImages /\ offered' = offered + 1
    /\ image' = [id |-> offered', kind |-> kind, size |-> size]

\* Plausible bug: the partition otadata does not select.
NextUpdateBySelection == 1 - Selected

\* esp_ota_get_next_update_partition(nullptr).
NextUpdatePartition == 1 - running

PickFile ==
    /\ pc = "idle" /\ pc' = "validating" /\ via' = "sd"
    /\ \E kind \in Kinds, size \in Sizes : Offered(kind, size)
    /\ manifest' = NoManifest
    /\ UNCHANGED <<chip, place>>

\* The card is removable: the file may be another one when the user confirms.
ChangeCard ==
    /\ pc = "confirming"
    /\ \E kind \in Kinds, size \in Sizes : Offered(kind, size)
    /\ UNCHANGED <<chip, manifest, via, pc, place>>

ImageIsValid == image.kind \in Validated /\ image.size <= Cells

Validate ==
    /\ pc = "validating"
    /\ pc' = (IF ImageIsValid THEN "confirming" ELSE "failed")
    /\ UNCHANGED <<chip, offer, place>>

Answer ==
    /\ pc = "confirming" /\ pc' \in {"checking", "idle"}
    /\ UNCHANGED <<chip, offer, place>>

\* Plausible bug: the pass before the prompt is trusted, as alreadyValidated says.
FlashAlreadyValidated ==
    /\ pc = "checking" /\ pc' = "flashing"
    /\ dest' = NextUpdatePartition /\ pos' = 0 /\ erased' = 0
    /\ UNCHANGED <<chip, offer>>

\* flashFromSdPath() up to its loop: it validates the file again.
FlashFromSdPath ==
    /\ pc = "checking"
    /\ IF ImageIsValid
       THEN pc' = "flashing" /\ dest' = NextUpdatePartition /\ pos' = 0 /\ erased' = 0
       ELSE pc' = "failed" /\ UNCHANGED place
    /\ UNCHANGED <<chip, offer>>

\* installUpdate() up to the download; the image is what will arrive.
InstallUpdate ==
    /\ pc = "idle" /\ via' = "ota"
    /\ \E kind \in Kinds, size \in Sizes, said \in Sizes \cup {0}, digest \in BOOLEAN :
         /\ Offered(kind, size) /\ said <= Cells
         /\ manifest' = [size |-> said, digest |-> digest]
    /\ pc' = "beginning" /\ dest' = NextUpdatePartition /\ pos' = 0 /\ erased' = 0
    /\ UNCHANGED chip

\* esp_ota_begin() erases what the manifest says, or everything.
BeginOta ==
    /\ pc = "beginning" /\ pc' = "flashing"
    /\ erased' = (IF manifest.size = 0 THEN Cells ELSE manifest.size)
    /\ flash' = [flash EXCEPT ![dest] = [i \in Positions |-> IF i <= erased' THEN Erased ELSE @[i]]]
    /\ UNCHANGED <<otadata, running, offer, dest, pos>>

---------------------------------------------------------------------------------
(* Writing the image                                                           *)

BlockEnd == IF pos + BlockCells <= Cells THEN pos + BlockCells ELSE Cells

\* Plausible bug: one block erased counts as all of them.
EraseOnce ==
    /\ pc = "flashing" /\ via = "sd" /\ pos < image.size /\ pos >= erased
    /\ flash' = [flash EXCEPT ![dest] = [i \in Positions |->
                    IF i \in pos + 1 .. BlockEnd THEN Erased ELSE @[i]]]
    /\ erased' = Cells
    /\ UNCHANGED <<otadata, running, offer, pc, dest, pos>>

EraseBlock ==
    /\ pc = "flashing" /\ via = "sd" /\ pos < image.size /\ pos >= erased
    /\ flash' = [flash EXCEPT ![dest] = [i \in Positions |->
                    IF i \in pos + 1 .. BlockEnd THEN Erased ELSE @[i]]]
    /\ erased' = BlockEnd
    /\ UNCHANGED <<otadata, running, offer, pc, dest, pos>>

\* A chunk programmed where nothing was erased leaves garbage.
WriteChunk ==
    /\ pc = "flashing" /\ pos < image.size /\ pos < Cells
    /\ via = "sd" => pos < erased
    /\ flash' = [flash EXCEPT ![dest][pos + 1] = IF @ = Erased THEN image ELSE Garbage]
    /\ pos' = pos + 1
    /\ UNCHANGED <<otadata, running, offer, pc, dest, erased>>

\* What arrives over the air may be longer than the partition.
WriteBeyondEnd ==
    /\ pc = "flashing" /\ pos = Cells /\ pos < image.size /\ pc' = "failed"
    /\ UNCHANGED <<chip, offer, place>>

\* An erase or a write fails half done.
FlashFails ==
    /\ pc = "beginning" \/ (pc = "flashing" /\ pos < image.size)
    /\ pc' = "failed"
    /\ \/ UNCHANGED flash
       \/ \E i \in Positions : flash' = [flash EXCEPT ![dest][i] = Garbage]
    /\ UNCHANGED <<otadata, running, offer, place>>

\* A read of the card or of otadata fails; the download fails or is cancelled.
ReadFails ==
    /\ \/ pc \in {"validating", "checking", "beginning", "selecting"}
       \/ pc = "flashing" /\ pos < image.size
    /\ pc' = "failed"
    /\ UNCHANGED <<chip, offer, place>>

Written == pc = "flashing" /\ pos = image.size

FinishFlash ==
    /\ Written /\ via = "sd" /\ pc' = "selecting"
    /\ UNCHANGED <<chip, offer, place>>

\* Size and digest of the download, then esp_ota_end() of what was written.
DownloadIsGood ==
    /\ manifest.size \in {0, image.size}
    /\ manifest.digest => image.kind # "broken"
    /\ Whole(dest) /\ flash[dest][1].kind \in RuntimeVerified

FinishDownload ==
    /\ Written /\ via = "ota"
    /\ pc' = (IF DownloadIsGood THEN "selecting" ELSE "failed")
    /\ UNCHANGED <<chip, offer, place>>

---------------------------------------------------------------------------------
(* switchTo()                                                                  *)

\* Plausible bug: the entry in use is replaced.
TargetSlotInUse == IF ActiveSeq > 0 /\ otadata[0] < otadata[1] THEN 1 ELSE 0

TargetSlot == IF ActiveSeq > 0 /\ otadata[0] >= otadata[1] THEN 1 ELSE 0

NextSeq == IF ActiveSeq % 2 = dest THEN ActiveSeq + 1 ELSE ActiveSeq + 2

EraseSlot ==
    /\ pc = "selecting" /\ otadata' = [otadata EXCEPT ![TargetSlot] = 0]
    /\ pc' \in {"slotErased", "failed"}
    /\ UNCHANGED <<flash, running, offer, place>>

WriteSlot ==
    /\ pc = "slotErased"
    /\ \/ pc' = "done" /\ otadata' = [otadata EXCEPT ![TargetSlot] = NextSeq]
       \/ pc' = "failed" /\ UNCHANGED otadata
    /\ UNCHANGED <<flash, running, offer, place>>

Dismiss ==
    /\ pc = "failed" /\ pc' = "idle"
    /\ UNCHANGED <<chip, offer, place>>

---------------------------------------------------------------------------------
Start == PickFile \/ ChangeCard \/ Answer \/ InstallUpdate \/ Dismiss
Check == Validate \/ FlashFromSdPath \/ BeginOta
Write == EraseBlock \/ WriteChunk \/ WriteBeyondEnd \/ FinishFlash \/ FinishDownload
Switch == EraseSlot \/ WriteSlot
Fault == FlashFails \/ ReadFails

Next == Start \/ Check \/ Write \/ Switch \/ Fault \/ Restart

Spec == Init /\ [][Next]_vars

---------------------------------------------------------------------------------
Chunks == Images \cup {Erased, Garbage}
Updating == {"beginning", "flashing", "selecting", "slotErased", "done"}

TypeOK ==
    /\ flash \in [Partitions -> [Positions -> Chunks]]
    /\ otadata \in [Slots -> Nat] /\ running \in Partitions
    /\ image \in Images /\ offered \in 0 .. MaxImages
    /\ manifest \in [size : Sizes \cup {0}, digest : BOOLEAN] /\ via \in {"sd", "ota"}
    /\ pc \in Updating \cup {"idle", "validating", "confirming", "checking", "failed"}
    /\ dest \in Partitions /\ pos \in 0 .. Cells /\ erased \in 0 .. Cells

\* Whatever the update does and wherever it stops, the image that runs stays whole, so
\* that the device starts again (partitions.csv; FirmwareFlasher.cpp:256-259).
RunningImageIsWhole == Bootable(running)

\* An update that reports success has written a whole image, and the bootloader tries it
\* first, whatever entries otadata held (OtaBootSwitch.cpp:57-70).
SuccessMeansSelected == pc = "done" => Selected = dest /\ Whole(dest)

\* The partition to start changes only to one that holds a whole image whose contents were
\* verified: "a truncated/corrupted .bin can never become the next boot target"
\* (FirmwareFlasher.cpp:256-258).
SelectionChangesToAWholeImage ==
    [][Selected' # Selected => Whole(Selected') /\ flash[Selected'][1].kind \in Validated]_vars

\* The selection changes in no other step than the one that reports success: an update that
\* fails, or loses power between the erase and the write of an entry, leaves it alone
\* (OtaBootSwitch.cpp:68-79).
SelectionChangesOnSuccess == [][Selected' # Selected => pc' = "done"]_vars

\* The loops that write always get on, whatever the sizes of image, block and partition:
\* each pass erases ahead or writes the next chunk, and the card's path writes it as it
\* is in the file to flash that is erased (FirmwareFlasher.cpp:262-330).
FlashingAdvances ==
    [][pc = "flashing" /\ pc' = "flashing" =>
           /\ pos' + erased' > pos + erased
           /\ via = "sd" /\ pos' # pos =>
                 pos' = pos + 1 /\ flash[dest][pos'] = Erased /\ flash'[dest][pos'] = image]_vars

\* The update is atomic: what boots is the image that runs or the newest one.
IdOf(p) == flash[p][1].id
Install == INSTANCE AtomicInstall WITH
    runs <- IdOf(running),
    boots <- IdOf(CHOOSE p \in Partitions : Boots(p)),
    candidate <- offered,
    result <- IF pc # "done" THEN "none" ELSE IF image.kind \in Booted THEN "installed" ELSE "refused"
ImplementsAtomicInstall == Install!Spec

\* FirmwareFlasher.h:12-13 says "Both the SD update activity and the OTA path land here. OTA
\* first downloads the firmware to an SD-card cache file, then calls this": whatever is
\* written has passed validateImageFile() as a whole.
OnlyValidatedImagesAreWritten == pc = "flashing" => ImageIsValid
=================================================================================
