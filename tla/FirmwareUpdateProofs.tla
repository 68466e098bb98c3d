-------------------------- MODULE FirmwareUpdateProofs --------------------------
(***************************************************************************)
(* Firmware updates, for partitions and images of any size.                *)
(*                                                                         *)
(* While an update writes, its partition is the one that does not run, and *)
(* its chunks up to the position are the image's or garbage.  When it      *)
(* comes to the switch, the partition holds the whole image.  The switch   *)
(* replaces the entry the bootloader does not follow.                      *)
(***************************************************************************)
EXTENDS FirmwareUpdate, TLAPS

FlashTypes == flash \in [Partitions -> [Positions -> Chunks]]
EntryTypes == otadata \in [Slots -> Nat] /\ running \in Partitions /\ dest \in Partitions
OfferTypes ==
    /\ image \in Images /\ offered \in 0 .. MaxImages
    /\ manifest \in [size : Sizes \cup {0}, digest : BOOLEAN] /\ via \in {"sd", "ota"}
PlaceTypes ==
    /\ pc \in Updating \cup {"idle", "validating", "confirming", "checking", "failed"}
    /\ pos \in 0 .. Cells /\ erased \in 0 .. Cells

\* The chunks written are the image's; what the card's path has erased is erased.
WritingInv ==
    /\ pc \in Updating => dest = 1 - running
    /\ image.id = offered
    /\ manifest.size <= Cells
    /\ pc = "beginning" => via = "ota" /\ pos = 0
    /\ pc = "flashing" => /\ pos <= image.size
                          /\ \A i \in 1 .. pos : flash[dest][i] \in {image, Garbage}
    /\ pc = "flashing" /\ via = "sd" =>
          /\ ImageIsValid /\ pos <= erased
          /\ \A i \in 1 .. pos : flash[dest][i] = image
          /\ \A i \in pos + 1 .. erased : flash[dest][i] = Erased

WrittenInv ==
    pc \in {"selecting", "slotErased", "done"} =>
        /\ Whole(dest) /\ flash[dest][1] = image /\ image.kind \in Validated

FwInv ==
    /\ FlashTypes /\ EntryTypes /\ OfferTypes /\ PlaceTypes
    /\ WritingInv /\ WrittenInv /\ RunningImageIsWhole /\ SuccessMeansSelected

LEMMA TypesAreThese == TypeOK <=> FlashTypes /\ EntryTypes /\ OfferTypes /\ PlaceTypes
  BY DEF TypeOK, FlashTypes, EntryTypes, OfferTypes, PlaceTypes

LEMMA CellFacts ==
    /\ Cells \in Nat /\ BlockCells \in Nat /\ Cells > 0 /\ BlockCells > 0 /\ MaxImages \in Nat
    /\ \A s \in Sizes \cup {Cells} : s \in Nat /\ s > 0
    /\ Erased \in Chunks /\ Garbage \in Chunks /\ Erased # Garbage
    /\ Images \subseteq Chunks /\ Erased \notin Images /\ Garbage \notin Images
    /\ Partitions = {0, 1} /\ Slots = {0, 1} /\ Positions = 1 .. Cells
<1>1. Erased.id = -1 /\ Garbage.id = -2 /\ \A i \in Images : i.id >= 0
  BY DEF Erased, Garbage, Images
<1> QED
  BY <1>1, SizesAssumption DEF Chunks, Partitions, Slots, Positions

LEMMA ImageFacts == \A i \in Images : i.id \in Nat /\ i.id <= MaxImages /\ i.size \in Nat /\ i.size > 0 /\ i.kind \in Kinds
  BY CellFacts DEF Images

\* The entry chosen next selects the partition written, ahead of both entries.
LEMMA NextSequence ==
    ASSUME EntryTypes
    PROVE  /\ ActiveSeq \in Nat /\ otadata[0] <= ActiveSeq /\ otadata[1] <= ActiveSeq
           /\ NextSeq \in Nat /\ NextSeq > ActiveSeq /\ (NextSeq - 1) % 2 = dest
           /\ TargetSlot \in Slots
<1>1. ActiveSeq \in Nat /\ otadata[0] <= ActiveSeq /\ otadata[1] <= ActiveSeq
  BY DEF ActiveSeq, EntryTypes, Slots
<1>2. \A n \in Nat : n % 2 \in {0, 1} /\ (n + 1) % 2 = 1 - (n % 2)
  OBVIOUS
<1>3. NextSeq \in Nat /\ NextSeq > ActiveSeq /\ (NextSeq - 1) % 2 = dest
  <2>1. CASE ActiveSeq % 2 = dest
    <3>1. NextSeq = ActiveSeq + 1 /\ NextSeq - 1 = ActiveSeq
      BY <1>1, <2>1 DEF NextSeq
    <3> QED
      BY <1>1, <2>1, <3>1
  <2>2. CASE ActiveSeq % 2 # dest
    <3>1. NextSeq = ActiveSeq + 2 /\ NextSeq - 1 = ActiveSeq + 1
      BY <1>1, <2>2 DEF NextSeq
    <3>2. (ActiveSeq + 1) % 2 = dest
      BY <1>1, <1>2, <2>2 DEF EntryTypes, Partitions
    <3> QED
      BY <1>1, <3>1, <3>2
  <2> QED
    BY <2>1, <2>2
<1> QED
  BY <1>1, <1>3 DEF TargetSlot, Slots

\* To erase the other entry changes nothing for the bootloader.
LEMMA SlotErased ==
    ASSUME EntryTypes, EraseSlot
    PROVE  ActiveSeq' = ActiveSeq /\ Selected' = Selected
<1>1. otadata[0] \in Nat /\ otadata[1] \in Nat
  BY DEF EntryTypes, Slots
<1>2. CASE TargetSlot = 1
  <2>1. otadata'[0] = otadata[0] /\ otadata'[1] = 0 /\ otadata[0] >= otadata[1]
    BY <1>2 DEF EraseSlot, EntryTypes, Slots, TargetSlot
  <2> QED
    BY <1>1, <2>1 DEF ActiveSeq, Selected
<1>3. CASE TargetSlot = 0
  <2>1. otadata'[1] = otadata[1] /\ otadata'[0] = 0
    BY <1>3 DEF EraseSlot, EntryTypes, Slots
  <2>2. otadata[0] < otadata[1] \/ (otadata[0] = 0 /\ otadata[1] = 0)
    <3>1. ~ (ActiveSeq > 0 /\ otadata[0] >= otadata[1])
      BY <1>3 DEF TargetSlot
    <3> QED
      BY <1>1, <3>1 DEF ActiveSeq
  <2> QED
    BY <1>1, <2>1, <2>2 DEF ActiveSeq, Selected
<1> QED
  BY <1>2, <1>3 DEF TargetSlot

\* To write it selects the partition.
LEMMA SlotWritten ==
    ASSUME EntryTypes, WriteSlot
    PROVE  /\ pc' = "done" => Selected' = dest /\ otadata' \in [Slots -> Nat]
           /\ pc' # "done" => Selected' = Selected /\ otadata' = otadata
<1>1. CASE pc' = "done"
  <2>1. otadata' = [otadata EXCEPT ![TargetSlot] = NextSeq]
    BY <1>1 DEF WriteSlot
  <2>2. ActiveSeq' = NextSeq
    <3>1. CASE TargetSlot = 1
      <4>1. otadata'[0] = otadata[0] /\ otadata'[1] = NextSeq
        BY <2>1, <3>1 DEF EntryTypes, Slots
      <4> QED
        BY <4>1, NextSequence DEF ActiveSeq, EntryTypes, Slots
    <3>2. CASE TargetSlot = 0
      <4>1. otadata'[1] = otadata[1] /\ otadata'[0] = NextSeq
        BY <2>1, <3>2 DEF EntryTypes, Slots
      <4> QED
        BY <4>1, NextSequence DEF ActiveSeq, EntryTypes, Slots
    <3> QED
      BY <3>1, <3>2 DEF TargetSlot
  <2> QED
    BY <1>1, <2>1, <2>2, NextSequence DEF Selected, EntryTypes
<1>2. CASE pc' # "done"
  BY <1>2 DEF WriteSlot, Selected, ActiveSeq
<1> QED
  BY <1>1, <1>2

---------------------------------------------------------------------------------
(* The invariant                                                               *)

LEMMA FwInitial == Init => FwInv
<1> SUFFICES ASSUME Init PROVE FwInv
  OBVIOUS
<1> USE CellFacts, ImageFacts DEF Init
<1>1. Factory \in Images
  BY SizesAssumption DEF Factory, Images, Kinds, Validated
<1>2. FlashTypes
  BY <1>1 DEF FlashTypes
<1>3. EntryTypes /\ OfferTypes /\ PlaceTypes
  BY <1>1 DEF EntryTypes, OfferTypes, PlaceTypes, NoManifest
<1>4. WritingInv /\ WrittenInv /\ SuccessMeansSelected
  BY DEF WritingInv, WrittenInv, SuccessMeansSelected, Updating, Factory, NoManifest
<1>5. RunningImageIsWhole
  BY DEF RunningImageIsWhole, Bootable, Whole, Factory, Booted
<1> QED
  BY <1>2, <1>3, <1>4, <1>5 DEF FwInv

\* Flash holds chunks of images, or none.
LEMMA FlashTypesKept == FwInv /\ [Next]_vars => FlashTypes'
<1> SUFFICES ASSUME FwInv, [Next]_vars PROVE FlashTypes'
  OBVIOUS
<1> USE CellFacts DEF FwInv, FlashTypes, EntryTypes, OfferTypes, PlaceTypes, chip, offer, place, vars
<1>1. CASE PickFile
  BY <1>1 DEF PickFile, Offered
<1>2. CASE ChangeCard
  BY <1>2 DEF ChangeCard, Offered
<1>3. CASE Answer
  BY <1>3 DEF Answer
<1>4. CASE InstallUpdate
  BY <1>4 DEF InstallUpdate, Offered, NextUpdatePartition
<1>5. CASE Dismiss
  BY <1>5 DEF Dismiss
<1>6. CASE Validate
  BY <1>6 DEF Validate
<1>7. CASE FlashFromSdPath
  BY <1>7 DEF FlashFromSdPath, NextUpdatePartition
<1>8. CASE BeginOta
  BY <1>8 DEF BeginOta
<1>9. CASE EraseBlock
  BY <1>9 DEF EraseBlock
<1>10. CASE WriteChunk
  BY <1>10 DEF WriteChunk
<1>11. CASE WriteBeyondEnd
  BY <1>11 DEF WriteBeyondEnd
<1>12. CASE FinishFlash
  BY <1>12 DEF FinishFlash, Written
<1>13. CASE FinishDownload
  BY <1>13 DEF FinishDownload, Written
<1>14. CASE EraseSlot
  BY <1>14 DEF EraseSlot
<1>15. CASE WriteSlot
  BY <1>15 DEF WriteSlot
<1>16. CASE FlashFails
  <2>1. CASE flash' = flash
    BY <2>1
  <2>2. CASE \E i \in Positions : flash' = [flash EXCEPT ![dest][i] = Garbage]
    BY <2>2
  <2> QED
    BY <1>16, <2>1, <2>2 DEF FlashFails
<1>17. CASE ReadFails
  BY <1>17 DEF ReadFails
<1>18. CASE Restart
  BY <1>18 DEF Restart
<1>19. CASE UNCHANGED vars
  BY <1>19
<1> QED
  BY <1>1, <1>2, <1>3, <1>4, <1>5, <1>6, <1>7, <1>8, <1>9, <1>10, <1>11,
     <1>12, <1>13, <1>14, <1>15, <1>16, <1>17, <1>18, <1>19 DEF Next, Start, Check, Write,
     Switch, Fault

\* The entries stay sequences.
LEMMA EntryTypesKept == FwInv /\ [Next]_vars => EntryTypes'
<1> SUFFICES ASSUME FwInv, [Next]_vars PROVE EntryTypes'
  OBVIOUS
<1> USE CellFacts DEF FwInv, EntryTypes, chip, offer, place, vars
<1>1. CASE PickFile
  BY <1>1 DEF PickFile, Offered
<1>2. CASE ChangeCard
  BY <1>2 DEF ChangeCard, Offered
<1>3. CASE Answer
  BY <1>3 DEF Answer
<1>4. CASE InstallUpdate
  BY <1>4 DEF InstallUpdate, Offered, NextUpdatePartition
<1>5. CASE Dismiss
  BY <1>5 DEF Dismiss
<1>6. CASE Validate
  BY <1>6 DEF Validate
<1>7. CASE FlashFromSdPath
  BY <1>7 DEF FlashFromSdPath, NextUpdatePartition
<1>8. CASE BeginOta
  BY <1>8 DEF BeginOta
<1>9. CASE EraseBlock
  BY <1>9 DEF EraseBlock
<1>10. CASE WriteChunk
  BY <1>10 DEF WriteChunk
<1>11. CASE WriteBeyondEnd
  BY <1>11 DEF WriteBeyondEnd
<1>12. CASE FinishFlash
  BY <1>12 DEF FinishFlash, Written
<1>13. CASE FinishDownload
  BY <1>13 DEF FinishDownload, Written
<1>14. CASE EraseSlot
  BY <1>14 DEF EraseSlot
<1>15. CASE WriteSlot
  BY <1>15, SlotWritten DEF WriteSlot
<1>16. CASE FlashFails
  BY <1>16 DEF FlashFails
<1>17. CASE ReadFails
  BY <1>17 DEF ReadFails
<1>18. CASE Restart
  BY <1>18 DEF Restart
<1>19. CASE UNCHANGED vars
  BY <1>19
<1> QED
  BY <1>1, <1>2, <1>3, <1>4, <1>5, <1>6, <1>7, <1>8, <1>9, <1>10, <1>11,
     <1>12, <1>13, <1>14, <1>15, <1>16, <1>17, <1>18, <1>19 DEF Next, Start, Check, Write,
     Switch, Fault

\* What is offered stays an image.
LEMMA OfferTypesKept == FwInv /\ [Next]_vars => OfferTypes'
<1> SUFFICES ASSUME FwInv, [Next]_vars PROVE OfferTypes'
  OBVIOUS
<1> USE CellFacts DEF FwInv, OfferTypes, chip, offer, place, vars
<1>1. CASE PickFile
  <2>1. PICK kind \in Kinds, size \in Sizes : Offered(kind, size)
    BY <1>1 DEF PickFile
  <2>2. image' \in Images /\ offered' \in 0 .. MaxImages
    BY <2>1 DEF Offered, Images
  <2> QED
    BY <1>1, <2>2 DEF PickFile, NoManifest
<1>2. CASE ChangeCard
  <2>1. PICK kind \in Kinds, size \in Sizes : Offered(kind, size)
    BY <1>2 DEF ChangeCard
  <2>2. image' \in Images /\ offered' \in 0 .. MaxImages
    BY <2>1 DEF Offered, Images
  <2> QED
    BY <1>2, <2>2 DEF ChangeCard, NoManifest
<1>3. CASE Answer
  BY <1>3 DEF Answer
<1>4. CASE InstallUpdate
  <2>1. PICK kind \in Kinds, size \in Sizes : Offered(kind, size)
    BY <1>4 DEF InstallUpdate
  <2>2. image' \in Images /\ offered' \in 0 .. MaxImages
    BY <2>1 DEF Offered, Images
  <2> QED
    BY <1>4, <2>2 DEF InstallUpdate, NoManifest
<1>5. CASE Dismiss
  BY <1>5 DEF Dismiss
<1>6. CASE Validate
  BY <1>6 DEF Validate
<1>7. CASE FlashFromSdPath
  BY <1>7 DEF FlashFromSdPath
<1>8. CASE BeginOta
  BY <1>8 DEF BeginOta
<1>9. CASE EraseBlock
  BY <1>9 DEF EraseBlock
<1>10. CASE WriteChunk
  BY <1>10 DEF WriteChunk
<1>11. CASE WriteBeyondEnd
  BY <1>11 DEF WriteBeyondEnd
<1>12. CASE FinishFlash
  BY <1>12 DEF FinishFlash, Written
<1>13. CASE FinishDownload
  BY <1>13 DEF FinishDownload, Written
<1>14. CASE EraseSlot
  BY <1>14 DEF EraseSlot
<1>15. CASE WriteSlot
  BY <1>15 DEF WriteSlot
<1>16. CASE FlashFails
  BY <1>16 DEF FlashFails
<1>17. CASE ReadFails
  BY <1>17 DEF ReadFails
<1>18. CASE Restart
  BY <1>18 DEF Restart
<1>19. CASE UNCHANGED vars
  BY <1>19
<1> QED
  BY <1>1, <1>2, <1>3, <1>4, <1>5, <1>6, <1>7, <1>8, <1>9, <1>10, <1>11,
     <1>12, <1>13, <1>14, <1>15, <1>16, <1>17, <1>18, <1>19 DEF Next, Start, Check, Write,
     Switch, Fault

\* The position stays inside the partition.
LEMMA PlaceTypesKept == FwInv /\ [Next]_vars => PlaceTypes'
<1> SUFFICES ASSUME FwInv, [Next]_vars PROVE PlaceTypes'
  OBVIOUS
<1> USE CellFacts DEF FwInv, OfferTypes, WritingInv, PlaceTypes, Updating, chip, offer, place, vars
<1>1. CASE PickFile
  BY <1>1 DEF PickFile, Offered
<1>2. CASE ChangeCard
  BY <1>2 DEF ChangeCard, Offered
<1>3. CASE Answer
  BY <1>3 DEF Answer
<1>4. CASE InstallUpdate
  BY <1>4 DEF InstallUpdate, Offered, NextUpdatePartition
<1>5. CASE Dismiss
  BY <1>5 DEF Dismiss
<1>6. CASE Validate
  BY <1>6 DEF Validate
<1>7. CASE FlashFromSdPath
  BY <1>7 DEF FlashFromSdPath, NextUpdatePartition
<1>8. CASE BeginOta
  BY <1>8 DEF BeginOta
<1>9. CASE EraseBlock
  BY <1>9 DEF EraseBlock, BlockEnd
<1>10. CASE WriteChunk
  BY <1>10 DEF WriteChunk
<1>11. CASE WriteBeyondEnd
  BY <1>11 DEF WriteBeyondEnd
<1>12. CASE FinishFlash
  BY <1>12 DEF FinishFlash, Written
<1>13. CASE FinishDownload
  BY <1>13 DEF FinishDownload, Written
<1>14. CASE EraseSlot
  BY <1>14 DEF EraseSlot
<1>15. CASE WriteSlot
  BY <1>15 DEF WriteSlot
<1>16. CASE FlashFails
  BY <1>16 DEF FlashFails
<1>17. CASE ReadFails
  BY <1>17 DEF ReadFails
<1>18. CASE Restart
  BY <1>18 DEF Restart
<1>19. CASE UNCHANGED vars
  BY <1>19
<1> QED
  BY <1>1, <1>2, <1>3, <1>4, <1>5, <1>6, <1>7, <1>8, <1>9, <1>10, <1>11,
     <1>12, <1>13, <1>14, <1>15, <1>16, <1>17, <1>18, <1>19 DEF Next, Start, Check, Write,
     Switch, Fault

\* Chunk by chunk, the partition that does not run gets the image.
LEMMA WritingKept == FwInv /\ [Next]_vars => WritingInv'
<1> SUFFICES ASSUME FwInv, [Next]_vars PROVE WritingInv'
  OBVIOUS
<1> USE CellFacts, ImageFacts DEF FwInv, FlashTypes, EntryTypes, OfferTypes, PlaceTypes, WritingInv, ImageIsValid, Updating, chip, offer, place, vars
<1>1. CASE PickFile
  BY <1>1 DEF PickFile, Offered, NoManifest
<1>2. CASE ChangeCard
  BY <1>2 DEF ChangeCard, Offered
<1>3. CASE Answer
  BY <1>3 DEF Answer
<1>4. CASE InstallUpdate
  BY <1>4 DEF InstallUpdate, Offered, NextUpdatePartition
<1>5. CASE Dismiss
  BY <1>5 DEF Dismiss
<1>6. CASE Validate
  BY <1>6 DEF Validate
<1>7. CASE FlashFromSdPath
  BY <1>7 DEF FlashFromSdPath, NextUpdatePartition, Updating
<1>8. CASE BeginOta
  BY <1>8 DEF BeginOta
<1>9. CASE EraseBlock
  BY <1>9 DEF EraseBlock, BlockEnd
<1>10. CASE WriteChunk
  BY <1>10 DEF WriteChunk
<1>11. CASE WriteBeyondEnd
  BY <1>11 DEF WriteBeyondEnd
<1>12. CASE FinishFlash
  BY <1>12 DEF FinishFlash, Written
<1>13. CASE FinishDownload
  BY <1>13 DEF FinishDownload, Written
<1>14. CASE EraseSlot
  BY <1>14 DEF EraseSlot
<1>15. CASE WriteSlot
  BY <1>15 DEF WriteSlot
<1>16. CASE FlashFails
  BY <1>16 DEF FlashFails
<1>17. CASE ReadFails
  BY <1>17 DEF ReadFails
<1>18. CASE Restart
  BY <1>18 DEF Restart
<1>19. CASE UNCHANGED vars
  BY <1>19
<1> QED
  BY <1>1, <1>2, <1>3, <1>4, <1>5, <1>6, <1>7, <1>8, <1>9, <1>10, <1>11,
     <1>12, <1>13, <1>14, <1>15, <1>16, <1>17, <1>18, <1>19 DEF Next, Start, Check, Write,
     Switch, Fault

\* The switch comes after the whole image.
LEMMA WrittenKept == FwInv /\ [Next]_vars => WrittenInv'
<1> SUFFICES ASSUME FwInv, [Next]_vars PROVE WrittenInv'
  OBVIOUS
<1> USE CellFacts, ImageFacts DEF FwInv, FlashTypes, EntryTypes, OfferTypes, PlaceTypes, WritingInv, WrittenInv, ImageIsValid, Whole, Updating, chip, offer, place, vars
<1>1. CASE PickFile
  BY <1>1 DEF PickFile, Offered
<1>2. CASE ChangeCard
  BY <1>2 DEF ChangeCard, Offered
<1>3. CASE Answer
  BY <1>3 DEF Answer
<1>4. CASE InstallUpdate
  BY <1>4 DEF InstallUpdate, Offered, NextUpdatePartition
<1>5. CASE Dismiss
  BY <1>5 DEF Dismiss
<1>6. CASE Validate
  BY <1>6 DEF Validate
<1>7. CASE FlashFromSdPath
  BY <1>7 DEF FlashFromSdPath, NextUpdatePartition
<1>8. CASE BeginOta
  BY <1>8 DEF BeginOta
<1>9. CASE EraseBlock
  BY <1>9 DEF EraseBlock
<1>10. CASE WriteChunk
  BY <1>10 DEF WriteChunk
<1>11. CASE WriteBeyondEnd
  BY <1>11 DEF WriteBeyondEnd
<1>12. CASE FinishFlash
  BY <1>12 DEF FinishFlash, Written
<1>13. CASE FinishDownload
  <2>1. CASE DownloadIsGood
    <3>1. Whole(dest) /\ flash[dest][1].kind \in RuntimeVerified /\ pos = image.size /\ 1 \in 1 .. pos
      BY <1>13, <2>1 DEF FinishDownload, Written, DownloadIsGood
    <3>2. flash[dest][1] \in {image, Garbage} /\ flash[dest][1].id >= 0
      BY <1>13, <3>1 DEF FinishDownload, Written
    <3>3. flash[dest][1] = image
      BY <3>2 DEF Garbage
    <3> QED
      BY <1>13, <3>1, <3>3 DEF FinishDownload, Written, RuntimeVerified, Validated
  <2>2. CASE ~ DownloadIsGood
    BY <1>13, <2>2 DEF FinishDownload
  <2> QED
    BY <2>1, <2>2
<1>14. CASE EraseSlot
  BY <1>14 DEF EraseSlot
<1>15. CASE WriteSlot
  BY <1>15 DEF WriteSlot
<1>16. CASE FlashFails
  BY <1>16 DEF FlashFails
<1>17. CASE ReadFails
  BY <1>17 DEF ReadFails
<1>18. CASE Restart
  BY <1>18 DEF Restart
<1>19. CASE UNCHANGED vars
  BY <1>19
<1> QED
  BY <1>1, <1>2, <1>3, <1>4, <1>5, <1>6, <1>7, <1>8, <1>9, <1>10, <1>11,
     <1>12, <1>13, <1>14, <1>15, <1>16, <1>17, <1>18, <1>19 DEF Next, Start, Check, Write,
     Switch, Fault

\* No step writes the partition that runs.
LEMMA RunningImageKept == FwInv /\ [Next]_vars => RunningImageIsWhole'
<1> SUFFICES ASSUME FwInv, [Next]_vars PROVE RunningImageIsWhole'
  OBVIOUS
<1> USE CellFacts DEF FwInv, FlashTypes, EntryTypes, WritingInv, RunningImageIsWhole, Bootable, Whole, Updating, chip, offer, place, vars
<1>1. CASE PickFile
  BY <1>1 DEF PickFile, Offered
<1>2. CASE ChangeCard
  BY <1>2 DEF ChangeCard, Offered
<1>3. CASE Answer
  BY <1>3 DEF Answer
<1>4. CASE InstallUpdate
  BY <1>4 DEF InstallUpdate, Offered, NextUpdatePartition
<1>5. CASE Dismiss
  BY <1>5 DEF Dismiss
<1>6. CASE Validate
  BY <1>6 DEF Validate
<1>7. CASE FlashFromSdPath
  BY <1>7 DEF FlashFromSdPath, NextUpdatePartition
<1>8. CASE BeginOta
  BY <1>8 DEF BeginOta
<1>9. CASE EraseBlock
  BY <1>9 DEF EraseBlock
<1>10. CASE WriteChunk
  BY <1>10 DEF WriteChunk
<1>11. CASE WriteBeyondEnd
  BY <1>11 DEF WriteBeyondEnd
<1>12. CASE FinishFlash
  BY <1>12 DEF FinishFlash, Written
<1>13. CASE FinishDownload
  BY <1>13 DEF FinishDownload, Written
<1>14. CASE EraseSlot
  BY <1>14 DEF EraseSlot
<1>15. CASE WriteSlot
  BY <1>15 DEF WriteSlot
<1>16. CASE FlashFails
  BY <1>16 DEF FlashFails
<1>17. CASE ReadFails
  BY <1>17 DEF ReadFails
<1>18. CASE Restart
  BY <1>18 DEF Restart, Boots
<1>19. CASE UNCHANGED vars
  BY <1>19
<1> QED
  BY <1>1, <1>2, <1>3, <1>4, <1>5, <1>6, <1>7, <1>8, <1>9, <1>10, <1>11,
     <1>12, <1>13, <1>14, <1>15, <1>16, <1>17, <1>18, <1>19 DEF Next, Start, Check, Write,
     Switch, Fault

\* Success is reported by the step that selects.
LEMMA SuccessKept == FwInv /\ [Next]_vars => SuccessMeansSelected'
<1> SUFFICES ASSUME FwInv, [Next]_vars PROVE SuccessMeansSelected'
  OBVIOUS
<1> USE CellFacts DEF FwInv, EntryTypes, WrittenInv, SuccessMeansSelected, Whole, Selected, ActiveSeq, chip, offer, place, vars
<1>1. CASE PickFile
  BY <1>1 DEF PickFile, Offered
<1>2. CASE ChangeCard
  BY <1>2 DEF ChangeCard, Offered
<1>3. CASE Answer
  BY <1>3 DEF Answer
<1>4. CASE InstallUpdate
  BY <1>4 DEF InstallUpdate, Offered, NextUpdatePartition
<1>5. CASE Dismiss
  BY <1>5 DEF Dismiss
<1>6. CASE Validate
  BY <1>6 DEF Validate
<1>7. CASE FlashFromSdPath
  BY <1>7 DEF FlashFromSdPath, NextUpdatePartition
<1>8. CASE BeginOta
  BY <1>8 DEF BeginOta
<1>9. CASE EraseBlock
  BY <1>9 DEF EraseBlock
<1>10. CASE WriteChunk
  BY <1>10 DEF WriteChunk
<1>11. CASE WriteBeyondEnd
  BY <1>11 DEF WriteBeyondEnd
<1>12. CASE FinishFlash
  BY <1>12 DEF FinishFlash, Written
<1>13. CASE FinishDownload
  BY <1>13 DEF FinishDownload, Written
<1>14. CASE EraseSlot
  BY <1>14 DEF EraseSlot
<1>15. CASE WriteSlot
  <2>1. flash' = flash /\ dest' = dest
    BY <1>15 DEF WriteSlot
  <2>2. pc' = "done" => Whole(dest)
    BY <1>15 DEF WriteSlot
  <2> QED
    BY <1>15, <2>1, <2>2, SlotWritten
<1>16. CASE FlashFails
  BY <1>16 DEF FlashFails
<1>17. CASE ReadFails
  BY <1>17 DEF ReadFails
<1>18. CASE Restart
  BY <1>18 DEF Restart
<1>19. CASE UNCHANGED vars
  BY <1>19
<1> QED
  BY <1>1, <1>2, <1>3, <1>4, <1>5, <1>6, <1>7, <1>8, <1>9, <1>10, <1>11,
     <1>12, <1>13, <1>14, <1>15, <1>16, <1>17, <1>18, <1>19 DEF Next, Start, Check, Write,
     Switch, Fault

LEMMA FwStep == FwInv /\ [Next]_vars => FwInv'
  BY FlashTypesKept, EntryTypesKept, OfferTypesKept, PlaceTypesKept, WritingKept, WrittenKept,
     RunningImageKept, SuccessKept DEF FwInv

LEMMA FwInvariant == Spec => []FwInv
  BY FwInitial, FwStep, PTL DEF Spec

---------------------------------------------------------------------------------
\* Flash, entries and positions keep their types (FirmwareFlasher.cpp:294-327).
THEOREM FirmwareIsTypeCorrect == Spec => []TypeOK
<1>1. FwInv => TypeOK
  BY TypesAreThese DEF FwInv
<1> QED
  BY <1>1, FwInvariant, PTL

\* The partition that runs is bootable at every step, so that the device starts again after
\* any failure or loss of power (FirmwareFlasher.cpp:256-259).
THEOREM DeviceStartsAgain == Spec => []RunningImageIsWhole
<1>1. FwInv => RunningImageIsWhole
  BY DEF FwInv
<1> QED
  BY <1>1, FwInvariant, PTL

\* After success the bootloader tries the written partition first, for any entries found
\* (OtaBootSwitch.cpp:57-70).
THEOREM SuccessIsSelected == Spec => []SuccessMeansSelected
<1>1. FwInv => SuccessMeansSelected
  BY DEF FwInv
<1> QED
  BY <1>1, FwInvariant, PTL

\* No step but the successful write of an entry changes what is selected.
LEMMA SelectionStep ==
    FwInv /\ [Next]_vars /\ Selected' # Selected =>
        pc' = "done" /\ Selected' = dest /\ WriteSlot /\ flash' = flash
<1> SUFFICES ASSUME FwInv, [Next]_vars, Selected' # Selected
             PROVE  pc' = "done" /\ Selected' = dest /\ WriteSlot /\ flash' = flash
  OBVIOUS
<1>1. otadata' = otadata => Selected' = Selected
  BY DEF Selected, ActiveSeq
<1>2. EraseSlot => Selected' = Selected
  BY SlotErased DEF FwInv
<1>3. [Next]_vars => otadata' = otadata \/ EraseSlot \/ WriteSlot
  BY DEF Next, Start, Check, Write, Switch, Fault, PickFile, ChangeCard, Answer, InstallUpdate, Dismiss,
     Validate, FlashFromSdPath, BeginOta, EraseBlock, WriteChunk, WriteBeyondEnd, FinishFlash,
     FinishDownload, FlashFails, ReadFails, Restart, chip, vars
<1>4. WriteSlot
  BY <1>1, <1>2, <1>3
<1>5. pc' = "done" /\ Selected' = dest
  BY <1>4, SlotWritten DEF FwInv
<1>6. flash' = flash
  BY <1>4 DEF WriteSlot
<1> QED
  BY <1>4, <1>5, <1>6

\* The selection changes in the step that reports success only (OtaBootSwitch.cpp:68-79).
THEOREM FailedUpdatesSelectNothing == Spec => SelectionChangesOnSuccess
<1>1. FwInv /\ [Next]_vars => [Selected' # Selected => pc' = "done"]_vars
  BY SelectionStep
<1> QED
  BY <1>1, FwInvariant, PTL DEF Spec, SelectionChangesOnSuccess

\* It changes to a partition that holds a whole, verified image
\* (FirmwareFlasher.cpp:256-258).
THEOREM OnlyWholeImagesAreSelected == Spec => SelectionChangesToAWholeImage
<1>1. FwInv /\ [Next]_vars =>
        [Selected' # Selected => Whole(Selected') /\ flash[Selected'][1].kind \in Validated]_vars
  <2> SUFFICES ASSUME FwInv, [Next]_vars, Selected' # Selected
               PROVE  Whole(Selected') /\ flash[Selected'][1].kind \in Validated
    OBVIOUS
  <2>1. WriteSlot /\ Selected' = dest
    BY SelectionStep
  <2>2. Whole(dest) /\ flash[dest][1].kind \in Validated
    BY <2>1 DEF WriteSlot, FwInv, WrittenInv
  <2> QED
    BY <2>1, <2>2
<1> QED
  BY <1>1, FwInvariant, PTL DEF Spec, SelectionChangesToAWholeImage

---------------------------------------------------------------------------------
(* The update implements AtomicInstall                                         *)

Booting == CHOOSE p \in Partitions : Boots(p)
BootId == IdOf(Booting)
Result == IF pc # "done" THEN "none" ELSE IF image.kind \in Booted THEN "installed" ELSE "refused"

\* Exactly one partition boots: the running one is there to fall back to.
OneBoots ==
    /\ Booting \in Partitions /\ Boots(Booting) /\ Selected \in Partitions
    /\ \A p \in Partitions : Boots(p) => p = Booting

LEMMA OnePartitionBoots == EntryTypes /\ RunningImageIsWhole => OneBoots
<1> SUFFICES ASSUME EntryTypes, RunningImageIsWhole PROVE OneBoots
  OBVIOUS
<1>1. Selected \in Partitions
  <2>1. ActiveSeq \in Nat
    BY NextSequence
  <2>2. \A n \in Int : n % 2 \in {0, 1}
    OBVIOUS
  <2> QED
    BY <2>1, <2>2 DEF Selected, Partitions
<1>2. \E p \in Partitions : Boots(p)
  BY <1>1 DEF Boots, RunningImageIsWhole, EntryTypes
<1>3. \A p, q \in Partitions : Boots(p) /\ Boots(q) => p = q
  BY <1>1 DEF Boots, Partitions
<1>4. Booting \in Partitions /\ Boots(Booting)
  BY <1>2 DEF Booting
<1> QED
  BY <1>1, <1>3, <1>4 DEF OneBoots

LEMMA InvariantBoots == (FwInv => OneBoots) /\ (FwInv' => OneBoots')
<1>1. FwInv => OneBoots
  BY OnePartitionBoots DEF FwInv
<1> QED
  BY <1>1, PTL

\* What boots depends on the flash and the selection alone.
LEMMA SameBoots ==
    ASSUME flash' = flash, Selected' = Selected
    PROVE  BootId' = BootId
<1>1. \A p : Boots(p)' <=> Boots(p)
  BY DEF Boots, Bootable, Whole
<1>2. Booting' = Booting
  BY <1>1 DEF Booting
<1> QED
  BY <1>2 DEF IdOf, BootId

\* A write of the other partition leaves what boots, or makes it one of the two.
LEMMA WriteBoots ==
    ASSUME FwInv, FwInv', UNCHANGED <<otadata, running, dest>>, dest = 1 - running,
           \A i \in Positions : flash'[running][i] = flash[running][i],
           Bootable(dest)' => IdOf(dest)' = offered' \/ (Bootable(dest) /\ IdOf(dest)' = IdOf(dest))
    PROVE  /\ IdOf(running)' = IdOf(running)
           /\ BootId' \in {IdOf(running), offered'} \/ BootId' = BootId
<1>1. OneBoots /\ OneBoots' /\ Selected' = Selected
  BY InvariantBoots DEF Selected, ActiveSeq
<1>2. Partitions = {running, dest} /\ running # dest
  BY DEF FwInv, EntryTypes, Partitions
<1>3. IdOf(running)' = IdOf(running)
  BY CellFacts DEF IdOf
<1>4. CASE Booting' = running
  BY <1>3, <1>4 DEF BootId, IdOf
<1>5. CASE Booting' = dest
  <2>1. Boots(dest)' /\ Bootable(dest)' /\ Bootable(running)'
    BY <1>1, <1>5 DEF OneBoots, Boots, FwInv, RunningImageIsWhole
  <2>2. Selected = dest
    BY <1>1, <1>2, <2>1 DEF Boots, OneBoots
  <2>3. BootId' = IdOf(dest)'
    BY <1>5 DEF BootId, IdOf
  <2>4. CASE IdOf(dest)' = offered'
    BY <1>3, <2>3, <2>4
  <2>5. CASE Bootable(dest) /\ IdOf(dest)' = IdOf(dest)
    <3>1. Booting = dest
      BY <1>1, <1>2, <2>2, <2>5 DEF Boots, OneBoots
    <3> QED
      BY <1>3, <2>3, <2>5, <3>1 DEF BootId
  <2> QED
    BY <2>1, <2>4, <2>5
<1> QED
  BY <1>1, <1>2, <1>4, <1>5 DEF OneBoots

Step == Install!Next \/ UNCHANGED Install!vars

LEMMA Mapped ==
    /\ Install!vars = <<IdOf(running), BootId, offered, Result>>
    /\ Install!vars' = <<IdOf(running)', BootId', offered', Result'>>
    /\ Install!Offer <=>
        offered' = offered + 1 /\ IdOf(running)' = IdOf(running) /\ BootId' = BootId /\ Result' = Result
    /\ Install!Attempt <=>
        /\ BootId' \in {IdOf(running), offered} /\ IdOf(running)' = IdOf(running)
        /\ offered' = offered /\ Result' = Result
    /\ Install!Acknowledge <=>
        /\ Result = "none" /\ BootId' \in {IdOf(running), offered}
        /\ (Result' = "installed" /\ BootId' = offered) \/ Result' = "refused"
        /\ IdOf(running)' = IdOf(running) /\ offered' = offered
    /\ Install!Restart <=>
        IdOf(running)' = BootId /\ Result' = "none" /\ BootId' = BootId /\ offered' = offered
  BY DEF Install!vars, Install!Offer, Install!Attempt, Install!Acknowledge, Install!Restart,
     BootId, Booting, Result, IdOf

\* Nothing is written: at most a new image is offered.
LEMMA QuietStep ==
    ASSUME UNCHANGED <<flash, otadata, running>>, pc # "done", pc' # "done",
           offered' = offered \/ offered' = offered + 1
    PROVE  Step
<1>1. Selected' = Selected /\ IdOf(running)' = IdOf(running)
  BY DEF Selected, ActiveSeq, IdOf
<1>2. BootId' = BootId /\ Result' = Result
  BY <1>1, SameBoots DEF Result
<1> QED
  BY <1>1, <1>2, Mapped DEF Step, Install!Next

\* The other partition is written.
LEMMA WriteStep ==
    ASSUME FwInv, FwInv', UNCHANGED <<otadata, running, dest, offered>>, pc \in {"beginning", "flashing"},
           pc' # "done", \A i \in Positions : flash'[running][i] = flash[running][i],
           Bootable(dest)' => IdOf(dest)' = offered \/ (Bootable(dest) /\ IdOf(dest)' = IdOf(dest))
    PROVE  Step
<1>1. dest = 1 - running
  BY DEF FwInv, WritingInv, Updating
<1>2. /\ IdOf(running)' = IdOf(running)
      /\ BootId' \in {IdOf(running), offered} \/ BootId' = BootId
  BY <1>1, WriteBoots
<1>3. Result' = Result
  BY DEF Result
<1> QED
  BY <1>2, <1>3, Mapped DEF Step, Install!Next

LEMMA InstallStep == FwInv /\ FwInv' /\ [Next]_vars => Step
<1> SUFFICES ASSUME FwInv, FwInv', [Next]_vars PROVE Step
  OBVIOUS
<1> USE DEF chip, offer, place
<1>1. CASE PickFile \/ ChangeCard \/ Answer \/ InstallUpdate \/ Dismiss
  BY <1>1, QuietStep DEF PickFile, ChangeCard, Answer, InstallUpdate, Dismiss, Offered
<1>2. CASE Validate \/ FlashFromSdPath \/ WriteBeyondEnd \/ FinishFlash \/ FinishDownload \/ ReadFails
  BY <1>2, QuietStep DEF Validate, FlashFromSdPath, WriteBeyondEnd, FinishFlash, FinishDownload,
     ReadFails, Written
<1>3. ASSUME pc \in {"beginning", "flashing"}
      PROVE  /\ dest = 1 - running /\ dest \in Partitions /\ running \in Partitions /\ dest # running
             /\ flash \in [Partitions -> [Positions -> Chunks]] /\ 1 \in Positions
             /\ pos \in 0 .. Cells
  BY <1>3, CellFacts DEF FwInv, FlashTypes, EntryTypes, WritingInv, Updating, Partitions, PlaceTypes
<1>4. CASE BeginOta
  <2>1. flash'[dest][1] = Erased
    BY <1>3, <1>4, CellFacts DEF BeginOta, FwInv, OfferTypes
  <2>2. ~ Bootable(dest)'
    BY <2>1, <1>4 DEF Bootable, Whole, Erased, BeginOta
  <2> QED
    BY <1>3, <1>4, <2>2, WriteStep DEF BeginOta
<1>5. CASE EraseBlock
  <2>1. pos = 0 => flash'[dest][1] = Erased
    BY <1>3, <1>5, CellFacts DEF EraseBlock, BlockEnd
  <2>2. pos # 0 => flash'[dest][1] \in {image, Garbage}
    <3>1. pos # 0 => 1 \in 1 .. pos
      BY <1>3, <1>5 DEF EraseBlock
    <3>2. pos # 0 => flash[dest][1] \in {image, Garbage}
      BY <1>5, <3>1 DEF EraseBlock, FwInv, WritingInv
    <3> QED
      BY <1>3, <1>5, <3>2 DEF EraseBlock
  <2>3. Bootable(dest)' => IdOf(dest)' = offered
    BY <1>5, <2>1, <2>2 DEF Bootable, Whole, IdOf, EraseBlock, Erased, Garbage, FwInv, WritingInv
  <2> QED
    BY <1>3, <1>5, <2>3, WriteStep DEF EraseBlock
<1>6. CASE WriteChunk
  <2>1. flash'[dest][1] \in {image, Garbage}
    <3>1. pos # 0 => 1 \in 1 .. pos
      BY <1>3, <1>6 DEF WriteChunk
    <3>2. pos # 0 => flash[dest][1] \in {image, Garbage}
      BY <1>6, <3>1 DEF WriteChunk, FwInv, WritingInv
    <3>3. pos = 0 => flash'[dest][1] \in {image, Garbage}
      BY <1>3, <1>6 DEF WriteChunk
    <3>4. pos # 0 => flash'[dest][1] = flash[dest][1]
      <4>1. pos # 0 => pos + 1 # 1
        BY <1>3, <1>6 DEF WriteChunk
      <4>2. \E c : flash' = [flash EXCEPT ![dest] = [flash[dest] EXCEPT ![pos + 1] = c]]
        BY <1>3, <1>6 DEF WriteChunk
      <4> QED
        BY <1>3, <1>6, <4>1, <4>2 DEF WriteChunk
    <3> QED
      BY <3>2, <3>3, <3>4
  <2>2. Bootable(dest)' => IdOf(dest)' = offered
    BY <1>6, <2>1 DEF Bootable, Whole, IdOf, WriteChunk, Garbage, FwInv, WritingInv
  <2> QED
    BY <1>3, <1>6, <2>2, WriteStep DEF WriteChunk
<1>7. CASE FlashFails /\ flash' = flash
  BY <1>7, QuietStep DEF FlashFails
<1>8. CASE FlashFails /\ flash' # flash
  <2>1. PICK i \in Positions : flash' = [flash EXCEPT ![dest][i] = Garbage]
    BY <1>8 DEF FlashFails
  <2>2. pc \in {"beginning", "flashing"} /\ UNCHANGED <<otadata, running, dest, offered>> /\ pc' = "failed"
    BY <1>8 DEF FlashFails
  <2>3. /\ \A j \in Positions : flash'[running][j] = flash[running][j]
        /\ \A j \in Positions : flash'[dest][j] = IF j = i THEN Garbage ELSE flash[dest][j]
    BY <1>3, <2>1, <2>2
  <2>4. ASSUME Bootable(dest)' PROVE Bootable(dest) /\ IdOf(dest)' = IdOf(dest)
    <3>1. flash'[dest][1].id >= 0 /\ dest' = dest
      BY <2>2, <2>4 DEF Bootable, Whole
    <3>2. i # 1 /\ flash'[dest][1] = flash[dest][1]
      BY <1>3, <2>2, <2>3, <3>1 DEF Garbage
    <3>3. flash[dest][1] \in Chunks /\ flash[dest][1].size \in Nat
      BY <1>3, <2>2, CellFacts, ImageFacts DEF Chunks, Erased, Garbage
    <3>4. \A j \in 1 .. flash[dest][1].size : flash'[dest][j] = flash[dest][1] /\ j \in Positions
      BY <2>4, <3>1, <3>2, <3>3, CellFacts DEF Bootable, Whole
    <3>5. \A j \in 1 .. flash[dest][1].size : flash[dest][j] = flash[dest][1]
      BY <2>3, <3>1, <3>2, <3>4 DEF Garbage
    <3> QED
      BY <2>4, <3>1, <3>2, <3>5 DEF Bootable, Whole, IdOf
  <2> QED
    BY <2>2, <2>3, <2>4, WriteStep
<1>9. CASE EraseSlot
  <2>1. Selected' = Selected
    BY <1>9, SlotErased DEF FwInv
  <2>2. flash' = flash /\ IdOf(running)' = IdOf(running) /\ offered' = offered /\ Result' = Result
    BY <1>9 DEF EraseSlot, IdOf, Result
  <2> QED
    BY <2>1, <2>2, SameBoots, Mapped DEF Step
<1>10. CASE WriteSlot /\ pc' # "done"
  <2>1. Selected' = Selected
    BY <1>10, SlotWritten DEF FwInv
  <2>2. flash' = flash /\ IdOf(running)' = IdOf(running) /\ offered' = offered /\ Result' = Result
    BY <1>10 DEF WriteSlot, IdOf, Result
  <2> QED
    BY <2>1, <2>2, SameBoots, Mapped DEF Step
<1>11. CASE WriteSlot /\ pc' = "done"
  <2>1. UNCHANGED <<flash, running, dest, image, offered>> /\ pc = "slotErased"
    BY <1>11 DEF WriteSlot
  <2>2. Selected' = dest /\ dest \in Partitions /\ dest = 1 - running /\ running \in Partitions
    BY <1>11, <2>1, SlotWritten DEF FwInv, EntryTypes, WritingInv, Updating
  <2>3. Whole(dest) /\ IdOf(dest) = offered /\ (Bootable(dest) <=> image.kind \in Booted)
    BY <2>1 DEF FwInv, WrittenInv, WritingInv, IdOf, Bootable
  <2>4. \A p \in Partitions : (Bootable(p)' <=> Bootable(p)) /\ IdOf(p)' = IdOf(p)
    BY <2>1 DEF Bootable, Whole, IdOf
  <2>5. OneBoots' /\ Booting' \in {dest, running} /\ Boots(Booting)'
    BY <2>2, InvariantBoots DEF OneBoots, Partitions
  <2>6. Bootable(dest) => Booting' = dest
    BY <2>1, <2>2, <2>4, <2>5 DEF OneBoots, Boots
  <2>7. BootId' = IdOf(Booting') /\ IdOf(running)' = IdOf(running)
    BY <2>1 DEF BootId, IdOf
  <2>8. Result = "none" /\ Result' = IF image.kind \in Booted THEN "installed" ELSE "refused"
    BY <1>11, <2>1 DEF Result
  <2>9. BootId' \in {IdOf(running), offered} /\ (image.kind \in Booted => BootId' = offered)
    BY <2>3, <2>5, <2>6, <2>7
  <2> QED
    BY <2>1, <2>7, <2>8, <2>9, Mapped DEF Step, Install!Next
<1>12. CASE Restart
  <2>1. UNCHANGED <<flash, otadata, offered>> /\ pc' = "idle"
    BY <1>12 DEF Restart
  <2>2. BootId' = BootId /\ Result' = "none"
    BY <2>1, SameBoots DEF Result, Selected, ActiveSeq
  <2>3. running' = Booting
    BY <1>12, InvariantBoots DEF Restart, OneBoots
  <2>4. IdOf(running)' = BootId
    BY <2>1, <2>3 DEF IdOf, BootId
  <2> QED
    BY <2>1, <2>2, <2>4, Mapped DEF Step, Install!Next
<1>13. CASE UNCHANGED vars
  <2>1. UNCHANGED <<flash, otadata, running, offered, pc, image>>
    BY <1>13 DEF vars
  <2>2. BootId' = BootId /\ Result' = Result /\ IdOf(running)' = IdOf(running)
    BY <2>1, SameBoots DEF Result, IdOf, Selected, ActiveSeq
  <2> QED
    BY <2>1, <2>2, Mapped DEF Step
<1> QED
  BY <1>1, <1>2, <1>4, <1>5, <1>6, <1>7, <1>8, <1>9, <1>10, <1>11, <1>12, <1>13
     DEF Next, Start, Check, Write, Switch, Fault

\* The update is atomic: at any moment the next start runs the present image or the newest
\* one, and an acknowledged one is the newest (FirmwareFlasher.cpp:255-335).
THEOREM UpdateIsAtomic == Spec => ImplementsAtomicInstall
<1>1. Init => Install!Init
  <2> SUFFICES ASSUME Init PROVE Install!Init
    OBVIOUS
  <2>1. EntryTypes /\ RunningImageIsWhole
    BY FwInitial DEF FwInv
  <2>2. Booting = 0
    <3>1. Boots(0) /\ 0 \in Partitions
      BY <2>1 DEF Init, Boots, Selected, ActiveSeq, RunningImageIsWhole, Slots, Partitions
    <3> QED
      BY <2>1, <3>1, OnePartitionBoots DEF OneBoots
  <2>3. IdOf(running) = 0 /\ IdOf(0) = 0
    BY CellFacts DEF Init, IdOf, Factory
  <2> QED
    BY <2>2, <2>3 DEF Install!Init, Init, Booting
<1>2. FwInv /\ FwInv' /\ [Next]_vars => [Install!Next]_(Install!vars)
  BY InstallStep DEF Step
<1> QED
  BY <1>1, <1>2, FwInvariant, PTL DEF Spec, ImplementsAtomicInstall, Install!Spec


---------------------------------------------------------------------------------
(* The update ends                                                             *)

\* Every pass of the loops that write gets on, for any sizes: the update never erases or
\* writes the same place for ever, and what the card's path writes was erased before.
THEOREM FlashingNeverStalls == Spec => FlashingAdvances
<1> DEFINE Advances == pc = "flashing" /\ pc' = "flashing" =>
             /\ pos' + erased' > pos + erased
             /\ via = "sd" /\ pos' # pos =>
                   pos' = pos + 1 /\ flash[dest][pos'] = Erased /\ flash'[dest][pos'] = image
<1>1. FwInv /\ [Next]_vars => [Advances]_vars
  <2> SUFFICES ASSUME FwInv, Next, pc = "flashing", pc' = "flashing" PROVE Advances
    OBVIOUS
  <2>1. /\ pos \in Nat /\ erased \in Nat /\ pos <= Cells /\ erased <= Cells /\ image.size \in Nat
        /\ Cells \in Nat /\ BlockCells \in Nat /\ BlockCells > 0 /\ dest \in Partitions
        /\ flash \in [Partitions -> [Positions -> Chunks]]
    BY CellFacts, ImageFacts DEF FwInv, PlaceTypes, OfferTypes, EntryTypes, FlashTypes
  <2>2. via = "sd" => /\ image.size <= Cells /\ pos <= erased
                      /\ \A i \in pos + 1 .. erased : flash[dest][i] = Erased
    BY DEF FwInv, WritingInv, ImageIsValid
  <2>3. EraseBlock \/ WriteChunk
    BY DEF Next, Start, Check, Write, Switch, Fault, PickFile, ChangeCard, Answer, InstallUpdate,
       Dismiss, Validate, FlashFromSdPath, BeginOta, WriteBeyondEnd, FinishFlash, FinishDownload,
       Written, EraseSlot, WriteSlot, FlashFails, ReadFails, Restart
  <2>4. CASE EraseBlock
    <3>1. pos' = pos /\ erased' = BlockEnd /\ pos >= erased /\ pos < image.size /\ via = "sd"
      BY <2>4 DEF EraseBlock
    <3>2. BlockEnd > erased
      BY <2>1, <2>2, <3>1 DEF BlockEnd
    <3>3. BlockEnd \in Nat /\ pos + BlockEnd > pos + erased
      BY <2>1, <3>2 DEF BlockEnd
    <3> QED
      BY <3>1, <3>3
  <2>5. CASE WriteChunk
    <3>1. pos' = pos + 1 /\ erased' = erased /\ pos < Cells /\ (via = "sd" => pos < erased)
      BY <2>5 DEF WriteChunk
    <3>2. pos + 1 \in Positions
      BY <2>1, <3>1 DEF Positions
    <3>3. flash'[dest][pos + 1] = IF flash[dest][pos + 1] = Erased THEN image ELSE Garbage
      BY <2>1, <2>5, <3>2 DEF WriteChunk
    <3>4. via = "sd" => flash[dest][pos + 1] = Erased
      BY <2>1, <2>2, <3>1
    <3> QED
      BY <2>1, <3>1, <3>3, <3>4
  <2> QED
    BY <2>3, <2>4, <2>5
<1>2. Spec => [][Advances]_vars
  BY <1>1, FwInvariant, PTL DEF Spec
<1> QED
  BY <1>2 DEF FlashingAdvances

=================================================================================
