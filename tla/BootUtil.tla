------------------------------ MODULE BootUtil ------------------------------
(***************************************************************************)
(* The boot loader, libs/bootutil: boot_go() with the image swap it runs   *)
(* when the image to boot is in the secondary slot, the boot status file   *)
(* that records the progress of the swap, and the resume of a swap that a  *)
(* reset interrupted.                                                      *)
(*                                                                         *)
(* Flash is a row of areas: SlotLen areas of slot 0, SlotLen areas of slot *)
(* 1 and the scratch area.  Lengths are in units: an area is AreaLen units *)
(* long and an image header HdrLen.  Image i is the one that is in slot i  *)
(* when the story begins.  A reset may strike between any two flash or     *)
(* file operations, and in the middle of an erase or a copy.               *)
(***************************************************************************)
EXTENDS Integers, Sequences, FiniteSets, SequencesExt

CONSTANTS
    SlotLen,        \* areas per image slot
    AreaLen,        \* length of an area, in units
    HdrLen,         \* length of the image header, in units
    Sizes,          \* the ih_img_size pairs to consider: a set of <<size of 0, size of 1>>
    Layouts,        \* which images are in flash at first: a set of subsets of {0, 1}
    MaxFaults,      \* resets and flash errors while the boot loader runs
    TornStatus      \* may a fault strike while the status file is rewritten?

ASSUME BootAssumption ==
    /\ SlotLen \in Nat \ {0} /\ AreaLen \in Nat \ {0} /\ HdrLen \in Nat
    /\ \A s \in Sizes : \A i \in 1..2 : s[i] \in 1 .. SlotLen * AreaLen - HdrLen
    /\ Layouts \subseteq SUBSET (0..1)
    /\ MaxFaults \in Nat
    /\ TornStatus \in BOOLEAN

VARIABLES
    flash,      \* contents of every area
    status,     \* the status file; ok = FALSE when absent or incomplete
    vect,       \* the test and main files: the image they name, or NoImage
    pc,         \* where boot_go is
    bs,         \* boot_status and boot_status_entries, in RAM
    fill,       \* boot_fill_slot: image and part being placed
    ops,        \* what boot_move_area or boot_swap_areas has still to do
    resumed,    \* boot_copy_image was called for an interrupted swap
    rsp,        \* br_hdr: the image boot_go answers with
    size,       \* ih_img_size of the images (never changes)
    here,       \* the images that were in flash at first (never changes)
    role,       \* history: the image that each image number of the swap stands for
    want,       \* history: the image the vector asked for when boot_go began
    faults      \* history: faults so far

vars == <<flash, status, vect, pc, bs, fill, ops, resumed, rsp, size, here, role, want, faults>>

NoImage == 255
Area == 0 .. 2 * SlotLen
Scratch == 2 * SlotLen
Slot(s) == s * SlotLen
Blank == [img |-> NoImage, part |-> 255, whole |-> FALSE]
NoEntry == <<NoImage, 255>>
NoStatus == [ok |-> FALSE, len |-> [i \in 0..1 |-> 0], ent |-> [a \in Area |-> NoEntry]]
IdleFill == [img |-> 0, part |-> 0]

\* Bug: the last, incomplete area is forgotten.
Parts_short(len) == len \div AreaLen

\* Turns of "off < length; off += nad_length".
Parts(len) == (len + AreaLen - 1) \div AreaLen
\* The areas an image really occupies: its header comes before its body.
Occupied(i) == (size[i] + HdrLen + AreaLen - 1) \div AreaLen
WholePart(i, p) == [img |-> i, part |-> p, whole |-> TRUE]

-----------------------------------------------------------------------------
(* The vector and the headers.                                             *)

\* The header of a slot is the start of part 0: it is there as soon as the
\* first bytes of the part are.
boot_img_hdrs(s) ==
    IF flash[Slot(s)].part = 0 THEN flash[Slot(s)].img ELSE NoImage

boot_find_image_slot(v) ==
    IF v = NoImage THEN -1
    ELSE IF v = boot_img_hdrs(0) THEN 0
    ELSE IF v = boot_img_hdrs(1) THEN 1
    ELSE -1

\* Bug: the test file goes before the image has been tested.
CleanVect_early == [vect EXCEPT !.test = NoImage]

\* The vector after the files that name no image of the flash are deleted.  The
\* main file is looked at only when the test file names nothing.
CleanVect ==
    LET t == boot_find_image_slot(vect.test)
        m == boot_find_image_slot(vect.main)
    IN  [test |-> IF t = -1 THEN NoImage ELSE vect.test,
         main |-> IF t = -1 /\ m = -1 THEN NoImage ELSE vect.main]

boot_select_image_slot ==
    LET t == boot_find_image_slot(vect.test)
    IN  IF t # -1 THEN t ELSE boot_find_image_slot(vect.main)

\* Bug: no image but the ones the vector names.
ChosenSlot_strict == boot_select_image_slot

\* The slot boot_go settles on; -1 when there is no image at all.
ChosenSlot ==
    IF boot_select_image_slot # -1 THEN boot_select_image_slot
    ELSE IF boot_img_hdrs(0) # NoImage THEN 0
    ELSE IF boot_img_hdrs(1) # NoImage THEN 1
    ELSE -1

\* The image that ChosenSlot holds.
Wanted == IF ChosenSlot = -1 THEN NoImage ELSE boot_img_hdrs(ChosenSlot)

\* Every image fully in its slot.
boot_build_status ==
    LET len == [s \in 0..1 |-> IF boot_img_hdrs(s) = NoImage THEN 0 ELSE size[boot_img_hdrs(s)]]
    IN  [ok  |-> TRUE,
         len |-> len,
         ent |-> [a \in Area |->
                    IF \E s \in 0..1 : a \in Slot(s) .. Slot(s) + Parts(len[s]) - 1
                    THEN LET s == CHOOSE s \in 0..1 : a \in Slot(s) .. Slot(s) + Parts(len[s]) - 1
                         IN  <<s, a - Slot(s)>>
                    ELSE NoEntry]]

-----------------------------------------------------------------------------
(* Moving and swapping areas, as the flash and file operations they do.    *)

Erase(a) == [op |-> "erase", from |-> a, to |-> a]
Copy(a, b) == [op |-> "copy", from |-> a, to |-> b]
\* boot_write_status after the entry of a has been moved to b: the old file
\* goes when it is opened for truncation, the new one is there after the last write.
WriteStatus(a, b) == << [op |-> "truncate", from |-> a, to |-> b],
                        [op |-> "write", from |-> a, to |-> b] >>

\* Bug: the status is written before the copy.
boot_move_area_early(src, dst) ==
    <<Erase(dst)>> \o WriteStatus(src, dst) \o <<Copy(src, dst), Erase(src)>>
boot_move_area(src, dst) ==
    <<Erase(dst), Copy(src, dst)>> \o WriteStatus(src, dst) \o <<Erase(src)>>

\* Bug: the second area is erased before its copy is recorded.
boot_swap_areas_erased(a1, a2) ==
    <<Erase(Scratch), Erase(a2), Copy(a2, Scratch)>> \o WriteStatus(a2, Scratch)
    \o <<Copy(a1, a2)>> \o WriteStatus(a1, a2)
    \o <<Erase(a1), Copy(Scratch, a1)>> \o WriteStatus(Scratch, a1)

boot_swap_areas(a1, a2) ==
    <<Erase(Scratch), Copy(a2, Scratch)>> \o WriteStatus(a2, Scratch)
    \o <<Erase(a2), Copy(a1, a2)>> \o WriteStatus(a1, a2)
    \o <<Erase(a1), Copy(Scratch, a1)>> \o WriteStatus(Scratch, a1)

boot_find_image_part(i, p) ==
    IF \E a \in Area : bs.ent[a] = <<i, p>>
    THEN CHOOSE a \in Area : bs.ent[a] = <<i, p>> /\ \A b \in 0 .. a - 1 : bs.ent[b] # <<i, p>>
    ELSE -1

\* What an area may hold when an erase or a copy of it was interrupted.
Torn(c) == {c, [c EXCEPT !.whole = FALSE], Blank}

-----------------------------------------------------------------------------
Init ==
    /\ \E s \in Sizes : size = [i \in 0..1 |-> s[i + 1]]
    /\ here \in Layouts
    /\ flash = [a \in Area |->
                  IF \E i \in here : a \in Slot(i) .. Slot(i) + Occupied(i) - 1
                  THEN LET i == a \div SlotLen IN WholePart(i, a - Slot(i))
                  ELSE Blank]
    /\ vect \in [test : {0, 1, NoImage}, main : {0, 1, NoImage}]
    /\ status = NoStatus /\ bs = NoStatus
    /\ pc = "off"
    /\ fill = IdleFill /\ ops = <<>> /\ resumed = FALSE
    /\ rsp = NoImage
    /\ role = [i \in 0..1 |-> NoImage]
    /\ want = Wanted
    /\ faults = 0

\* boot_read_status: the lengths and the entries must agree.
StatusUsable == status.ok /\ \A a \in Area : \A i \in 0..1 :
                    status.ent[a][1] = i => status.len[i] # 0

\* The start of boot_go: a usable status file means an interrupted swap.
boot_read_status ==
    /\ pc = "off"
    /\ IF StatusUsable
       THEN /\ bs' = status /\ resumed' = TRUE
            /\ fill' = [img |-> 1, part |-> 0] /\ pc' = "fill"
       ELSE pc' = "select" /\ UNCHANGED <<bs, resumed, fill>>
    /\ UNCHANGED <<flash, status, vect, ops, rsp, size, here, role, want, faults>>

\* The header boot_go answers with after a swap, as read before it.
SwappedHdr == role[1]

\* One turn of the loop of boot_fill_slot; image 1 goes to slot 0, then image 0
\* to slot 1 (boot_copy_image).
boot_fill_slot ==
    LET i == fill.img
        p == fill.part
        src == boot_find_image_part(i, p)
        dst == Slot(1 - i) + p
    IN
    /\ pc = "fill" /\ ops = <<>>
    /\ \/ /\ p >= Parts(bs.len[i]) /\ i = 1
          /\ fill' = [img |-> 0, part |-> 0]
          /\ UNCHANGED <<pc, ops, rsp>>
       \/ /\ p >= Parts(bs.len[i]) /\ i = 0
          /\ pc' = IF resumed THEN "select" ELSE "unlink_status"
          /\ rsp' = IF resumed THEN rsp ELSE SwappedHdr
          /\ fill' = IdleFill /\ UNCHANGED ops
       \/ /\ p < Parts(bs.len[i]) /\ src = -1              \* BOOT_EBADIMAGE
          /\ pc' = "failed" /\ UNCHANGED <<fill, ops, rsp>>
       \/ /\ p < Parts(bs.len[i]) /\ src # -1 /\ src = dst
          /\ fill' = [fill EXCEPT !.part = p + 1] /\ UNCHANGED <<pc, ops, rsp>>
       \/ /\ p < Parts(bs.len[i]) /\ src # -1 /\ src # dst /\ bs.ent[dst] = NoEntry
          /\ ops' = boot_move_area(src, dst)
          /\ fill' = [fill EXCEPT !.part = p + 1] /\ UNCHANGED <<pc, rsp>>
       \/ /\ p < Parts(bs.len[i]) /\ src # -1 /\ src # dst /\ bs.ent[dst] # NoEntry
          /\ pc' = IF src = Scratch THEN "assert" ELSE pc  \* assert(area_idx_1 != scratch)
          /\ ops' = boot_swap_areas(src, dst)
          /\ fill' = [fill EXCEPT !.part = p + 1] /\ UNCHANGED rsp
    /\ UNCHANGED <<flash, status, vect, bs, resumed, size, here, role, want, faults>>

\* The next flash or file operation of the move or swap.
boot_area_op ==
    LET o == Head(ops)
    IN
    /\ pc = "fill" /\ ops # <<>>
    /\ ops' = Tail(ops)
    /\ CASE o.op = "erase" ->
              flash' = [flash EXCEPT ![o.to] = Blank] /\ UNCHANGED <<status, bs>>
         [] o.op = "copy" ->
              flash' = [flash EXCEPT ![o.to] = flash[o.from]] /\ UNCHANGED <<status, bs>>
         [] o.op = "truncate" ->
              /\ bs' = [bs EXCEPT !.ent[o.to] = bs.ent[o.from], !.ent[o.from] = NoEntry]
              /\ status' = NoStatus /\ UNCHANGED flash
         [] o.op = "write" ->
              status' = bs /\ UNCHANGED <<flash, bs>>
    /\ UNCHANGED <<vect, pc, fill, resumed, rsp, size, here, role, want, faults>>

\* Read the headers, build the default status, choose the slot.
boot_select ==
    /\ pc = "select"
    /\ vect' = CleanVect
    /\ bs' = boot_build_status
    /\ resumed' = FALSE
    /\ CASE ChosenSlot = -1 -> pc' = "failed" /\ UNCHANGED <<fill, rsp, role>>
         [] ChosenSlot = 0 ->
              pc' = "unlink_status" /\ rsp' = boot_img_hdrs(0) /\ UNCHANGED <<fill, role>>
         [] ChosenSlot = 1 ->
              /\ pc' = "fill" /\ fill' = [img |-> 1, part |-> 0]
              /\ role' = [s \in 0..1 |-> boot_img_hdrs(s)] /\ UNCHANGED rsp
    /\ UNCHANGED <<flash, status, ops, size, here, want, faults>>

boot_unlink_status ==
    /\ pc = "unlink_status"
    /\ status' = NoStatus /\ pc' = "delete_test"
    /\ UNCHANGED <<flash, vect, bs, fill, ops, resumed, rsp, size, here, role, want, faults>>

\* The last thing boot_go does; the image runs.
boot_vect_delete_test ==
    /\ pc = "delete_test"
    /\ vect' = [vect EXCEPT !.test = NoImage] /\ pc' = "running"
    /\ bs' = NoStatus
    /\ UNCHANGED <<flash, status, fill, ops, resumed, rsp, size, here, role, want, faults>>

\* The running image is told to test image v at the next boot (imgmgr).
imgr_boot_write ==
    /\ pc = "running"
    /\ \E v \in 0..1 : vect' = [vect EXCEPT !.test = v]
    /\ UNCHANGED <<flash, status, pc, bs, fill, ops, resumed, rsp, size, here, role, want, faults>>

\* The running image restarts the board.
Restart ==
    /\ pc = "running"
    /\ pc' = "off" /\ want' = Wanted /\ rsp' = NoImage
    /\ UNCHANGED <<flash, status, vect, bs, fill, ops, resumed, size, here, role, faults>>

\* An interrupted erase or copy leaves its area in any of the torn states.
TearFlash ==
    IF ops # <<>> /\ Head(ops).op = "erase"
    THEN \E c \in Torn(flash[Head(ops).to]) : flash' = [flash EXCEPT ![Head(ops).to] = c]
    ELSE IF ops # <<>> /\ Head(ops).op = "copy"
    THEN \E c \in Torn(flash[Head(ops).from]) :
            flash' = [flash EXCEPT ![Head(ops).to] = IF c.whole THEN @ ELSE c]
    ELSE UNCHANGED flash

CanFault ==
    /\ faults < MaxFaults
    /\ ops # <<>> /\ Head(ops).op = "write" => TornStatus

ClearRam(p) ==
    /\ pc' = p /\ bs' = NoStatus /\ fill' = IdleFill /\ ops' = <<>>
    /\ resumed' = FALSE /\ rsp' = NoImage

\* The board resets while the boot loader runs.
Reset ==
    /\ pc \in {"fill", "select", "unlink_status", "delete_test"}
    /\ CanFault /\ faults' = faults + 1
    /\ TearFlash /\ ClearRam("off")
    /\ UNCHANGED <<status, vect, size, here, role, want>>

\* A flash or file operation of a move or swap fails; every caller passes the
\* error on and boot_go returns it.
OpError ==
    /\ pc = "fill" /\ ops # <<>>
    /\ CanFault /\ faults' = faults + 1
    /\ TearFlash /\ ClearRam("failed")
    /\ UNCHANGED <<status, vect, size, here, role, want>>

\* The assertion of the boot loader's main() stops the board until someone
\* switches it off and on.
PowerCycle ==
    /\ pc = "failed"
    /\ ClearRam("off")
    /\ UNCHANGED <<flash, status, vect, size, here, role, want, faults>>

boot_go ==
    \/ boot_read_status \/ boot_fill_slot \/ boot_area_op \/ boot_select
    \/ boot_unlink_status \/ boot_vect_delete_test

Next == boot_go \/ imgr_boot_write \/ Restart \/ Reset \/ OpError \/ PowerCycle

Spec == Init /\ [][Next]_vars

\* The boot loader is a sequential program that keeps running, and a board that
\* stopped is switched on again.
FairSpec == Spec /\ WF_vars(boot_go) /\ WF_vars(PowerCycle)

-----------------------------------------------------------------------------
(* Properties.                                                             *)

Content == {Blank} \cup [img : 0..1, part : 0 .. SlotLen - 1, whole : BOOLEAN]
Entry == {NoEntry} \cup ((0..1) \X (0 .. SlotLen - 1))
StatusRec == [ok : BOOLEAN, len : [0..1 -> Nat], ent : [Area -> Entry]]
Op == [op : {"erase", "copy", "truncate", "write"}, from : Area, to : Area]

\* Types; in particular the loader never stops at an assertion of
\* boot_swap_areas (pc is never "assert").
TypeOK ==
    /\ flash \in [Area -> Content]
    /\ status \in StatusRec /\ bs \in StatusRec
    /\ vect \in [test : {0, 1, NoImage}, main : {0, 1, NoImage}]
    /\ pc \in {"off", "fill", "select", "unlink_status", "delete_test", "running", "failed"}
    /\ fill \in [img : 0..1, part : 0..SlotLen]
    /\ ops \in Seq(Op)
    /\ resumed \in BOOLEAN
    /\ rsp \in {0, 1, NoImage} /\ want \in {0, 1, NoImage}
    /\ size \in [0..1 -> Nat] /\ here \in SUBSET (0..1)
    /\ role \in [0..1 -> {0, 1, NoImage}]
    /\ faults \in 0..MaxFaults

\* The resets that the outgoing image, image 0 of the swap, survives: when one of
\* the images fits in one area.  BootLoss.cfg shows the others.
Lossless == faults = 0 \/ \E i \in 0..1 : Occupied(i) = 1

\* "The contents of the boot status file are always accurate" (design.txt): when
\* the file is there, each part of the incoming image, and in the lossless cases
\* of the other one, is whole in the area its entry names, at every moment a reset
\* could make boot_go read it.
StatusAccurate ==
    status.ok => \A a \in Area : status.ent[a] # NoEntry /\ (status.ent[a][1] = 1 \/ Lossless) =>
                    flash[a] = WholePart(role[status.ent[a][1]], status.ent[a][2])

\* "Both images need to be recoverable if the boot loader resets in the middle
\* of the process" (design.txt): however often boot_copy_image is interrupted, no
\* part of the incoming image, and in the lossless cases of the other one, is ever
\* gone from flash.
ImagesKept ==
    \A i \in here : i = role[1] \/ Lossless =>
        \A p \in 0 .. Occupied(i) - 1 : \E a \in Area : flash[a] = WholePart(i, p)

InSlot(i, s) == \A p \in 0 .. Occupied(i) - 1 : flash[Slot(s) + p] = WholePart(i, p)

\* boot_go hands over to an image that is complete in slot 0.
BootedImageWhole == pc = "running" => rsp # NoImage /\ InSlot(rsp, 0)

\* It does so however often it was reset, unless slot 0 was empty; then there is
\* no status file any more, and in the lossless cases the other image, if there is
\* one, is complete in slot 1.
BootsWholeImage ==
    pc = "running" /\ (faults = 0 \/ 0 \in here) =>
        /\ BootedImageWhole /\ ~status.ok
        /\ Lossless => \A i \in here \ {rsp} : InSlot(i, 1)

\* The image that runs is the one the boot vector asked for when the board was
\* last restarted on purpose, however often the loader was reset in between.
RequestHonoured == pc = "running" => rsp = want

\* "To ensure recovery is always possible, bootutil updates the status file at
\* each step" (design.txt): once the faults stop, an image runs.
AlwaysBoots == here # {} => (pc = "off" ~> pc = "running")

\* It does when one of the images fits in one area and slot 0 is not empty.
Boots == 0 \in here /\ (\E i \in 0..1 : Occupied(i) = 1) => (pc = "off" ~> pc = "running")
=============================================================================
