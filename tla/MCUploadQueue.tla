---------------------------- MODULE MCUploadQueue ----------------------------
(* Small instances of UploadQueue.  Photographs p1, p2, p4 and p5 were     *)
(* taken on Roll r1, p3 on none; p1 has a thumbnail and camera 1 dark.     *)
EXTENDS UploadQueue

MCMetaRoll == [c \in Captures |-> IF c = "p3" THEN NoRoll ELSE "r1"]
MCMetaSlots == [c \in Captures |-> IF c = "p1" THEN <<2>> ELSE <<1>>]
MCHasThumb == [c \in Captures |-> c = "p1"]
MCNoThumbs == [c \in Captures |-> FALSE]

MCNoDirs == <<>>
MCOneDir == <<"p4">>
MCNoRecs == [c \in Captures |-> None]

(* A card an earlier firmware left: p1's record has no slots, its camera 1 *)
(* was dark and camera 2 is confirmed; the records of p3 and p5 name a     *)
(* Roll their META does not, p3's parked by an outage; p2's does not       *)
(* decode.                                                                 *)
MCOldSlots == [c \in Captures |-> IF c = "p1" THEN <<2, 3>> ELSE <<1>>]
MCOldDirs == <<"p3", "p1", "p2", "p5">>
MCOldRecs ==
  [c \in Captures |->
    CASE c = "p1" -> [InitSlots(c, "r1", <<0, 0>>, TRUE) EXCEPT !.cid = TRUE, !.done = <<FALSE, TRUE>>]
      [] c = "p3" -> [InitSlots(c, "r1", <<1>>, FALSE) EXCEPT !.state = "FAILED", !.attempts = MaxAttempts]
      [] c = "p5" -> InitSlots(c, "r2", <<1>>, FALSE)
      [] OTHER -> BadRec]

(* Three photographs on Roll r1 on the card, queued by an earlier boot.    *)
MCRollDirs == <<"p1", "p2", "p4">>
MCQueuedRecs == [c \in Captures |-> InitSlots(c, "r1", MCMetaSlots[c], FALSE)]
=============================================================================
