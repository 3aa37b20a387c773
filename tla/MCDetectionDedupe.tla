------------------------- MODULE MCDetectionDedupe -------------------------
(* Three detections over two keys, one of which joins at a gap of one      *)
(* instant and the other only at the same instant.                         *)
EXTENDS DetectionDedupe

CONSTANTS Wide, Narrow, LastInstant

MCKey == {Wide, Narrow}
MCTime == 0..LastInstant
MCGap == [k \in MCKey |-> IF k = Wide THEN 1 ELSE 0]
=============================================================================
