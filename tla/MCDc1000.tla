------------------------------ MODULE MCDc1000 ------------------------------
(* Instances of Dc1000 for TLC.  DSC_BLOCKSIZE is the driver's 1024.       *)
EXTENDS Dc1000

MCBlockSize == 1024

(* Upload sizes around block boundaries, an empty file and one too large.  *)
MCUploadSizes == {0, 1, 1024, 1025, 2049, 4000}
MCMaxImageSize == 3000

(* An empty image, one of two blocks with a short last one, one of two full *)
(* blocks.                                                                 *)
MCImages == <<0, 1025, 2048>>

(* The quality thresholds and the sizes either side of them.               *)
MCResolutionSizes == {1, 65535, 65536, 196607, 196608}
MCResolutionMax == 196608

(* Both together, with one size above the maximum.                        *)
MCTransferSizes == (MCUploadSizes \ {4000}) \cup MCResolutionSizes \cup {196609}

(* 257 images: only the first is non-empty.                                *)
MCManyImages == [j \in 1..257 |-> IF j = 1 THEN 1 ELSE 0]
====
