------------------------------- MODULE Dc1000 -------------------------------
(***************************************************************************)
(* The block-oriented transfers of the Panasonic DC1000 driver,            *)
(* src/camlibs/panasonic/dc1000.c: camera_folder_put_file (upload:        *)
(* dsc1_setimageres, then one dsc1_writeimageblock per 1024-byte block)   *)
(* and camera_file_get (download: dsc1_selectimage, then                   *)
(* dsc1_readimageblock until the announced size is reached).               *)
(*                                                                         *)
(* Each command is one dsc1_sendcmd/dsc1_retrcmd exchange over the serial  *)
(* line; the driver waits for the answer before it sends anything else, so *)
(* an exchange is one step.  An exchange ends in one of three ways: the    *)
(* camera does the command and answers as expected, it refuses (a bad      *)
(* response), or it does the command but the answer is lost (retrcmd      *)
(* fails).  Payload bytes are abstracted to (image, block, length).        *)
(*                                                                         *)
(* Also modelled: camera_folder_list_files (dsc1_getindex, then the        *)
(* driver's filesystem is populated with one name per image) and           *)
(* camera_file_delete (dsc1_delete).  The camera renumbers its images      *)
(* after a delete.  Images are identified by their number in Images.       *)
(***************************************************************************)
EXTENDS Integers, SequencesExt

CONSTANTS
  DSC_BLOCKSIZE,     \* bytes per data block (dc.h)
  DSC_MAXIMAGESIZE,  \* largest upload the driver accepts (dc.h)
  UploadSizes,       \* sizes of the files the caller uploads
  Images,            \* sizes of the images on the camera, image 1 first
  MaxOps             \* bound: number of driver calls

ASSUME DSC_BLOCKSIZE \in Nat \ {0}
ASSUME UploadSizes \subseteq Nat
ASSUME Images \in Seq(Nat)
ASSUME MaxOps \in Nat

VARIABLES
  pc,       \* the driver call in progress and where it is in its loop
  arg,      \* the call and its argument: upload size, or image index
  size,     \* the transfer's size (upload size, or the announced size)
  i,        \* loop counter: the next block number
  s,        \* camera_file_get: bytes received so far
  file,     \* camera_file_get: the blocks appended to the CameraFile
  ret,      \* what the last driver call returned
  nops,     \* driver calls made so far
  imgs,     \* camera: the images it holds, in its numbering (1-based)
  fs,       \* driver: number of names the last listing put in dsc->fs
  sel,      \* camera: the image selected for download (0: none)
  res,      \* camera: the resolution set for the next upload
  usz,      \* history: size of the upload the camera was last prepared for
  ugot,     \* camera: blocks of the current upload it stored
  ubytes,   \* camera: bytes of the current upload it stored
  ushort,   \* camera: it stored a block shorter than DSC_BLOCKSIZE
  uorder    \* history: each stored block was the one after the previous

vars == <<pc, arg, size, i, s, file, ret, nops, imgs, fs, sel, res, usz, ugot, ubytes,
          ushort, uorder>>

-----------------------------------------------------------------------------
GP_OK == 0
GP_ERROR == -1
GP_ERROR_NOT_SUPPORTED == -106

Qualities == {"normal", "fine", "superfine"}

(* How an exchange ends.                                                   *)
Answered == "Answered"   \* done, and the expected response read
Refused  == "Refused"    \* a bad response; the camera did nothing
Lost     == "Lost"       \* done, but dsc1_retrcmd did not get the answer
Outcomes == {Answered, Refused, Lost}

(* C's integer division truncates toward zero.                            *)
CDiv(a, b) == IF a >= 0 THEN a \div b ELSE -((-a) \div b)

Min2(a, b) == IF a < b THEN a ELSE b

(* Mutant: the thresholds compared with <= instead of <.                   *)
ImageRes_le(sz) ==
  IF sz <= 65536 THEN "normal" ELSE IF sz <= 196608 THEN "fine" ELSE "superfine"

(* dsc1_setimageres: the quality class an upload of this size is given.    *)
ImageRes(sz) ==
  IF sz < 65536 THEN "normal"
  ELSE IF sz < 196608 THEN "fine"
  ELSE "superfine"

(* camera_folder_put_file: blocks = (size - 1)/DSC_BLOCKSIZE + 1.          *)
BlockCount(sz) == CDiv(sz - 1, DSC_BLOCKSIZE) + 1

(* camera_folder_put_file: the length of upload block b.                   *)
BlockSize(sz, b) == Min2(DSC_BLOCKSIZE, sz - b * DSC_BLOCKSIZE)

(* The camera's answer to DSC1_CMD_GET_DATA for block b of image k.        *)
CameraBlock(k, b) ==
  [img |-> k, blk |-> b, len |-> Min2(DSC_BLOCKSIZE, Images[k] - b * DSC_BLOCKSIZE)]

(* The camera holds a block b of image k.                                  *)
HasBlock(k, b) == b * DSC_BLOCKSIZE < Images[k]

-----------------------------------------------------------------------------
NoCall == [op |-> "none", v |-> 0]

Init ==
  /\ pc = "Uninit"
  /\ arg = NoCall
  /\ size = 0
  /\ i = 0
  /\ s = 0
  /\ file = <<>>
  /\ ret = GP_OK
  /\ nops = 0
  /\ imgs = [j \in 1..Len(Images) |-> j]
  /\ fs = 0
  /\ sel = 0
  /\ res \in Qualities        \* left over from an earlier session
  /\ usz = 0
  /\ ugot = 0
  /\ ubytes = 0
  /\ ushort = FALSE
  /\ uorder = TRUE

Finish(r) == pc' = "Idle" /\ ret' = r

Start == pc = "Idle" /\ nops < MaxOps /\ nops' = nops + 1

UploadVars == <<usz, ugot, ubytes, ushort, uorder>>

(* dsc1_connect: dsc1_setbaudrate, then dsc1_getmodel must name a DC1000,  *)
(* then the DSC1_CMD_CONNECT exchange must be answered DSC1_RSP_OK (the    *)
(* result of its dsc1_sendcmd is not looked at).  The two helpers are in   *)
(* dc.c, outside src, and are given by their outcomes.                     *)
dsc1_connect ==
  {IF baud = GP_OK /\ model = "DSC1" /\ o = Answered THEN GP_OK ELSE GP_ERROR :
     baud \in {GP_OK, GP_ERROR}, model \in {"DSC1", "other"}, o \in Outcomes}

(* camera_init: the driver state, the serial port, the read/write buffer   *)
(* and the filesystem are allocated in turn, and the failure of any one    *)
(* ends the call with an error; then the port is opened at the hand-shake  *)
(* speed and dsc1_connect's result is returned.  Only after GP_OK are the  *)
(* other entry points called.  The camera keeps its resolution.            *)
camera_init ==
  /\ pc = "Uninit"
  /\ arg' = [op |-> "init", v |-> 0]
  /\ \E r \in {GP_ERROR} \cup dsc1_connect :
       /\ ret' = r
       /\ pc' = IF r = GP_OK THEN "Idle" ELSE "InitFailed"
  /\ UNCHANGED <<size, i, s, file, nops, imgs, fs, sel, res, UploadVars>>

(* The camera takes the next block of an upload, of length len.            *)
Store(b, len) ==
  /\ ugot' = ugot + 1
  /\ ubytes' = ubytes + len
  /\ ushort' = (ushort \/ len < DSC_BLOCKSIZE)
  /\ uorder' = (uorder /\ b = ugot)
  /\ UNCHANGED usz

(* Mutant: the DSC_MAXIMAGESIZE check left out.                            *)
camera_folder_put_file_nomax(sz) ==
  /\ Start
  /\ arg' = [op |-> "put", v |-> sz]
  /\ size' = sz
  /\ i' = 0
  /\ \E o \in Outcomes :
       /\ IF o = Refused THEN UNCHANGED <<res, UploadVars>>
          ELSE /\ res' = ImageRes(sz)
               /\ usz' = sz
               /\ ugot' = 0 /\ ubytes' = 0
               /\ ushort' = FALSE /\ uorder' = TRUE
       /\ IF o = Answered THEN pc' = "PutBlock" /\ UNCHANGED ret
                          ELSE Finish(GP_ERROR)
  /\ UNCHANGED <<s, file, imgs, fs, sel>>

(* Mutant: the result of dsc1_setimageres not checked.                     *)
camera_folder_put_file_ignore_res(sz) ==
  /\ Start
  /\ arg' = [op |-> "put", v |-> sz]
  /\ size' = sz
  /\ i' = 0
  /\ IF sz > DSC_MAXIMAGESIZE
       THEN Finish(GP_ERROR) /\ UNCHANGED <<res, UploadVars>>
       ELSE \E o \in Outcomes :
              /\ IF o = Refused THEN UNCHANGED <<res, UploadVars>>
                 ELSE /\ res' = ImageRes(sz)
                      /\ usz' = sz
                      /\ ugot' = 0 /\ ubytes' = 0
                      /\ ushort' = FALSE /\ uorder' = TRUE
              /\ pc' = "PutBlock" /\ UNCHANGED ret
  /\ UNCHANGED <<s, file, imgs, fs, sel>>

(* camera_folder_put_file, up to its block loop: a file larger than        *)
(* DSC_MAXIMAGESIZE is refused before anything is sent; otherwise          *)
(* dsc1_setimageres sends the quality class, and only an OK answer lets the*)
(* upload go on.                                                           *)
camera_folder_put_file(sz) ==
  /\ Start
  /\ arg' = [op |-> "put", v |-> sz]
  /\ size' = sz
  /\ i' = 0
  /\ IF sz > DSC_MAXIMAGESIZE
       THEN Finish(GP_ERROR) /\ UNCHANGED <<res, UploadVars>>
       ELSE \E o \in Outcomes :
              /\ IF o = Refused THEN UNCHANGED <<res, UploadVars>>
                 ELSE /\ res' = ImageRes(sz)
                      /\ usz' = sz
                      /\ ugot' = 0 /\ ubytes' = 0
                      /\ ushort' = FALSE /\ uorder' = TRUE
              /\ IF o = Answered THEN pc' = "PutBlock" /\ UNCHANGED ret
                                 ELSE Finish(GP_ERROR)
  /\ UNCHANGED <<s, file, imgs, fs, sel>>

(* Mutant: the loop goes on after a block the camera did not acknowledge.  *)
dsc1_writeimageblock_continue ==
  /\ pc = "PutBlock"
  /\ i < BlockCount(size)
  /\ \E o \in Outcomes :
       /\ IF o = Refused THEN UNCHANGED UploadVars
                         ELSE Store(i, BlockSize(size, i))
       /\ i' = i + 1
       /\ IF i + 1 < BlockCount(size) THEN UNCHANGED <<pc, ret>>
          ELSE Finish(IF o = Answered THEN GP_OK ELSE GP_ERROR)
  /\ UNCHANGED <<arg, size, s, file, nops, imgs, fs, sel, res>>

(* One iteration of the upload loop: dsc1_writeimageblock sends block i    *)
(* and a response other than DSC1_RSP_OK ends the upload with an error;   *)
(* after the last block the upload returns GP_OK.                          *)
dsc1_writeimageblock ==
  /\ pc = "PutBlock"
  /\ i < BlockCount(size)
  /\ \E o \in Outcomes :
       /\ IF o = Refused THEN UNCHANGED UploadVars
                         ELSE Store(i, BlockSize(size, i))
       /\ i' = i + 1
       /\ IF o # Answered THEN Finish(GP_ERROR)
          ELSE IF i + 1 < BlockCount(size) THEN UNCHANGED <<pc, ret>>
          ELSE Finish(GP_OK)
  /\ UNCHANGED <<arg, size, s, file, nops, imgs, fs, sel, res>>

(* The size dsc1_selectimage assembles from the four answer bytes: the     *)
(* low byte dsc->buf[3] is a (signed) char converted to u_int32_t, so from *)
(* 0x80 up it is sign-extended over the other three, and the int result   *)
(* is the negative low byte - 256.                                        *)
AnsweredSize(sz) == IF sz % 256 >= 128 THEN (sz % 256) - 256 ELSE sz

(* dsc1_selectimage(k): an image number below 1 fails before anything is  *)
(* sent; otherwise the camera selects image k and, unless the exchange     *)
(* fails, the size in its DSC1_RSP_IMGSIZE answer is returned.  The        *)
(* returned value is assigned to size (GP_ERROR on failure).               *)
dsc1_selectimage(k) ==
  IF k < 1 THEN size' = GP_ERROR /\ UNCHANGED sel
  ELSE \E o \in Outcomes :
         IF o = Refused \/ k > Len(imgs)
           THEN size' = GP_ERROR /\ UNCHANGED sel
           ELSE /\ sel' = imgs[k]
                /\ size' = IF o = Lost THEN GP_ERROR ELSE AnsweredSize(Images[imgs[k]])

(* Mutant: the 0-based index passed to dsc1_selectimage unchanged.         *)
camera_file_get_index0(index, normal) ==
  /\ Start
  /\ arg' = [op |-> "get", v |-> index]
  /\ i' = 0 /\ s' = 0 /\ file' = <<>>
  /\ IF ~normal
       THEN Finish(GP_ERROR_NOT_SUPPORTED) /\ UNCHANGED <<size, sel>>
       ELSE /\ dsc1_selectimage(index % 256)
            /\ IF size' < 0 THEN Finish(GP_ERROR)
               ELSE IF size' > 0 THEN pc' = "GetBlock" /\ UNCHANGED ret
               ELSE Finish(GP_OK)
  /\ UNCHANGED <<imgs, fs, res, UploadVars>>

(* camera_file_get, up to its block loop.  Only GP_FILE_TYPE_NORMAL is     *)
(* served.  The file's 0-based index on the camera is looked up and image  *)
(* index + 1, as the u_int8_t parameter of dsc1_selectimage, is selected;  *)
(* a negative size ends the call, a size of 0 skips the loop.              *)
camera_file_get(index, normal) ==
  /\ Start
  /\ arg' = [op |-> "get", v |-> index]
  /\ i' = 0 /\ s' = 0 /\ file' = <<>>
  /\ IF ~normal
       THEN Finish(GP_ERROR_NOT_SUPPORTED) /\ UNCHANGED <<size, sel>>
       ELSE /\ dsc1_selectimage((index + 1) % 256)
            /\ IF size' < 0 THEN Finish(GP_ERROR)
               ELSE IF size' > 0 THEN pc' = "GetBlock" /\ UNCHANGED ret
               ELSE Finish(GP_OK)
  /\ UNCHANGED <<imgs, fs, res, UploadVars>>

(* One iteration of the download loop: dsc1_readimageblock asks for block  *)
(* i (refused if the image has no such block); the block's bytes are       *)
(* appended to the file and counted, and the loop ends when s reaches the  *)
(* announced size.  A failed block ends the call with GP_ERROR, the blocks *)
(* read so far left in the file.                                           *)
dsc1_readimageblock ==
  /\ pc = "GetBlock"
  /\ s < size
  /\ \E o \in Outcomes :
       IF o # Answered \/ ~HasBlock(sel, i)
         THEN Finish(GP_ERROR) /\ UNCHANGED <<i, s, file>>
         ELSE LET blk == CameraBlock(sel, i) IN
              /\ i' = i + 1
              /\ s' = s + blk.len
              /\ file' = Append(file, blk)
              /\ IF s + blk.len < size THEN UNCHANGED <<pc, ret>>
                                       ELSE Finish(GP_OK)
  /\ UNCHANGED <<arg, size, nops, imgs, fs, sel, res, UploadVars>>

(* dsc1_getindex: what it returns, the number of images (the answer's     *)
(* length / 2) or GP_ERROR when the exchange fails.                        *)
dsc1_getindex == {Len(imgs), GP_ERROR}

(* camera_folder_list_files: unless dsc1_getindex returns GP_ERROR,       *)
(* dsc->fs is populated with one name per image.                           *)
camera_folder_list_files ==
  /\ Start
  /\ arg' = [op |-> "list", v |-> 0]
  /\ \E count \in dsc1_getindex :
       IF count = GP_ERROR THEN Finish(GP_ERROR) /\ UNCHANGED fs
                           ELSE fs' = count /\ Finish(GP_OK)
  /\ UNCHANGED <<size, i, s, file, imgs, sel, res, UploadVars>>

(* dsc1_delete(k): an image number below 1 fails before anything is sent;  *)
(* otherwise the camera deletes image k (and renumbers the rest) unless it *)
(* refuses, and the call returns GP_OK only when DSC1_RSP_OK is read.      *)
dsc1_delete(k) ==
  IF k < 1 THEN Finish(GP_ERROR) /\ UNCHANGED imgs
  ELSE \E o \in Outcomes :
         IF o = Refused \/ k > Len(imgs)
           THEN Finish(GP_ERROR) /\ UNCHANGED imgs
           ELSE /\ imgs' = RemoveAt(imgs, k)
                /\ Finish(IF o = Answered THEN GP_OK ELSE GP_ERROR)

(* Mutant: the 0-based index passed to dsc1_delete unchanged.             *)
camera_file_delete_index0(index) ==
  /\ Start
  /\ arg' = [op |-> "del", v |-> index]
  /\ dsc1_delete(index % 256)
  /\ UNCHANGED <<size, i, s, file, fs, sel, res, UploadVars>>

(* camera_file_delete: the name's 0-based index on the camera is looked up *)
(* and dsc1_delete(index + 1), a u_int8_t, is returned.  dsc->fs is left   *)
(* as it is.                                                               *)
camera_file_delete(index) ==
  /\ Start
  /\ arg' = [op |-> "del", v |-> index]
  /\ dsc1_delete((index + 1) % 256)
  /\ UNCHANGED <<size, i, s, file, fs, sel, res, UploadVars>>

(* dsc1_disconnect: the DSC1_CMD_RESET exchange; GP_OK only when the      *)
(* camera answers DSC1_RSP_OK.                                             *)
dsc1_disconnect == {GP_OK, GP_ERROR}

(* camera_exit: dsc1_disconnect is called and its result dropped; the port *)
(* and the driver's state are freed and GP_OK is returned.  No driver call *)
(* can follow.                                                             *)
camera_exit ==
  /\ Start
  /\ arg' = [op |-> "exit", v |-> 0]
  /\ \E r \in dsc1_disconnect : TRUE
  /\ pc' = "Exited" /\ ret' = GP_OK
  /\ UNCHANGED <<size, i, s, file, imgs, fs, sel, res, UploadVars>>

Next ==
  \/ camera_init
  \/ camera_exit
  \/ \E sz \in UploadSizes : camera_folder_put_file(sz)
  \/ dsc1_writeimageblock
  \/ \E index \in 0..fs - 1, normal \in BOOLEAN :
       camera_file_get(index, normal)
  \/ camera_folder_list_files
  \/ \E index \in 0..fs - 1 : camera_file_delete(index)
  \/ dsc1_readimageblock

Spec == Init /\ [][Next]_vars

-----------------------------------------------------------------------------
TypeOK ==
  /\ pc \in {"Uninit", "InitFailed", "Idle", "PutBlock", "GetBlock", "Exited"}
  /\ arg \in [op : {"init", "put", "get", "list", "del", "exit"}, v : Nat] \cup {NoCall}
  /\ i \in Nat /\ s \in Nat /\ size \in Nat \cup (-128..-1)
  /\ usz \in 0..DSC_MAXIMAGESIZE
  /\ file \in Seq([img : 1..Len(Images), blk : Nat, len : 1..DSC_BLOCKSIZE])
  /\ ret \in {GP_OK, GP_ERROR, GP_ERROR_NOT_SUPPORTED}
  /\ nops \in 0..MaxOps
  /\ imgs \in Seq(1..Len(Images))
  /\ fs \in 0..Len(Images)
  /\ sel \in 0..Len(Images)
  /\ res \in Qualities
  /\ ugot \in Nat /\ ubytes \in Nat /\ ushort \in BOOLEAN /\ uorder \in BOOLEAN

(* The spec's size-to-quality table (spec.md, "Size-to-quality            *)
(* classification").                                                       *)
SpecQuality(sz) ==
  CASE sz \in 0..65535       -> "normal"
    [] sz \in 65536..196607  -> "fine"
    [] OTHER                 -> "superfine"

(* ceil(sz / DSC_BLOCKSIZE).                                               *)
CeilBlocks(sz) == (sz + DSC_BLOCKSIZE - 1) \div DSC_BLOCKSIZE

(* The blocks of image k, in order.                                        *)
ImageBlocks(k) == [j \in 1..CeilBlocks(Images[k]) |-> CameraBlock(k, j - 1)]

(* While camera_folder_put_file sends blocks, the camera's resolution is   *)
(* the class the spec gives the size of the file being sent: the           *)
(* dsc1_setimageres exchange of this upload was acknowledged and its       *)
(* thresholds are the spec's.                                              *)
ResolutionMatchesUpload ==
  pc = "PutBlock" => res = SpecQuality(size)

(* The camera's copy of the current upload is a prefix of the file: every *)
(* block it stored was the next one, no block lies past the end of the     *)
(* file (an empty file is sent as one empty block), and when               *)
(* camera_folder_put_file returns GP_OK the camera holds the whole file.   *)
UploadExact ==
  /\ uorder
  /\ ubytes = Min2(ugot * DSC_BLOCKSIZE, usz)
  /\ ugot <= 1 \/ (ugot - 1) * DSC_BLOCKSIZE < usz
  /\ pc = "Idle" /\ arg.op = "put" /\ ret = GP_OK =>
        usz = arg.v /\ ubytes = usz /\ ugot >= 1

(* When camera_file_get returns GP_OK the CameraFile holds exactly the     *)
(* blocks of the image the caller named (0-based index, image index + 1), *)
(* in order.                                                               *)
DownloadExact ==
  pc = "Idle" /\ arg.op = "get" /\ ret = GP_OK =>
    /\ arg.v < Len(imgs)
    /\ file = ImageBlocks(imgs[arg.v + 1])

(* When camera_file_delete returns GP_OK, the camera has removed the image *)
(* at the 0-based index of the name the caller gave, and no other.         *)
DeleteExact ==
  [][pc' = "Idle" /\ arg'.op = "del" /\ ret' = GP_OK /\ nops' # nops =>
       imgs' = RemoveAt(imgs, arg'.v + 1)]_vars

====
