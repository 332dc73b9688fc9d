# TLA+ models of libgphoto2 (this source tree)

This directory holds TLA+ models of the parts of `src/` that have protocol
or control-flow behaviour worth model checking. It also holds the TLC
configurations that check them, and `PROJECT.json`, which records:

- the components and what each covers;
- the runs and the mutants;
- the source lines each definition models (`map`);
- the findings and the hazards.

## The system

libgphoto2 talks to digital cameras through drivers ("camlibs"). The tree
contains these parts:

| Part | Source | What it does |
|---|---|---|
| PTP engine | `src/camlibs/ptp/ptp.c` | `ptp_transaction` runs one PTP transaction over the `write_func`/`read_func` callbacks of `PTPParams`. A transaction is a request frame, an optional data phase (send or receive), then a response frame. `params->transaction_id` numbers the requests. |
| PTP wrappers | `ptp.c` | `ptp_opensession`, `ptp_closesession`, `ptp_getobjecthandles`, `ptp_getobjectinfo`, `ptp_getobject`, `ptp_getthumb`, `ptp_deleteobject`, `ptp_ek_sendfileobjectinfo`, `ptp_ek_sendfileobject`. Each one fixes an operation code and a data phase. |
| PTP ObjectInfo codec | `ptp.c` | `ptp_getobjectfilename`, `ptp_setobjectfilename`, `ptp_getobjectcapturedate`. |
| Panasonic DC1000 driver | `src/camlibs/panasonic/dc1000.c` | A serial camera with a block protocol. Upload is `dsc1_setimageres` followed by 1024-byte `dsc1_writeimageblock`s. Download is `dsc1_selectimage` followed by `dsc1_readimageblock`s. Listing is `dsc1_getindex`; delete is `dsc1_delete`. Each command is one `dsc1_sendcmd`/`dsc1_retrcmd` exchange; those two functions live in `dc.c`, which is not in `src/`. |
| Sony DSC-F1 driver | `src/camlibs/sonydscf1/sonydscf1.c` | Glue over an external protocol layer (`F1ok`, `get_picture`, ...). That layer is not in the tree. |
| STV0680 image code | `src/camlibs/stv0680/bayer.c` | Bayer preview down-scaling, plus floating-point light enhancement. |
| Command-line frontend | `src/frontends/command-line/main.c` | `gphoto2`: checks its arguments against an option table (`verify_options`), then runs each option's callback, table entry by table entry (`execute_options`). |
| Utilities | `util.c`, headers | Debug dumps, declarations. |

How the parts interact:

- The gphoto2 core calls one driver function at a time.
- A PTP camera is driven only through `ptp_transaction`, and only one transaction is outstanding at a time.
- The DC1000 driver waits for each answer before it sends the next command.

## Modules

### `PTPTransaction.tla`: the PTP transaction engine

The initiator (this library) and the responder (the camera) exchange frames
over two FIFO pipes: `h2d` from host to device and `d2h` from device to host.
A frame is abstracted to its header: container type, code and transaction id.

**Initiator state.**

| Variable | Meaning |
|---|---|
| `tid` | `params->transaction_id` |
| `hpc` | the phase of the `ptp_transaction` call in progress |
| `cur` | the call's operation, its request id, and the id of the data frame it accepted |
| `result` | what the last call returned, with the response id it accepted (history) |

**Camera state.** This is the environment, not code of the repository.

| Variable | Meaning |
|---|---|
| `dpc` | idle, or waiting for a data phase |
| `dcur` | the request being served |
| `session` | whether a session is open |
| `devlog` | the transactions the camera completed (history) |

**Initiator actions.** One action per phase function, each with its whole
body. The `CHECK_PTP_RC` early return is `Return`; the switch on the data
phase is `PhaseAfterRequest`.

| Action | What it models |
|---|---|
| `ptp_sendreq(w)` | A wrapper `w` calls `ptp_transaction`: the request is stamped with `tid`, `tid` is incremented, then `write_func` is called. |
| `ptp_senddata` | The data frame is stamped with the current (incremented) `tid`. |
| `ptp_getdata` | Checks the type, then the code. |
| `ptp_getresp` | Checks the type; a code other than the operation's is returned. |
| `ReadTimeout` | `read_func` fails on an empty pipe. |

**Transport faults.** The constant `Faults` selects which of these can happen:

- a write that is lost;
- a write that reports failure although the frame arrived;
- a read timeout.

**Camera actions.** `DevRecvReq` and `DevRecvData`. The camera
answers with the request's id, may refuse, and uses the standard PTP data
phase of each operation (`StdDataPhase`), independently of the wrappers.

**Fairness.** There is weak fairness on every phase action and every camera
action, but none on starting a call:

- `write_func` and `read_func` block until they return;
- reads time out;
- a working camera serves every frame.

### `PTPSession.tla`: what a PTP call promises

This is the abstract specification of the engine. Each call of
`ptp_transaction` is one atomic step, `Transaction(op)`:

- it takes the next id;
- the camera answers once, from the same answers the camera of `PTPTransaction` may give;
- the call returns that answer. The exception is an operation that receives data: if the camera refuses it, the response frame arrives where `ptp_getdata` expects data, and the call returns `PTP_ERROR_DATA_EXPECTED`.

`MCPTPTransaction` maps `PTPTransaction` onto this specification (`Abstract`).
A call takes effect at the step that returns it. While it is in progress:

- the abstract id is `tid - 1`;
- the camera's `devlog` entry for the call is hidden;
- the abstract session is the session before the camera's answer (`SessionBefore`).

The `ptp_reliable` run checks `AtomicTransactions`, which is `Abstract!Spec`.
Under faults the refinement does not hold, and it is not claimed: a late
response answers the next call (run `ptp_stale_response`).

### `Dc1000.tla`: the DC1000 driver

**Host state.**

| Variable | Meaning |
|---|---|
| `pc` | the call in progress and where it is in its loop |
| `arg` | the call and its argument |
| `size` | the transfer size |
| `i` | the loop counter (next block) |
| `s` | download bytes received so far |
| `file` | the blocks appended to the `CameraFile` |
| `ret` | what the last call returned |
| `fs` | the number of names the last listing put in `dsc->fs` |

**Camera state.**

| Variable | Meaning |
|---|---|
| `imgs` | the images held, in the camera's numbering |
| `sel` | the selected image |
| `res` | the resolution set for the next upload |
| `ugot`, `ubytes`, `ushort` | what the camera stored of the current upload |
| `usz`, `uorder` | history: the size of the upload the camera was prepared for, and whether every block it stored was the next one |

**Modelling choices.**

- One serial exchange is one step. Its outcome is one of three: answered, refused, or done with the answer lost.
- Payload bytes are abstracted to `(image, block, length)`.
- An upload or download loop iteration is its own action. This lets a failure on any block be explored.

**Actions.**

- `camera_init`, which the model starts with (`pc = "Uninit"`). Any of its four allocations may fail, and so may `dsc1_connect`. `dsc1_connect` is the set of results of `dsc1_setbaudrate`, `dsc1_getmodel` and the CONNECT exchange; the first two are in `dc.c` and are given by their outcomes. Only after GP_OK do other calls follow; otherwise the model stops in `InitFailed`;
- `camera_folder_put_file(sz)` followed by repeated `dsc1_writeimageblock`;
- `camera_file_get(index, normal)` followed by repeated `dsc1_readimageblock`;
- `camera_folder_list_files`;
- `camera_file_delete(index)`;
- `camera_exit`, after which no call can follow.

The helpers these calls make are operators used inside the actions:

- `dsc1_selectimage(k)` assigns its return value (the size, or GP_ERROR) to `size`, as `camera_file_get` does. The size is assembled from four answer bytes, and the low one, `dsc->buf[3]`, is a signed `char`. `AnsweredSize` models what that does: from a low byte of 0x80 up, the byte is sign-extended over the other three, so the size is the low byte minus 256. `camera_file_get` then gets a negative size and returns GP_ERROR. The bounded images have low bytes below 0x80, so no run reaches this; it is listed as a hazard;
- `dsc1_getindex` is the set of values it can return;
- `dsc1_delete(k)` gives the call's return code;
- `dsc1_disconnect` is the set of values it can return, which `camera_exit` drops.

Return codes are gphoto2's integers: GP_OK 0, GP_ERROR -1 and GP_ERROR_NOT_SUPPORTED -106.

The u_int8_t truncation of `index + 1` and C's truncating division in
`(size - 1)/DSC_BLOCKSIZE + 1` are kept.

No fairness is assumed. Whether the caller makes another call is up to the caller. Whether a block loop ends depends on what the camera answers, which is decided in `dc.c`, outside the tree.

### `PTPObjectInfo.tla`: the ObjectInfo string codec

The state is:

- `oi`: the `PTPObjectInfo`, made of the uint8_t `filenamelen` and the byte array `data` (bytes as integers 0..255);
- `filename`: the caller's `MAXFILENAMELEN` buffer;
- `tm`: the `struct tm` handed to `mktime`;
- `last` and `op`: history, recording how `oi` was filled and the last call.

The actions are:

- `ptp_getobjectinfo(ci)`: the camera's ObjectInfo, in the PTP layout, is copied in;
- `ptp_setobjectfilename(name)`;
- `ptp_getobjectfilename`;
- `ptp_getobjectcapturedate`.

The C library's `atoi` and `strncpy` are modelled by what they do (`Atoi`,
`Field`, both RECURSIVE). `mktime` is left out.

### `CommandLine.tla`: the command-line frontend

The arguments are real strings, and `SHORT_OPTION` and `LONG_OPTION` are
constants ("-" and "--"; `main.h` is not in the tree). The `sprintf("%s%s")`,
`strcmp` and `strncmp` calls become concatenation, equality and a prefix test
(`Spells`, `StartsWith`). `argv[argc]` is `NULL` (`Argv`).

- `Option` is the table `option[]`. `OptionCount` is main's counting loop.
- `verify_options`, `option_is_present` and `execute_options` are RECURSIVE
  operators that follow the C loops. This includes the `x++` inside
  `verify_options`' option loop, and `argv[++y]` in `execute_options`.
  `execute_options` yields the list of callbacks it makes, in order.
- The state is:
  - `args`: the arguments;
  - `pc`;
  - `pending`: the callbacks still to make;
  - `calls`: the history of callbacks made, with their arguments;
  - `glob`: `glob_debug`, `glob_quiet`, `glob_filename`, `glob_port`, `glob_model` and `init.port_settings`;
  - `status`: how the process ended.
- The actions are:
  - `main` (up to `execute_options`);
  - one action per callback;
  - `main_exit`.

  `help` and `test` exit the process. `strcpy` of a NULL argument (in
  `filename`, `port`, `model`) faults; this ends as `SIGSEGV`. Every callback
  returns GP_OK, so `execute_options`' error path cannot be taken and is not
  modelled.
- `Documented`, `Parse`, `InTableOrder` and `UntilExit` give the reference:
  the command line that `usage()` documents, and what the comment "Options
  are exec'd in the order in the table" promises.

The process ends, so these runs do not check deadlock.

### `Bayer.tla`: the STV0680 Bayer preview

`bayer_unshuffle_preview(w, h, scale, raw, output)` scales a raw STV0680
frame down by 2^scale and de-mosaics it in one pass. A raw line holds the
sensor's odd columns in its first half and its even columns in its second
half. C shifts of non-negative ints become products and quotients by powers
of two, `x&1` becomes `x % 2`, and the store into `unsigned char` is `% 256`.

- The state is the arguments `w`, `h`, `scale` and the buffer `raw`, plus:
  - `rawoff`: how far the `raw` pointer has been advanced;
  - `nx`, `ny`: the loop counters;
  - `output`: the RGB triples written so far.
- The actions are the two outer loops:
  - `Pixel`: the body of the `nx` loop;
  - `NextRow`: the `ny` loop step, `raw += w << scale`.
- The inner `x`/`y` loops only sum, so they are the operator `RGB`.
  `RawIndex` is the index expression of line 40.
- A byte read past the buffer is undefined behaviour. It is modelled as any
  byte value; `ReadsInBounds` shows the code reads none.
- `Sensor`, `Colour`, `Mean` and `Reference` are the reference: each preview
  pixel is, per colour, the mean (rounded down) of that colour's sensor
  pixels in its 2^scale square.

The function returns when every row is done, so its run does not check
deadlock. `light_enhance` is not modelled (see below).

### MC modules

- `MCPTPTransaction.tla` gives `Ops` and the fault sets.
- `MCDc1000.tla` gives:
  - the block size (1024, the driver's);
  - upload sizes around block boundaries, including 0 and one above `DSC_MAXIMAGESIZE`;
  - camera images of size 0, 1025 and 2048;
  - the threshold sizes 65535/65536 and 196607/196608, used together with the block-boundary sizes and 196609 (above the maximum) in `dc_transfer`;
  - a 257-image camera.
- `MCPTPObjectInfo.tla` gives `MAXFILENAMELEN` = 16 (its real value is in `ptp.h`, not in the tree; 16 is the smallest that holds the 15-character date). It also gives:
  - camera names of 0, 2 and 15 characters, with two dates;
  - a name of 16 characters;
  - a name of 20 characters;
  - two names of different lengths.

- `MCBayer.tla` gives five frames and raw bytes 0 and 1:
  - 2x2, 4x2 and 2x4 at scale 1 (one pixel, a row of two, two rows);
  - 5x2 at scale 1, an odd width;
  - 4x4 at scale 2.

- `MCCommandLine.tla` gives the prefixes "-" and "--". It also gives one spelling of every option, both spellings of debug, a value `x` and an unknown `-z`. For the lone-dash run it gives `-`, `-d`, `x` and `-p`.

  A name of 255 characters, whose `filenamelen` wraps to 0, also breaks
  `FilenameDecodes`. This is recorded as a hazard, with no run of its own.

## Runs

| Run | Expect | What it shows |
|---|---|---|
| `ptp_reliable` | pass | No faults, MaxReq 4, every operation. `AtomicTransactions`: the engine implements `PTPSession`. `ResultSound`: a `PTP_RC_OK` result is the camera's OK for that very request, with that request's data. `Quiescent`: between calls both pipes are empty and the camera waits for nothing. `TransactionReturns`: every call returns. |
| `ptp_faults` | pass | All transport faults, MaxReq 3. `FreshRequestIds`: the camera never receives a reused or decreasing id, because the id is consumed before `write_func`. |
| `ptp_stale_response` | violation | Read timeouts only. An OpenSession times out; the next transaction accepts the late OK response (id 0) as its own (id 1). `ptp_getresp` never compares `trans_id`. |
| `ptp_data_tid` | violation | A SENDDATA transaction's data frame carries the request id + 1. |
| `dc_transfer` | pass | `UploadExact`: the camera's copy of an upload is an in-order prefix of the file, and the whole file on GP_OK. `DownloadExact`: a GP_OK download holds exactly the named image's blocks. `DeleteExact`: a GP_OK delete removes exactly the named image. `ResolutionMatchesUpload`: while blocks are sent, the camera's resolution is the spec's class for the file size. This holds at the thresholds, and across a refused `dsc1_setimageres` with a stale resolution left on the camera. Four calls, so that a list is followed by downloads and deletes. |
| `dc_index_wrap` | violation | On a 257-image camera, the 257th image downloads as image 1. |
| `codec_decode` | pass | `FilenameDecodes`: the camera's names, and a too-long name set by `ptp_setobjectfilename`, decode to the name (truncated to the buffer). `CaptureDateDecodes`: the camera's dates decode to their six fields, whatever the filename length. |
| `codec_reuse` | violation | `"abc"` then `"x"` set on one ObjectInfo decodes to `"xb"`: the NUL is never written. |
| `codec_unterminated` | violation | A 16-character camera name fills the 16-byte buffer with no NUL. |
| `cli_usage` | pass | Every command line of up to four words. `UsageContract`: an undocumented command line ends with EXIT_FAILURE before any callback. A documented one runs each option once, with its own value, in table order (settings before actions), up to the first `help`/`test`, and ends with EXIT_SUCCESS. |
| `bayer_preview` | pass | Every raw content of the five frames. `ReadsInBounds`: every index the inner loops read is inside the w*h buffer, also for the odd width. `PreviewIsBlockAverage`: every triple written, and at the end the whole output, is the per-colour block mean in row order: the shifts by 2*scale-2 and 2*scale-1 divide by the number of red, green and blue samples. |
| `cli_lone_dash` | violation | `gphoto2 -` passes `verify_options`: `-` spells the empty short name of `port`, `camera` and `test`. `execute_options` then calls `port(NULL)`, whose `strcpy` faults. |

Every property of a passing run has a mutant in `PROJECT.json`: a plausible
bug in a mapped definition, which TLC shows breaks the property. Examples:

- the id incremented only after a successful write;
- a wrapper passing the wrong data phase;
- the loop continuing after an unacknowledged block;
- the 0-based index passed unchanged;
- `<=` in the resolution thresholds.

## Bounds

- **PTP.** MaxReq 3 to 4 requests is enough for:
  - a timeout followed by a later call;
  - an open/close/operation sequence;
  - a SENDDATA operation after an open.

  Each operation code appears once in `Ops`.
- **DC1000.** Sizes 0, 1, 1024, 1025, 2049 cover:
  - the empty file;
  - a short single block;
  - an exact block;
  - a short last block;
  - three blocks.

  Images of 0, 1025 and 2048 bytes distinguish each image's block list. The 257-image camera is the smallest that reaches the u_int8_t wrap.
- **Command line.** Up to four arguments over 13 words give 30,941 command lines. These include:
  - an option whose value is missing, at the end or before another option;
  - two options in the opposite of table order;
  - a repeated option;
  - `help`/`test` followed by further options.

  The lone-dash run needs only two arguments.
- **Bayer.** Bytes 0 and 1 already make every rounding of the averages
  differ: a green mean of 1 and 0 is 0, a red sample of 1 is 1. The frames
  include more than one output pixel per row and more than one row, so the
  column stride and the row advance are both exercised. The 4x4 frame is the
  smallest at scale 2. 203,056 states in about 30 s.

## Not modelled, and why

- **Payload copies in the PTP wrappers.** These are `memcpy` into the caller's structures.
- **The port and heap lifetimes in `camera_init`/`camera_exit`.** A failed `camera_init` frees `dsc` but leaves the port open. Whether the core then calls `camera_exit` is decided outside the tree. This is a hazard.
- **`dsc1_readimage`, `dsc1_writeimage` and `dsc1_preview`.** They are never called.
- **The Sony DSC-F1 driver.** It is glue over a protocol layer (`F1ok`, `get_picture`, `delete_picture`, ...) that is not in the tree. What those calls do, how they report failure and how they number pictures are unknown, so a model would consist of guesses. Its defects visible in the glue are listed as hazards in `PROJECT.json`:
  - `camera_exit`'s inverted `F1ok` test;
  - the dropped result of `delete_picture`;
  - the stale `b->fs` after a delete;
  - the unchecked listing.
- **`light_enhance` in `bayer.c`.** Its gamma table is `pow()` in double precision and its white balance is `float`; TLC has neither. It has no caller in the tree.
- **`bayer_unshuffle_preview` at scale 0.** It has no caller in the tree. The model assumes scale >= 1, the scales at which the function averages a block.
- **A failed download's partial `CameraFile` (DC1000).** `camera_file_get` returns GP_ERROR with the blocks read so far left in the file. The spec (readBlockStream) says buffered output is released. The model keeps those blocks, but no run checks this: the core owns and frees the file, outside the tree. This is a hazard.
- **The heap in the PTP wrappers.** `ptp_getobjecthandles` and `ptp_getobjectinfo` never free their data buffers. This is a hazard.
- **Output of `main.c`.** The `usage` text, `debug_print`, the camera list of `list` and `test_gphoto`.
- **`main.c`'s fixed-size globals.** `strcpy` into them is unchecked; this is listed as a hazard, because the argument words are short.
- **`util.c` and the headers.** Logging and declarations.

## Plan for further work

- The configurations are at the limit of twelve runs. A further question needs an existing run given up first. Three earlier violation runs were retired to make room for the command line and the Bayer preview. They remain as hazards:
  - `ptp_after_close`: calls after CloseSession still reach the transport;
  - `dc_block_count`: an empty file is one empty block, against ceil(0/1024) = 0;
  - `dc_partial_file`: a failed download leaves its first blocks in the file.
- `ptp_getdata` returns a stale data frame's operation code as its result code. The spec asks for a protocol violation. This is reachable under the `ptp_faults` bounds but not yet stated as a property.
- `camera_exit` of DC1000 returns GP_OK whatever `dsc1_disconnect` returned. This is modelled, but no run checks it.
