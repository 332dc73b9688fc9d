---------------------------- MODULE PTPObjectInfo ----------------------------
(***************************************************************************)
(* The ObjectInfo string codec of src/camlibs/ptp/ptp.c:                   *)
(* ptp_getobjectfilename, ptp_setobjectfilename and                        *)
(* ptp_getobjectcapturedate.                                               *)
(*                                                                         *)
(* A PTPObjectInfo is its uint8_t filenamelen followed by the byte array   *)
(* data.  The filename is a PTP string: filenamelen counts its characters *)
(* and the terminating NUL, and character i's low byte is data[2*i].  The *)
(* capture date follows it: its own length byte at data[2*filenamelen],   *)
(* character i's low byte at data[2*filenamelen + 1 + 2*i].  Bytes are     *)
(* integers 0..255 (ASCII for characters).                                 *)
(*                                                                         *)
(* An ObjectInfo either arrives from the camera (ptp_getobjectinfo copies  *)
(* it in whole) or is filled by ptp_setobjectfilename before an upload;    *)
(* the decoders can then be applied to it.                                 *)
(***************************************************************************)
EXTENDS Integers, Sequences

CONSTANTS
  MAXFILENAMELEN,  \* size of the filename and capture-date buffers (ptp.h)
  CameraInfos,     \* ObjectInfos the camera may send: [name, date] records
  SetNames,        \* names the caller may give ptp_setobjectfilename
  MaxOps           \* bound: number of codec calls

ASSUME MAXFILENAMELEN \in Nat \ {0}
ASSUME MaxOps \in Nat

VARIABLES
  oi,        \* the PTPObjectInfo: [filenamelen, data]
  filename,  \* the caller's filename buffer, as ptp_getobjectfilename left it
  tm,        \* the struct tm ptp_getobjectcapturedate passed to mktime
  last,      \* history: how oi was last filled, and with what
  op,        \* history: the last codec call
  nops

vars == <<oi, filename, tm, last, op, nops>>

Bytes == 0..255
NUL == 0

(* Bytes of data the codec can touch: the longest name and its NUL, the    *)
(* date's length byte and a date of MAXFILENAMELEN characters.             *)
DataLen == 4 * MAXFILENAMELEN + 4
DataIdx == 0..DataLen - 1

Buf == 0..MAXFILENAMELEN - 1

(* The tm fields ptp_getobjectcapturedate sets.                            *)
TmFields == {"tm_year", "tm_mon", "tm_mday", "tm_hour", "tm_min", "tm_sec"}
NoTm == [f \in TmFields |-> 0]

-----------------------------------------------------------------------------
(* C library helpers.                                                      *)

IsSpace(c) == c = 32 \/ c \in 9..13
IsDigit(c) == c \in 48..57

(* atoi: leading white space, an optional sign, then decimal digits up to  *)
(* the first other byte.                                                   *)
Atoi(s) ==
  LET RECURSIVE Skip(_), Digits(_, _)
      Skip(k) == IF k <= Len(s) /\ IsSpace(s[k]) THEN Skip(k + 1) ELSE k
      Digits(k, acc) == IF k <= Len(s) /\ IsDigit(s[k])
                          THEN Digits(k + 1, 10 * acc + s[k] - 48) ELSE acc
      k0 == Skip(1)
      neg == k0 <= Len(s) /\ s[k0] = 45
      k1 == IF k0 <= Len(s) /\ s[k0] \in {43, 45} THEN k0 + 1 ELSE k0
  IN IF neg THEN -Digits(k1, 0) ELSE Digits(k1, 0)

(* strncpy(tmp, buf + off, n); tmp[n] = 0: the n bytes from off, cut at   *)
(* the first NUL.                                                          *)
Field(buf, off, n) ==
  LET RECURSIVE Take(_)
      Take(k) == IF k < n /\ off + k \in DOMAIN buf /\ buf[off + k] # NUL
                   THEN <<buf[off + k]>> \o Take(k + 1) ELSE <<>>
  IN Take(0)

(* The C string held in a buffer: its bytes up to the first NUL, or all of *)
(* them when there is none.                                                *)
CString(buf) ==
  LET RECURSIVE Take(_)
      Take(k) == IF k \in DOMAIN buf /\ buf[k] # NUL
                   THEN <<buf[k]>> \o Take(k + 1) ELSE <<>>
  IN Take(0)

-----------------------------------------------------------------------------
(* The camera's encoding of an ObjectInfo (the PTP standard's layout;     *)
(* the environment, not code of this repository).                         *)
CameraEncode(name, date) ==
  LET n == Len(name)
      p == n + 1
  IN [filenamelen |-> p,
      data |-> [j \in DataIdx |->
                 CASE j < 2 * n /\ j % 2 = 0 -> name[j \div 2 + 1]
                   [] j = 2 * p                -> Len(date) + 1
                   [] j > 2 * p /\ j < 2 * p + 1 + 2 * Len(date)
                        /\ (j - 2 * p - 1) % 2 = 0
                                               -> date[(j - 2 * p - 1) \div 2 + 1]
                   [] OTHER                    -> NUL]]

Init ==
  /\ oi = [filenamelen |-> 0, data |-> [j \in DataIdx |-> NUL]]
  /\ filename = [i \in Buf |-> NUL]
  /\ tm = NoTm
  /\ last = [by |-> "none", name |-> <<>>, date |-> <<>>]
  /\ op = "none"
  /\ nops = 0

Call(name) == nops < MaxOps /\ nops' = nops + 1 /\ op' = name

(* ptp_getobjectinfo: the camera's ObjectInfo is copied into oi.           *)
ptp_getobjectinfo(ci) ==
  /\ Call("getobjectinfo")
  /\ oi' = CameraEncode(ci.name, ci.date)
  /\ last' = [by |-> "camera", name |-> ci.name, date |-> ci.date]
  /\ UNCHANGED <<filename, tm>>

(* mutant: the loop runs to i <= MAXFILENAMELEN *)
ptp_getobjectfilename_ovf ==
  /\ Call("getobjectfilename")
  /\ filename' = [i \in 0..MAXFILENAMELEN |->
                    IF i < oi.filenamelen /\ i <= MAXFILENAMELEN
                      THEN oi.data[2 * i] ELSE NUL]
  /\ UNCHANGED <<oi, tm, last>>

(* mutant: the characters are taken from consecutive bytes *)
ptp_getobjectfilename_narrow ==
  /\ Call("getobjectfilename")
  /\ filename' = [i \in Buf |->
                    IF i < oi.filenamelen /\ i < MAXFILENAMELEN
                      THEN oi.data[i] ELSE NUL]
  /\ UNCHANGED <<oi, tm, last>>

(* ptp_getobjectfilename: the buffer is cleared, then the low byte of each *)
(* of the first filenamelen characters (at most MAXFILENAMELEN) copied.    *)
ptp_getobjectfilename ==
  /\ Call("getobjectfilename")
  /\ filename' = [i \in Buf |->
                    IF i < oi.filenamelen /\ i < MAXFILENAMELEN
                      THEN oi.data[2 * i] ELSE NUL]
  /\ UNCHANGED <<oi, tm, last>>

(* ptp_setobjectfilename: the low byte of each of the first strlen         *)
(* characters (at most MAXFILENAMELEN) is written; filenamelen becomes     *)
(* (uint8_t)strlen + 1, stored in a uint8_t.  The NUL is not written.      *)
ptp_setobjectfilename(name) ==
  /\ Call("setobjectfilename")
  /\ oi' = [filenamelen |-> (Len(name) + 1) % 256,
            data |-> [j \in DataIdx |->
                       IF j % 2 = 0 /\ j \div 2 < Len(name)
                          /\ j \div 2 < MAXFILENAMELEN
                         THEN name[j \div 2 + 1] ELSE oi.data[j]]]
  /\ last' = [by |-> "set", name |-> name, date |-> <<>>]
  /\ UNCHANGED <<filename, tm>>

(* The capture date string ptp_getobjectcapturedate copies out: its length *)
(* byte at data[p*2], the characters from the odd bytes after it.          *)
CaptureDate(o) ==
  LET p == o.filenamelen
  IN [i \in Buf |-> IF i < o.data[p * 2] THEN o.data[(i + p) * 2 + 1] ELSE NUL]

(* mutant: the hour is read from offset 8, before the 'T' *)
ptp_getobjectcapturedate_hour8 ==
  /\ Call("getobjectcapturedate")
  /\ LET cd == CaptureDate(oi)
     IN tm' = [tm_year |-> Atoi(Field(cd, 0, 4)) - 1900,
               tm_mon  |-> Atoi(Field(cd, 4, 2)) - 1,
               tm_mday |-> Atoi(Field(cd, 6, 2)),
               tm_hour |-> Atoi(Field(cd, 8, 2)),
               tm_min  |-> Atoi(Field(cd, 11, 2)),
               tm_sec  |-> Atoi(Field(cd, 13, 2))]
  /\ UNCHANGED <<oi, filename, last>>

(* ptp_getobjectcapturedate: the date is copied out, then each field of    *)
(* YYYYMMDDThhmmss is cut out with strncpy and converted with atoi.  mktime *)
(* (the C library) is left out: the model keeps the struct tm it is given.  *)
ptp_getobjectcapturedate ==
  /\ Call("getobjectcapturedate")
  /\ LET cd == CaptureDate(oi)
     IN tm' = [tm_year |-> Atoi(Field(cd, 0, 4)) - 1900,
               tm_mon  |-> Atoi(Field(cd, 4, 2)) - 1,
               tm_mday |-> Atoi(Field(cd, 6, 2)),
               tm_hour |-> Atoi(Field(cd, 9, 2)),
               tm_min  |-> Atoi(Field(cd, 11, 2)),
               tm_sec  |-> Atoi(Field(cd, 13, 2))]
  /\ UNCHANGED <<oi, filename, last>>

Next ==
  \/ \E ci \in CameraInfos : ptp_getobjectinfo(ci)
  \/ \E name \in SetNames : ptp_setobjectfilename(name)
  \/ ptp_getobjectfilename
  \/ ptp_getobjectcapturedate

Spec == Init /\ [][Next]_vars

-----------------------------------------------------------------------------
TypeOK ==
  /\ oi.filenamelen \in 0..255
  /\ oi.data \in [DataIdx -> Bytes]
  /\ filename \in [Buf -> Bytes]
  /\ tm \in [TmFields -> Int]
  /\ nops \in 0..MaxOps

(* The spec's reading of YYYYMMDDThhmmss (ASCII digits).                   *)
DigitsValue(d, from, n) ==
  LET RECURSIVE V(_)
      V(k) == IF k = 0 THEN 0 ELSE 10 * V(k - 1) + d[from + k - 1] - 48
  IN V(n)

SpecTm(d) ==
  [tm_year |-> DigitsValue(d, 1, 4) - 1900, tm_mon |-> DigitsValue(d, 5, 2) - 1,
   tm_mday |-> DigitsValue(d, 7, 2), tm_hour |-> DigitsValue(d, 10, 2),
   tm_min |-> DigitsValue(d, 12, 2), tm_sec |-> DigitsValue(d, 14, 2)]

(* Decoding what was encoded gives the name back, silently truncated to    *)
(* MAXFILENAMELEN (spec: setFilename followed by decode yields the name):  *)
(* ptp_getobjectfilename applied to an ObjectInfo from the camera or from  *)
(* ptp_setobjectfilename.                                                  *)
FilenameDecodes ==
  op = "getobjectfilename" /\ last.by # "none" =>
    CString(filename) = SubSeq(last.name, 1,
                               IF Len(last.name) < MAXFILENAMELEN
                                 THEN Len(last.name) ELSE MAXFILENAMELEN)

(* ptp_getobjectcapturedate gives the year, month, day, hour, minute and   *)
(* second of the camera's YYYYMMDDThhmmss date, whatever the filename's    *)
(* length (the date's place depends on filenamelen).                       *)
CaptureDateDecodes ==
  op = "getobjectcapturedate" /\ last.by = "camera" => tm = SpecTm(last.date)

(* The filename buffer ptp_getobjectfilename fills is NUL-terminated, so   *)
(* the caller can use it as a C string.                                    *)
FilenameTerminated ==
  op = "getobjectfilename" => \E i \in Buf : filename[i] = NUL

====
