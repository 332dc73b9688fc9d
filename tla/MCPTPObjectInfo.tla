--------------------------- MODULE MCPTPObjectInfo ---------------------------
(* Instances of PTPObjectInfo for TLC.                                     *)
EXTENDS PTPObjectInfo

MCMaxFileNameLen == 16

(* n copies of the byte c.                                                 *)
Rep(c, n) == [k \in 1..n |-> c]

a == 97
b == 98
c == 99
x == 120

(* A date YYYYMMDDThhmmss from its decimal digits.                          *)
Iso(digits) ==
  LET dd == [k \in 1..14 |-> 48 + digits[k]]
  IN SubSeq(dd, 1, 8) \o <<84>> \o SubSeq(dd, 9, 14)

Date1 == Iso(<<2,0,0,1, 0,6, 1,5, 1,4, 3,0, 0,0>>)  \* 20010615T143000
Date2 == Iso(<<1,9,9,9, 1,2, 3,1, 2,3, 5,9, 5,9>>)  \* 19991231T235959

(* Names of 0, 2 and MAXFILENAMELEN - 1 characters, each with a date.      *)
MCCameraInfos ==
  {[name |-> <<>>, date |-> Date1],
   [name |-> <<a, b>>, date |-> Date2],
   [name |-> Rep(a, MCMaxFileNameLen - 1), date |-> Date1]}

(* A name of MAXFILENAMELEN characters.                                     *)
MCLongNameInfo == {[name |-> Rep(b, MCMaxFileNameLen), date |-> Date1]}

(* One name, longer than the buffer (silently truncated).                  *)
MCOneSetName == {Rep(c, MCMaxFileNameLen + 4)}

(* Two names of different lengths, set one after the other.                *)
MCTwoSetNames == {<<a, b, c>>, <<x>>}

MCNoInfos == {}
MCNoNames == {}
====
