-------------------------------- MODULE Qcow2 --------------------------------
(***************************************************************************)
(* ValidateQcow2 (qcow2.go): is a file a QCOW2 image, something else, or   *)
(* neither?  It reads the header of version 2, for version 3 the rest of   *)
(* that header, and then as many bytes as the header claims to have.       *)
(***************************************************************************)
EXTENDS Naturals

V2HeaderSize == 72
V3HeaderSize == 32

\* What the fields say; those beyond the end of a short file are zero.
File == [size : Nat, magic : BOOLEAN, version : Nat, headerLength : Nat]

IsV3(f) == f.size >= V2HeaderSize /\ f.version = 3

\* Where the second or third Read begins, and what it asks for.
Offset(f) == IF IsV3(f) THEN V2HeaderSize + V3HeaderSize ELSE V2HeaderSize
HeaderLength(f) == IF IsV3(f) THEN f.headerLength ELSE V2HeaderSize

\* A Read of nothing does not meet the end of the file.
Reads(f, offset, n) == n = 0 \/ f.size >= offset + n

\* Only a file that has the whole header of version 2 can be found out by its
\* magic; a shorter one meets its end in a later Read.
ValidateQcow2(f) ==
  IF f.size >= V2HeaderSize /\ ~f.magic THEN "raw"
  ELSE IF /\ f.size >= V2HeaderSize
          /\ f.size >= Offset(f)
          /\ Reads(f, Offset(f), HeaderLength(f))
       THEN "qcow2" ELSE "broken"

\* An image: it has the magic, and the header that its fields announce.
IsImage(f) ==
  /\ f.magic
  /\ f.size >= IF f.version = 3 THEN f.headerLength ELSE V2HeaderSize
=============================================================================
