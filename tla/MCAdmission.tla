---------------------------- MODULE MCAdmission ----------------------------
(***************************************************************************)
(* A file of three VMs is loaded while another of two is.                  *)
(***************************************************************************)
EXTENDS Admission

CONSTANTS c1, c2, v1, v2, v3, v4, v5, uid, nm, d1, d2, d3, d4, d5

Load == [c \in Clients |-> IF c = c1 THEN <<v1, v2, v4>> ELSE <<v3, v5>>]

\* v1 and v3 are given one UUID, v2 and v3 one name.
SomeUUIDs == [v \in VMs |-> IF v \in {v1, v3} THEN uid ELSE Random]
SomeNames == [v \in VMs |-> IF v \in {v2, v3} THEN nm ELSE Nil]

\* v1 and v2 reach the limit together, v2 and v4 exceed it; v3 asks for too
\* much, v5 for nothing.
Memories == [v \in VMs |-> CASE v = v1 -> 4 [] v = v2 -> 6 [] v = v3 -> 9 [] v = v4 -> 5 [] OTHER -> 0]

\* v3, v4 and v5 want one image, v1 and v4 another; v2 has a raw one first, v3 for
\* its root, v5 the same twice.
Roots == [v \in VMs |-> CASE v = v1 -> d4 [] v = v3 -> d5 [] v = v4 -> d1 [] OTHER -> Nil]
Disc == [v \in VMs |-> CASE v = v2 -> <<d3, d2>>
                         [] v = v3 -> <<d1>>
                         [] v = v4 -> <<d4>>
                         [] v = v5 -> <<d1, d1>>
                         [] OTHER -> <<>>]

\* d4 is of version 2, d3 and d5 are raw.
Image == [size |-> 196608, magic |-> TRUE, version |-> 3, headerLength |-> 104]
Old == [Image EXCEPT !.version = 2, !.headerLength = 0]
Raw == [Image EXCEPT !.magic = FALSE, !.version = 0, !.headerLength = 0]

Files == [x \in Paths |-> CASE x \in {d3, d5} -> Raw
                            [] x = d4 -> Old
                            [] OTHER -> Image]
=============================================================================
