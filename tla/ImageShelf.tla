----------------------------- MODULE ImageShelf -----------------------------
(***************************************************************************)
(* What corectld promises about the images of a channel, however many      *)
(* commands pull, remove and scan at once: an image is whole before it is  *)
(* listed and nobody touches it until it left the list; it comes and goes  *)
(* file by file, in the hands of somebody; and who takes his hands off     *)
(* half an image leaves it to another, or says that he failed.             *)
(* ImageStore implements it.                                               *)
(***************************************************************************)
CONSTANTS Versions, Hands

VARIABLES
  image,     \* "absent", "half" or "whole"
  listed,    \* the images that the daemon knows
  layers,    \* of each version, who puts files in place
  sweepers,  \* and who takes them away
  spoiled    \* the versions that somebody gave up on

vars == <<image, listed, layers, sweepers, spoiled>>

Init ==
  /\ image \in [Versions -> {"absent", "whole"}]
  /\ listed = {v \in Versions : image[v] = "whole"}
  /\ layers = [v \in Versions |-> {}]
  /\ sweepers = [v \in Versions |-> {}]
  /\ spoiled = {}

Becomes(v, x) == image' = [image EXCEPT ![v] = x]

\* Nobody needs to look after an image that is whole, or is not there.
Attended(v) == image[v] = "half" => layers[v] \cup sweepers[v] # {} \/ v \in spoiled

Lay(h, v) ==
  /\ layers' = [layers EXCEPT ![v] = @ \cup {h}]
  /\ Becomes(v, IF image[v] = "absent" THEN "half" ELSE image[v])
  /\ UNCHANGED <<listed, sweepers, spoiled>>

\* What is not put in place yet may be put there by another.
Put(h, v) ==
  /\ h \in layers[v]
  /\ \/ layers' = [layers EXCEPT ![v] = @ \ {h}]
     \/ UNCHANGED layers
  /\ \/ UNCHANGED image
     \/ /\ image[v] = "half"
        /\ Becomes(v, "whole")
  /\ UNCHANGED <<listed, sweepers, spoiled>>
  /\ Attended(v)'

Unlist(h, v) ==
  /\ v \in listed
  /\ listed' = listed \ {v}
  /\ sweepers' = [sweepers EXCEPT ![v] = @ \cup {h}]
  /\ UNCHANGED <<image, layers, spoiled>>

Sweep(h, v) ==
  /\ v \notin listed
  /\ sweepers' = [sweepers EXCEPT ![v] = @ \cup {h}]
  /\ UNCHANGED <<image, listed, layers, spoiled>>

Take(h, v) ==
  /\ h \in sweepers[v]
  /\ image[v] = "whole" /\ Becomes(v, "half")
  /\ UNCHANGED <<listed, layers, sweepers, spoiled>>

Clear(h, v) ==
  /\ h \in sweepers[v]
  /\ image[v] # "whole" /\ Becomes(v, "absent")
  /\ sweepers' = [sweepers EXCEPT ![v] = @ \ {h}]
  /\ UNCHANGED <<listed, layers, spoiled>>

GiveUp(h, v) ==
  /\ h \in layers[v] \cup sweepers[v]
  /\ layers' = [layers EXCEPT ![v] = @ \ {h}]
  /\ sweepers' = [sweepers EXCEPT ![v] = @ \ {h}]
  /\ spoiled' = spoiled \cup {v}
  /\ UNCHANGED <<image, listed>>

Next ==
  \E h \in Hands, v \in Versions :
    \/ Lay(h, v) \/ Put(h, v) \/ Unlist(h, v) \/ Sweep(h, v)
    \/ Take(h, v) \/ Clear(h, v) \/ GiveUp(h, v)

Spec == Init /\ [][Next]_vars

=============================================================================
