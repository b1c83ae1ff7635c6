------------------------------ MODULE MCNames ------------------------------
(***************************************************************************)
(* A small instance of Names: two VMs with two spellings of one name,      *)
(* hence with one key, one after the other or at once, and one that asks   *)
(* for the name of the host.                                               *)
(***************************************************************************)
EXTENDS Names, TLC

CONSTANTS v1, v2, v3, h1, h2, u1, u2, u3, host, ip1, ip2

HostNames == {"corectld", "corectld.", "corectld.ns.dns", "web", "web."}

TheLabels == [n \in HostNames |->
  CASE n = "corectld.ns.dns" -> <<"dns", "ns", "corectld">>
    [] n = "corectld." -> <<"corectld">>
    [] n = "web." -> <<"web">>
    [] OTHER -> <<n>>]

TheNames == v1 :> "web" @@ v2 :> "web." @@ v3 :> "corectld"
TheUUIDs == v1 :> u1 @@ v2 :> u2 @@ v3 :> u3
TheOffers == u1 :> {ip1} @@ u2 :> {ip1, ip2} @@ u3 :> {ip2}

=============================================================================
