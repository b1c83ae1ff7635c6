------------------------------ MODULE MCStartup ------------------------------
(***************************************************************************)
(* Small instances of Startup: processes that are started, stopped, killed *)
(* and started again, in any order, and a guest that gets its name.        *)
(***************************************************************************)
EXTENDS Startup

CONSTANTS d1, d2, host, ip1

HostNames == {"corectld", "corectld.ns.dns", "web"}

TheLabels == [n \in HostNames |->
  CASE n = "corectld.ns.dns" -> <<"dns", "ns", "corectld">>
    [] OTHER -> <<n>>]
=============================================================================
