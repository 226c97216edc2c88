--------------------------- MODULE MCRegistryFile ---------------------------
(***************************************************************************)
(* A small instance of RegistryFile: two callers, and operations that      *)
(* create the record, stage a setting, promote, note the contact or the     *)
(* serial, or only read.                                                   *)
(***************************************************************************)
EXTENDS RegistryFile

CONSTANTS k1, x, y, city, sn

MCKeys == {k1}
MCFields == {city}
MCValues == {x, y}
MCSerials == {sn}

Edit(k, v) == [psk |-> k, set |-> [f \in Fields |-> v], minSV |-> 0]

MCOps ==
  {[kind |-> "load"], [kind |-> "touch"],
   [kind |-> "register", upd |-> Edit(k1, x)],
   [kind |-> "stage", upd |-> Edit(None, y)],
   [kind |-> "promote", version |-> 2, viaPending |-> FALSE],
   [kind |-> "serial", serial |-> sn]}
=============================================================================
