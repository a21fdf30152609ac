----------------------------- MODULE PortScanMC -----------------------------
(***************************************************************************)
(* Two TCP ports and then one UDP port: the flag can be carried from a     *)
(* port to the next one and from one loop into the other.                  *)
(***************************************************************************)
EXTENDS PortScan

ScanTargets ==
  << [proto |-> "tcp", port |-> 22], [proto |-> "tcp", port |-> 80],
     [proto |-> "udp", port |-> 53] >>

=============================================================================
