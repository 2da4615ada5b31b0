---------------------------- MODULE MCWireFormat ----------------------------
(* Instance of WireFormat for TLC: an address with a zero in front, ports     *)
(* whose bytes change places into one digit and into five, one above 65535,  *)
(* and two clients on different hosts that getIpAddres does not tell apart.  *)
EXTENDS WireFormat

MCParty == {[host |-> 1, ip |-> <<10, 0, 0, 7>>, port |-> 1280],
            [host |-> 1, ip |-> <<10, 0, 0, 7>>, port |-> 33554431],
            [host |-> 2, ip |-> <<127, 0, 1, 1>>, port |-> 9000],
            [host |-> 3, ip |-> <<127, 0, 1, 1>>, port |-> 9000]}
=============================================================================
