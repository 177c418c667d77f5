---------------------------- MODULE MCPortScanner ----------------------------
(* 192.168.1.5 scans 192.168.1.9; addresses as they lie in memory.         *)
EXTENDS PortScanner

Local == <<43200, 1281>>
Target == <<43200, 2305>>
=============================================================================
