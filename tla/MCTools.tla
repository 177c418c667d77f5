------------------------------ MODULE MCTools ------------------------------
(***************************************************************************)
(* The sequential programs, one of which is started in each behaviour.     *)
(***************************************************************************)
EXTENDS Hexdump, Greyscale, Readability, UdpMessenger, HttpUrl

MCWidthArgs == {-1, 0, 3, 5, 256}
MCHeights == -1..3

VARIABLE program  \* the one that was started

vars == <<program, hexVars, greyVars, readVars, udpVars, urlVars>>

Init == program = "none" /\ HexInit /\ GreyInit /\ ReadInit /\ UdpInit /\ UrlInit

Start(p) == program \in {"none", p} /\ program' = p

Next ==
  \/ Start("hexdump") /\ HexNext /\ UNCHANGED <<greyVars, readVars, udpVars, urlVars>>
  \/ Start("greyscale") /\ GreyNext /\ UNCHANGED <<hexVars, readVars, udpVars, urlVars>>
  \/ Start("readability") /\ ReadNext /\ UNCHANGED <<hexVars, greyVars, udpVars, urlVars>>
  \/ Start("udp") /\ UdpNext /\ UNCHANGED <<hexVars, greyVars, readVars, urlVars>>
  \/ Start("url") /\ UrlNext /\ UNCHANGED <<hexVars, greyVars, readVars, udpVars>>

Spec == Init /\ [][Next]_vars
=============================================================================
