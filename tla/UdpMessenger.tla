---------------------------- MODULE UdpMessenger ----------------------------
(***************************************************************************)
(* projects/networking/udp-messenger: the message goes out NUMBER times on *)
(* a connected datagram socket, a newline behind each.  When nothing       *)
(* listens, the ICMP answer to one datagram makes a later write() fail.    *)
(***************************************************************************)
EXTENDS Naturals

CONSTANT NUMBER  \* times the message is sent

ASSUME UdpAssumption == NUMBER \in Nat

VARIABLES
  udpPc,     \* where main is
  message,   \* the argument: "none" when it is empty
  turn,      \* sendf's i
  sent,      \* messages handed to the network
  newlines,  \* newlines handed to the network
  so_error,  \* an ICMP error waits on the socket
  told       \* something was printed or returned about a failure

udpVars == <<udpPc, message, turn, sent, newlines, so_error, told>>

UdpInit ==
  /\ udpPc = "main" /\ message = "some" /\ turn = 0 /\ sent = 0 /\ newlines = 0
  /\ so_error = FALSE /\ told = FALSE

(* socket() and connectf(); each failure is printed and returned.          *)
connectf ==
  /\ udpPc = "main"
  /\ \/ udpPc' = "message" /\ message' \in {"none", "some"} /\ UNCHANGED told
     \/ udpPc' = "returned" /\ told' = TRUE /\ UNCHANGED message
  /\ UNCHANGED <<turn, sent, newlines, so_error>>

(* A waiting error fails one write() and is gone.                          *)
write_fails == so_error /\ so_error' = FALSE

(* Mutant: the result of the first write() is ignored as the second's is.  *)
sendf_message_unchecked ==
  /\ udpPc = "message" /\ turn < NUMBER
  /\ \/ write_fails /\ UNCHANGED sent
     \/ ~so_error /\ sent' = sent + 1 /\ UNCHANGED so_error
  /\ udpPc' = "newline" /\ UNCHANGED <<message, turn, newlines, told>>

(* The first write(): an empty message counts as a failure too.            *)
sendf_message ==
  /\ udpPc = "message" /\ turn < NUMBER
  /\ \/ /\ write_fails \/ (~so_error /\ message = "none" /\ UNCHANGED so_error)
        /\ udpPc' = "returned" /\ told' = TRUE /\ UNCHANGED sent
     \/ /\ ~so_error /\ message = "some" /\ udpPc' = "newline"
        /\ sent' = sent + 1 /\ UNCHANGED <<so_error, told>>
  /\ UNCHANGED <<message, turn, newlines>>

(* The second write(), whose result nobody looks at.                       *)
sendf_newline ==
  /\ udpPc = "newline" /\ udpPc' = "message" /\ turn' = turn + 1
  /\ \/ write_fails /\ UNCHANGED newlines
     \/ ~so_error /\ newlines' = newlines + 1 /\ UNCHANGED so_error
  /\ UNCHANGED <<message, sent, told>>

sendf_returns ==
  /\ udpPc = "message" /\ turn = NUMBER /\ udpPc' = "returned"
  /\ UNCHANGED <<message, turn, sent, newlines, so_error, told>>

(* The network answers an earlier datagram.                                *)
icmp ==
  /\ udpPc \in {"message", "newline"} /\ sent > 0 /\ ~so_error
  /\ so_error' = TRUE /\ UNCHANGED <<udpPc, message, turn, sent, newlines, told>>

UdpNext == connectf \/ sendf_message \/ sendf_newline \/ sendf_returns \/ icmp
UdpSpec == UdpInit /\ [][UdpNext]_udpVars

-----------------------------------------------------------------------------
(* The program ends in silence only after the message has been handed to   *)
(* the network NUMBER times, whenever the ICMP errors arrive.  The check   *)
(* of the first write() is enough for that although the newline's write()  *)
(* swallows errors: of the newlines any number may be missing.             *)
AllSentOrTold == udpPc = "returned" /\ ~told => sent = NUMBER
=============================================================================
