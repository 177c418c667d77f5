------------------------------- MODULE Broadcast -------------------------------
(***************************************************************************)
(* What a chat server promises the clients it tracks: a line it reads from *)
(* stdin is told to exactly the clients that are members at that moment,   *)
(* to each of them once, and before the next line is read or the           *)
(* membership changes.  How clients are kept, and in which order they are  *)
(* told, is left open.  A server that dies may leave clients owed a line.  *)
(***************************************************************************)
EXTENDS Naturals, Sequences

CONSTANT Clients

VARIABLES
  members,  \* the clients being tracked
  said,     \* number of the last line read
  owed,     \* the members that have not been told that line
  heard     \* the lines each client was told

bvars == <<members, said, owed, heard>>

BroadcastInit ==
  /\ members = {} /\ owed = {}
  /\ said = 0
  /\ heard = [c \in Clients |-> <<>>]

Join(c) ==
  /\ owed = {} /\ c \notin members /\ heard[c] = <<>>
  /\ members' = members \cup {c}
  /\ UNCHANGED <<said, owed, heard>>

Leave(c) ==
  /\ owed = {} /\ c \in members
  /\ members' = members \ {c}
  /\ UNCHANGED <<said, owed, heard>>

Say ==
  /\ owed = {}
  /\ said' = said + 1
  /\ owed' = members
  /\ UNCHANGED <<members, heard>>

Tell(c) ==
  /\ c \in owed
  /\ owed' = owed \ {c}
  /\ heard' = [heard EXCEPT ![c] = Append(@, said)]
  /\ UNCHANGED <<members, said>>

BroadcastNext == Say \/ \E c \in Clients : Join(c) \/ Leave(c) \/ Tell(c)

BroadcastSpec == BroadcastInit /\ [][BroadcastNext]_bvars
=============================================================================
