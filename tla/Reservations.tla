---------------------------- MODULE Reservations ----------------------------
(***************************************************************************)
(* The watch channels through which the leader of a reservation of         *)
(* src/backend/src/state.rs answers the callers that wait for it.  A       *)
(* caller reserves at most once, so its name stands for the reservation id *)
(* and for the channel.                                                    *)
(***************************************************************************)
CONSTANTS Callers, None

VARIABLE channel  \* of each caller's reservation: still open, or what was sent

Open == [open |-> TRUE, sent |-> None]

\* A value is sent, or the sender is dropped (or Abandoned is sent).
Send(c, value) == channel' = [channel EXCEPT ![c] = [open |-> FALSE, sent |-> value]]
Hang(cs) ==
  channel' = [c \in Callers |->
    IF c \in cs THEN [open |-> FALSE, sent |-> None] ELSE channel[c]]
=============================================================================
