----------------------------- MODULE CLNetchan -----------------------------
(***************************************************************************)
(* The client's end of the channel (client/cl_net_chan.c).  It keeps no    *)
(* queue: CL_Netchan_Transmit does not return before every fragment of its *)
(* message is out, so the next message finds none unsent.  The loop is     *)
(* modelled step by step, because the server may receive in between.       *)
(***************************************************************************)
EXTENDS Netchan

(* A wrong CL_Netchan_Transmit, for mutation: the next call does not wait  *)
(* for the loop to end.                                                    *)
TransmitWithoutFlush(message) ==
  /\ Len(sent) < MaxMessages
  /\ Netchan_Transmit(message)

CL_Netchan_Transmit(message) ==
  /\ Len(sent) < MaxMessages
  /\ ~unsentFragments
  /\ Netchan_Transmit(message)

(* One turn of the loop "while CL_Netchan_TransmitNextFragment". *)
CL_Netchan_TransmitNextFragment ==
  /\ unsentFragments
  /\ Netchan_TransmitNextFragment

(* The server receives a datagram. *)
SV_Netchan_Process(p) == Netchan_Process(p)

CLNext ==
  \/ \E m \in Messages : CL_Netchan_Transmit(m)
  \/ CL_Netchan_TransmitNextFragment
  \/ \E p \in net : SV_Netchan_Process(p)

CLSpec == NetchanInit /\ [][CLNext]_netchanVars

(* The client's messages reach the server as MessageChannel promises. *)
CLChannel == INSTANCE MessageChannel
               WITH last <- incomingSequence, got <- received
CLChannelSpec == CLChannel!Spec

=============================================================================
