----------------------------- MODULE SVNetchan -----------------------------
(***************************************************************************)
(* The server's end of the channel to one client (server/sv_net_chan.c):   *)
(* netchan_buffer_t messages wait in a queue while fragments of an earlier *)
(* one are going out (the fix of bug #462), and SV_SendQueuedMessages      *)
(* sends one fragment or one queued message at a time.                     *)
(*                                                                         *)
(* The queue is a linked list whose tail, client->netchan_end_queue, is a  *)
(* pointer: into the client_t itself while the list is empty, into its     *)
(* last element otherwise.  SV_ChangeMaxClients moves the client_t and     *)
(* leaves that pointer alone, so "tailStale" says that it points into the  *)
(* client_t's old storage: the next element hung on it is lost.            *)
(***************************************************************************)
EXTENDS Netchan

VARIABLES
  queue,         \* the list from netchan_start_queue
  tailStale,     \* netchan_end_queue points into freed memory
  accepted,      \* history: the messages given to SV_Netchan_Transmit,
                 \* except those freed unsent and those hung on a stale tail
  hung           \* history: how many messages were hung on a stale tail

svVars == <<queue, tailStale, accepted, hung>>
vars == <<netchanVars, svVars>>

Init ==
  /\ NetchanInit
  /\ queue = <<>>
  /\ tailStale = FALSE
  /\ accepted = <<>>
  /\ hung = 0

-----------------------------------------------------------------------------
(* Wrong forms of TransmitNow, for mutation: one looks only at the         *)
(* fragments, the other only at the queue.                                 *)
TransmitPastQueue(message) ==
  /\ ~unsentFragments
  /\ Netchan_Transmit(message)
  /\ UNCHANGED <<queue, tailStale>>

TransmitPastFragments(message) ==
  /\ queue = <<>>
  /\ Netchan_Transmit(message)
  /\ UNCHANGED <<queue, tailStale>>

TransmitNow(message) ==
  /\ ~unsentFragments /\ queue = <<>>
  /\ Netchan_Transmit(message)
  /\ UNCHANGED <<queue, tailStale>>

Enqueue(message) ==
  /\ unsentFragments \/ queue # <<>>
  /\ ~tailStale
  /\ queue' = Append(queue, message)
  /\ UNCHANGED <<netchanVars, tailStale>>

(* Hung on a stale tail the message is not in the list, and later ones are *)
(* hung on it in their turn.                                               *)
EnqueueOnStaleTail ==
  /\ unsentFragments \/ queue # <<>>
  /\ tailStale
  /\ hung' = hung + 1
  /\ UNCHANGED <<netchanVars, queue, tailStale, accepted>>

SV_Netchan_Transmit(message) ==
  /\ Len(accepted) + hung < MaxMessages
  /\ \/ /\ TransmitNow(message) \/ Enqueue(message)
        /\ accepted' = Append(accepted, message)
        /\ UNCHANGED hung
     \/ EnqueueOnStaleTail

(* Popping the last element makes the tail point at the client_t anew. *)
SV_Netchan_TransmitNextInQueue ==
  /\ ~unsentFragments /\ queue # <<>>
  /\ Netchan_Transmit(Head(queue))
  /\ queue' = Tail(queue)
  /\ tailStale' = IF queue' = <<>> THEN FALSE ELSE tailStale
  /\ UNCHANGED <<accepted, hung>>

NextFragment ==
  /\ unsentFragments
  /\ Netchan_TransmitNextFragment
  /\ UNCHANGED svVars

(* A wrong SV_Netchan_TransmitNextFragment, for mutation: the queue is     *)
(* never looked at.                                                        *)
TransmitFragmentsOnly == NextFragment

SV_Netchan_TransmitNextFragment ==
  NextFragment \/ SV_Netchan_TransmitNextInQueue

(* SV_DropClient (SV_FreeClient) throws away what is waiting; the message  *)
(* that is going out, if there is one, still goes out.                     *)
SV_Netchan_FreeQueue ==
  /\ queue' = <<>>
  /\ tailStale' = FALSE
  /\ accepted' = sent
  /\ UNCHANGED <<netchanVars, hung>>

(* The client receives a datagram. *)
CL_Netchan_Process(p) ==
  /\ Netchan_Process(p)
  /\ UNCHANGED svVars

(* SV_SpawnServer after sv_maxclients changed: the client_t is copied to a *)
(* new array.  The allocator may hand out the same memory again, and then  *)
(* the pointer is still good.                                              *)
SV_ChangeMaxClients ==
  /\ tailStale' \in {tailStale, tailStale \/ queue = <<>>}
  /\ UNCHANGED <<netchanVars, queue, accepted, hung>>

Next ==
  \/ \E m \in Messages : SV_Netchan_Transmit(m)
  \/ SV_Netchan_TransmitNextFragment
  \/ SV_Netchan_FreeQueue
  \/ SV_ChangeMaxClients
  \/ \E p \in net : CL_Netchan_Process(p)

(* Com_Frame runs SV_SendQueuedMessages again and again, and the rate      *)
(* delay it waits for runs out, so a live client is always served.         *)
Fairness == WF_vars(SV_Netchan_TransmitNextFragment)

Spec == Init /\ [][Next]_vars
FairSpec == Spec /\ Fairness

-----------------------------------------------------------------------------
TypeOK ==
  /\ NetchanTypeOK
  /\ queue \in Seq(Message)
  /\ tailStale \in BOOLEAN
  /\ accepted \in Seq(Message)
  /\ hung \in Nat

(* Nothing SV_Netchan_Transmit took is lost or overtaken on the server, as *)
(* long as the client is not dropped: what went to the network, followed   *)
(* by the queue, is what was accepted, in order (sv_net_chan.c: "then      *)
(* buffer them and make sure they get sent in correct order").  A change   *)
(* of sv_maxclients may lose what is sent after it (hung), and that alone. *)
Fifo == accepted = sent \o queue

(* The inductive invariant of Spec. *)
IInv == NetchanInv /\ TypeOK /\ Fifo

(* The channel implements MessageChannel: the client is handed a           *)
(* subsequence of what left the queue, each message whole and once.  With  *)
(* Fifo, that is a subsequence of what the server accepted.                *)
Channel == INSTANCE MessageChannel
             WITH last <- incomingSequence, got <- received
ChannelSpec == Channel!Spec

(* When the sender is done with a message, the datagrams it has sent for   *)
(* it are enough to put it together: they reach from its first byte to one *)
(* that the receiver takes for the last (the "little tricky" exit of       *)
(* Netchan_TransmitNextFragment, which a message of exactly n fragments    *)
(* needs).                                                                 *)
Complete(sequence) ==
  \E p \in net :
    /\ p.sequence = sequence
    /\ p.fragmented =>
         /\ Len(p.data) # FRAGMENT_SIZE
         /\ \A start \in {k * FRAGMENT_SIZE : k \in 0..p.start} :
              start < p.start => \E q \in net : /\ q.sequence = sequence
                                               /\ q.start = start
SentComplete ==
  \A sequence \in 1..Len(sent) : sequence < outgoingSequence => Complete(sequence)

(* Every accepted message leaves the server whole, unless it is freed when *)
(* the client is dropped: the queue is never stranded behind fragments,    *)
(* nor a fragment behind the queue (SV_Netchan_TransmitNextFragment).      *)
EventuallySent ==
  \A n \in 1..MaxMessages :
    (Len(accepted) >= n) ~> (outgoingSequence > n \/ Len(accepted) < n)

=============================================================================
