------------------------------- MODULE Channel -------------------------------
(***************************************************************************)
(* The parent's end of a link: zen::isolation::Channel                     *)
(* (src/isolation/channel.cpp) over a non-blocking Unix socket, with a peer *)
(* that reads, writes and dies as it likes.                                *)
(*                                                                         *)
(* Both directions are streams of bytes of which only the lengths matter:  *)
(* a frame of payload length n is Header + n bytes, and a buffer is the    *)
(* number of bytes in it.  The frames of the inbound stream are kept in    *)
(* peer_frames, so that a position in the stream tells what a header read  *)
(* there says.                                                             *)
(***************************************************************************)
EXTENDS Integers, Sequences

CONSTANTS
    Header,       \* bytes of a frame header: u32 length and u8 op
    kMaxFrameLen, \* cap on a payload
    kMaxBacklog,  \* cap on either buffer
    RecvBuf,      \* bytes one recv() takes at most
    SockBuf,      \* bytes the socket holds in each direction
    OutLens,      \* payload lengths the host queues
    PeerLens,     \* payload lengths the peer writes, over-cap ones included
    MaxOut,       \* bound on frames queued
    MaxIn         \* bound on frames the peer writes

ASSUME ConstantsAssumption ==
    /\ Header \in Nat \ {0}
    /\ kMaxFrameLen \in Nat
    /\ kMaxBacklog \in Nat
    /\ RecvBuf \in Nat \ {0}
    /\ SockBuf \in Nat \ {0}
    /\ OutLens \subseteq Nat
    /\ PeerLens \subseteq Nat
    /\ MaxOut \in Nat
    /\ MaxIn \in Nat

VARIABLES
    outbox,      \* outbox_.size()
    out_pos,     \* out_pos_
    inbox,       \* inbox_.size()
    failed,      \* failed_
    eof,         \* eof_
    polling,     \* poll() is in its recv loop
    to_peer,     \* bytes in the socket towards the peer
    peer_frames, \* the frames the peer has begun to write: payload length, end in the stream
    wrote,       \* bytes of them the peer has written
    recvd,       \* bytes of those the host has received
    delivered,   \* frames appended to out by all polls so far
    peer,        \* "up"; "closed" after reading all its input; "reset" otherwise
    queued       \* number of frames queued

out_vars == <<outbox, out_pos, to_peer, queued>>
in_vars == <<inbox, polling, peer_frames, wrote, recvd, delivered>>
vars == <<outbox, out_pos, inbox, failed, eof, polling, to_peer, peer_frames, wrote, recvd,
          delivered, peer, queued>>

Init ==
    /\ outbox = 0 /\ out_pos = 0 /\ inbox = 0
    /\ failed = FALSE /\ eof = FALSE /\ polling = FALSE
    /\ to_peer = 0 /\ peer_frames = <<>> /\ wrote = 0 /\ recvd = 0 /\ delivered = 0
    /\ peer = "up" /\ queued = 0

Frame == [len : PeerLens, end : Nat]

(* Where the first n frames of the inbound stream end. *)
End(n) == IF n = 0 THEN 0 ELSE peer_frames[n].end

Lesser(m, n) == IF m <= n THEN m ELSE n

-----------------------------------------------------------------------------
(* Outbound. *)

over_backlog(size, added) == size > kMaxBacklog

queue(len) ==
    /\ ~polling
    /\ ~failed
    /\ queued < MaxOut
    /\ queued' = queued + 1
    /\ IF len > kMaxFrameLen
       THEN failed' = TRUE /\ UNCHANGED outbox
       ELSE /\ outbox' = outbox + Header + len
            /\ failed' = over_backlog(outbox' - out_pos, Header + len)
    /\ UNCHANGED <<out_pos, to_peer, eof, peer, in_vars>>

sendable == Lesser(outbox - out_pos, SockBuf - to_peer)

(* The sends of one flush() take what the socket has room for; one that
   empties the outbox resets it. *)
flush ==
    /\ ~polling
    /\ ~failed
    /\ out_pos < outbox
    /\ IF peer # "up"
       THEN failed' = TRUE /\ UNCHANGED <<outbox, out_pos, to_peer>>
       ELSE LET n == sendable IN
            /\ to_peer' = to_peer + n
            /\ IF out_pos + n = outbox
               THEN outbox' = 0 /\ out_pos' = 0
               ELSE out_pos' = out_pos + n /\ UNCHANGED outbox
            /\ UNCHANGED failed
    /\ UNCHANGED <<queued, eof, peer, in_vars>>

-----------------------------------------------------------------------------
(* Inbound: poll() is a loop of recv() and then the framing. *)

poll ==
    /\ ~polling
    /\ ~failed
    /\ polling' = TRUE
    /\ UNCHANGED <<out_vars, inbox, failed, eof, peer_frames, wrote, recvd, delivered, peer>>

Waiting == wrote - recvd

(* Mutant: the inbound cap is not looked at. *)
inbox_over_never(size) == FALSE
inbox_over(size) == size > kMaxBacklog

(* recv() > 0: the loop goes on unless the inbox is over its cap. *)
recv_bytes ==
    /\ polling
    /\ Waiting > 0
    /\ LET n == Lesser(RecvBuf, Waiting) IN
       /\ recvd' = recvd + n
       /\ inbox' = inbox + n
    /\ failed' = inbox_over(inbox')
    /\ polling' = ~failed'
    /\ UNCHANGED <<out_vars, eof, peer_frames, wrote, delivered, peer>>

(* Mutant: a frame needs a byte after its header to count as arrived. *)
arrived_nonempty(n, upto) == End(n - 1) + Header < upto /\ End(n) <= upto

(* Frame n is complete in the first upto bytes of the stream. *)
arrived(n, upto) == End(n) <= upto

(* The header of frame n is there and says more than the cap. *)
over_cap(n) == End(n - 1) + Header <= recvd /\ peer_frames[n].len > kMaxFrameLen

(* The framing loop takes complete frames until one is over the cap, or not
   all there: frame n is the last it takes. *)
Stops(n) == n <= Len(peer_frames) => over_cap(n) \/ ~arrived(n, recvd)
Parsed(n) ==
    /\ n \in delivered..Len(peer_frames)
    /\ \A k \in (delivered + 1)..n : ~Stops(k)
    /\ Stops(n + 1)

(* Mutant: the headers of the frames taken stay in the inbox. *)
Remaining_headers(n) == recvd - End(n) + Header * (n - delivered)

(* inbox_.erase(0, pos) after frame n. *)
Remaining(n) == recvd - End(n)

frame_up ==
    /\ \E n \in 0..Len(peer_frames) :
        /\ Parsed(n)
        /\ delivered' = n
        /\ failed' = (n < Len(peer_frames) /\ over_cap(n + 1))
        /\ inbox' = Remaining(n)
    /\ polling' = FALSE

(* Mutant: the end is reported only once no partial frame is left. *)
closed_when_drained == peer = "closed" /\ inbox = 0
closed == peer = "closed"

(* recv() has nothing more: EAGAIN, or 0 when the peer closed in good order. *)
recv_none ==
    /\ polling
    /\ Waiting = 0
    /\ peer # "reset"
    /\ eof' = closed
    /\ frame_up
    /\ UNCHANGED <<out_vars, peer_frames, wrote, recvd, peer>>

(* ECONNRESET, the peer having closed with input unread: poll() returns
   without framing what the loop has received. *)
recv_error ==
    /\ polling
    /\ Waiting = 0
    /\ peer = "reset"
    /\ failed' = TRUE
    /\ polling' = FALSE
    /\ UNCHANGED <<out_vars, eof, inbox, peer_frames, wrote, recvd, delivered, peer>>

-----------------------------------------------------------------------------
(* The peer. *)

peer_read ==
    /\ peer = "up"
    /\ \E n \in 1..to_peer : to_peer' = to_peer - n
    /\ UNCHANGED <<outbox, out_pos, queued, failed, eof, in_vars, peer>>

peer_begin_frame ==
    /\ peer = "up"
    /\ wrote = End(Len(peer_frames))
    /\ Len(peer_frames) < MaxIn
    /\ \E len \in PeerLens : peer_frames' = Append(peer_frames, [len |-> len, end |-> wrote + Header + len])
    /\ UNCHANGED <<out_vars, inbox, polling, wrote, recvd, delivered, failed, eof, peer>>

peer_write ==
    /\ peer = "up"
    /\ \E n \in 1..Lesser(SockBuf - Waiting, End(Len(peer_frames)) - wrote) : wrote' = wrote + n
    /\ UNCHANGED <<out_vars, inbox, polling, peer_frames, recvd, delivered, failed, eof, peer>>

peer_close ==
    /\ peer = "up"
    /\ peer' = IF to_peer = 0 THEN "closed" ELSE "reset"
    /\ to_peer' = 0
    /\ UNCHANGED <<outbox, out_pos, queued, failed, eof, in_vars>>

-----------------------------------------------------------------------------
Host == (\E len \in OutLens : queue(len)) \/ flush \/ poll \/ recv_bytes \/ recv_none \/ recv_error
Peer == peer_read \/ peer_begin_frame \/ peer_write \/ peer_close

Next == Host \/ Peer

Spec == Init /\ [][Next]_vars

(* step() flushes and polls every channel on every turn, and poll() goes on
   once begun.  Nothing is assumed of the peer. *)
FairSpec ==
    /\ Spec
    /\ WF_vars(flush)
    /\ WF_vars(poll)
    /\ WF_vars(recv_bytes \/ recv_none \/ recv_error)

-----------------------------------------------------------------------------
(* The buffers are lengths, and positions in the two streams are in order. *)
TypeOK ==
    /\ outbox \in Nat /\ out_pos \in 0..outbox
    /\ recvd \in Nat /\ inbox \in 0..recvd
    /\ failed \in BOOLEAN /\ eof \in BOOLEAN /\ polling \in BOOLEAN
    /\ to_peer \in 0..SockBuf
    /\ peer_frames \in Seq(Frame)
    /\ wrote \in recvd..End(Len(peer_frames))
    /\ wrote - recvd <= SockBuf
    /\ delivered \in 0..Len(peer_frames)
    /\ peer \in {"up", "closed", "reset"}
    /\ queued \in 0..MaxOut

(* Framing never slips: however the bytes were cut up on their way, what is
   left in inbox_ starts exactly where the last frame handed up ended. *)
FramesAligned == recvd - inbox = End(delivered)

(* A poll() that leaves the channel usable has handed up every frame that has
   arrived, and met no header over the cap. *)
PollIsComplete ==
    ~polling /\ ~failed /\ delivered < Len(peer_frames) =>
        End(delivered + 1) > recvd /\ ~over_cap(delivered + 1)

(* A peer that floods or does not read costs a bounded amount of unsent and
   unparsed data; a usable channel is within its cap. *)
BacklogBounded ==
    /\ inbox <= kMaxBacklog + RecvBuf
    /\ ~failed => inbox <= kMaxBacklog /\ outbox - out_pos <= kMaxBacklog

(* The end of the peer is always noticed, a frame cut off in the middle
   notwithstanding. *)
PeerEndIsNoticed == (peer # "up") ~> (failed \/ eof)
=============================================================================
