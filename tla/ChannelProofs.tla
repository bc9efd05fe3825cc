--------------------------- MODULE ChannelProofs ---------------------------
(***************************************************************************)
(* The framed channel for every cap, buffer size and length of frame.      *)
(***************************************************************************)
EXTENDS Channel, TLAPS

(* The inbound stream: its frames lie one after the other, each after its
   header. *)
Laid ==
    /\ \A n \in 1..Len(peer_frames) : End(n) = End(n - 1) + Header + peer_frames[n].len
    /\ \A m, n \in 0..Len(peer_frames) : m <= n => End(m) <= End(n)

(* poll() is in its loop only while the channel is usable. *)
LoopIsUsable == polling => ~failed

(* The Boolean part of the types, which needs a step of its own. *)
Flags == failed \in BOOLEAN /\ eof \in BOOLEAN /\ polling \in BOOLEAN

Inv == TypeOK /\ Laid /\ LoopIsUsable /\ FramesAligned /\ PollIsComplete /\ BacklogBounded

LEMMA InitInv == Init => Inv
<1> SUFFICES ASSUME Init PROVE Inv
    OBVIOUS
<1>1. TypeOK
  <2>1. Flags
      BY DEF Init, Flags
  <2> QED BY <2>1, ConstantsAssumption DEF Init, TypeOK, Flags, End
<1>2. Laid /\ LoopIsUsable /\ FramesAligned /\ PollIsComplete /\ BacklogBounded
    BY ConstantsAssumption DEF Init, Laid, LoopIsUsable, FramesAligned, PollIsComplete, BacklogBounded, End
<1> QED BY <1>1, <1>2 DEF Inv

(* The ends of the frames are numbers. *)
LEMMA EndType == ASSUME TypeOK, NEW n \in 0..Len(peer_frames) PROVE End(n) \in Nat
<1>1. CASE n = 0
    BY <1>1 DEF End
<1>2. CASE n # 0
  <2>1. peer_frames[n] \in Frame
      BY <1>2 DEF TypeOK
  <2>2. peer_frames[n].end \in Nat
      BY <2>1 DEF Frame
  <2> QED BY <1>2, <2>2 DEF End
<1> QED BY <1>1, <1>2

(* A step that leaves the inbound stream alone leaves its positions alone. *)
LEMMA InUnchanged ==
    ASSUME Inv, UNCHANGED in_vars, failed' \in BOOLEAN, polling' => ~failed', failed => failed'
    PROVE  /\ Laid' /\ LoopIsUsable' /\ FramesAligned' /\ PollIsComplete'
           /\ inbox' <= kMaxBacklog + RecvBuf
           /\ ~failed' => inbox' <= kMaxBacklog
BY DEF Inv, in_vars, Laid, LoopIsUsable, FramesAligned, PollIsComplete, BacklogBounded, End, over_cap

LEMMA QueueStep == ASSUME Inv, NEW len \in OutLens, queue(len) PROVE Inv'
<1>0. over_backlog(outbox' - out_pos, Header + len) \in BOOLEAN
    BY DEF over_backlog
<1>1. TypeOK'
  <2>1. Flags'
      BY <1>0 DEF Inv, TypeOK, Flags, queue, in_vars
  <2> QED BY <2>1, ConstantsAssumption DEF Inv, TypeOK, Flags, queue, in_vars, End
<1>2. ~failed' => outbox' - out_pos' <= kMaxBacklog
  <2>1. over_backlog(outbox' - out_pos, Header + len) => failed'
      BY <1>0 DEF queue
  <2>2. outbox' \in Nat /\ out_pos \in Nat /\ out_pos' = out_pos /\ kMaxBacklog \in Nat
      BY <1>1, ConstantsAssumption DEF Inv, TypeOK, queue
  <2>3. ~over_backlog(outbox' - out_pos, Header + len) => outbox' - out_pos' <= kMaxBacklog
    <3>1. PICK size \in Nat : size = outbox'
        BY <2>2
    <3>2. ~over_backlog(size - out_pos, Header + len) => size - out_pos <= kMaxBacklog
        BY <2>2 DEF over_backlog
    <3> QED BY <2>2, <3>1, <3>2
  <2> QED BY <2>1, <2>3
<1>3. UNCHANGED in_vars /\ failed' \in BOOLEAN /\ (polling' => ~failed') /\ (failed => failed')
    BY <1>1 DEF queue, in_vars, TypeOK
<1> QED BY <1>1, <1>2, <1>3, InUnchanged DEF Inv, BacklogBounded

LEMMA FlushStep == ASSUME Inv, flush PROVE Inv'
<1> USE DEF Inv
<1>1. sendable \in 0..(outbox - out_pos) /\ to_peer + sendable \in 0..SockBuf
    BY ConstantsAssumption DEF TypeOK, sendable, Lesser
<1>2. TypeOK'
  <2>1. Flags'
      BY DEF TypeOK, Flags, flush, in_vars
  <2> QED BY <1>1, <2>1 DEF TypeOK, Flags, flush, in_vars, End
<1>3. ~failed' => outbox' - out_pos' <= kMaxBacklog
    BY <1>1, ConstantsAssumption DEF TypeOK, BacklogBounded, flush
<1>4. UNCHANGED in_vars /\ failed' \in BOOLEAN /\ (polling' => ~failed') /\ (failed => failed')
    BY <1>2 DEF flush, in_vars, TypeOK
<1> QED BY <1>2, <1>3, <1>4, InUnchanged DEF BacklogBounded

LEMMA PollStep == ASSUME Inv, poll PROVE Inv'
BY DEF Inv, poll, out_vars, TypeOK, Laid, LoopIsUsable, FramesAligned, PollIsComplete, BacklogBounded, End

LEMMA RecvBytesStep == ASSUME Inv, recv_bytes PROVE Inv'
<1> USE DEF Inv
<1> DEFINE n == Lesser(RecvBuf, Waiting)
<1>1. n \in 1..RecvBuf /\ n <= wrote - recvd
    BY ConstantsAssumption, EndType DEF TypeOK, recv_bytes, Lesser, Waiting
<1>2. /\ recvd' = recvd + n /\ inbox' = inbox + n
      /\ failed' = (inbox' > kMaxBacklog) /\ polling' = ~failed'
      /\ UNCHANGED <<out_vars, eof, peer_frames, wrote, delivered, peer>>
      /\ ~failed
    BY DEF recv_bytes, inbox_over, LoopIsUsable
<1> HIDE DEF n
<1>3. TypeOK'
  <2>1. Flags'
      BY <1>2 DEF TypeOK, Flags
  <2> QED BY <1>1, <1>2, <2>1, ConstantsAssumption, EndType DEF TypeOK, Flags, out_vars, End
<1>4. Laid' /\ LoopIsUsable' /\ FramesAligned'
    BY <1>1, <1>2, EndType DEF TypeOK, Laid, LoopIsUsable, FramesAligned, End
<1>5. PollIsComplete'
    BY <1>2, <1>3 DEF TypeOK, PollIsComplete
<1>6. BacklogBounded'
  <2>1. ~failed' => inbox' <= kMaxBacklog
    <3>1. ~failed' => ~(inbox' > kMaxBacklog)
        BY <1>2
    <3> QED BY <3>1, <1>3, ConstantsAssumption DEF TypeOK
  <2>2. inbox' <= kMaxBacklog + RecvBuf
      BY <1>1, <1>2, ConstantsAssumption DEF TypeOK, BacklogBounded
  <2>3. outbox' - out_pos' <= kMaxBacklog
      BY <1>2 DEF BacklogBounded, out_vars
  <2> QED BY <2>1, <2>2, <2>3 DEF BacklogBounded
<1> QED BY <1>3, <1>4, <1>5, <1>6

(* The framing loop leaves what follows the last frame it took. *)
LEMMA RecvNoneStep == ASSUME Inv, recv_none PROVE Inv'
<1> USE DEF Inv
<1>1. PICK n \in 0..Len(peer_frames) :
        /\ Parsed(n)
        /\ delivered' = n
        /\ failed' = (n < Len(peer_frames) /\ over_cap(n + 1))
        /\ inbox' = recvd - End(n)
    BY DEF recv_none, frame_up, Remaining
<1>2. /\ eof' \in BOOLEAN /\ polling' = FALSE /\ ~failed
      /\ UNCHANGED <<out_vars, peer_frames, wrote, recvd, peer>>
    BY DEF recv_none, frame_up, closed, LoopIsUsable
<1>3. n \in delivered..Len(peer_frames) /\ End(delivered) <= End(n) /\ End(n) \in Nat /\ End(delivered) \in Nat
    BY <1>1, EndType DEF TypeOK, Parsed, Laid
<1>4. End(n) <= recvd
  <2>1. CASE n = delivered
      BY <2>1, <1>3 DEF TypeOK, FramesAligned
  <2>2. CASE n # delivered
    <3>1. n \in (delivered + 1)..n
        BY <2>2, <1>3 DEF TypeOK
    <3>2. ~Stops(n)
        BY <3>1, <1>1 DEF Parsed
    <3> QED BY <3>2 DEF Stops, arrived
  <2> QED BY <2>1, <2>2
<1>5. inbox' \in 0..inbox
    BY <1>1, <1>3, <1>4 DEF TypeOK, FramesAligned
<1>6. Flags'
    BY <1>1, <1>2 DEF Flags
<1>7. TypeOK'
    BY <1>1, <1>2, <1>3, <1>5, <1>6 DEF TypeOK, Flags, out_vars, End
<1>8. Laid' /\ LoopIsUsable' /\ FramesAligned'
  <2>1. End(n)' = End(n)
      BY <1>2 DEF End
  <2>2. FramesAligned'
      BY <1>1, <1>2, <1>3, <2>1 DEF TypeOK, FramesAligned
  <2> QED BY <1>2, <2>2 DEF Laid, LoopIsUsable, End
<1>9. PollIsComplete'
  <2> SUFFICES ASSUME ~failed', n < Len(peer_frames) PROVE End(n + 1) > recvd /\ ~over_cap(n + 1)
      BY <1>1, <1>2 DEF PollIsComplete, End, over_cap
  <2>1. ~over_cap(n + 1)
      BY <1>1
  <2>2. ~arrived(n + 1, recvd)
      BY <2>1, <1>1 DEF Parsed, Stops, TypeOK
  <2> QED BY <2>1, <2>2, EndType DEF arrived, TypeOK
<1>10. BacklogBounded'
    BY <1>2, <1>5, ConstantsAssumption DEF TypeOK, BacklogBounded, out_vars
<1> QED BY <1>7, <1>8, <1>9, <1>10

LEMMA RecvErrorStep == ASSUME Inv, recv_error PROVE Inv'
BY ConstantsAssumption
   DEF Inv, recv_error, out_vars, TypeOK, Laid, LoopIsUsable, FramesAligned, PollIsComplete, BacklogBounded, End

LEMMA PeerReadStep == ASSUME Inv, peer_read PROVE Inv'
<1>1. TypeOK'
    BY ConstantsAssumption DEF Inv, TypeOK, peer_read, in_vars, End
<1>2. UNCHANGED <<in_vars, outbox, out_pos, failed>> /\ failed' \in BOOLEAN
    BY <1>1 DEF peer_read, TypeOK
<1> QED BY <1>1, <1>2, InUnchanged DEF Inv, BacklogBounded, LoopIsUsable, in_vars

(* A frame the peer begins ends behind everything it has written. *)
LEMMA PeerBeginFrameStep == ASSUME Inv, peer_begin_frame PROVE Inv'
<1> USE DEF Inv
<1>0. PICK N \in Nat : N = Len(peer_frames)
    BY DEF TypeOK
<1>1. PICK len \in PeerLens : peer_frames' = Append(peer_frames, [len |-> len, end |-> wrote + Header + len])
    BY DEF peer_begin_frame
<1>2. /\ wrote = End(N) /\ wrote \in Nat /\ len \in Nat /\ N = Len(peer_frames) /\ N \in Nat
      /\ Header \in Nat /\ Header > 0 /\ recvd \in Nat /\ recvd <= wrote /\ delivered \in 0..N
      /\ UNCHANGED <<out_vars, inbox, polling, wrote, recvd, delivered, failed, eof, peer>>
  <2>1. End(N) \in Nat
      BY <1>0, EndType
  <2>2. wrote = End(N) /\ recvd \in Nat /\ wrote \in recvd..End(N) /\ delivered \in 0..N
      BY <1>0 DEF peer_begin_frame, TypeOK
  <2> QED BY <1>0, <2>1, <2>2, ConstantsAssumption DEF peer_begin_frame
<1>3. /\ peer_frames' \in Seq(Frame) /\ Len(peer_frames') = N + 1
      /\ \A k \in 1..N : peer_frames'[k] = peer_frames[k]
      /\ peer_frames'[N + 1].len = len /\ peer_frames'[N + 1].end = wrote + Header + len
  <2>1. [len |-> len, end |-> wrote + Header + len] \in Frame
      BY <1>2 DEF Frame
  <2>2. peer_frames \in Seq(Frame)
      BY DEF TypeOK
  <2> QED BY <1>1, <1>2, <2>1, <2>2
<1>4. (\A k \in 0..N : End(k)' = End(k)) /\ End(N + 1)' = wrote + Header + len
    BY <1>2, <1>3 DEF End
<1>5. TypeOK'
  <2>1. Flags'
      BY <1>2 DEF TypeOK, Flags
  <2>2. End(N + 1)' \in Nat /\ recvd <= End(N + 1)' /\ wrote <= End(N + 1)'
      BY <1>2, <1>4 DEF peer_begin_frame
  <2> QED BY <1>2, <1>3, <2>1, <2>2 DEF TypeOK, Flags, out_vars
<1>6. Laid'
  <2>1. ASSUME NEW k \in 1..(N + 1) PROVE End(k)' = End(k - 1)' + Header + peer_frames'[k].len
    <3>1. CASE k \in 1..N
      <4>1. k \in 0..N /\ k - 1 \in 0..N /\ k \in 1..Len(peer_frames)
          BY <3>1, <1>2
      <4>2. End(k) = End(k - 1) + Header + peer_frames[k].len
          BY <4>1 DEF Laid
      <4> QED BY <3>1, <4>1, <4>2, <1>3, <1>4
    <3>2. CASE k = N + 1
        BY <3>2, <1>2, <1>3, <1>4
    <3> QED BY <3>1, <3>2, <1>2
  <2>2. ASSUME NEW j \in 0..(N + 1), NEW k \in 0..(N + 1), j <= k PROVE End(j)' <= End(k)'
    <3>1. CASE k \in 0..N
      <4>1. j \in 0..N /\ k \in 0..N /\ End(j) <= End(k)
          BY <3>1, <2>2, <1>2 DEF Laid
      <4> QED BY <4>1, <1>4
    <3>2. CASE k = N + 1 /\ j \in 0..N
      <4>1. End(j) <= End(N) /\ End(j) \in Nat
          BY <3>2, <1>2, EndType DEF Laid
      <4> QED BY <4>1, <3>2, <1>2, <1>4
    <3>3. CASE k = N + 1 /\ j = N + 1
        BY <3>3, <1>2, <1>4
    <3> QED BY <3>1, <3>2, <3>3, <1>2
  <2> QED BY <2>1, <2>2, <1>3 DEF Laid
<1>7. LoopIsUsable' /\ FramesAligned'
    BY <1>2, <1>4 DEF TypeOK, LoopIsUsable, FramesAligned
<1>8. PollIsComplete'
  <2> SUFFICES ASSUME ~polling, ~failed, delivered < N + 1
               PROVE  End(delivered + 1)' > recvd /\ ~over_cap(delivered + 1)'
      BY <1>2, <1>3 DEF PollIsComplete
  <2>1. CASE delivered < N
    <3>1. /\ delivered + 1 \in 1..N /\ delivered \in 0..N /\ (delivered + 1) - 1 = delivered
          /\ End(delivered + 1) > recvd /\ ~over_cap(delivered + 1)
        BY <2>1, <1>2 DEF PollIsComplete, TypeOK
    <3> QED BY <3>1, <1>2, <1>3 DEF over_cap, End
  <2>2. CASE delivered = N
    <3>1. End(delivered + 1)' > recvd
      <4>1. End(delivered + 1)' = wrote + Header + len
          BY <2>2, <1>2, <1>3 DEF End
      <4>2. wrote + Header + len > recvd
          BY <1>2
      <4> QED BY <4>1, <4>2
    <3>2. ~(End(delivered)' + Header <= recvd')
        BY <2>2, <1>2, <1>4
    <3> QED BY <2>2, <3>1, <3>2, <1>2 DEF over_cap
  <2> QED BY <2>1, <2>2, <1>2 DEF TypeOK
<1>9. BacklogBounded'
    BY <1>2 DEF BacklogBounded, out_vars
<1> QED BY <1>5, <1>6, <1>7, <1>8, <1>9

LEMMA PeerWriteStep == ASSUME Inv, peer_write PROVE Inv'
<1> USE DEF Inv
<1>1. PICK n \in 1..Lesser(SockBuf - Waiting, End(Len(peer_frames)) - wrote) : wrote' = wrote + n
    BY DEF peer_write
<1>2. UNCHANGED <<out_vars, inbox, polling, peer_frames, recvd, delivered, failed, eof, peer>>
    BY DEF peer_write
<1>3. TypeOK'
    BY <1>1, <1>2, ConstantsAssumption, EndType DEF TypeOK, Lesser, Waiting, out_vars, End
<1>4. Laid' /\ LoopIsUsable' /\ FramesAligned' /\ PollIsComplete' /\ BacklogBounded'
    BY <1>2 DEF Laid, LoopIsUsable, FramesAligned, PollIsComplete, BacklogBounded, End, over_cap, out_vars
<1> QED BY <1>3, <1>4

LEMMA PeerCloseStep == ASSUME Inv, peer_close PROVE Inv'
<1>1. TypeOK'
    BY ConstantsAssumption DEF Inv, TypeOK, peer_close, in_vars, End
<1>2. UNCHANGED <<in_vars, outbox, out_pos, failed>> /\ failed' \in BOOLEAN
    BY <1>1 DEF peer_close, TypeOK
<1> QED BY <1>1, <1>2, InUnchanged DEF Inv, BacklogBounded, LoopIsUsable, in_vars

LEMMA NextInv == Inv /\ [Next]_vars => Inv'
<1> SUFFICES ASSUME Inv, [Next]_vars PROVE Inv'
    OBVIOUS
<1>1. CASE Host
    BY <1>1, QueueStep, FlushStep, PollStep, RecvBytesStep, RecvNoneStep, RecvErrorStep DEF Host
<1>2. CASE Peer
    BY <1>2, PeerReadStep, PeerBeginFrameStep, PeerWriteStep, PeerCloseStep DEF Peer
<1>3. CASE UNCHANGED vars
    BY <1>3 DEF vars, Inv, TypeOK, Laid, LoopIsUsable, FramesAligned, PollIsComplete, BacklogBounded, End, over_cap
<1> QED BY <1>1, <1>2, <1>3 DEF Next

(* The strengthened invariant of the channel holds in every behaviour. *)
THEOREM Invariant == Spec => []Inv
<1> QED BY InitInv, NextInv, PTL DEF Spec

(* flush() never gives the socket more than it takes, and poll() never counts
   bytes that were not written. *)
THEOREM TypeCorrect == Spec => []TypeOK
<1>1. Inv => TypeOK
    BY DEF Inv
<1> QED BY <1>1, Invariant, PTL

(* Whatever sizes recv() cuts the stream into, inbox_ starts where the last
   frame poll() handed up ended. *)
THEOREM AlignmentCorrect == Spec => []FramesAligned
<1>1. Inv => FramesAligned
    BY DEF Inv
<1> QED BY <1>1, Invariant, PTL

(* A poll() that leaves the channel usable leaves no complete frame behind, and
   no header over the cap. *)
THEOREM PollCorrect == Spec => []PollIsComplete
<1>1. Inv => PollIsComplete
    BY DEF Inv
<1> QED BY <1>1, Invariant, PTL

(* Whatever the peer sends or does not read, inbox_ and outbox_ stay within
   kMaxBacklog, give or take one recv(). *)
THEOREM BacklogCorrect == Spec => []BacklogBounded
<1>1. Inv => BacklogBounded
    BY DEF Inv
<1> QED BY <1>1, Invariant, PTL
=============================================================================
