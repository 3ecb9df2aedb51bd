--------------------------- MODULE FramedChannel ---------------------------
(***************************************************************************)
(* One direction of a framed channel: src/src/transport.cpp over           *)
(* src/src/socket.cpp.                                                     *)
(*                                                                         *)
(* The stream is a sequence of units: the header of a frame, then its      *)
(* payload, which the reader may see arrive piece by piece and which may   *)
(* end anywhere.  Of a header the reader sees whether each field passes    *)
(* its test; a piece of payload read where a header is due fails the test  *)
(* of the magic number.  The program that owns the channel receives until  *)
(* receive() fails, as every caller in the repository does; another thread *)
(* may shut the channel down.                                              *)
(***************************************************************************)
EXTENDS Naturals, Sequences, SequencesExt

CONSTANTS Frames,    \* frames the peer may write: [id, defect, size]
          MaxFrame,  \* limits.max_frame_bytes, in pieces of payload
          MaxSent    \* bound: frames written

Defects == {"none", "magic", "version", "type", "checksum"}

ASSUME ChannelAssumption ==
    /\ \A f \in Frames : f.defect \in Defects /\ f.size \in Nat
    /\ MaxFrame \in Nat /\ MaxSent \in Nat

VARIABLES sent,       \* the frames the peer has begun to write
          writing,    \* units of the last one not yet on the wire
          wire,       \* units on the wire
          ended,      \* the peer has closed or died
          reader,     \* "idle", "header" or "payload"
          frame,      \* the frame whose payload is being read
          missing,    \* pieces of payload still to be read
          delivered,  \* frames receive() has returned
          outcome,    \* what the last receive() returned
          shut        \* the socket is shut down

peerVars == <<sent, writing, ended>>
readerVars == <<reader, frame, missing, delivered, outcome>>
channelVars == <<peerVars, wire, readerVars, shut>>

Header(f) == [kind |-> "header", frame |-> f]
Piece(f) == [kind |-> "payload", frame |-> f]
Units == {Header(f) : f \in Frames} \cup {Piece(f) : f \in Frames}

encode_frame(f) == <<Header(f)>> \o [i \in 1..f.size |-> Piece(f)]

ChannelInit ==
    /\ sent = <<>> /\ writing = <<>> /\ wire = <<>> /\ ended = FALSE
    /\ reader = "idle" /\ missing = 0 /\ delivered = <<>> /\ outcome = "none"
    /\ frame \in Frames  \* not looked at before a header has been read
    /\ shut = FALSE

-----------------------------------------------------------------------------
\* The peer: send_all() hands the frame over piece by piece.  A peer of this
\* library refuses a payload above the bound; others may not.
SendFrame(f) ==
    /\ ~ ended /\ writing = <<>> /\ Len(sent) < MaxSent
    /\ sent' = Append(sent, f)
    /\ writing' = encode_frame(f)
    /\ UNCHANGED <<ended, wire, readerVars, shut>>

Transmit ==
    /\ ~ ended /\ writing # <<>>
    /\ wire' = Append(wire, Head(writing))
    /\ writing' = Tail(writing)
    /\ UNCHANGED <<sent, ended, readerVars, shut>>

End ==
    /\ ~ ended
    /\ ended' = TRUE
    /\ UNCHANGED <<sent, writing, wire, readerVars, shut>>

-----------------------------------------------------------------------------
Receive ==
    /\ reader = "idle" /\ outcome \in {"none", "frame"}
    /\ reader' = "header"
    /\ outcome' = "none"
    /\ UNCHANGED <<peerVars, wire, frame, missing, delivered, shut>>

Return(what) ==
    /\ reader' = "idle"
    /\ outcome' = what

Violated ==
    /\ Return("violation")
    /\ UNCHANGED <<frame, missing, delivered>>

\* Mutant: the checksum is not looked at.
CompleteUnchecked(f) ==
    /\ Return("frame")
    /\ delivered' = Append(delivered, f)
    /\ UNCHANGED <<frame, missing, shut>>

\* The whole frame is there: the checksum decides.
Complete(f) ==
    IF f.defect = "checksum" THEN Violated /\ shut' = TRUE
    ELSE /\ Return("frame")
         /\ delivered' = Append(delivered, f)
         /\ UNCHANGED <<frame, missing, shut>>

TooLarge(f) == f.size > MaxFrame

\* The length field: the size of the payload alone.
PayloadBytes(f) == f.size

\* The tests of the header in their order.  An unknown type returns at once
\* (PATHOBS_TRY); the others shut the socket down first.
ReadHeader ==
    /\ reader = "header" /\ wire # <<>>
    /\ wire' = Tail(wire)
    /\ LET f == Head(wire).frame IN
       CASE Head(wire).kind = "payload" \/ f.defect \in {"magic", "version"} ->
              Violated /\ shut' = TRUE
         [] Head(wire).kind = "header" /\ f.defect = "type" ->
              Violated /\ UNCHANGED shut
         [] Head(wire).kind = "header" /\ f.defect \in {"none", "checksum"} ->
              IF TooLarge(f) THEN Violated /\ shut' = TRUE
              ELSE IF PayloadBytes(f) = 0 THEN Complete(f)
              ELSE /\ reader' = "payload"
                   /\ frame' = f
                   /\ missing' = PayloadBytes(f)
                   /\ UNCHANGED <<delivered, outcome, shut>>
    /\ UNCHANGED peerVars

ReadPayload ==
    /\ reader = "payload" /\ wire # <<>>
    /\ wire' = Tail(wire)
    /\ IF missing = 1 THEN Complete(frame)
       ELSE /\ missing' = missing - 1
            /\ UNCHANGED <<reader, frame, delivered, outcome, shut>>
    /\ UNCHANGED peerVars

\* Mutant: the reader notices the end of the peer only.
CloseOfPeer ==
    /\ reader # "idle"
    /\ ended /\ wire = <<>>
    /\ Return("closed")
    /\ UNCHANGED <<peerVars, wire, frame, missing, delivered, shut>>

\* recv() returns nothing: the socket is shut down, or the stream has ended.
\* What had arrived before a shutdown is handed out on some systems and not on
\* others, so this and the two actions above may both be possible.
ReadClosed ==
    /\ reader # "idle"
    /\ shut \/ (ended /\ wire = <<>>)
    /\ Return("closed")
    /\ UNCHANGED <<peerVars, wire, frame, missing, delivered, shut>>

Shutdown ==
    /\ ~ shut
    /\ shut' = TRUE
    /\ UNCHANGED <<peerVars, wire, readerVars>>

ChannelNext ==
    \/ \E f \in Frames : SendFrame(f)
    \/ Transmit \/ End
    \/ Receive \/ ReadHeader \/ ReadPayload \/ ReadClosed
    \/ Shutdown

\* The reading thread runs when it can; so does the network.
ChannelFairness == WF_channelVars(ReadHeader \/ ReadPayload \/ ReadClosed) /\ WF_channelVars(Transmit)

ChannelSpec == ChannelInit /\ [][ChannelNext]_channelVars /\ ChannelFairness
-----------------------------------------------------------------------------
\* The types of the stream and of the reader.
ChannelTypeOK ==
    /\ sent \in Seq(Frames) /\ writing \in Seq(Units) /\ wire \in Seq(Units)
    /\ ended \in BOOLEAN /\ shut \in BOOLEAN
    /\ reader \in {"idle", "header", "payload"}
    /\ frame \in Frames
    /\ missing \in Nat
    /\ delivered \in Seq(Frames)
    /\ outcome \in {"none", "frame", "violation", "closed"}

\* What receive() has returned is the beginning of what the peer wrote, without
\* a gap and without a frame that fails a test, wherever the stream was cut,
\* corrupted or shut down.
DeliveredIsPrefix ==
    /\ IsPrefix(delivered, sent)
    /\ \A i \in DOMAIN delivered : delivered[i].defect = "none" /\ delivered[i].size <= MaxFrame

\* transport.hpp:72: shutdown() unblocks a reader parked in receive(), also in
\* the middle of a frame and when the peer neither writes nor closes.
ShutdownUnblocks == shut ~> reader = "idle"

\* transport.hpp:12-13: "any violation closes the connection".
ViolationCloses == outcome = "violation" => shut
=============================================================================
