-------------------------------- MODULE H264 --------------------------------
(***************************************************************************)
(* The H.264 file reader of the RTSP example and the RTP packetiser of the *)
(* library, as operators on byte sequences (bytes are numbers below 256).  *)
(*                                                                         *)
(*  - ReadFrame is H264File::readFrame(): it cuts a byte stream into       *)
(*    frames at the start codes 00 00 01 and 00 00 00 01.  The position in *)
(*    the file (_bytesUsed) and the frame count are the reader's state.    *)
(*  - Packetise is H264Source::handleFrame(): a frame that does not fit in *)
(*    one RTP payload is split into FU-A fragments.                        *)
(***************************************************************************)
EXTENDS Naturals, Sequences, FiniteSets, SequencesExt, FiniteSetsExt

CONSTANTS
  MAX_RTP_PAYLOAD_SIZE,  \* 1420 in Rtp.h
  BufSize                \* H264File::_bufSize, the reader's window

ASSUME H264Assumption ==
  /\ MAX_RTP_PAYLOAD_SIZE \in Nat /\ MAX_RTP_PAYLOAD_SIZE > 2
  /\ BufSize \in Nat \ {0}

(***************************************************************************)
(* Reading frames.  Positions are 1-based here, 0-based in the code.       *)
(***************************************************************************)

\* The length of the start code at position i of the window, 0 if none.
StartCode(w, i) ==
  IF w[i] = 0 /\ w[i+1] = 0 /\ w[i+2] = 1 THEN 3
  ELSE IF w[i] = 0 /\ w[i+1] = 0 /\ w[i+2] = 0 /\ w[i+3] = 1 THEN 4
  ELSE 0

\* A slice that starts a picture: NAL type 1 or 5, first_mb_in_slice = 0.
StartsPicture(w, n) == w[n] % 32 \in {1, 5} /\ w[n+1] >= 128

\* Where the first loop stops: at a slice that starts a picture.
StartsAt(w) ==
  {i \in 1..Len(w) - 5 : StartCode(w, i) > 0 /\ StartsPicture(w, i + StartCode(w, i))}

\* Where the second loop, which begins four bytes further, stops: at SEI,
\* SPS, PPS or the next picture.
EndsAt(w, from) ==
  {i \in from..Len(w) - 5 :
     LET n == i + StartCode(w, i) IN
     /\ StartCode(w, i) > 0
     /\ w[n] % 32 \in {6, 7, 8} \/ StartsPicture(w, n)}

NoFrame == [size |-> 0, used |-> 0, count |-> 0, open |-> FALSE]

\* readFrame(): the size of the frame that starts at the reader's position
\* and the reader's state after it.  A window shorter than the five bytes
\* the loops look ahead makes bytesRead - 5 wrap; the callers' files are
\* longer (see LosslessPath).
ReadFrame(file, used, count) ==
  LET atEnd  == used >= Len(file)
      from   == IF atEnd THEN 0 ELSE used
      frames == IF atEnd THEN 0 ELSE count
      w      == SubSeq(file, from + 1, Len(file))
      window == SubSeq(w, 1, IF Len(w) < BufSize THEN Len(w) ELSE BufSize)
      starts == StartsAt(window)
      after  == Min(starts) + 4
      ends   == EndsAt(window, after)
  IN IF starts = {} THEN NoFrame
     ELSE IF ends # {}
     THEN [size |-> Min(ends) - 1, used |-> from + Min(ends) - 1,
           count |-> frames + 1, open |-> TRUE]
     ELSE IF frames > 0
     THEN [size |-> Len(window), used |-> 0, count |-> 0, open |-> TRUE]
     ELSE NoFrame

(***************************************************************************)
(* Packetising.  A packet is its payload and the marker bit (last).        *)
(***************************************************************************)

FuIndicator(b) == (b \div 32) * 32 + 28
FuHeader(b, first, final) ==
  (IF first THEN 128 ELSE 0) + (IF final THEN 64 ELSE 0) + (b % 32)

\* Mutant: a frame that fills its last fragment gets an empty one more.
PacketiseOffByOne(frame) ==
  IF Len(frame) <= MAX_RTP_PAYLOAD_SIZE
  THEN <<[payload |-> frame, last |-> TRUE]>>
  ELSE LET chunk == MAX_RTP_PAYLOAD_SIZE - 2
           size  == Len(frame) - 1
           full  == size \div chunk
           Part(k) == SubSeq(frame, 2 + k * chunk,
                             IF k = full THEN Len(frame) ELSE 1 + (k + 1) * chunk)
       IN [k \in 1..full + 1 |->
             [payload |-> <<FuIndicator(frame[1]),
                            FuHeader(frame[1], k = 1, k = full + 1)>> \o Part(k - 1),
              last    |-> k = full + 1]]

\* handleFrame(): one packet, or fragments of MAX_RTP_PAYLOAD_SIZE - 2 bytes
\* of the frame without its first byte, which the FU bytes carry.
Packetise(frame) ==
  IF Len(frame) <= MAX_RTP_PAYLOAD_SIZE
  THEN <<[payload |-> frame, last |-> TRUE]>>
  ELSE LET chunk == MAX_RTP_PAYLOAD_SIZE - 2
           size  == Len(frame) - 1
           full  == (size - 1) \div chunk
           Part(k) == SubSeq(frame, 2 + k * chunk,
                             IF k = full THEN Len(frame) ELSE 1 + (k + 1) * chunk)
       IN [k \in 1..full + 1 |->
             [payload |-> <<FuIndicator(frame[1]),
                            FuHeader(frame[1], k = 1, k = full + 1)>> \o Part(k - 1),
              last    |-> k = full + 1]]

(***************************************************************************)
(* References: what a decoder makes of the packets, and what a file of     *)
(* access units is.                                                        *)
(***************************************************************************)

\* RFC 3984: a FU-A sequence stands for the NAL unit whose header byte is
\* the indicator's top bits and the FU header's type.
Depacketise(pkts) ==
  IF Len(pkts) = 1 THEN pkts[1].payload
  ELSE <<(pkts[1].payload[1] \div 32) * 32 + (pkts[1].payload[2] % 32)>>
       \o FlattenSeq([k \in 1..Len(pkts) |-> SubSeq(pkts[k].payload, 3, Len(pkts[k].payload))])

\* The packets carry the flags a decoder delimits a unit with.
WellDelimited(pkts) ==
  \A k \in 1..Len(pkts) :
    /\ pkts[k].last <=> k = Len(pkts)
    /\ Len(pkts[k].payload) <= MAX_RTP_PAYLOAD_SIZE
    /\ Len(pkts) > 1 =>
         /\ Len(pkts[k].payload) > 2
         /\ pkts[k].payload[2] >= 128 <=> k = 1
         /\ (pkts[k].payload[2] \div 64) % 2 = 1 <=> k = Len(pkts)

\* The frames of the first n reads of a file.
Reads(file, n) ==
  LET reader[k \in 0..n] ==
        IF k = 0 THEN [used |-> 0, count |-> 0, open |-> TRUE, frames |-> <<>>]
        ELSE LET p    == reader[k - 1]
                 r    == ReadFrame(file, p.used, p.count)
                 from == IF p.used >= Len(file) THEN 0 ELSE p.used
             IN IF ~p.open \/ ~r.open THEN [p EXCEPT !.open = FALSE]
                ELSE [used |-> r.used, count |-> r.count, open |-> TRUE,
                      frames |-> Append(p.frames, SubSeq(file, from + 1, from + r.size))]
  IN reader[n].frames

\* Access units as encoders write them: parameter sets, a first slice and
\* perhaps a second one, after start codes of either length.
AccessUnits ==
  {pre \o code \o <<nal, 136, 2, 2>> \o more :
     pre  \in {<<>>, <<0, 0, 0, 1, 103, 2, 2>>},
     code \in {<<0, 0, 1>>, <<0, 0, 0, 1>>},
     nal  \in {101, 65},
     more \in {<<>>, <<0, 0, 1, 65, 2, 2>>}}

\* Every file of three access units is read unit by unit, again from the
\* start after the last one, and every frame is what its packets stand for:
\* one that fits in a payload, fills its last fragment or leaves one byte.
LosslessPath ==
  /\ \A u, v, w \in AccessUnits : Reads(u \o v \o w, 4) = <<u, v, w, u>>
  /\ \A u \in AccessUnits, n \in 1..4 * MAX_RTP_PAYLOAD_SIZE :
       LET frame == SubSeq(u \o [k \in 1..n |-> k], 1, n)
           pkts  == Packetise(frame)
       IN Depacketise(pkts) = frame /\ WellDelimited(pkts)
=============================================================================
