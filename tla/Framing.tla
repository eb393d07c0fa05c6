--------------------------------- MODULE Framing ---------------------------------
(* Length-prefixed frames over a connection that cuts them into messages as it *)
(* likes: choosh-protocol's framing.rs, the FrameChannel of hostd and of the   *)
(* phone, the relay's wire.rs, and the socket of local_ipc.rs.                 *)
(*                                                                             *)
(* A byte is a number below Base; frame n of a sender is filled with the byte  *)
(* n, so that bytes taken from the wrong place show.                           *)
EXTENDS HostState

CONSTANTS
    Base,           \* 256 in the code
    HeaderBytes,    \* 4 in the code
    FrameBytes,     \* the largest payload
    FramesPerFeed,  \* frames one message may complete
    MaxSentFrames

\* How many lengths k bytes of a header can tell apart.
Power[k \in 0 .. HeaderBytes] == IF k = 0 THEN 1 ELSE Base * Power[k - 1]

ASSUME FramingAssumption ==
    /\ Base \in Nat \ {0, 1} /\ HeaderBytes \in Nat \ {0}
    /\ FrameBytes \in 1 .. Power[HeaderBytes] - 2
    /\ FramesPerFeed \in Nat \ {0} /\ MaxSentFrames \in 0 .. Base - 1
    /\ None \notin Nat

VARIABLES
    sizes,          \* of the frames sent
    wire,           \* bytes on their way
    decoder,        \* FrameDecoder
    pendingFrames,  \* decoded, not yet received
    receivedFrames,
    channelEnd      \* open, "closing" by the sender, closed, or broken

framingVars == <<sizes, wire, decoder, pendingFrames, receivedFrames, channelEnd>>

NewDecoder == [header |-> <<>>, expected |-> None, payload |-> <<>>, frames |-> <<>>, failed |-> FALSE]

FramingInit ==
    /\ sizes = <<>> /\ wire = <<>> /\ pendingFrames = <<>> /\ receivedFrames = <<>>
    /\ decoder = NewDecoder
    /\ channelEnd = "open"

Payload(n, size) == [k \in 1 .. size |-> n]
Digit(size, k) == (size \div Power[HeaderBytes - k]) % Base
Encode(n, size) == [k \in 1 .. HeaderBytes |-> Digit(size, k)] \o Payload(n, size)
Length(header) ==
    LET value[k \in 0 .. Len(header)] == IF k = 0 THEN 0 ELSE value[k - 1] * Base + header[k]
    IN value[Len(header)]

Allowed(size) == size \in 1 .. FrameBytes

Fail(d) == [NewDecoder EXCEPT !.failed = TRUE]

HeaderByte(d, b) ==
    LET header == Append(d.header, b)
    IN IF Len(header) < HeaderBytes THEN [d EXCEPT !.header = header]
       ELSE IF ~Allowed(Length(header)) THEN Fail(d)
       ELSE [d EXCEPT !.header = <<>>, !.expected = Length(header)]

PayloadByte(d, b) ==
    LET payload == Append(d.payload, b)
    IN IF Len(payload) < d.expected THEN [d EXCEPT !.payload = payload]
       ELSE IF Len(d.frames) = FramesPerFeed THEN Fail(d)
       ELSE [d EXCEPT !.payload = <<>>, !.expected = None, !.frames = Append(@, payload)]

FeedByte(d, b) ==
    IF d.failed THEN d ELSE IF d.expected = None THEN HeaderByte(d, b) ELSE PayloadByte(d, b)

\* The decoder after a message, with the frames that were completed by it.
Feed(d, message) ==
    LET fed[k \in 0 .. Len(message)] ==
            IF k = 0 THEN [d EXCEPT !.frames = <<>>] ELSE FeedByte(fed[k - 1], message[k])
    IN fed[Len(message)]

-------------------------------------------------------------------------------
PutOnWire(size) ==
    /\ sizes' = Append(sizes, size)
    /\ wire' = wire \o Encode(Len(sizes) + 1, size)

\* A frame that is empty or too large is not sent, and the sender gives up.
SendFrame(size) ==
    /\ channelEnd = "open" /\ Len(sizes) < MaxSentFrames
    /\ IF Allowed(size) THEN PutOnWire(size) /\ UNCHANGED channelEnd
       ELSE channelEnd' = "closing" /\ UNCHANGED <<sizes, wire>>
    /\ UNCHANGED <<decoder, pendingFrames, receivedFrames>>

SenderCloses ==
    /\ channelEnd = "open" /\ channelEnd' = "closing"
    /\ UNCHANGED <<sizes, wire, decoder, pendingFrames, receivedFrames>>

\* The next message is read when no frame is left of the one before.  A decoder
\* that failed is never used again.
ReceiveMessage(n) ==
    /\ channelEnd \in {"open", "closing"} /\ pendingFrames = <<>>
    /\ LET d == Feed(decoder, SubSeq(wire, 1, n))
       IN /\ decoder' = [d EXCEPT !.frames = <<>>]
          /\ pendingFrames' = d.frames
          /\ channelEnd' = IF d.failed THEN "broken" ELSE channelEnd
    /\ wire' = SubSeq(wire, n + 1, Len(wire))
    /\ UNCHANGED <<sizes, receivedFrames>>

ReceiveFrame ==
    /\ pendingFrames # <<>> /\ channelEnd \in {"open", "closing"}
    /\ receivedFrames' = Append(receivedFrames, Head(pendingFrames))
    /\ pendingFrames' = Tail(pendingFrames)
    /\ UNCHANGED <<sizes, wire, decoder, channelEnd>>

ReceiveClose ==
    /\ channelEnd = "closing" /\ wire = <<>> /\ pendingFrames = <<>>
    /\ channelEnd' = "closed"
    /\ UNCHANGED <<sizes, wire, decoder, pendingFrames, receivedFrames>>

ConnectionBreaks ==
    /\ channelEnd \in {"open", "closing"} /\ channelEnd' = "broken"
    /\ UNCHANGED <<sizes, wire, decoder, pendingFrames, receivedFrames>>

FramingNext ==
    \/ \E size \in 0 .. FrameBytes + 1 : SendFrame(size)
    \/ \E n \in 1 .. Len(wire) : ReceiveMessage(n)
    \/ SenderCloses \/ ReceiveFrame \/ ReceiveClose \/ ConnectionBreaks

FramingSpec == FramingInit /\ [][FramingNext]_framingVars
-------------------------------------------------------------------------------
\* What is kept between messages is never more than one frame's worth.
FramingTypeOK ==
    /\ wire \in Seq(0 .. Base - 1) /\ sizes \in Seq(1 .. FrameBytes)
    /\ Len(decoder.header) < HeaderBytes /\ decoder.frames = <<>>
    /\ decoder.expected # None => decoder.expected \in 1 .. FrameBytes
    /\ Len(decoder.payload) < IF decoder.expected = None THEN 1 ELSE decoder.expected
    /\ Len(pendingFrames) <= FramesPerFeed
    /\ channelEnd \in {"open", "closing", "closed", "broken"}

\* The frames are a TunnelStream: however they are cut into messages, what is
\* received is what was sent, in order, and all of it if the sender closed.
Recognised(n) == IF n \in DOMAIN sizes /\ receivedFrames[n] = Payload(n, sizes[n]) THEN n ELSE 0
Frames == INSTANCE TunnelStream WITH
    Streams <- {"frames"},
    sent <- [s \in {"frames"} |-> Len(sizes)],
    received <- [s \in {"frames"} |-> [n \in DOMAIN receivedFrames |-> Recognised(n)]],
    end <- [s \in {"frames"} |->
        CASE channelEnd = "closed" -> "finished" [] channelEnd = "broken" -> "cut" [] OTHER -> "open"]
FramesKept == Frames!StreamSpec
===============================================================================
