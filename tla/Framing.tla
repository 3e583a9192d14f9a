------------------------------- MODULE Framing -------------------------------
(***************************************************************************)
(* One direction of a TCP connection: the framings of pkg/mtproto/codec,   *)
(* the obfuscation under them, the detection of both when a connection is  *)
(* accepted, and the writers and readers of mtclient and of tcpConn.       *)
(* A byte is a digit below Radix.  The layouts are those of the code, with *)
(* fewer and smaller bytes: a word of 2 for 4, a key of 2 for 48.  A       *)
(* connection that times out or is closed is one that takes no more steps. *)
(***************************************************************************)
EXTENDS Integers, SequencesExt

CONSTANTS Radix,        \* bytes are 0..Radix-1; 256 in the code
          MaxFrame,     \* MaxFrameSize
          MaxPad,       \* maxIntermediatePad
          Lengths,      \* of the payloads that are written
          HeadBytes,    \* what the random bytes that open an init packet may be
          MaxFrames     \* frames written

ASSUME FramingAssumption ==
  /\ Radix % 2 = 0 /\ MaxFrame % 2 = 0 /\ MaxFrame \in Nat
  /\ Lengths \subseteq 1..MaxFrame /\ HeadBytes \subseteq 0..Radix - 1

WordSize == 2
Escape == Radix \div 2 - 1
\* The magic prefixes.
MagicOf == [abridged |-> <<Radix - 1>>, intermediate |-> <<Radix - 2, Radix - 2>>,
            padded |-> <<Radix - 3, Radix - 3>>]
\* Full framing is not among them: it has no prefix for the server to go by.
Framings == DOMAIN MagicOf
\* The tag inside an init packet.
TagOf(f) == [i \in 1..WordSize |-> MagicOf[f][1]]
KeySize == 2
InitSize == WordSize + KeySize + WordSize

VARIABLES
  framing, veiled, \* what the client chose; veiled: with obfuscation
  writer,          \* the side whose frames are followed
  initHead,        \* the bytes an init packet opens with
  wire, held,      \* in flight; read by the peer's first buffered reader
  encAt, decAt,    \* positions of the two ends in the key stream
  codec,           \* the reader's framing: "none" before detection, "error"
  frames, read,    \* payloads that were written, and that were read
  torn, failed     \* a frame was written in part; the buffered writer has failed

endVars == <<framing, veiled, writer, initHead>>
frameVars == <<endVars, wire, held, encAt, decAt, codec, frames, read, torn, failed>>

(***************************************************************************)
(* The key stream, whose key is spliced into the init packet, and which    *)
(* runs over the init packet first.  The server's uses the bytes reversed. *)
(***************************************************************************)
InitKey == <<3, 5>>
KeyStream(at) == LET key == IF writer = "client" THEN InitKey ELSE Reverse(InitKey)
                 IN (key[1] + key[2] * at) % Radix
Enciphered(s, at) == [i \in DOMAIN s |-> (s[i] + KeyStream(at + i)) % Radix]
Deciphered(s, at) == [i \in DOMAIN s |-> (s[i] - KeyStream(at + i)) % Radix]

LittleEndian(n) == <<n % Radix, n \div Radix>>
PayloadOf(n) == [j \in 1..n |-> (5 * Len(frames) + j) % Radix]
PadTo4(s) == s \o [i \in 1..(-Len(s)) % WordSize |-> 0]

AbridgedHead(words) == IF words < Escape THEN <<words>> ELSE <<Escape, words>>

\* WriteFrame: the sequences it hands to Write one after the other.  The reader
\* looks at the last byte of a padding only; nobody reads full framing's checksum.
WriteAbridged(s) == <<AbridgedHead(Len(PadTo4(s)) \div WordSize), PadTo4(s)>>
WriteIntermediate(s) == <<LittleEndian(Len(s)), s>>
WritePadded(s, pad) == <<LittleEndian(Len(s) + pad), s, [i \in 1..pad |-> pad]>>
WriteFull(s) == <<LittleEndian(Len(s) + 3 * WordSize) \o LittleEndian(Len(frames)) \o s
                  \o LittleEndian(Len(s))>>
Written(f, s, pad) == CASE f = "abridged" -> WriteAbridged(s)
                        [] f = "intermediate" -> WriteIntermediate(s)
                        [] f = "padded" -> WritePadded(s, pad)
                        [] f = "full" -> WriteFull(s)

\* Frames that WriteFrame refuses before it writes.
Extra(f, pad) == IF f = "padded" THEN pad ELSE IF f = "full" THEN 3 * WordSize ELSE 0
TooLarge(f, s, pad) == Len(s) + Extra(f, pad) > MaxFrame
-----------------------------------------------------------------------------
\* DialObfuscated draws again when the packet could be taken for another framing.
Acceptable(head) == /\ head[1] \notin {Radix - 1, 0}
                    /\ head \notin {MagicOf[f] : f \in Framings}

\* The prefix that selects a framing; full framing has none.
WriteMagic == IF framing = "full" THEN <<>> ELSE MagicOf[framing]
\* The init packet: only the tag at its end travels enciphered.
DialObfuscated == initHead \o InitKey \o Enciphered(TagOf(framing), WordSize + KeySize)
\* What Dial sends first.
Opening == IF veiled THEN DialObfuscated ELSE WriteMagic

FrameInit ==
  /\ framing \in Framings \union {"full"} /\ veiled \in BOOLEAN
  /\ writer \in {"client", "server"}
  /\ framing = "full" => writer = "client" /\ ~veiled
  /\ IF veiled /\ writer = "client"
     THEN initHead \in [1..WordSize -> HeadBytes] /\ Acceptable(initHead)
     ELSE initHead = <<>>
  /\ wire = IF writer = "client" THEN Opening ELSE <<>>
  /\ codec = IF writer = "client" THEN "none" ELSE framing
  /\ encAt = IF writer = "client" THEN InitSize ELSE 0
  /\ decAt = 0 /\ held = <<>> /\ frames = <<>> /\ read = <<>>
  /\ torn = FALSE /\ failed = FALSE

OnWire(s) == wire' = wire \o (IF veiled THEN Enciphered(s, encAt) ELSE s)

\* WriteFrame with its Flush.
WriteFrame(n, pad) ==
  /\ Len(frames) < MaxFrames /\ ~failed
  /\ LET bytes == FlattenSeq(Written(framing, PayloadOf(n), pad))
     IN /\ ~TooLarge(framing, PayloadOf(n), pad)
        /\ OnWire(bytes) /\ encAt' = encAt + Len(bytes)
        /\ frames' = Append(frames, PayloadOf(n))
  /\ UNCHANGED <<endVars, held, decAt, codec, read, torn, failed>>

\* Mutant of WriteTimesOut: the server's writer goes on after an error.
WriteTimesOutForgotten(n, pad) ==
  /\ Len(frames) < MaxFrames /\ ~failed /\ ~torn /\ torn' = TRUE
  /\ LET bytes == FlattenSeq(Written(framing, PayloadOf(n), pad))
     IN /\ ~TooLarge(framing, PayloadOf(n), pad)
        /\ \E k \in 0..Len(bytes) - 1 : OnWire(SubSeq(bytes, 1, k))
        /\ encAt' = encAt + Len(bytes)
  /\ UNCHANGED <<endVars, held, decAt, codec, frames, read, failed>>

\* The deadline passes when part of a frame is written.  The client wrote straight
\* to the connection and will write its next frame there; tcpConn wrote through a
\* bufio.Writer, which fails from then on.  A Write has enciphered all it was given.
WriteTimesOut(n, pad) ==
  /\ Len(frames) < MaxFrames /\ ~failed /\ ~torn /\ torn' = TRUE
  /\ LET whole == Written(framing, PayloadOf(n), pad)
         writes == IF writer = "client" THEN whole ELSE <<FlattenSeq(whole)>>
     IN /\ ~TooLarge(framing, PayloadOf(n), pad)
        /\ \E i \in DOMAIN writes : \E k \in 0..Len(writes[i]) - 1 :
             LET done == FlattenSeq(SubSeq(writes, 1, i - 1))
             IN /\ OnWire(done \o SubSeq(writes[i], 1, k))
                /\ encAt' = encAt + Len(done) + Len(writes[i])
  /\ failed' = (writer = "server")
  /\ UNCHANGED <<endVars, held, decAt, codec, frames, read>>

\* TCP hands over the next byte: however it cuts the stream, reads see these states.
Deliver ==
  /\ wire # <<>> /\ codec # "error"
  /\ held' = Append(held, Head(wire)) /\ wire' = Tail(wire)
  /\ UNCHANGED <<endVars, encAt, decAt, codec, frames, read, torn, failed>>

(***************************************************************************)
(* The server finds out what the client speaks.                            *)
(***************************************************************************)
Detected(f, size) == /\ codec' = f
                     /\ held' = SubSeq(held, size + 1, Len(held))
                     /\ decAt' = size

\* Detect: a prefix, by its first byte or its first word.
Detect(f) ==
  /\ codec = "none" /\ IsPrefix(MagicOf[f], held) /\ Detected(f, Len(MagicOf[f]))
  /\ UNCHANGED <<endVars, wire, encAt, frames, read, torn, failed>>

\* Everything else is taken for an init packet, with the tag at its end.
AcceptObfuscated ==
  /\ codec = "none" /\ Len(held) >= InitSize
  /\ \A f \in Framings : ~IsPrefix(MagicOf[f], held)
  /\ LET at == InitSize - WordSize
         tag == Deciphered(SubSeq(held, at + 1, InitSize), at)
     IN IF \E f \in Framings : tag = TagOf(f)
        THEN \E f \in Framings : tag = TagOf(f) /\ Detected(f, InitSize)
        ELSE codec' = "error" /\ UNCHANGED <<held, decAt>>
  /\ UNCHANGED <<endVars, wire, encAt, frames, read, torn, failed>>

Upgrade == AcceptObfuscated \/ \E f \in Framings : Detect(f)

(***************************************************************************)
(* ReadFrame.                                                              *)
(***************************************************************************)
Incoming == IF veiled THEN Deciphered(held, decAt) ELSE held
HeadSize(s) == IF codec = "abridged" /\ s[1] # Escape THEN 1 ELSE WordSize
\* The length a header declares; 0, which is refused, for a quick-ack.
Declared(s) ==
  CASE codec = "abridged" /\ s[1] > Escape -> 0
    [] codec = "abridged" /\ s[1] <= Escape -> WordSize * s[HeadSize(s)]
    [] OTHER -> s[1] + Radix * s[2]
PadIn(s, size) == IF codec = "padded" THEN s[size] ELSE 0

ReadFails == codec' = "error" /\ UNCHANGED <<held, decAt, read>>

ReadFrame ==
  /\ codec \in Framings /\ Incoming # <<>> /\ Len(Incoming) >= HeadSize(Incoming)
  /\ LET size == HeadSize(Incoming) + Declared(Incoming)
         pad == PadIn(Incoming, size)
     IN \/ Declared(Incoming) \notin 1..MaxFrame /\ ReadFails
        \/ /\ Declared(Incoming) \in 1..MaxFrame /\ Len(Incoming) >= size
           /\ codec = "padded" => pad \in 1..MaxPad /\ pad <= Declared(Incoming)
           /\ read' = Append(read, SubSeq(Incoming, HeadSize(Incoming) + 1, size - pad))
           /\ held' = SubSeq(held, size + 1, Len(held)) /\ decAt' = decAt + size
           /\ UNCHANGED codec
        \/ /\ Declared(Incoming) \in 1..MaxFrame /\ Len(Incoming) >= size
           /\ codec = "padded" /\ (pad \notin 1..MaxPad \/ pad > Declared(Incoming))
           /\ ReadFails
  /\ UNCHANGED <<endVars, wire, encAt, frames, torn, failed>>

FrameNext ==
  \/ \E n \in Lengths, pad \in 1..MaxPad : /\ framing # "padded" => pad = 1
                                           /\ WriteFrame(n, pad) \/ WriteTimesOut(n, pad)
  \/ Deliver \/ Upgrade \/ ReadFrame

FrameSpec == FrameInit /\ [][FrameNext]_frameVars
-----------------------------------------------------------------------------
FrameTypeOK ==
  /\ {wire, held} \subseteq Seq(0..Radix - 1) /\ encAt \in Nat /\ decAt \in Nat
  /\ codec \in Framings \union {"none", "error"}
  /\ Len(frames) <= MaxFrames /\ torn \in BOOLEAN /\ failed \in BOOLEAN

\* WriteFrame and ReadFrame: what one end writes the other reads, whole and in
\* order, up to the alignment of the abridged framing, however TCP joins the init
\* packet and the frames ("TCP is free to coalesce the client's init packet and
\* its first frame into one segment").  A deadline in the middle of a frame breaks
\* that only for mtclient, which goes on writing behind the part it has sent.
FramesArriveWhole ==
  (writer = "server" \/ ~torn) =>
    IsPrefix(read, [i \in DOMAIN frames |-> IF framing = "abridged" THEN PadTo4(frames[i])
                                            ELSE frames[i]])

\* The server speaks what the client chose: no init packet is taken for the prefix
\* of a framing ("must not be mistakable for any other framing's magic"), and every
\* frame a writer accepts, up to MaxFrameSize and at the edge of the one-byte
\* length, is one a reader accepts.  Full framing is never agreed on: a client that
\* chooses it is refused, or taken for another.
FramingAgreed == torn \/ framing = "full" \/ codec \in {"none", framing}

\* The two ends of a connection understand each other.
FramesUnderstood == FrameTypeOK /\ FramesArriveWhole /\ FramingAgreed
=============================================================================
