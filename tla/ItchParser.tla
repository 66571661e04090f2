----------------------------- MODULE ItchParser ------------------------------
(***************************************************************************)
(* lob::replay::engine::ItchParser::parse (src/replay/engine/ItchParser.cpp *)
(* and src/replay/utils/): a capture is a sequence of frames, each a length *)
(* of two bytes, a type of one byte and a body, read field by field.        *)
(*                                                                         *)
(* The file may be cut off anywhere in its last frame: a read behind the    *)
(* end leaves zeros in what it could not read, and the stream then says     *)
(* that it failed.                                                          *)
(***************************************************************************)
EXTENDS ItchMessages

CONSTANTS
    Captures,     \* the files: sequences of frames
    Cuts,         \* how many bytes may be missing at the end of a file
    StopTimes,    \* the values of stopTimestamp
    NoTime        \* std::nullopt

VARIABLES
    frames, size,      \* the file: its frames, and the bytes that are there
    stopTimestamp,
    pos,               \* how far the file has been read
    phase,             \* the next read, or how parse ended
    frame,             \* the frame that is being read
    applied            \* the frames of which on_message was called, in order

parserVars == <<frames, size, stopTimestamp, pos, phase, frame, applied>>
fileVars == <<frames, size, stopTimestamp>>

\* A frame holds a type, the length it announces and a message.
ASSUME CapturesAreFrames ==
    \A capture \in Captures :
        /\ capture \in Seq(Range(capture)) \ {<<>>}
        /\ \A n \in DOMAIN capture :
              /\ DOMAIN capture[n] = {"type", "length", "message"}
              /\ capture[n].length \in Nat
              /\ capture[n].type \in DecodedTypes => IsMessage(capture[n].type, capture[n].message)

ASSUME TimesAreNatural == StopTimes \subseteq Nat \cup {NoTime} /\ Cuts \subseteq Nat

ASSUME NoTimeIsNoNumber == NoTime \notin Nat

\* The lengths that the parser insists on.
ExpectedLength(type) ==
    CASE type = "S" -> 12 [] type = "R" -> 39 [] type = "A" -> 36
      [] type = "F" -> 40 [] type = "E" -> 31 [] type = "C" -> 36
      [] type = "X" -> 23 [] type = "D" -> 19 [] type = "U" -> 35

UnexpectedMessageLength(length, type) ==
    type \in DecodedTypes /\ length # ExpectedLength(type)

\* The byte at which a frame starts.
FrameStart(file, n) ==
    SumFunctionOnSet([i \in DOMAIN file |-> 2 + file[i].length], 1 .. (n - 1))

ParserInit ==
    /\ frames \in Captures
    /\ size \in {FrameStart(frames, Len(frames) + 1) - cut : cut \in Cuts}
    /\ size > FrameStart(frames, Len(frames))
    /\ stopTimestamp \in StopTimes
    /\ pos = 0
    /\ phase = "length"
    /\ frame = 1
    /\ applied = <<>>

-----------------------------------------------------------------------------

Current == frames[frame]

Available(bytes) == pos + bytes <= size

\* Slip: a read counts the bytes that are not there.
AfterReadingAll(bytes) == pos + bytes

AfterReading(bytes) == IF Available(bytes) THEN pos + bytes ELSE size

\* get_message_length.  A frame is read from its first byte or not at all.
ReadLength ==
    /\ phase = "length"
    /\ pos' = AfterReading(2)
    /\ \/ /\ ~Available(2)
          /\ phase' = "done" /\ UNCHANGED frame
       \/ /\ Available(2)
          /\ \E n \in DOMAIN frames :
                /\ FrameStart(frames, n) = pos
                /\ frame' = n
                /\ phase' = IF frames[n].length = 0 THEN "done" ELSE "type"
    /\ UNCHANGED <<fileVars, applied>>

\* get_message_type and the check of the length.
ReadType ==
    /\ phase = "type"
    /\ pos' = AfterReading(1)
    /\ phase' = IF ~Available(1) THEN "done"
             ELSE IF UnexpectedMessageLength(Current.length, Current.type) THEN "thrown"
                ELSE "body"
    /\ UNCHANGED <<fileVars, frame, applied>>

\* A message that is not decoded is skipped.  Reaching the end of the file
\* that way is noticed by the next read.
Ignore ==
    /\ phase = "body"
    /\ Current.type \notin DecodedTypes
    /\ pos' = AfterReading(Current.length - 1)
    /\ phase' = "length"
    /\ UNCHANGED <<fileVars, frame, applied>>

\* The message that the decoder of the current frame returns.
MessageRead == DecodedFrom(Current.type, Current.message, size - pos)

\* Slip: the message at the stop time itself is held back.
StopsBeforeOrAt(time) == stopTimestamp # NoTime /\ time >= stopTimestamp

ShouldStopBefore(time) == stopTimestamp # NoTime /\ time > stopTimestamp

\* A message is decoded and handed to the engine, also if the end of the file
\* was met on the way; only then is the stream asked whether it failed.
Decode ==
    /\ phase = "body"
    /\ Current.type \in DecodedTypes
    /\ pos' = AfterReading(BodyWidth(Current.type))
    /\ IF ShouldStopBefore(MessageRead.timestamp)
       THEN phase' = "done" /\ UNCHANGED applied
       ELSE /\ applied' = Append(applied, frame)
            /\ phase' = IF Available(BodyWidth(Current.type)) THEN "length" ELSE "done"
    /\ UNCHANGED <<fileVars, frame>>

-----------------------------------------------------------------------------
(* Properties *)

ParserTypeOK ==
    /\ pos \in 0 .. size
    /\ phase \in {"length", "type", "body", "done", "thrown"}
    /\ frame \in DOMAIN frames
    /\ applied \in Seq(DOMAIN frames)

\* The fields that the decoders read add up to the lengths that the parser
\* insists on: whatever it decodes or skips, it is at the start of a frame
\* whenever it reads a length.
FramingIsKept ==
    phase = "length" =>
        pos = size \/ \E n \in DOMAIN frames : FrameStart(frames, n) = pos

\* Whether parse should stop at a frame, and the first frame of this kind.
Stops(n) ==
    \/ frames[n].length = 0
    \/ UnexpectedMessageLength(frames[n].length, frames[n].type)
    \/ /\ frames[n].type \in DecodedTypes
       /\ stopTimestamp # NoTime
       /\ frames[n].message.timestamp > stopTimestamp
    \/ FrameStart(frames, n + 1) > size

FirstStop ==
    IF \E n \in DOMAIN frames : Stops(n)
    THEN CHOOSE n \in DOMAIN frames : Stops(n) /\ \A m \in 1 .. (n - 1) : ~Stops(m)
    ELSE Len(frames) + 1

\* The frames before that which are decoded.
WholeFrames == {n \in 1 .. (FirstStop - 1) : frames[n].type \in DecodedTypes}

\* These frames, each once, as the file has them.
InFileOrder(applications, chosen) ==
    /\ Range(applications) = chosen
    /\ \A m, n \in DOMAIN applications : m < n => applications[m] < applications[n]

\* "Halt replay at the specified time": the engine gets every message of the
\* kinds it knows up to the first that is late, of the wrong length or the end
\* of the capture, in order, each once, and nothing after it.  The one exception
\* is a message that the end of the file cuts off, which may be applied.
AppliesThePrefix ==
    phase \in {"done", "thrown"} =>
        \/ InFileOrder(applied, WholeFrames)
        \/ /\ InFileOrder(applied, WholeFrames \cup {FirstStop})
           /\ FrameStart(frames, FirstStop + 1) > size

=============================================================================
