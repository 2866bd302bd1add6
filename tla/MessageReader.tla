--------------------------- MODULE MessageReader ---------------------------
(***************************************************************************)
(* message_reader.cpp and length_delimited_message_reader.cpp: messages    *)
(* with a varint length before them are read from one stream, and handed   *)
(* to the peer's context in a callback.  The context may destroy the       *)
(* reader at any time, also inside that callback, while a read of the      *)
(* stream is still pending; its completion comes later and must be         *)
(* ignored.                                                                *)
(***************************************************************************)
EXTENDS Integers, Sequences

CONSTANTS
  Frames,      \* what the peer may send: records with length and `valid'
  MaxFrames,   \* bound of the model: frames on the stream
  MaxSize      \* max_message_size_

VARIABLES
  frames,      \* frames on the stream that have not been read
  stream,      \* stream_ is set
  reading,     \* reading_
  pending,     \* read the stream has yet to complete: "length", "body", "none"
  length,      \* size of buffer_
  in_feedback, \* the callback of a message is running
  sent,        \* history: what the peer sent
  events,      \* history: what the context was told
  told_at_close \* history: how much that was when the reader was closed

readerVars == <<frames, stream, reading, pending, length, in_feedback, sent,
                events, told_at_close>>

(* The constructor calls read, which calls continueReading.                *)
ReaderInit ==
  /\ sent \in UNION {[1 .. n -> Frames] : n \in 1 .. MaxFrames}
  /\ frames = sent
  /\ stream = TRUE
  /\ reading = TRUE
  /\ pending = "length"
  /\ length = 0
  /\ in_feedback = FALSE
  /\ events = <<>>
  /\ told_at_close = 0

(* The context is told something about the frame that is read.             *)
tell(e) ==
  events' = Append(events, [what |-> e, frame |-> Len(sent) - Len(frames) + 1])

-----------------------------------------------------------------------------
(* onLengthRead(n).  A stream that ends or fails gives length 0.           *)
onLengthRead(n) ==
  /\ pending = "length"
  /\ \/ /\ ~reading
        /\ pending' = "none"
        /\ UNCHANGED <<reading, length, events>>
     \/ /\ reading
        /\ n = 0 \/ n > MaxSize
        /\ reading' = FALSE
        /\ pending' = "none"
        /\ tell(IF n = 0 THEN "STREAM_NOT_READABLE"
                         ELSE "MESSAGE_SIZE_OUT_OF_BOUNDS")
        /\ UNCHANGED length
     \/ /\ reading
        /\ n \in 1 .. MaxSize
        /\ length' = n
        /\ pending' = "body"
        /\ UNCHANGED <<reading, events>>
  /\ UNCHANGED <<frames, stream, in_feedback, sent, told_at_close>>

lengthRead ==
  \E n \in {0} \cup {frames[i].length : i \in DOMAIN frames \cap {1}} :
    onLengthRead(n)

(* Mutant: the completion does not look at reading_.                       *)
onMessageReadAlways ==
  /\ pending = "body"
  /\ pending' = "none"
  /\ reading' = FALSE
  /\ tell("message")
  /\ frames' = Tail(frames)
  /\ in_feedback' = TRUE
  /\ UNCHANGED <<stream, length, sent, told_at_close>>

(* onMessageRead of a whole message, which MessageReader parses: the       *)
(* callback begins.                                                        *)
onMessageRead ==
  /\ pending = "body"
  /\ pending' = "none"
  /\ reading' = FALSE
  /\ IF reading
       THEN /\ tell(IF Head(frames).valid THEN "message" ELSE "PARSE_ERROR")
            /\ frames' = Tail(frames)
            /\ in_feedback' = TRUE
       ELSE UNCHANGED <<frames, in_feedback, events>>
  /\ UNCHANGED <<stream, length, sent, told_at_close>>

(* onMessageRead with an error of the stream or fewer bytes than asked.    *)
onReadError ==
  /\ pending = "body"
  /\ pending' = "none"
  /\ reading' = FALSE
  /\ IF reading THEN tell("MESSAGE_READ_ERROR") ELSE UNCHANGED events
  /\ UNCHANGED <<frames, stream, length, in_feedback, sent, told_at_close>>

(* The callback returns; unless it closed the reader, reading goes on      *)
(* (continueReading).                                                      *)
feedbackReturns ==
  /\ in_feedback
  /\ in_feedback' = FALSE
  /\ reading' = stream
  /\ pending' = IF stream THEN "length" ELSE pending
  /\ UNCHANGED <<frames, stream, length, sent, events, told_at_close>>

(* ~MessageReader calls close.  A read that is pending stays so.           *)
closeReader ==
  /\ stream
  /\ stream' = FALSE
  /\ reading' = FALSE
  /\ told_at_close' = Len(events)
  /\ UNCHANGED <<frames, pending, length, in_feedback, sent, events>>

ReaderNext ==
  \/ lengthRead
  \/ onMessageRead
  \/ onReadError
  \/ feedbackReturns
  \/ closeReader

ReaderSpec == ReaderInit /\ [][ReaderNext]_readerVars

-----------------------------------------------------------------------------

Failures == {"STREAM_NOT_READABLE", "MESSAGE_SIZE_OUT_OF_BOUNDS",
             "MESSAGE_READ_ERROR"}

(* The context is told of the frames in the order they were sent, each     *)
(* once, and of at most one failure, as the last thing it hears; a frame   *)
(* that is empty or too long is never a message.  While nothing failed an  *)
(* open reader always has a read pending or a callback running; a closed   *)
(* one tells nothing more, whatever reads complete late.                   *)
FramesInOrder ==
  /\ \A n \in 1 .. Len(events) :
       /\ events[n].frame = n
       /\ \/ events[n].what \in Failures /\ n = Len(events)
          \/ /\ events[n].what = IF sent[n].valid THEN "message"
                                                 ELSE "PARSE_ERROR"
             /\ sent[n].length \in 1 .. MaxSize
  /\ stream /\ (events # <<>> => events[Len(events)].what \notin Failures)
       => in_feedback \/ (reading /\ pending # "none")
  /\ ~stream => Len(events) = told_at_close

=============================================================================
