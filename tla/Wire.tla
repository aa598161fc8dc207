-------------------------------- MODULE Wire --------------------------------
(***************************************************************************)
(* One direction of a bridge connection, as the receiving end sees it.  The *)
(* carrier delivers a byte stream in pieces of any size and may end or fail *)
(* anywhere; a reader thread reassembles it with Decoder into a hello and   *)
(* then frames, and passes them through a bounded channel to the thread     *)
(* that owns the store, which checks the hello and handles the frames.      *)
(*                                                                          *)
(* Bytes are positions in the stream.  What the decoder finds at a position *)
(* is the item that begins there; anywhere else it would read garbage.      *)
(***************************************************************************)
EXTENDS Naturals, Sequences

CONSTANTS
    Streams,          \* what may be on the carrier: sequences of items
    HelloHeader,      \* HELLO_HEADER_BYTES
    FrameHeader,      \* FRAME_HEADER_BYTES
    MaxHello,         \* MAX_HELLO_BYTES
    MaxFrame,         \* MAX_FRAME_BYTES
    MaxRead,          \* the reader's buffer
    Slots             \* the channel's capacity

(***************************************************************************)
(* An item is a hello or a frame that announces len bytes of body, whose    *)
(* body is valid or not.  A hello also says whether its magic and version   *)
(* are right and whether accept_peer accepts it.                            *)
(***************************************************************************)
Item == [type : {"hello", "frame"}, len : Nat, valid : BOOLEAN, fits : BOOLEAN]

ASSUME WireAssumption ==
    /\ Streams \subseteq Seq(Item)
    /\ HelloHeader \in Nat \ {0} /\ FrameHeader \in Nat \ {0}
    /\ MaxHello \in Nat \ {0} /\ MaxFrame \in Nat \ {0}
    /\ HelloHeader + MaxHello =< FrameHeader + MaxFrame
    /\ MaxRead \in Nat \ {0} /\ Slots \in Nat \ {0}

VARIABLES
    stream,   \* the items on the carrier
    total,    \* bytes of them that will arrive
    reader,   \* the reader thread: pc, bytes read and not pushed, taken last
    decoder,  \* pushed and drained positions, hello_done, failed
    chan,     \* the channel
    main,     \* the thread that owns the store
    handled   \* indices of the frames it handled

wireVars == <<stream, total, reader, decoder, chan, main, handled>>

HeaderOf(type) == IF type = "hello" THEN HelloHeader ELSE FrameHeader
SizeOf(item) == HeaderOf(item.type) + item.len

\* Where each of some items begins when they follow each other, and where the
\* last one ends.
StartsOf(items) ==
    LET start[k \in 1..Len(items) + 1] ==
            IF k = 1 THEN 0 ELSE start[k - 1] + SizeOf(items[k - 1])
    IN  start

\* The position where item k of the stream begins.
Begin(k) == StartsOf(stream)[k]

Bytes == Begin(Len(stream) + 1)

\* What a decoder reads at position pos when it expects an item of that type:
\* the index of the item, or 0 for something it can make no sense of.
At(pos, type) ==
    LET here == {k \in 1..Len(stream) : Begin(k) = pos /\ stream[k].type = type}
    IN  IF here = {} THEN 0 ELSE CHOOSE k \in here : TRUE

WireTypeOK ==
    /\ total \in 0..Bytes
    /\ reader.pc \in {"read", "push", "decode", "send", "done"}
    /\ reader.rest \in 0..MaxRead /\ reader.taken \in 0..MaxRead
    /\ 0 =< decoder.drained /\ decoder.drained =< decoder.pushed
    /\ decoder.pushed - decoder.drained =< FrameHeader + MaxFrame
    /\ decoder.pushed + reader.rest =< total
    /\ Len(chan) =< Slots
    /\ main \in {"hello", "pump", "closed", "failed", "refused", "unreachable", "gone"}
    /\ handled \in Seq(1..Len(stream))

WireInit ==
    /\ stream \in Streams
    /\ total \in 0..Bytes
    /\ reader = [pc |-> "read", rest |-> 0, taken |-> 0, item |-> 0]
    /\ decoder = [pushed |-> 0, drained |-> 0, hello |-> FALSE, failed |-> FALSE]
    /\ chan = <<>>
    /\ main = "hello"
    /\ handled = <<>>

-----------------------------------------------------------------------------
(***************************************************************************)
(* Decoder                                                                  *)
(***************************************************************************)
Buffered == decoder.pushed - decoder.drained

\* A bug this definition could have: no room for a maximal frame's header.
Capacity_body == MaxFrame

Capacity == FrameHeader + MaxFrame

Expected == IF decoder.hello THEN "frame" ELSE "hello"
MaxLen == IF decoder.hello THEN MaxFrame ELSE MaxHello

\* hello_len and frame_len refuse a length as soon as the header is complete.
HeaderComplete == Buffered >= HeaderOf(Expected)
Ahead == At(decoder.drained, Expected)

HeaderBad ==
    /\ HeaderComplete
    /\ Ahead # 0 => stream[Ahead].len \notin 1..MaxLen \/ ~stream[Ahead].fits

BodyComplete ==
    /\ HeaderComplete /\ ~HeaderBad
    /\ Buffered >= SizeOf(stream[Ahead])

\* A bug this definition could have: a frame stays in the buffer.
Drained_hello_only ==
    decoder.drained + IF decoder.hello THEN 0 ELSE SizeOf(stream[Ahead])

Drained == decoder.drained + SizeOf(stream[Ahead])

\* finish: nothing is left over at the end of the stream.
Finish == ~decoder.failed /\ Buffered = 0

-----------------------------------------------------------------------------
(***************************************************************************)
(* The reader thread                                                        *)
(***************************************************************************)
Gone == main \notin {"hello", "pump"}   \* the receiver is dropped

\* A bug this definition could have: a full channel blocks for ever.
Sends_blocks(item) == Len(chan) < Slots /\ chan' = Append(chan, item)

\* sender.send blocks while the channel is full, and fails once nobody
\* receives any more.
Sends(item) ==
    \/ ~Gone /\ Len(chan) < Slots /\ chan' = Append(chan, item)
    \/ Gone /\ UNCHANGED chan

Ends(item) ==
    /\ Sends(item)
    /\ reader' = [reader EXCEPT !.pc = "done"]

Read(n) ==
    /\ reader.pc = "read" /\ decoder.pushed + n =< total
    /\ reader' = [reader EXCEPT !.pc = "push", !.rest = n]
    /\ UNCHANGED <<stream, total, decoder, chan, main, handled>>

ReadEnd ==
    /\ reader.pc = "read" /\ decoder.pushed = total
    /\ Ends([type |-> IF Finish THEN "closed" ELSE "failed", why |-> "truncated"])
    /\ UNCHANGED <<stream, total, decoder, main, handled>>

\* The carrier fails; what was not read is lost.
ReadFails ==
    /\ reader.pc = "read"
    /\ Ends([type |-> "failed", why |-> "carrier"])
    /\ UNCHANGED <<stream, total, decoder, main, handled>>

\* push takes as much as fits.
Push ==
    /\ reader.pc = "push"
    /\ LET room == Capacity - Buffered
           take == IF room < reader.rest THEN room ELSE reader.rest
       IN  /\ decoder' = [decoder EXCEPT !.pushed = @ + take]
           /\ reader' = [reader EXCEPT !.pc = "decode", !.rest = @ - take, !.taken = take]
    /\ UNCHANGED <<stream, total, chan, main, handled>>

\* next_hello or next_frame finds a complete item.
Decode ==
    /\ reader.pc = "decode" /\ BodyComplete /\ stream[Ahead].valid
    /\ decoder' = [decoder EXCEPT !.drained = Drained, !.hello = TRUE]
    /\ reader' = [reader EXCEPT !.pc = "send", !.item = Ahead]
    /\ UNCHANGED <<stream, total, chan, main, handled>>

SendItem ==
    /\ reader.pc = "send"
    /\ Sends([type |-> "item", item |-> reader.item])
    /\ reader' = [reader EXCEPT !.pc = IF Gone THEN "done" ELSE "decode"]
    /\ UNCHANGED <<stream, total, decoder, main, handled>>

\* guard: a violation fails the decoder for good.
Violation ==
    /\ reader.pc = "decode"
    /\ \/ HeaderBad
       \/ BodyComplete /\ ~stream[Ahead].valid
    /\ decoder' = [decoder EXCEPT !.failed = TRUE, !.drained = decoder.pushed]
    /\ Ends([type |-> "failed", why |-> "violation"])
    /\ UNCHANGED <<stream, total, main, handled>>

\* Nothing complete: push the rest or read on, unless nothing fitted.
Incomplete ==
    /\ reader.pc = "decode" /\ ~HeaderBad /\ ~BodyComplete
    /\ IF reader.taken = 0 /\ reader.rest > 0
       THEN Ends([type |-> "failed", why |-> "stalled"])
       ELSE /\ reader' = [reader EXCEPT !.pc = IF reader.rest > 0 THEN "push" ELSE "read"]
            /\ UNCHANGED chan
    /\ UNCHANGED <<stream, total, decoder, main, handled>>

-----------------------------------------------------------------------------
(***************************************************************************)
(* The thread that owns the store                                           *)
(***************************************************************************)
Received(item) == chan # <<>> /\ Head(chan) = item /\ chan' = Tail(chan)

\* run receives the hello, and accept_peer refuses the same role, the same
\* store or a peer that misses a frame type.
TakeHello(k) ==
    /\ main = "hello" /\ Received([type |-> "item", item |-> k])
    /\ \/ stream[k].type = "hello" /\ main' \in {"pump", "refused"}
       \/ stream[k].type = "frame" /\ main' = "refused"
    /\ UNCHANGED <<stream, total, reader, decoder, handled>>

HandshakeTimeout ==
    /\ main = "hello" /\ chan = <<>>
    /\ main' = "unreachable"
    /\ UNCHANGED <<stream, total, reader, decoder, chan, handled>>

TakeFrame(k) ==
    /\ main = "pump" /\ Received([type |-> "item", item |-> k])
    /\ \/ stream[k].type = "frame" /\ handled' = Append(handled, k) /\ UNCHANGED main
       \/ stream[k].type = "hello" /\ main' = "failed" /\ UNCHANGED handled
    /\ UNCHANGED <<stream, total, reader, decoder>>

TakeEnd ==
    /\ main \in {"hello", "pump"} /\ chan # <<>>
    /\ Head(chan).type \in {"closed", "failed"}
    /\ chan' = Tail(chan)
    /\ main' = IF Head(chan).type = "failed" THEN "failed"
               ELSE IF main = "hello" THEN "unreachable" ELSE "closed"
    /\ UNCHANGED <<stream, total, reader, decoder, handled>>

\* The pump ends for reasons of its own: a stop, a lost lease, silence.
Leave ==
    /\ main = "pump"
    /\ main' = "gone"
    /\ UNCHANGED <<stream, total, reader, decoder, chan, handled>>

ReaderStep ==
    \/ \E n \in 1..MaxRead : Read(n)
    \/ ReadEnd \/ Push \/ Decode \/ SendItem \/ Violation \/ Incomplete

MainStep == \/ \E k \in 1..Len(stream) : TakeHello(k) \/ TakeFrame(k)
            \/ TakeEnd

WireNext == ReaderStep \/ ReadFails \/ MainStep \/ HandshakeTimeout \/ Leave

WireSpec == WireInit /\ [][WireNext]_wireVars

\* Both threads run; a carrier that ended says so.
WireFairSpec == WireSpec /\ WF_wireVars(ReaderStep) /\ WF_wireVars(MainStep)

-----------------------------------------------------------------------------
(***************************************************************************)
(* Properties                                                               *)
(***************************************************************************)

\* However the carrier cuts the stream into reads, frames are handled in the
\* order they were sent, each once, none skipped, and nothing is made out of
\* bytes in the middle of one; a second hello is never taken for a frame.  And
\* "a partial hello or frame left over means the stream was truncated": a
\* connection that ends cleanly ended between two frames, all of them handled.
HandledInOrder ==
    /\ handled = [i \in 1..Len(handled) |-> i + 1]
    /\ \A i \in 1..Len(handled) :
        LET item == stream[handled[i]]
        IN  item.type = "frame" /\ item.valid /\ item.fits /\ item.len \in 1..MaxFrame
    /\ main = "closed" => total = Begin(Len(handled) + 2)

\* "The decoder holds one maximal frame and could not complete it, which a
\* well-formed stream cannot cause": no stream at all causes it, because a
\* length that would not fit is refused first.
NeverStalls ==
    \A i \in 1..Len(chan) : chan[i].type = "failed" => chan[i].why # "stalled"

\* Neither thread waits for the other for ever: whatever is on the carrier and
\* wherever it ends, the reader thread ends, also when it was blocked on a full
\* channel at the moment the session left.
ReaderEnds == <>(reader.pc = "done")
=============================================================================
