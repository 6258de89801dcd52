-------------------------------- MODULE Wire --------------------------------
(***************************************************************************)
(* The wire protocol on one direction of one connection: write_message() at *)
(* one end, read_message() in a loop at the other, a bounded TCP stream     *)
(* between them that hands bytes on in pieces of any size.  Either end may  *)
(* be plaintext (connection.cpp) or TLS (tls.cpp); the two differ in how a  *)
(* write waits and in what the reader sees of a peer that just vanishes.    *)
(* A byte is a number below Radix and the length prefix has HeaderBytes     *)
(* bytes: 256 and 4 in the code.  A signal that interrupts poll(), recv()   *)
(* or an SSL call only restarts it.                                         *)
(***************************************************************************)
EXTENDS Integers, Sequences

CONSTANTS
    Radix, HeaderBytes,
    MaxPayload,  \* max_payload of the reader
    BufferSize,  \* what the socket buffers hold
    Scripts      \* the sequences of payloads a writer may have to send

ASSUME PrefixAssumption == Radix \in Nat \ {0, 1} /\ HeaderBytes \in Nat \ {0}
ASSUME BoundsAssumption == MaxPayload \in Nat /\ BufferSize \in Nat \ {0}
ASSUME ScriptsAssumption == \A s \in Scripts : s \in Seq(Seq(0..(Radix - 1)))

VARIABLES
    tls,      \* the stream has an SSL*
    script,   \* what the writer set out to send
    outbox,   \* payloads not yet written in full
    writer,   \* where the writer is
    pending,  \* bytes the current write_exact() has yet to hand over
    payload,  \* bytes the next write_exact() of this message will send
    wire,     \* bytes on their way
    sent,     \* every byte handed over so far and not lost
    reader,   \* where the reader is
    need,     \* size asked of the current read_exact()
    got,      \* what the current read_exact() has so far
    offset,   \* how much of sent was read before this read_message()
    status,   \* what the last read_message() returned
    received  \* payloads read_message() delivered

writerVars == <<script, outbox, writer, pending, payload, sent>>
readerVars == <<reader, need, got, offset, status, received>>
vars == <<tls, writerVars, wire, readerVars>>

-----------------------------------------------------------------------------
(* The length prefix.  A number in memory is a little-endian run of bytes. *)

(* x shifted right by 0, 1, ..., HeaderBytes bytes. *)
Shifts(x) ==
    LET shift[k \in 0..HeaderBytes] == IF k = 0 THEN x ELSE shift[k - 1] \div Radix
    IN  shift

Byte(x, k) == Shifts(x)[k] % Radix
Memory(x) == [k \in 1..HeaderBytes |-> Byte(x, k - 1)]

(* The number whose bytes these are, from the highest down. *)
Load(bytes) ==
    LET value[n \in 0..Len(bytes)] ==
            IF n = 0 THEN 0 ELSE value[n - 1] * Radix + bytes[(Len(bytes) + 1) - n]
    IN  value[Len(bytes)]

(* A size that is not above UINT32_MAX. *)
Fits(size) == Shifts(size)[HeaderBytes] = 0

(* htonl() and ntohl(), written out with masks and shifts in tls.cpp. *)
Swap(x) == Load([k \in 1..HeaderBytes |-> Byte(x, HeaderBytes - k)])

Header(len) == Memory(Swap(len))

LengthUnswapped(hdr) == Load(hdr)

Length(hdr) == Swap(Load(hdr))

(* parse_frame(): its status, out and consumed.  There is always a buffer: the
   return for a null buf (connection.cpp:142) is left out. *)
ParseFrame(bytes) ==
    LET len == Length(SubSeq(bytes, 1, HeaderBytes))
        stop(s) == [status |-> s, out |-> <<>>, consumed |-> 0]
    IN  IF Len(bytes) < HeaderBytes THEN stop("peer_closed")
        ELSE IF len > MaxPayload THEN stop("protocol_error")
        ELSE IF Len(bytes) < HeaderBytes + len THEN stop("peer_closed")
        ELSE [status |-> "ok",
              out |-> SubSeq(bytes, HeaderBytes + 1, HeaderBytes + len),
              consumed |-> HeaderBytes + len]

-----------------------------------------------------------------------------
Init ==
    /\ tls \in BOOLEAN
    /\ script \in Scripts
    /\ outbox = script
    /\ writer = "idle"
    /\ pending = <<>> /\ payload = <<>>
    /\ wire = <<>> /\ sent = <<>>
    /\ reader \in {"idle", "deaf"}  \* a deaf peer never reads
    /\ need = 0 /\ got = <<>> /\ offset = 0
    /\ status = "none"
    /\ received = <<>>

Writing == {"wait", "send"}
Gone == {"closed", "reset"}
Reading == {"header", "payload"}
Room == BufferSize - Len(wire)

(* write_message(): the header first; a size above UINT32_MAX is refused. *)
WriteCall ==
    /\ writer = "idle"
    /\ outbox # <<>>
    /\ IF ~Fits(Len(Head(outbox)))
       THEN writer' = "failed" /\ UNCHANGED <<pending, payload>>
       ELSE /\ writer' = "wait"
            /\ pending' = Header(Len(Head(outbox)))
            /\ payload' = Head(outbox)
    /\ UNCHANGED <<tls, script, outbox, sent, wire, readerVars>>

(* write_exact(): poll() reports room; send() on the blocking socket follows. *)
PollOut ==
    /\ writer = "wait" /\ ~tls
    /\ Room > 0
    /\ writer' = "send"
    /\ UNCHANGED <<tls, script, outbox, pending, payload, sent, wire, readerVars>>

(* k more bytes are handed over.  If some are left, a plaintext send() goes on
   by itself, or a signal ends it early and write_exact() polls again; SSL_write
   reports a partial write and is called again.  Otherwise the next write_exact()
   of this message begins, or write_message() returns kOk. *)
HandOver(k) ==
    /\ writer = IF tls THEN "wait" ELSE "send"
    /\ k \in 1..Len(pending) /\ k <= Room
    /\ wire' = wire \o SubSeq(pending, 1, k)
    /\ sent' = sent \o SubSeq(pending, 1, k)
    /\ IF k < Len(pending)
       THEN /\ pending' = SubSeq(pending, k + 1, Len(pending))
            /\ writer' \in {writer, "wait"}
            /\ UNCHANGED <<payload, outbox>>
       ELSE /\ pending' = payload
            /\ payload' = <<>>
            /\ writer' = IF payload = <<>> THEN "idle" ELSE "wait"
            /\ outbox' = IF payload = <<>> THEN Tail(outbox) ELSE outbox
    /\ UNCHANGED <<tls, script, readerVars>>

StalledPlaintext == Room = 0 /\ ~tls

Stalled == Room = 0

(* poll() times out: kTimeout.  A send() that has begun has no deadline. *)
WriteTimesOut ==
    /\ writer = "wait"
    /\ Stalled
    /\ writer' = "failed"
    /\ UNCHANGED <<tls, script, outbox, pending, payload, sent, wire, readerVars>>

(* EPIPE or ECONNRESET; the first bytes after the peer's close may still be taken. *)
WritePeerClosed ==
    /\ writer \in Writing
    /\ reader = "closed"
    /\ writer' = "failed"
    /\ UNCHANGED <<tls, script, outbox, pending, payload, sent, wire, readerVars>>

(* The writer closes: it is done, a write failed, or its process died. *)
WriterCloses ==
    /\ writer \notin Gone
    /\ writer' = "closed"
    /\ UNCHANGED <<tls, script, outbox, pending, payload, sent, wire, readerVars>>

(* The connection is reset; the last bytes under way may be lost. *)
Reset(lost) ==
    /\ writer \notin Gone
    /\ lost \in 0..Len(wire)
    /\ writer' = "reset"
    /\ wire' = SubSeq(wire, 1, Len(wire) - lost)
    /\ sent' = SubSeq(sent, 1, Len(sent) - lost)
    /\ UNCHANGED <<tls, script, outbox, pending, payload, readerVars>>

-----------------------------------------------------------------------------
(* read_message() *)

ReadCall ==
    /\ reader = "idle"
    /\ reader' = "header"
    /\ need' = HeaderBytes
    /\ got' = <<>>
    /\ offset' = Len(sent) - Len(wire)
    /\ UNCHANGED <<tls, writerVars, wire, status, received>>

Return(s, out) ==
    /\ reader' = "returned"
    /\ status' = s
    /\ received' = IF s = "ok" THEN Append(received, out) ELSE received
    /\ UNCHANGED need

TooLongOffByOne(len) == len > MaxPayload + 1

TooLong(len) == len > MaxPayload

(* What follows a read_exact() that got all it needed. *)
Got(bytes) ==
    LET len == Length(bytes) IN
    CASE reader = "payload" -> Return("ok", bytes)
      [] reader = "header" /\ TooLong(len) -> Return("protocol_error", <<>>)
      [] reader = "header" /\ len = 0 -> Return("ok", <<>>)
      [] OTHER -> /\ reader' = "payload"
                  /\ need' = len
                  /\ UNCHANGED <<status, received>>

CompleteAtFirstChunk(bytes) == TRUE

Complete(bytes) == Len(bytes) = need

(* recv() or SSL_read() returns k bytes; k may be anything up to what is
   missing and what has arrived. *)
Receive(k) ==
    /\ reader \in Reading
    /\ k \in 1..(need - Len(got)) /\ k <= Len(wire)
    /\ LET bytes == got \o SubSeq(wire, 1, k) IN
          IF Complete(bytes)
          THEN Got(bytes) /\ got' = <<>>
          ELSE got' = bytes /\ UNCHANGED <<reader, need, status, received>>
    /\ wire' = SubSeq(wire, k + 1, Len(wire))
    /\ UNCHANGED <<tls, writerVars, offset>>

SilentInHeader == wire = <<>> /\ writer \notin Gone /\ reader = "header"

Silent == wire = <<>> /\ writer \notin Gone

(* Nothing arrives before the deadline of this chunk. *)
ReadTimesOut ==
    /\ reader \in Reading
    /\ Silent
    /\ Return("timeout", <<>>)
    /\ got' = <<>>
    /\ UNCHANGED <<tls, writerVars, wire, offset>>

(* recv() returns 0, in the middle of a frame or not, or ECONNRESET.  SSL_read
   says the former after a close_notify; without one it may be a hard error. *)
ReadEof ==
    /\ reader \in Reading
    /\ wire = <<>> /\ writer \in Gone
    /\ \/ writer = "closed" /\ Return("peer_closed", <<>>)
       \/ (tls \/ writer = "reset") /\ Return("io_error", <<>>)
    /\ got' = <<>>
    /\ UNCHANGED <<tls, writerVars, wire, offset>>

(* The caller: after kOk the next message, or close() as after anything else. *)
ReaderGoesOn ==
    /\ reader = "returned"
    /\ reader' \in IF status = "ok" THEN {"idle", "closed"} ELSE {"closed"}
    /\ UNCHANGED <<tls, writerVars, wire, need, got, offset, status, received>>

WriterStep ==
    \/ WriteCall
    \/ PollOut
    \/ \E k \in 1..BufferSize : HandOver(k)
    \/ WriteTimesOut
    \/ WritePeerClosed

ReaderStep ==
    \/ ReadCall
    \/ \E k \in 1..BufferSize : Receive(k)
    \/ ReadTimesOut
    \/ ReadEof
    \/ ReaderGoesOn

Next ==
    \/ WriterStep
    \/ WriterCloses
    \/ \E lost \in 0..BufferSize : Reset(lost)
    \/ ReaderStep

Spec == Init /\ [][Next]_vars

(* Threads are scheduled and poll() honours its timeout; nobody has to close. *)
Fairness == WF_vars(WriterStep) /\ WF_vars(ReaderStep)

FairSpec == Spec /\ Fairness

-----------------------------------------------------------------------------
(* Properties. *)

(* Type invariant; a frame never makes the reader allocate more than
   max_payload, and read_exact() never overruns its buffer. *)
TypeOK ==
    /\ tls \in BOOLEAN
    /\ writer \in {"idle", "failed"} \cup Writing \cup Gone
    /\ reader \in {"idle", "deaf", "returned", "closed"} \cup Reading
    /\ Len(wire) <= BufferSize
    /\ reader = "payload" => need <= MaxPayload
    /\ Len(got) <= need
    /\ status \in {"none", "ok", "protocol_error", "timeout", "peer_closed", "io_error"}

(* However the stream is cut into pieces, and wherever the writer stops, what
   read_message() delivers is what write_message() was given, in order, from the
   first message on: no payload is split, merged, cut short or made up. *)
FramesInOrder ==
    /\ Len(received) <= Len(script)
    /\ \A n \in 1..Len(received) : received[n] = script[n]

(* connection.h:29-32, parse_frame "mirrors `read_message`'s length-prefix +
   max-payload semantics": a read_message() that ended for another reason than
   the clock returned what parse_frame() makes of the same bytes, and kOk leaves
   the stream exactly where `consumed` says. *)
AgreesWithParseFrame ==
    reader = "returned" /\ status # "timeout" =>
        LET p == ParseFrame(SubSeq(sent, offset + 1, Len(sent))) IN
            /\ p.status = IF status = "io_error" THEN "peer_closed" ELSE status
            /\ status = "ok" => /\ p.out = received[Len(received)]
                                /\ offset + p.consumed = Len(sent) - Len(wire)

(* A write_message() returns, even if the peer never reads, when the stream is
   TLS; on a plaintext stream it does when the peer reads, since send() blocks. *)
WriteReturns ==
    (writer \in Writing /\ (tls \/ reader # "deaf")) ~> writer \notin Writing

(* A read_message() returns, whatever the writer does in the middle of a frame. *)
ReadReturns == reader \in Reading ~> reader = "returned"
=============================================================================
