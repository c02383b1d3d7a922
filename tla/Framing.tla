------------------------------ MODULE Framing ------------------------------
(***************************************************************************)
(* One direction of the Core Channel as bytes: kanal/cerceve and frame.rs  *)
(* are one format written twice.  Bytes come through the pipe in pieces of *)
(* any size; a sender may be given up half way through a frame, with or    *)
(* without its process.  Module Channel speaks of whole frames.            *)
(***************************************************************************)
EXTENDS Integers, Sequences, SequencesExt

CONSTANTS
    Radix,          \* the values a byte has
    MaxFrameBytes,
    Payloads,       \* what writers are asked to send: sequences of bytes
    MaxSends        \* bound

Bytes == 0 .. Radix - 1
HeaderSize == 4

ASSUME FramingAssumption ==
    /\ Radix \in Nat \ {0} /\ MaxSends \in Nat
    /\ MaxFrameBytes \in 0 .. Radix * Radix * Radix * Radix - 1
    /\ \A p \in Payloads : p \in Seq(Bytes)

VARIABLES
    payload,        \* the payload being written, under the sender's lock
    unsent,         \* what is still to be written of its frame
    pipe,           \* written and not yet read
    sender,         \* the write end is open
    part,           \* what is being filled
    needed,           \* how many bytes that takes
    filled,         \* those it has
    got,            \* the payloads read
    reader,         \* "reads", "ended" at a boundary, "lost" within a frame
    (* history *)
    sends,
    whole,          \* the payloads written before any was cut
    cut             \* "never", "atEnd" of the pipe, "within" it

wireVars == <<payload, unsent, pipe, sender, part, needed, filled, got, reader, sends, whole, cut>>

(* Big-endian. *)
Header(n) ==
    LET high == n \div Radix
        higher == high \div Radix
    IN  <<higher \div Radix, higher % Radix, high % Radix, n % Radix>>
Number(b) == ((b[1] * Radix + b[2]) * Radix + b[3]) * Radix + b[4]
Frame(p) == Header(Len(p)) \o p

Expect(what, n) == part' = what /\ needed' = n /\ filled' = <<>>

FramingInit ==
    /\ payload = <<>> /\ unsent = <<>> /\ pipe = <<>> /\ sender = TRUE
    /\ part = "header" /\ needed = HeaderSize /\ filled = <<>>
    /\ got = <<>> /\ reader = "reads"
    /\ sends = 0 /\ whole = <<>> /\ cut = "never"

readVars == <<part, needed, filled, got, reader>>

(* A payload above the limit is refused and nothing is written. *)
WriteFrame(p) ==
    /\ sender /\ unsent = <<>> /\ sends < MaxSends
    /\ Len(p) <= MaxFrameBytes
    /\ payload' = p /\ unsent' = Frame(p) /\ sends' = sends + 1
    /\ UNCHANGED <<pipe, sender, readVars, whole, cut>>

(* The pipe takes some of the bytes; with the last the frame is written. *)
PipeTakes(n) ==
    /\ n \in 1 .. Len(unsent)
    /\ pipe' = pipe \o SubSeq(unsent, 1, n)
    /\ unsent' = SubSeq(unsent, n + 1, Len(unsent))
    /\ whole' = IF n = Len(unsent) /\ cut = "never" THEN Append(whole, payload) ELSE whole
    /\ UNCHANGED <<payload, sender, readVars, sends, cut>>

Cuts == unsent # <<>> /\ Len(unsent) < Len(Frame(payload))

(* The writing task is aborted; the next one finds the lock free. *)
GiveUp ==
    /\ unsent # <<>>
    /\ unsent' = <<>>
    /\ cut' = IF Cuts THEN "within" ELSE cut
    /\ UNCHANGED <<payload, pipe, sender, readVars, sends, whole>>

(* The process ends or closes its end. *)
CloseWriter ==
    /\ sender
    /\ sender' = FALSE /\ unsent' = <<>>
    /\ cut' = IF Cuts /\ cut = "never" THEN "atEnd" ELSE cut
    /\ UNCHANGED <<payload, pipe, readVars, sends, whole>>

(* The part is full: a header announces a payload, which may be empty. *)
Completed(bytes) ==
    IF part = "payload"
    THEN got' = Append(got, bytes) /\ Expect("header", HeaderSize) /\ UNCHANGED reader
    ELSE CASE Number(bytes) > MaxFrameBytes ->
                reader' = "lost" /\ filled' = bytes /\ UNCHANGED <<part, needed, got>>
           [] Number(bytes) = 0 ->
                got' = Append(got, <<>>) /\ Expect("header", HeaderSize) /\ UNCHANGED reader
           [] OTHER ->
                Expect("payload", Number(bytes)) /\ UNCHANGED <<got, reader>>

Fill(n) ==
    /\ reader = "reads" /\ n <= Len(pipe) /\ n <= needed - Len(filled)
    /\ LET bytes == filled \o SubSeq(pipe, 1, n)
       IN IF Len(bytes) < needed
          THEN filled' = bytes /\ UNCHANGED <<part, needed, got, reader>>
          ELSE Completed(bytes)
    /\ pipe' = SubSeq(pipe, n + 1, Len(pipe))
    /\ UNCHANGED <<payload, unsent, sender, sends, whole, cut>>

(* Mutant: after a header, an end without a byte is taken for a clean one. *)
AtAnyStart == filled = <<>>

AtBoundary == part = "header" /\ filled = <<>>

(* The end of the stream: clean only where a frame would begin. *)
ReadEnd ==
    /\ reader = "reads" /\ pipe = <<>> /\ ~sender
    /\ reader' = IF AtBoundary THEN "ended" ELSE "lost"
    /\ UNCHANGED <<payload, unsent, pipe, sender, part, needed, filled, got, sends, whole, cut>>

FramingStep ==
    \/ \E p \in Payloads : WriteFrame(p)
    \/ \E n \in 1 .. HeaderSize + MaxFrameBytes : PipeTakes(n) \/ Fill(n)
    \/ GiveUp \/ CloseWriter \/ ReadEnd

----------------------------------------------------------------------------
FramingTypeOK ==
    /\ pipe \in Seq(Bytes) /\ unsent \in Seq(Bytes) /\ sender \in BOOLEAN
    /\ part \in {"header", "payload"} /\ needed \in 1 .. HeaderSize + MaxFrameBytes
    /\ filled \in Seq(Bytes) /\ Len(filled) <= needed
    /\ reader \in {"reads", "ended", "lost"}
    /\ cut \in {"never", "atEnd", "within"}

(* However the bytes are split, what is read is what was written before    *)
(* anything was cut, payload by payload; a reader that ends cleanly has    *)
(* read all of it; a reader gets lost only behind a cut, and always does   *)
(* when the other process ended within a frame.  After a frame cut within  *)
(* the stream (an aborted task, others writing on) nothing is promised but *)
(* what came before it.                                                    *)
FramesIntact ==
    /\ IsPrefix(got, whole) \/ (cut = "within" /\ IsPrefix(whole, got))
    /\ reader = "ended" => IsPrefix(whole, got) /\ cut # "atEnd"
    /\ reader = "lost" => cut # "never" /\ IsPrefix(whole, got)
============================================================================
