-------------------------------- MODULE Framing -------------------------------
(* How the main loop cuts the bytes of FIFO_C2S into lines.  A byte is Nl  *)
(* or anything else; a session keeps the start of a line it has not read   *)
(* to the end in read_buf.                                                 *)
EXTENDS Integers, Sequences, SequencesExt

Nl == 0

(* A line that ends is queued behind the others, unless it is empty. *)
Queue(lines, line) == IF line = <<>> THEN lines ELSE Append(lines, line)

(* The lines of q that are queued. *)
Queued(q) ==
  LET upTo[n \in 0 .. Len(q)] == IF n = 0 THEN <<>> ELSE Queue(upTo[n - 1], q[n])
  IN  upTo[Len(q)]

(* The search for newlines goes from byte to byte; scan has the lines that *)
(* were queued and the start of the next.                                  *)
Scanned(lines, rest) == [lines |-> lines, rest |-> rest]
Byte(scan, b) ==
  IF b = Nl THEN Scanned(Queue(scan.lines, scan.rest), <<>>)
  ELSE Scanned(scan.lines, Append(scan.rest, b))
Scan(scan, bytes) ==
  LET after[i \in 0 .. Len(bytes)] ==
        IF i = 0 THEN scan ELSE Byte(after[i - 1], bytes[i])
  IN  after[Len(bytes)]

(* The lines that end in read_buf are queued, and what is after the last   *)
(* newline is moved to the front.  A plausible slip: nothing is moved.     *)
Lines(b) == Scan(Scanned(<<>>, <<>>), b).lines
Rest_Kept(b) == b
Rest(b) == Scan(Scanned(<<>>, <<>>), b).rest

(* The room that is left for a read when size bytes are allocated.  A      *)
(* plausible slip: none is kept for the final NUL.                         *)
Space_Full(buf, size) == size - Len(buf)
Space(buf, size) == size - Len(buf) - 1

(* What one read takes from the bytes on the wire, given the room there    *)
(* is: all of them if they fit.                                            *)
Taken(buf, wire, size) == SubSeq(wire, 1, Min({Len(wire), Space(buf, size)}))
Left(buf, wire, size) ==
  SubSeq(wire, Len(Taken(buf, wire, size)) + 1, Len(wire))

===============================================================================
