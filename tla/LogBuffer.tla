----------------------------- MODULE LogBuffer ------------------------------
(***************************************************************************)
(* The log of one step: Store.AppendLog, Store.Log and logBuffer           *)
(* (internal/store/store.go).  The writers of a step's log follow one      *)
(* another - the attempts of the step, and within an attempt the           *)
(* container's stream, which Docker.Run waits for - while any number of    *)
(* requests read it.  An action is one call of logBuffer.write.            *)
(***************************************************************************)
EXTENDS Naturals, Sequences

CONSTANTS
  Char,       \* the characters of a log
  Newline,    \* the one that ends a line
  Marker,     \* the notice that the log was cut off
  MaxLog,     \* maxLogBytes (1 MiB)
  MaxChunk,   \* bounds the length of a chunk
  MaxWritten  \* bounds what is written

ASSUME LogAssumption ==
  /\ Newline \in Char /\ Marker \notin Char
  /\ MaxLog \in Nat \ {0} /\ MaxChunk \in Nat \ {0} /\ MaxWritten \in Nat

VARIABLES
  data,       \* logBuffer.data
  partial,    \* logBuffer.partial
  size,       \* logBuffer.size
  truncated,  \* logBuffer.truncated
  sent,       \* the lines AppendLog has published, each with its newline
  written     \* all that the writers have written

vars == <<data, partial, size, truncated, sent, written>>

Chunk == UNION {[1 .. n -> Char] : n \in 1 .. MaxChunk}

Init ==
  /\ data = <<>> /\ partial = <<>> /\ size = 0 /\ truncated = FALSE
  /\ sent = <<>> /\ written = <<>>

\* strings.Split(text, "\n"): how long the complete lines of text are.
LineEnd(text) ==
  LET ends == {0} \cup {i \in DOMAIN text : text[i] = Newline} IN
  CHOOSE e \in ends : \A i \in ends : i <= e

\* mutant: drops a chunk that does not fit as a whole
RoomAllOrNothing(chunk) == IF size + Len(chunk) <= MaxLog THEN Len(chunk) ELSE 0

\* How much of a chunk is kept.
RoomFor(chunk) ==
  IF size + Len(chunk) <= MaxLog THEN Len(chunk) ELSE MaxLog - size

\* mutant: forgets the half line before the chunk
SplitChunk(chunk) ==
  /\ partial' = SubSeq(chunk, LineEnd(chunk) + 1, Len(chunk))
  /\ sent' = sent \o SubSeq(chunk, 1, LineEnd(chunk))

\* The lines that the chunk completes are published; the rest waits.
Split(chunk) ==
  LET text == partial \o chunk IN
  /\ partial' = SubSeq(text, LineEnd(text) + 1, Len(text))
  /\ sent' = sent \o SubSeq(text, 1, LineEnd(text))

\* A chunk is cut to the room that is left; the first chunk that finds no room
\* leaves the marker, unless an earlier one was cut.
Keep(chunk) ==
  IF size < MaxLog
    THEN /\ data' = data \o SubSeq(chunk, 1, RoomFor(chunk))
         /\ size' = size + RoomFor(chunk)
         /\ truncated' = (truncated \/ RoomFor(chunk) < Len(chunk))
    ELSE /\ data' = IF truncated THEN data ELSE Append(data, Marker)
         /\ truncated' = TRUE
         /\ UNCHANGED size

AppendLog(chunk) ==
  /\ Len(written) + Len(chunk) <= MaxWritten
  /\ written' = written \o chunk
  /\ Split(chunk)
  /\ Keep(chunk)

Next == \E chunk \in Chunk : AppendLog(chunk)

Spec == Init /\ [][Next]_vars

\* Store.Log
Log == IF partial # <<>> THEN data \o partial ELSE data

-----------------------------------------------------------------------------
(***************************************************************************)
(* Type correctness; size stays within the limit (logBuffer.write).        *)
(***************************************************************************)
TypeOK ==
  /\ data \in Seq(Char \cup {Marker}) /\ partial \in Seq(Char \ {Newline})
  /\ size \in 0 .. MaxLog /\ truncated \in BOOLEAN
  /\ sent \in Seq(Char) /\ written \in Seq(Char)

(***************************************************************************)
(* The buffer keeps the beginning of what was written, to the last         *)
(* character that fits: chunks that straddle the limit are cut at it.      *)
(* Only the marker of a log that was cut may follow, once                  *)
(* (store.go:344-356).                                                     *)
(***************************************************************************)
Beginning == SubSeq(written, 1, IF Len(written) < MaxLog THEN Len(written) ELSE MaxLog)
KeepsBeginning ==
  \/ data = Beginning
  \/ data = Append(Beginning, Marker) /\ Len(written) > MaxLog

(***************************************************************************)
(* Browsers that follow the log by events get every line whole and once,   *)
(* however the stream was cut into chunks and also beyond the limit        *)
(* (store.go:339-342).                                                     *)
(***************************************************************************)
LinesAreWhole == sent \o partial = written

(***************************************************************************)
(* store.go:314 "Log returns the whole log text of the step": while        *)
(* nothing was cut off it is what was written.  But the half line at the   *)
(* end is in data already, and string() appends it again.                  *)
(***************************************************************************)
LogIsWhatWasWritten == Len(written) <= MaxLog => Log = written
=============================================================================
