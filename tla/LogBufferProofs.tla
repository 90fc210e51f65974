-------------------------- MODULE LogBufferProofs ---------------------------
(***************************************************************************)
(* Theorems about LogBuffer, for any characters, any limit and chunks of   *)
(* any length.                                                             *)
(*                                                                         *)
(* That the lines come out whole rests on LineEnd: there is a last newline *)
(* or none, and cutting a text there gives two pieces that make the text.  *)
(* That the beginning is kept rests on KeptInv: size counts what data      *)
(* holds, and only a full buffer has been marked as cut.                   *)
(***************************************************************************)
EXTENDS LogBuffer, SequenceTheorems, WellFoundedInduction, TLAPS

USE LogAssumption

(***************************************************************************)
(* The end of the last complete line of a text is a position in it, and no *)
(* newline follows.                                                        *)
(***************************************************************************)
LEMMA LineEndIsLast ==
  ASSUME NEW text \in Seq(Char)
  PROVE  /\ LineEnd(text) \in 0 .. Len(text)
         /\ \A i \in LineEnd(text) + 1 .. Len(text) : text[i] # Newline
<1> DEFINE ends == {0} \cup {i \in DOMAIN text : text[i] = Newline}
           gaps == {Len(text) - e : e \in ends}
<1>1. Len(text) \in Nat /\ DOMAIN text = 1 .. Len(text)
  BY LenProperties
<1>2. ends \subseteq 0 .. Len(text) /\ gaps \subseteq Nat /\ gaps # {}
  BY <1>1
<1>3. PICK g \in gaps : \A h \in gaps : ~ (<<h, g>> \in OpToRel(<, Nat))
  <2>1. gaps \in SUBSET Nat
    BY <1>2
  <2> HIDE DEF gaps
  <2> QED
    BY <1>2, <2>1, NatLessThanWellFounded, WFMin
<1>4. PICK last \in ends : g = Len(text) - last
  OBVIOUS
<1>5. \A i \in ends : i <= last
  <2> SUFFICES ASSUME NEW i \in ends, i > last PROVE FALSE
    BY <1>1, <1>2
  <2>1. Len(text) - i \in gaps /\ Len(text) - i < g /\ g \in Nat /\ Len(text) - i \in Nat
    BY <1>1, <1>2, <1>4
  <2> QED
    BY <1>3, <2>1 DEF OpToRel
<1>6. LineEnd(text) \in ends /\ \A i \in ends : i <= LineEnd(text)
  <2> HIDE DEF ends
  <2>1. \E e \in ends : \A i \in ends : i <= e
    BY <1>5
  <2>2. LineEnd(text) = CHOOSE e \in ends : \A i \in ends : i <= e
    BY DEF LineEnd, ends
  <2> QED
    BY <2>1, <2>2
<1>7. ASSUME NEW i \in LineEnd(text) + 1 .. Len(text) PROVE text[i] # Newline
  BY <1>1, <1>2, <1>6
<1> QED
  BY <1>2, <1>6, <1>7

(***************************************************************************)
(* Cutting a text at the end of its last line: the lines, and a piece      *)
(* without a newline; together they are the text.                          *)
(***************************************************************************)
LEMMA SplitAtLineEnd ==
  ASSUME NEW text \in Seq(Char)
  PROVE  /\ SubSeq(text, 1, LineEnd(text)) \in Seq(Char)
         /\ SubSeq(text, LineEnd(text) + 1, Len(text)) \in Seq(Char \ {Newline})
         /\ SubSeq(text, 1, LineEnd(text)) \o SubSeq(text, LineEnd(text) + 1, Len(text)) = text
<1> DEFINE e == LineEnd(text)
<1>1. Len(text) \in Nat /\ \A i \in 1 .. Len(text) : text[i] \in Char
  BY LenProperties, ElementOfSeq
<1>2. e \in 0 .. Len(text) /\ \A i \in e + 1 .. Len(text) : text[i] # Newline
  BY LineEndIsLast
<1> HIDE DEF e
<1>3. SubSeq(text, 1, e) \in Seq(Char)
  <2>1. \A i \in 1 .. e : text[i] \in Char
    BY <1>1, <1>2
  <2> QED
    BY <1>2, <2>1, SubSeqProperties
<1>4. SubSeq(text, e + 1, Len(text)) \in Seq(Char \ {Newline})
  <2>1. \A i \in e + 1 .. Len(text) : text[i] \in Char \ {Newline}
    BY <1>1, <1>2
  <2> QED
    BY <1>1, <1>2, <2>1, SubSeqProperties
<1>5. SubSeq(text, 1, e) \o SubSeq(text, e + 1, Len(text)) = text
  <2>1. SubSeq(text, 1, e) \o SubSeq(text, e + 1, Len(text)) = SubSeq(text, 1, Len(text))
    <3>1. 1 \in 1 .. Len(text) + 1 /\ e \in 1 - 1 .. Len(text) /\ Len(text) \in e .. Len(text)
      BY <1>1, <1>2
    <3> QED
      BY <3>1, ConcatAdjacentSubSeq
  <2> QED
    BY <2>1, SubSeqFull
<1> QED
  BY <1>3, <1>4, <1>5 DEF e

-----------------------------------------------------------------------------
(***************************************************************************)
(* What the buffer holds: a log that was not cut is what was written; one  *)
(* that was cut is full; size counts the characters.                       *)
(***************************************************************************)
Shorter(m, n) == IF m <= n THEN m ELSE n

KeptInv ==
  /\ size = Shorter(Len(written), MaxLog)
  /\ KeepsBeginning
  /\ ~truncated => data = Beginning
  /\ truncated => size = MaxLog /\ MaxLog < Len(written)

LEMMA ChunkIsSeq == ASSUME NEW chunk \in Chunk
                    PROVE  chunk \in Seq(Char) /\ Len(chunk) \in Nat \ {0}
<1>1. PICK n \in 1 .. MaxChunk : chunk \in [1 .. n -> Char]
  BY DEF Chunk
<1>2. n \in Nat \ {0} /\ chunk \in Seq(Char)
  BY <1>1, SeqDef
<1>3. Len(chunk) = n
  BY <1>1, <1>2
<1> QED
  BY <1>2, <1>3

(***************************************************************************)
(* The beginning of the text after a chunk: the beginning before it and    *)
(* what of the chunk still fits.                                           *)
(***************************************************************************)
LEMMA BeginningGrows ==
  ASSUME NEW s \in Seq(Char), NEW chunk \in Seq(Char),
         NEW room \in Nat,
         room = Shorter(Len(chunk), MaxLog - Len(s)),
         Len(s) < MaxLog
  PROVE  SubSeq(s \o chunk, 1, Shorter(Len(s \o chunk), MaxLog)) = s \o SubSeq(chunk, 1, room)
<1> DEFINE all == s \o chunk
           n == Shorter(Len(all), MaxLog)
           left == SubSeq(all, 1, n)
           kept == SubSeq(chunk, 1, room)
           right == s \o kept
<1>1. Len(s) \in Nat /\ Len(chunk) \in Nat /\ MaxLog \in Nat
  BY LenProperties
<1>2. /\ all \in Seq(Char)
      /\ Len(all) = Len(s) + Len(chunk)
      /\ \A i \in 1 .. Len(s) + Len(chunk) :
           all[i] = IF i <= Len(s) THEN s[i] ELSE chunk[i - Len(s)]
  BY ConcatProperties
<1>3. n \in Nat /\ n = Len(s) + room /\ n <= Len(all) /\ room <= Len(chunk)
  BY <1>1, <1>2 DEF Shorter
<1>4. /\ kept \in Seq(Char) /\ Len(kept) = room
      /\ \A i \in 1 .. room : kept[i] = chunk[i]
  <2>1. \A i \in 1 .. room : chunk[i] \in Char
    BY <1>1, <1>3, ElementOfSeq
  <2> QED
    BY <1>3, <2>1, SubSeqProperties
<1>5. /\ left \in Seq(Char) /\ Len(left) = n
      /\ \A i \in 1 .. n : left[i] = all[i]
  <2>1. \A i \in 1 .. n : all[i] \in Char
    BY <1>1, <1>2, <1>3, ElementOfSeq
  <2> HIDE DEF all, n
  <2> QED
    BY <1>3, <2>1, SubSeqProperties
<1>6. /\ right \in Seq(Char) /\ Len(right) = n
      /\ \A i \in 1 .. n : right[i] = IF i <= Len(s) THEN s[i] ELSE kept[i - Len(s)]
  <2> HIDE DEF kept
  <2>1. /\ s \o kept \in Seq(Char) /\ Len(s \o kept) = Len(s) + Len(kept)
        /\ \A i \in 1 .. Len(s) + Len(kept) :
             (s \o kept)[i] = IF i <= Len(s) THEN s[i] ELSE kept[i - Len(s)]
    BY <1>4, ConcatProperties
  <2> HIDE DEF n
  <2> QED
    BY <1>3, <1>4, <2>1
<1>7. \A i \in 1 .. n : left[i] = right[i]
  <2> HIDE DEF all, n, left, kept, right
  <2> SUFFICES ASSUME NEW i \in 1 .. n PROVE left[i] = right[i]
    OBVIOUS
  <2>1. i \in 1 .. Len(s) + Len(chunk) /\ (i <= Len(s) \/ i - Len(s) \in 1 .. room)
    BY <1>1, <1>2, <1>3
  <2>2. left[i] = IF i <= Len(s) THEN s[i] ELSE chunk[i - Len(s)]
    BY <1>2, <1>5, <2>1
  <2>3. right[i] = IF i <= Len(s) THEN s[i] ELSE kept[i - Len(s)]
    BY <1>6
  <2>4. CASE i <= Len(s)
    BY <2>2, <2>3, <2>4
  <2>5. CASE ~ (i <= Len(s))
    <3>1. kept[i - Len(s)] = chunk[i - Len(s)]
      BY <1>4, <2>1, <2>5
    <3> QED
      BY <2>2, <2>3, <2>5, <3>1
  <2> QED
    BY <2>4, <2>5
<1>8. left = right
  <2> HIDE DEF left, right, n
  <2> QED
    BY <1>5, <1>6, <1>7, SeqEqual
<1> QED
  BY <1>8

\* A chunk that comes when the buffer is full leaves the beginning alone.
LEMMA BeginningStays ==
  ASSUME NEW s \in Seq(Char), NEW chunk \in Seq(Char), Len(s) >= MaxLog
  PROVE  SubSeq(s \o chunk, 1, Shorter(Len(s \o chunk), MaxLog))
           = SubSeq(s, 1, Shorter(Len(s), MaxLog))
<1>1. Len(s) \in Nat /\ Len(chunk) \in Nat /\ MaxLog \in Nat \ {0}
  BY LenProperties
<1>2. Len(s \o chunk) = Len(s) + Len(chunk)
  BY ConcatProperties
<1>3. Shorter(Len(s \o chunk), MaxLog) = MaxLog /\ Shorter(Len(s), MaxLog) = MaxLog
  BY <1>1, <1>2 DEF Shorter
<1>4. 1 \in 1 .. Len(s) /\ MaxLog \in 1 .. Len(s)
  BY <1>1
<1> QED
  BY <1>3, <1>4, SubSeqOfConcat1

\* Nothing is cut off a text that fits.
LEMMA BeginningIsAll ==
  ASSUME NEW s \in Seq(Char), Len(s) <= MaxLog
  PROVE  SubSeq(s, 1, Shorter(Len(s), MaxLog)) = s
BY SubSeqFull DEF Shorter
-----------------------------------------------------------------------------
Inv == TypeOK /\ LinesAreWhole /\ KeptInv

LEMMA BeginningIs == Beginning = SubSeq(written, 1, Shorter(Len(written), MaxLog))
<1>1. CASE Len(written) = MaxLog
  BY <1>1 DEF Beginning, Shorter
<1>2. CASE Len(written) < MaxLog
  BY <1>2 DEF Beginning, Shorter
<1> QED
  BY DEF Beginning, Shorter

LEMMA InvInit == Init => Inv
<1> SUFFICES ASSUME Init PROVE Inv
  OBVIOUS
<1>1. <<>> \in Seq(Char) /\ Len(<<>>) = 0 /\ MaxLog \in Nat \ {0}
  BY EmptySeq
<1>2. TypeOK
  <2>1. /\ <<>> \in Seq(Char) /\ <<>> \in Seq(Char \cup {Marker})
        /\ <<>> \in Seq(Char \ {Newline})
    BY EmptySeq
  <2>2. 0 \in 0 .. MaxLog
    BY <1>1
  <2> QED
    BY <2>1, <2>2 DEF Init, TypeOK
<1>3. LinesAreWhole
  <2>1. <<>> \o <<>> = <<>>
    BY <1>1, ConcatEmptySeq
  <2> QED
    BY <2>1 DEF Init, LinesAreWhole
<1>4. data = Beginning
  <2>1. SubSeq(<<>>, 1, Shorter(Len(<<>>), MaxLog)) = <<>>
    BY <1>1, BeginningIsAll
  <2> QED
    BY <2>1, BeginningIs DEF Init
<1>5. KeptInv
  BY <1>1, <1>4 DEF Init, KeptInv, KeepsBeginning, Shorter
<1> QED
  BY <1>2, <1>3, <1>5 DEF Inv

\* Split: the lines that were published, the text that waited and the chunk,
\* in this order, are all that was written.
LEMMA SplitKeepsLines ==
  ASSUME Inv, NEW chunk \in Chunk, AppendLog(chunk)
  PROVE  /\ sent' \in Seq(Char) /\ partial' \in Seq(Char \ {Newline})
         /\ LinesAreWhole'
<1> DEFINE text == partial \o chunk
           lines == SubSeq(text, 1, LineEnd(text))
           rest == SubSeq(text, LineEnd(text) + 1, Len(text))
<1>1. chunk \in Seq(Char) /\ partial \in Seq(Char) /\ sent \in Seq(Char)
  <2>1. partial \in Seq(Char \ {Newline}) /\ Char \ {Newline} \subseteq Char
    BY DEF Inv, TypeOK
  <2> QED
    BY <2>1, ChunkIsSeq, SeqMonotonic DEF Inv, TypeOK
<1>2. text \in Seq(Char)
  BY <1>1, ConcatProperties
<1>3. /\ lines \in Seq(Char) /\ rest \in Seq(Char \ {Newline}) /\ rest \in Seq(Char)
      /\ lines \o rest = text
  <2> HIDE DEF text
  <2>1. /\ lines \in Seq(Char) /\ rest \in Seq(Char \ {Newline})
        /\ lines \o rest = text
    BY <1>2, SplitAtLineEnd
  <2> QED
    BY <2>1, SeqMonotonic
<1>4. partial' = rest /\ sent' = sent \o lines /\ written' = written \o chunk
  BY DEF AppendLog, Split
<1> HIDE DEF lines, rest
<1>5. sent' \in Seq(Char)
  <2>1. sent \o lines \in Seq(Char)
    BY <1>1, <1>3, ConcatProperties
  <2> QED
    BY <1>4, <2>1
<1>6. sent' \o partial' = sent \o (partial \o chunk)
  <2>1. sent \in Seq(Char) /\ lines \in Seq(Char) /\ rest \in Seq(Char)
    BY <1>1, <1>3
  <2>2. (sent \o lines) \o rest = sent \o (lines \o rest)
    BY <2>1, ConcatAssociative
  <2> QED
    BY <1>3, <1>4, <2>2
<1>7. sent \o (partial \o chunk) = written \o chunk
  <2>1. written = sent \o partial
    BY DEF Inv, LinesAreWhole
  <2> QED
    BY <1>1, <2>1, ConcatAssociative
<1> QED
  BY <1>3, <1>4, <1>5, <1>6, <1>7 DEF LinesAreWhole

\* Keep: what is added to the buffer is what the beginning grows by.
LEMMA KeepKeepsBeginning ==
  ASSUME Inv, NEW chunk \in Chunk, AppendLog(chunk)
  PROVE  /\ data' \in Seq(Char \cup {Marker}) /\ size' \in 0 .. MaxLog
         /\ truncated' \in BOOLEAN /\ written' \in Seq(Char)
         /\ KeptInv'
<1>1. /\ chunk \in Seq(Char) /\ Len(chunk) \in Nat \ {0} /\ MaxLog \in Nat \ {0}
      /\ written \in Seq(Char) /\ Len(written) \in Nat /\ truncated \in BOOLEAN
  BY ChunkIsSeq, LenProperties DEF Inv, TypeOK
<1>2. /\ written' = written \o chunk /\ written' \in Seq(Char)
      /\ Len(written') = Len(written) + Len(chunk)
  BY <1>1, ConcatProperties DEF AppendLog
<1>3. Beginning' = SubSeq(written', 1, Shorter(Len(written'), MaxLog))
  <2>1. CASE Len(written') = MaxLog
    BY <2>1 DEF Beginning, Shorter
  <2>2. CASE Len(written') # MaxLog
    <3>1. Len(written') \in Nat
      BY <1>1, <1>2
    <3>2. ASSUME NEW n \in Nat, n # MaxLog
          PROVE  (IF n < MaxLog THEN n ELSE MaxLog) = Shorter(n, MaxLog)
      BY <1>1 DEF Shorter
    <3> QED
      BY <2>2, <3>1, <3>2 DEF Beginning
  <2> QED
    BY <2>1, <2>2
<1>4. /\ size = Shorter(Len(written), MaxLog) /\ KeepsBeginning
      /\ ~truncated => data = Beginning
      /\ truncated => size = MaxLog /\ MaxLog < Len(written)
  BY DEF Inv, KeptInv
<1>5. CASE size < MaxLog
  <2>1. Len(written) < MaxLog /\ size = Len(written) /\ ~truncated
    BY <1>1, <1>4, <1>5 DEF Shorter
  <2>2. data = written
    <3>1. SubSeq(written, 1, Shorter(Len(written), MaxLog)) = written
      BY <1>1, <2>1, BeginningIsAll
    <3> QED
      BY <1>4, <2>1, <3>1, BeginningIs
  <2>3. RoomFor(chunk) \in Nat /\ RoomFor(chunk) = Shorter(Len(chunk), MaxLog - Len(written))
    BY <1>1, <2>1 DEF RoomFor, Shorter
  <2>4. /\ data' = data \o SubSeq(chunk, 1, RoomFor(chunk))
        /\ size' = size + RoomFor(chunk)
        /\ truncated' = (truncated \/ RoomFor(chunk) < Len(chunk))
    BY <1>5 DEF AppendLog, Keep
  <2>5. data' = Beginning'
    BY <1>1, <1>2, <1>3, <2>1, <2>2, <2>3, <2>4, BeginningGrows
  <2>6. Beginning' \in Seq(Char)
    <3>1. Shorter(Len(written'), MaxLog) \in Nat /\ Shorter(Len(written'), MaxLog) <= Len(written')
      BY <1>1, <1>2 DEF Shorter
    <3>2. \A i \in 1 .. Shorter(Len(written'), MaxLog) : written'[i] \in Char
      BY <1>1, <1>2, <3>1, ElementOfSeq
    <3> QED
      BY <1>3, <3>1, <3>2, SubSeqProperties
  <2>7. data' \in Seq(Char \cup {Marker})
    BY <2>5, <2>6, SeqMonotonic
  <2>8. size' = Shorter(Len(written'), MaxLog) /\ size' \in 0 .. MaxLog
    BY <1>1, <1>2, <2>1, <2>3, <2>4 DEF Shorter
  <2>9. truncated' \in BOOLEAN /\ (truncated' => size' = MaxLog /\ MaxLog < Len(written'))
    BY <1>1, <1>2, <2>1, <2>3, <2>4 DEF Shorter
  <2> QED
    BY <1>2, <2>5, <2>7, <2>8, <2>9 DEF KeptInv, KeepsBeginning
<1>6. CASE ~ (size < MaxLog)
  <2>1. size = MaxLog /\ Len(written) >= MaxLog /\ Len(written') > MaxLog
    BY <1>1, <1>2, <1>4, <1>6 DEF Shorter
  <2>2. Beginning' = Beginning
    BY <1>1, <1>2, <1>3, <2>1, BeginningIs, BeginningStays
  <2>3. /\ data' = IF truncated THEN data ELSE Append(data, Marker)
        /\ truncated' = TRUE /\ size' = size
    BY <1>6 DEF AppendLog, Keep
  <2>4. data' \in Seq(Char \cup {Marker})
    <3>1. data \in Seq(Char \cup {Marker}) /\ Marker \in Char \cup {Marker}
      BY DEF Inv, TypeOK
    <3> QED
      BY <2>3, <3>1, AppendProperties
  <2>5. KeepsBeginning'
    <3>1. CASE truncated
      BY <1>4, <2>1, <2>2, <2>3, <3>1 DEF KeepsBeginning
    <3>2. CASE ~truncated
      BY <1>4, <2>1, <2>2, <2>3, <3>2 DEF KeepsBeginning
    <3> QED
      BY <3>1, <3>2
  <2>6. size' = Shorter(Len(written'), MaxLog) /\ size' \in 0 .. MaxLog
    BY <1>1, <1>2, <2>1, <2>3 DEF Shorter
  <2> QED
    BY <1>2, <2>1, <2>3, <2>4, <2>5, <2>6 DEF KeptInv
<1> QED
  BY <1>5, <1>6

LEMMA InvStep == Inv /\ [Next]_vars => Inv'
<1> SUFFICES ASSUME Inv, [Next]_vars PROVE Inv'
  OBVIOUS
<1>1. ASSUME NEW chunk \in Chunk, AppendLog(chunk) PROVE Inv'
  BY <1>1, SplitKeepsLines, KeepKeepsBeginning DEF Inv, TypeOK
<1>2. CASE UNCHANGED vars
  BY <1>2 DEF vars, Inv, TypeOK, LinesAreWhole, KeptInv, KeepsBeginning, Beginning
<1> QED
  BY <1>1, <1>2 DEF Next

\* The invariant that the three theorems below read off.
THEOREM InvHolds == Spec => []Inv
BY InvInit, InvStep, PTL DEF Spec

(***************************************************************************)
(* Type correctness: the size counter never passes the limit, and the half *)
(* line that waits never holds a newline.                                  *)
(***************************************************************************)
THEOREM TypeCorrect == Spec => []TypeOK
<1>1. Inv => TypeOK
  BY DEF Inv
<1> QED
  BY <1>1, InvHolds, PTL

(***************************************************************************)
(* However a text is cut into chunks, the lines that browsers get are its  *)
(* lines, whole and in order, and only a half line is held back.           *)
(***************************************************************************)
THEOREM LinesAreWholeHolds == Spec => []LinesAreWhole
<1>1. Inv => LinesAreWhole
  BY DEF Inv
<1> QED
  BY <1>1, InvHolds, PTL

(***************************************************************************)
(* For any limit and any chunks, the buffer holds the longest beginning of *)
(* the text that fits, and nothing else but one marker.                    *)
(***************************************************************************)
THEOREM KeepsBeginningHolds == Spec => []KeepsBeginning
<1>1. Inv => KeepsBeginning
  BY DEF Inv, KeptInv
<1> QED
  BY <1>1, InvHolds, PTL
=============================================================================
