------------------------- MODULE EventStreamProofs --------------------------
(***************************************************************************)
(* Theorems about EventStream, for any number of connections and stages    *)
(* and any capacity of the channels.                                       *)
(*                                                                         *)
(* That done comes last rests on where finishBuild is called: BuildInv     *)
(* says that outside runStages no goroutine has anything left to announce, *)
(* and DoneInv that a done in a channel means that finishBuild is over.    *)
(* That no change is missed rests on two facts more: every connection that *)
(* reads is registered (ConnInv), and what is to be announced is part of   *)
(* every snapshot (DueInv).                                                *)
(***************************************************************************)
EXTENDS EventStream, SequenceTheorems, TLAPS

USE StreamAssumption DEF Event, EventType

BuildInv ==
  /\ state = "pending" => main \in {"queued", "checked"}
  /\ \A g \in Stager : stage[g] \in {"behind", "acting"} => main = "stages"

ConnInv == \A c \in Client : conn[c] # "closed" => c \in subs

DueInv == due <= rev

DoneInv == \A c \in Client : \A i \in 1 .. Len(chan[c]) :
  chan[c][i].type = "done" => main = "over" /\ i = Len(chan[c])

Inv == TypeOK /\ BuildInv /\ ConnInv /\ DueInv /\ DoneInv /\ ChangesAnnounced

(***************************************************************************)
(* What Publish does to the channel of one client: nothing, or the event   *)
(* is added behind what is there.                                          *)
(***************************************************************************)
LEMMA PublishAppends ==
  ASSUME TypeOK, NEW type \in EventType, Publish(type), NEW c \in Client
  PROVE  /\ \/ chan'[c] = chan[c] /\ (c \in subs => c \in lost')
            \/ /\ chan'[c] = Append(chan[c], [type |-> type, rev |-> rev])
               /\ chan'[c] \in Seq(Event)
               /\ Len(chan'[c]) = Len(chan[c]) + 1
               /\ \A i \in 1 .. Len(chan[c]) : chan'[c][i] = chan[c][i]
               /\ chan'[c][Len(chan[c]) + 1] = [type |-> type, rev |-> rev]
         /\ Len(chan'[c]) <= BufferCap
         /\ chan' \in [Client -> Seq(Event)]
         /\ lost \subseteq lost' /\ lost' \subseteq Client
         /\ UNCHANGED <<subs, conn, told>>
<1> DEFINE ev == [type |-> type, rev |-> rev]
           full == {d \in subs : Len(chan[d]) >= BufferCap}
<1>1. ev \in Event
  BY DEF TypeOK
<1>2. /\ chan' = [d \in Client |-> IF d \in subs \ full THEN Append(chan[d], ev) ELSE chan[d]]
      /\ lost' = lost \cup full /\ UNCHANGED <<subs, conn, told>>
  BY DEF Publish
<1>3. \A d \in Client :
        /\ Append(chan[d], ev) \in Seq(Event)
        /\ Len(Append(chan[d], ev)) = Len(chan[d]) + 1
        /\ \A i \in 1 .. Len(chan[d]) : Append(chan[d], ev)[i] = chan[d][i]
        /\ Append(chan[d], ev)[Len(chan[d]) + 1] = ev
  <2> SUFFICES ASSUME NEW d \in Client
               PROVE  /\ Append(chan[d], ev) \in Seq(Event)
                      /\ Len(Append(chan[d], ev)) = Len(chan[d]) + 1
                      /\ \A i \in 1 .. Len(chan[d]) : Append(chan[d], ev)[i] = chan[d][i]
                      /\ Append(chan[d], ev)[Len(chan[d]) + 1] = ev
    OBVIOUS
  <2>1. chan[d] \in Seq(Event)
    BY DEF TypeOK
  <2> HIDE DEF ev
  <2> QED
    BY <1>1, <2>1, AppendProperties
<1>4. chan' \in [Client -> Seq(Event)]
  BY <1>2, <1>3 DEF TypeOK
<1>5. lost \subseteq lost' /\ lost' \subseteq Client
  BY <1>2 DEF TypeOK
<1>6. CASE c \in subs \ full
  <2>1. chan'[c] = Append(chan[c], ev)
    BY <1>2, <1>6
  <2>2. Len(chan[c]) + 1 <= BufferCap
    <3>1. chan[c] \in Seq(Event) /\ ~ (Len(chan[c]) >= BufferCap)
      BY <1>6 DEF TypeOK
    <3> QED
      BY <3>1, LenProperties
  <2> QED
    BY <1>2, <1>3, <1>4, <1>5, <2>1, <2>2
<1>7. CASE c \notin subs \ full
  BY <1>2, <1>4, <1>5, <1>7 DEF TypeOK
<1> QED
  BY <1>6, <1>7

(***************************************************************************)
(* Who knows of some changes, or will, still does after a publish; and     *)
(* whoever is connected and has lost nothing will know of all changes made *)
(* until then, unless it was only a line of log.                           *)
(***************************************************************************)
LEMMA PublishInforms ==
  ASSUME Inv, NEW type \in EventType, Publish(type),
         type = "done" => main' = "over",
         main # "over",
         NEW c \in Client
  PROVE  /\ \A i \in 1 .. Len(chan'[c]) :
              chan'[c][i].type = "done" => main' = "over" /\ i = Len(chan'[c])
         /\ \A n \in Nat : Informed(c, n) => Informed(c, n)'
         /\ type # "log" /\ conn'[c] = "streaming" /\ c \notin lost' =>
              \E i \in 1 .. Len(chan'[c]) : chan'[c][i].type # "log" /\ chan'[c][i].rev >= rev
<1> DEFINE k == Len(chan[c])
<1>1. /\ rev \in Nat /\ k \in Nat
      /\ \A i \in 1 .. k : chan[c][i].type # "done"
  <2>1. chan[c] \in Seq(Event) /\ rev \in Nat
    BY DEF Inv, TypeOK
  <2> QED
    BY <2>1, LenProperties DEF Inv, DoneInv
<1>2. UNCHANGED <<conn, told, subs>> /\ lost \subseteq lost'
  BY PublishAppends DEF Inv
<1>3. conn[c] = "streaming" => c \in subs
  BY DEF Inv, ConnInv
<1>4. CASE chan'[c] = chan[c] /\ (c \in subs => c \in lost')
  BY <1>1, <1>2, <1>3, <1>4 DEF Informed
<1>5. CASE /\ Len(chan'[c]) = k + 1
           /\ \A i \in 1 .. k : chan'[c][i] = chan[c][i]
           /\ chan'[c][k + 1] = [type |-> type, rev |-> rev]
  <2>1. \A n \in Nat : Informed(c, n) => Informed(c, n)'
    BY <1>1, <1>2, <1>5 DEF Informed
  <2> HIDE DEF k
  <2>2. \A i \in 1 .. Len(chan'[c]) : i \in 1 .. k \/ i = k + 1
    BY <1>1, <1>5
  <2>3. /\ chan'[c][k + 1].rev >= rev /\ chan'[c][k + 1].type = type
        /\ k + 1 \in 1 .. Len(chan'[c])
    BY <1>1, <1>5
  <2>4. \A i \in 1 .. Len(chan'[c]) :
          chan'[c][i].type = "done" => main' = "over" /\ i = Len(chan'[c])
    BY <1>1, <1>5, <2>2, <2>3
  <2> QED
    BY <2>1, <2>3, <2>4
<1> QED
  BY <1>4, <1>5, PublishAppends DEF Inv

-----------------------------------------------------------------------------
LEMMA InvInit == Init => Inv
<1> SUFFICES ASSUME Init PROVE Inv
  OBVIOUS
<1>1. \A c \in Client : chan[c] = <<>> /\ <<>> \in Seq(Event) /\ Len(chan[c]) = 0
  BY EmptySeq DEF Init
<1>2. TypeOK
  BY <1>1 DEF Init, TypeOK, State, MainAt, ConnAt, StageAt
<1>3. BuildInv /\ ConnInv /\ DueInv /\ DoneInv /\ ChangesAnnounced
  BY <1>1 DEF Init, BuildInv, ConnInv, DueInv, DoneInv, ChangesAnnounced
<1> QED
  BY <1>2, <1>3 DEF Inv

\* The steps without an event: only the build's own variables differ.
BuildOnly ==
  /\ UNCHANGED streamVars /\ rev' \in Nat /\ due' \in Nat /\ due' <= rev'
  /\ state' \in State /\ main' \in MainAt \ {"told", "over"}
  /\ stage' \in [Stager -> StageAt] /\ extra' \in 0 .. MaxExtra
  /\ main \notin {"told", "over"}
  /\ Announcing' \/ (due' = due /\ ~Announcing)
  /\ BuildInv'

LEMMA RunBuildStep ==
  ASSUME Inv,
         \/ CancelWaiting \/ Reject \/ SkipCanceled \/ NotCanceled
         \/ FailMissing \/ Admit \/ NoVolume \/ Finish
  PROVE  BuildOnly
<1> USE DEF Inv, TypeOK, BuildInv, DueInv, State, MainAt, StageAt, Change, Announced,
            Unannounced, Goto, SetFinal, Announcing, Behind
<1>1. CASE CancelWaiting \/ SkipCanceled \/ NotCanceled
  BY <1>1 DEF CancelWaiting, SkipCanceled, NotCanceled, BuildOnly
<1>2. CASE Reject \/ FailMissing \/ Admit
  BY <1>2 DEF Reject, FailMissing, Admit, BuildOnly
<1>3. CASE NoVolume \/ Finish
  BY <1>3 DEF NoVolume, Finish, BuildOnly
<1> QED
  BY <1>1, <1>2, <1>3

LEMMA StageStepBuildOnly ==
  ASSUME Inv, NEW g \in Stager,
         StartStage(g) \/ CancelStage(g) \/ Update(g) \/ Return(g)
  PROVE  BuildOnly
<1> USE DEF Inv, TypeOK, BuildInv, DueInv, State, MainAt, StageAt, StageChange, Announced,
            Unannounced, Announcing, Behind
<1>1. /\ main = "stages" /\ main' = "stages" /\ state' = state /\ UNCHANGED streamVars
      /\ rev' \in Nat /\ due' \in Nat /\ due' <= rev' /\ extra' \in 0 .. MaxExtra
      /\ stage' \in [Stager -> StageAt]
  BY DEF StartStage, CancelStage, Update, Return
<1>2. CASE StartStage(g) \/ Update(g)
  <2>1. stage'[g] = "behind"
    BY <1>2 DEF StartStage, Update
  <2> QED
    BY <1>1, <2>1 DEF BuildOnly
<1>3. CASE CancelStage(g) \/ Return(g)
  <2>1. due' = due /\ Behind' = Behind
    BY <1>3 DEF CancelStage, Return
  <2> QED
    BY <1>1, <2>1 DEF BuildOnly
<1> QED
  BY <1>2, <1>3

LEMMA BuildOnlyKeepsInv ==
  ASSUME Inv, BuildOnly
  PROVE  Inv'
<1>1. TypeOK' /\ BuildInv' /\ ConnInv' /\ DueInv'
  BY DEF BuildOnly, streamVars, Inv, TypeOK, ConnInv, DueInv, MainAt
<1>2. DoneInv'
  BY DEF BuildOnly, streamVars, Inv, DoneInv
<1>3. ChangesAnnounced'
  BY DEF BuildOnly, streamVars, Inv, ChangesAnnounced, Informed
<1> QED
  BY <1>1, <1>2, <1>3 DEF Inv

\* The steps that publish.
LEMMA PublishStepKeepsInv ==
  ASSUME Inv,
         \/ AnnounceStart \/ AnnounceEnd \/ AnnounceDone \/ AppendLog
         \/ \E g \in Stager : Announce(g)
  PROVE  Inv'
<1>1. /\ UNCHANGED <<state, rev, due>> /\ main # "over" /\ main' \in MainAt
      /\ stage' \in [Stager -> StageAt] /\ extra' \in 0 .. MaxExtra
      /\ BuildInv'
  <2> USE DEF Inv, TypeOK, BuildInv, MainAt, StageAt, Goto
  <2>1. CASE AnnounceStart \/ AnnounceEnd \/ AnnounceDone
    BY <2>1 DEF AnnounceStart, AnnounceEnd, AnnounceDone
  <2>2. CASE AppendLog
    BY <2>2 DEF AppendLog
  <2>3. CASE \E g \in Stager : Announce(g)
    BY <2>3 DEF Announce
  <2> QED
    BY <2>1, <2>2, <2>3
<1>2. PICK type \in EventType :
        /\ Publish(type) /\ (type = "done" => main' = "over")
        /\ type = "log" => Announcing' = Announcing /\ main' = main
  BY DEF AnnounceStart, AnnounceEnd, AnnounceDone, AppendLog, Announce, Goto, Announcing, Behind
<1>3. \A c \in Client :
        /\ \A i \in 1 .. Len(chan'[c]) :
             chan'[c][i].type = "done" => main' = "over" /\ i = Len(chan'[c])
        /\ \A n \in Nat : Informed(c, n) => Informed(c, n)'
        /\ type # "log" /\ conn'[c] = "streaming" /\ c \notin lost' =>
             \E i \in 1 .. Len(chan'[c]) : chan'[c][i].type # "log" /\ chan'[c][i].rev >= rev
  BY <1>1, <1>2, PublishInforms
<1>4. DoneInv'
  BY <1>3 DEF DoneInv
<1>5. /\ \A c \in Client : Len(chan'[c]) <= BufferCap
      /\ Client # {} => /\ chan' \in [Client -> Seq(Event)]
                        /\ lost' \subseteq Client /\ UNCHANGED <<subs, conn, told>>
                        /\ lost \subseteq lost'
  BY <1>2, PublishAppends DEF Inv
<1>6. /\ chan' \in [Client -> Seq(Event)] /\ lost' \subseteq Client
      /\ UNCHANGED <<subs, conn, told>> /\ lost \subseteq lost'
  <2>1. CASE Client # {}
    BY <1>5, <2>1
  <2>2. CASE Client = {}
    BY <1>2, <2>2 DEF Publish, Inv, TypeOK
  <2> QED
    BY <2>1, <2>2
<1>7. ChangesAnnounced'
  <2> SUFFICES ASSUME NEW c \in Client, conn'[c] = "streaming", c \notin lost'
               PROVE  /\ Informed(c, due)' \/ Announcing'
                      /\ main' \in {"told", "over"} => Informed(c, rev)'
    BY DEF ChangesAnnounced
  <2>1. /\ rev \in Nat /\ due \in Nat /\ due <= rev /\ rev' = rev /\ due' = due
        /\ conn[c] = "streaming" /\ c \notin lost
    BY <1>1, <1>6 DEF Inv, TypeOK, DueInv
  <2>2. CASE type = "log"
    <3>1. \A n \in Nat : Informed(c, n) => Informed(c, n)'
      BY <1>3
    <3>2. /\ Informed(c, due) \/ Announcing
          /\ main \in {"told", "over"} => Informed(c, rev)
      BY <2>1 DEF Inv, ChangesAnnounced
    <3>3. Informed(c, due) => Informed(c, due)'
      BY <3>1, <2>1 DEF Informed
    <3>4. Informed(c, rev) => Informed(c, rev)'
      BY <3>1, <2>1 DEF Informed
    <3> QED
      BY <1>2, <2>2, <3>2, <3>3, <3>4
  <2>3. CASE type # "log"
    <3>1. PICK i \in 1 .. Len(chan'[c]) : chan'[c][i].type # "log" /\ chan'[c][i].rev >= rev
      BY <1>3, <2>3
    <3>2. Informed(c, rev)'
      BY <3>1, <2>1 DEF Informed
    <3>3. chan'[c][i].rev \in Nat
      <4>1. chan'[c] \in Seq(Event)
        BY <1>6
      <4>2. chan'[c][i] \in Event
        BY <4>1, ElementOfSeq
      <4> QED
        BY <4>2
    <3>4. Informed(c, due)'
      BY <3>1, <3>3, <2>1 DEF Informed
    <3> QED
      BY <3>2, <3>4
  <2> QED
    BY <2>2, <2>3
<1>8. TypeOK' /\ ConnInv' /\ DueInv'
  BY <1>1, <1>5, <1>6 DEF Inv, TypeOK, ConnInv, DueInv
<1> QED
  BY <1>1, <1>4, <1>7, <1>8 DEF Inv

\* Tail of a channel: the events behind the first, each one place earlier.
LEMMA PassOnTakesFirst ==
  ASSUME Inv, NEW c \in Client, PassOn(c), chan[c] # <<>>
  PROVE  /\ chan' = [chan EXCEPT ![c] = Tail(chan[c])]
         /\ Tail(chan[c]) \in Seq(Event) /\ Len(Tail(chan[c])) = Len(chan[c]) - 1
         /\ Len(chan[c]) \in Nat \ {0}
         /\ \A i \in 1 .. Len(chan[c]) - 1 : Tail(chan[c])[i] = chan[c][i + 1]
         /\ \A i \in 1 .. Len(chan[c]) : chan[c][i] \in Event
         /\ told' = [told EXCEPT ![c] = Learned(@, chan[c][1])]
         /\ UNCHANGED <<conn, subs, lost>>
<1>1. chan[c] \in Seq(Event) /\ chan[c] # <<>>
  BY DEF Inv, TypeOK
<1>2. /\ Tail(chan[c]) \in Seq(Event) /\ Len(Tail(chan[c])) = Len(chan[c]) - 1
      /\ \A i \in 1 .. Len(Tail(chan[c])) : Tail(chan[c])[i] = chan[c][i + 1]
  BY <1>1, HeadTailProperties
<1>3. Len(chan[c]) \in Nat \ {0}
  BY <1>1, EmptySeq
<1>4. \A i \in 1 .. Len(chan[c]) : chan[c][i] \in Event
  BY <1>1, ElementOfSeq
<1>5. Head(chan[c]) = chan[c][1]
  BY <1>1
<1> QED
  BY <1>2, <1>3, <1>4, <1>5 DEF PassOn

LEMMA PassOnKeepsInv ==
  ASSUME Inv, NEW c \in Client, PassOn(c), chan[c] # <<>>, UNCHANGED buildVars
  PROVE  Inv'
<1> DEFINE q == chan[c]
           rest == Tail(chan[c])
<1>1. /\ chan' = [chan EXCEPT ![c] = rest]
      /\ rest \in Seq(Event) /\ Len(rest) = Len(q) - 1
      /\ Len(q) \in Nat \ {0}
      /\ \A i \in 1 .. Len(q) - 1 : rest[i] = q[i + 1]
      /\ \A i \in 1 .. Len(q) : q[i] \in Event
      /\ told' = [told EXCEPT ![c] = Learned(@, q[1])]
      /\ UNCHANGED <<conn, subs, lost, buildVars>>
  BY PassOnTakesFirst
<1>2. TypeOK /\ BuildInv /\ ConnInv /\ DueInv /\ DoneInv /\ ChangesAnnounced
  BY DEF Inv
<1>3. /\ \A i \in 1 .. Len(q) : q[i].rev \in Nat
      /\ \A i \in 1 .. Len(q) : q[i].type = "done" => main = "over" /\ i = Len(q)
      /\ told[c] \in Nat /\ Len(q) <= BufferCap
  BY <1>1, <1>2 DEF TypeOK, DoneInv
<1>4. 1 \in 1 .. Len(q)
  BY <1>1
<1> HIDE DEF q, rest
<1>5. /\ chan'[c] = rest /\ told'[c] = Learned(told[c], q[1])
      /\ \A d \in Client \ {c} : chan'[d] = chan[d] /\ told'[d] = told[d]
      /\ UNCHANGED <<conn, subs, lost, state, rev, due, main, stage, extra>>
  BY <1>1, <1>2 DEF TypeOK, buildVars
<1>6. told'[c] \in Nat /\ told'[c] >= told[c] /\ (q[1].type # "log" => told'[c] >= q[1].rev)
  BY <1>3, <1>4, <1>5 DEF Learned
<1>7. TypeOK'
  <2>1. Len(rest) <= BufferCap
    BY <1>1, <1>3
  <2>2. told' \in [Client -> Nat] /\ chan' \in [Client -> Seq(Event)]
    BY <1>1, <1>2, <1>5, <1>6 DEF TypeOK
  <2> QED
    BY <1>2, <1>5, <2>1, <2>2 DEF TypeOK
<1>8. BuildInv' /\ ConnInv' /\ DueInv'
  BY <1>2, <1>5 DEF BuildInv, ConnInv, DueInv
<1>9. DoneInv'
  <2>1. \A i \in 1 .. Len(rest) : rest[i].type = "done" => main = "over" /\ i = Len(rest)
    <3> SUFFICES ASSUME NEW i \in 1 .. Len(rest), rest[i].type = "done"
                 PROVE  main = "over" /\ i = Len(rest)
      OBVIOUS
    <3>1. i + 1 \in 1 .. Len(q) /\ rest[i] = q[i + 1]
      BY <1>1
    <3> QED
      BY <1>1, <1>3, <3>1
  <2> QED
    BY <1>2, <1>5, <2>1 DEF DoneInv
<1>10. \A d \in Client, n \in Nat : Informed(d, n) => Informed(d, n)'
  <2> SUFFICES ASSUME NEW d \in Client, NEW n \in Nat, Informed(d, n)
               PROVE  Informed(d, n)'
    OBVIOUS
  <2>1. CASE d # c
    BY <1>5, <2>1 DEF Informed
  <2>2. CASE d = c /\ told[c] >= n
    BY <1>3, <1>6, <2>2 DEF Informed
  <2>3. ASSUME d = c, NEW i \in 1 .. Len(q), q[i].type # "log", q[i].rev >= n
        PROVE  Informed(d, n)'
    <3>1. CASE i = 1
      BY <1>3, <1>4, <1>6, <2>3, <3>1 DEF Informed
    <3>2. CASE i # 1
      <4>1. i - 1 \in 1 .. Len(rest) /\ rest[i - 1] = q[i]
        BY <1>1, <3>2
      <4> QED
        BY <1>5, <2>3, <4>1 DEF Informed
    <3> QED
      BY <3>1, <3>2
  <2> QED
    BY <2>1, <2>2, <2>3 DEF Informed, q
<1>11. ChangesAnnounced'
  <2> SUFFICES ASSUME NEW d \in Client, conn'[d] = "streaming", d \notin lost'
               PROVE  /\ Informed(d, due)' \/ Announcing'
                      /\ main' \in {"told", "over"} => Informed(d, rev)'
    BY DEF ChangesAnnounced
  <2>1. /\ Informed(d, due) \/ Announcing
        /\ main \in {"told", "over"} => Informed(d, rev)
    BY <1>2, <1>5 DEF ChangesAnnounced
  <2>2. Announcing' = Announcing /\ due \in Nat /\ rev \in Nat
    BY <1>2, <1>5 DEF Announcing, Behind, TypeOK
  <2>3. Informed(d, due) => Informed(d, due)'
    BY <1>5, <1>10, <2>2 DEF Informed
  <2>4. Informed(d, rev) => Informed(d, rev)'
    BY <1>5, <1>10, <2>2 DEF Informed
  <2> QED
    BY <1>5, <2>1, <2>2, <2>3, <2>4
<1> QED
  BY <1>7, <1>8, <1>9, <1>11 DEF Inv

\* The steps that open a connection.
LEMMA OpenKeepsInv ==
  ASSUME Inv, NEW c \in Client, Subscribe(c) \/ SendSnapshot(c)
  PROVE  Inv'
<1>1. TypeOK /\ BuildInv /\ ConnInv /\ DueInv /\ DoneInv /\ ChangesAnnounced
  BY DEF Inv
<1>2. CASE Subscribe(c)
  <2>1. TypeOK' /\ BuildInv' /\ ConnInv' /\ DueInv' /\ DoneInv'
    BY <1>1, <1>2 DEF Subscribe, TypeOK, ConnAt, BuildInv, ConnInv, DueInv, DoneInv, buildVars
  <2>2. ChangesAnnounced'
    BY <1>1, <1>2 DEF Subscribe, TypeOK, ChangesAnnounced, Informed, Announcing, Behind, buildVars
  <2> QED
    BY <2>1, <2>2 DEF Inv
<1>3. CASE SendSnapshot(c)
  <2>1. TypeOK' /\ BuildInv' /\ DueInv' /\ DoneInv'
    BY <1>1, <1>3 DEF SendSnapshot, Snapshot, TypeOK, ConnAt, BuildInv, DueInv, DoneInv, buildVars
  <2>2. ConnInv'
    BY <1>1, <1>3 DEF SendSnapshot, TypeOK, ConnInv
  <2>3. ChangesAnnounced'
    <3>1. /\ told'[c] = rev /\ rev \in Nat /\ due \in Nat /\ due <= rev
          /\ \A d \in Client \ {c} : told'[d] = told[d] /\ conn'[d] = conn[d]
          /\ UNCHANGED <<chan, lost, rev, due, main, stage>>
      BY <1>1, <1>3 DEF SendSnapshot, Snapshot, TypeOK, DueInv, buildVars
    <3>2. ASSUME NEW d \in Client \ {c}, conn'[d] = "streaming", d \notin lost'
          PROVE  /\ Informed(d, due)' \/ Announcing'
                 /\ main' \in {"told", "over"} => Informed(d, rev)'
      BY <1>1, <3>1, <3>2 DEF ChangesAnnounced, Informed, Announcing, Behind
    <3>3. Informed(c, due)' /\ Informed(c, rev)'
      BY <3>1 DEF Informed
    <3> QED
      BY <3>2, <3>3 DEF ChangesAnnounced
  <2> QED
    BY <2>1, <2>2, <2>3 DEF Inv
<1> QED
  BY <1>2, <1>3

LEMMA UnsubscribeKeepsInv ==
  ASSUME Inv, NEW c \in Client, Unsubscribe(c), UNCHANGED buildVars
  PROVE  Inv'
<1>1. TypeOK /\ BuildInv /\ ConnInv /\ DueInv /\ DoneInv /\ ChangesAnnounced
  BY DEF Inv
<1>2. <<>> \in Seq(Event) /\ Len(<<>>) = 0
  BY EmptySeq
<1>3. /\ chan' = [chan EXCEPT ![c] = <<>>] /\ told' = [told EXCEPT ![c] = 0]
      /\ lost' = lost \ {c} /\ subs' = subs \ {c}
      /\ conn' = [conn EXCEPT ![c] = "closed"] /\ UNCHANGED buildVars
  BY DEF Unsubscribe
<1>4. /\ chan'[c] = <<>> /\ told'[c] = 0 /\ conn'[c] = "closed"
      /\ \A d \in Client \ {c} :
           chan'[d] = chan[d] /\ told'[d] = told[d] /\ conn'[d] = conn[d]
           /\ (d \in lost' <=> d \in lost) /\ (d \in subs' <=> d \in subs)
      /\ UNCHANGED <<rev, due, main, state, stage, extra>>
  BY <1>1, <1>3 DEF TypeOK, buildVars
<1>5. TypeOK'
  BY <1>1, <1>2, <1>3, <1>4 DEF TypeOK, ConnAt
<1>6. BuildInv' /\ ConnInv' /\ DueInv'
  BY <1>1, <1>4 DEF BuildInv, ConnInv, DueInv
<1>7. DoneInv'
  BY <1>1, <1>2, <1>4 DEF DoneInv
<1>8. ChangesAnnounced'
  BY <1>1, <1>4 DEF ChangesAnnounced, Informed, Announcing, Behind
<1> QED
  BY <1>5, <1>6, <1>7, <1>8 DEF Inv

LEMMA InvStep == Inv /\ [Next]_vars => Inv'
<1> SUFFICES ASSUME Inv, [Next]_vars PROVE Inv'
  OBVIOUS
<1>1. CASE Build
  BY <1>1, RunBuildStep, StageStepBuildOnly, BuildOnlyKeepsInv, PublishStepKeepsInv
     DEF Build, RunBuild, StageStep
<1>2. ASSUME NEW c \in Client, Subscribe(c) \/ SendSnapshot(c)
      PROVE  Inv'
  BY <1>2, OpenKeepsInv
<1>3. ASSUME NEW c \in Client, Forward(c) \/ Leave(c)
      PROVE  Inv'
  BY <1>3, PassOnKeepsInv, UnsubscribeKeepsInv DEF Forward, Leave
<1>4. CASE UNCHANGED vars
  BY <1>4 DEF vars, buildVars, streamVars, Inv, TypeOK, BuildInv, ConnInv, DueInv, DoneInv,
              ChangesAnnounced, Informed, Announcing, Behind
<1> QED
  BY <1>1, <1>2, <1>3, <1>4 DEF Next, Handler

\* The invariant that the theorems below read off.
THEOREM InvHolds == Spec => []Inv
BY InvInit, InvStep, PTL DEF Spec

\* DoneIsLast speaks of the domain of a channel, the proofs count its places.
LEMMA ChannelDomain ==
  ASSUME TypeOK, NEW c \in Client
  PROVE  DOMAIN chan[c] = 1 .. Len(chan[c])
BY LenProperties DEF TypeOK

(***************************************************************************)
(* Type correctness: no channel ever holds more events than its capacity,  *)
(* for any capacity.                                                       *)
(***************************************************************************)
THEOREM TypeCorrect == Spec => []TypeOK
<1>1. Inv => TypeOK
  BY DEF Inv
<1> QED
  BY <1>1, InvHolds, PTL

(***************************************************************************)
(* Nothing follows done in the channel of any number of connections, and   *)
(* no stage of any number has anything left to announce.                   *)
(***************************************************************************)
THEOREM DoneIsLastHolds == Spec => []DoneIsLast
<1>1. Inv => DoneIsLast
  <2> SUFFICES ASSUME Inv PROVE DoneIsLast
    OBVIOUS
  <2>1. main = "over" => Behind = {}
    BY DEF Inv, BuildInv, Behind
  <2> QED
    BY <2>1, ChannelDomain DEF Inv, DoneInv, DoneIsLast
<1> QED
  BY <1>1, InvHolds, PTL

(***************************************************************************)
(* Between the snapshot and the events no change is missed, for any number *)
(* of pages, stages and changes: whoever lost no event knows of the newest *)
(* change that has one, or has it in the channel, or an event is still to  *)
(* come; and of all changes, once finishBuild has announced the end.       *)
(***************************************************************************)
THEOREM ChangesAnnouncedHolds == Spec => []ChangesAnnounced
<1>1. Inv => ChangesAnnounced
  BY DEF Inv
<1> QED
  BY <1>1, InvHolds, PTL
=============================================================================
