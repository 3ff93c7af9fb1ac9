--------------------------- MODULE LogPipelineProofs ---------------------------
(***************************************************************************)
(* Proofs about the log pipeline: type correctness, and that lines reach   *)
(* the file in order, under their server's name and without silent loss.   *)
(***************************************************************************)
EXTENDS LogPipeline, TLAPS

USE DEF Places, Endings, Reading

(* A line its writer is done with. *)
Settled(s, n) == Logged(s, n) \/ Failed(s, n)

(* There is one writer to a key: the one its sender leads to. *)
OneWriter ==
    /\ \A k \in LogKeys : senders[k] # None =>
          LogKey(senders[k]) = k /\ stage[senders[k]] # "absent"
    /\ ~ over => \A w \in Sources : stage[w] # "absent" => senders[LogKey(w)] = w

(* A source has taken up the line it has in hand, and sends it to the      *)
(* writer of its key.                                                      *)
LinesInHand ==
    \A s \in Sources :
        /\ Reading(s) => closing[s] = "no"
        /\ at[s] \in {"within", "holding", "sending"} => read[s] > 0
        /\ at[s] = "sending" => via[s] = senders[LogKey(s)]

(* Lines are queued at the writer of their source's key, while there is    *)
(* one to write them.                                                      *)
QueuedLines ==
    \A w \in Sources : \A i \in 1 .. Len(queue[w]) :
        LET l == queue[w][i] IN
        /\ senders[LogKey(l.source)] = w
        /\ stage[w] \in {"opening", "open"}
        /\ l.n \in 1 .. read[l.source]
        /\ ~ InHand(l.source, l.n)

QueueOrder ==
    \A w \in Sources : \A i, j \in 1 .. Len(queue[w]) :
        i < j /\ queue[w][i].source = queue[w][j].source =>
            queue[w][i].n < queue[w][j].n

(* Lines a writer is done with are no longer in hand, are older than the   *)
(* queued ones, and had a writer that opened its file.                     *)
SettledLines ==
    \A s \in Sources, n \in Nat : Settled(s, n) =>
        /\ n \in 1 .. read[s]
        /\ ~ InHand(s, n)
        /\ senders[LogKey(s)] # None
        /\ stage[senders[LogKey(s)]] = "open" \/ over
        /\ \A w \in Sources : \A i \in 1 .. Len(queue[w]) :
              queue[w][i].source = s => n < queue[w][i].n

FileOrder ==
    \A f \in Files : \A i, j \in 1 .. Len(file[f]) :
        i < j /\ file[f][i].source = file[f][j].source => file[f][i].n < file[f][j].n

(* Once fanin-mcp has exited nothing is on its way, and what had not       *)
(* arrived by then never will.                                             *)
NothingLeft ==
    over => \A s \in Sources : at[s] = "ended" /\ queue[s] = <<>>

(* A line that is in the log has every line before it settled, or cut off. *)
NoGap ==
    \A s \in Sources : \A n \in 1 .. read[s] : \A m \in 1 .. n - 1 :
        Settled(s, n) => Settled(s, m) \/ CutOff(s, m)

IInv ==
    /\ TypeOK
    /\ OneWriter /\ LinesInHand
    /\ QueuedLines /\ QueueOrder
    /\ SettledLines /\ FileOrder /\ NoGap
    /\ Attributed
    /\ NoSilentLoss
    /\ NothingLeft

-----------------------------------------------------------------------------
(* Sequences *)

(* What Append makes of a sequence, index by index. *)
LEMMA AppendIndex ==
    ASSUME NEW S, NEW q \in Seq(S), NEW e \in S
    PROVE  /\ Append(q, e) \in Seq(S)
           /\ Len(Append(q, e)) = Len(q) + 1
           /\ Append(q, e)[Len(q) + 1] = e
           /\ \A i \in 1 .. Len(q) : Append(q, e)[i] = q[i]
  OBVIOUS

(* What Head and Tail make of one. *)
LEMMA TailIndex ==
    ASSUME NEW S, NEW q \in Seq(S), q # <<>>
    PROVE  /\ Tail(q) \in Seq(S)
           /\ Head(q) \in S
           /\ Len(q) \in Nat /\ Len(q) > 0
           /\ Head(q) = q[1]
           /\ Len(Tail(q)) = Len(q) - 1
           /\ \A i \in 1 .. Len(q) - 1 : Tail(q)[i] = q[i + 1]
  OBVIOUS

-----------------------------------------------------------------------------
(* The invariant holds at the start. *)
LEMMA InvariantInit == Init => IInv
<1> SUFFICES ASSUME Init PROVE IInv
  OBVIOUS
<1> USE SourcesAssumption, ServersAssumption, BoundsAssumption DEF Init
<1>1. TypeOK
  <2>1. /\ pipe \in [Sources -> 0 .. PipeSize]
        /\ read \in [Sources -> Nat]
    OBVIOUS
  <2>2. /\ queue \in [Sources -> Seq(Line)]
        /\ \A w \in Sources : Len(queue[w]) <= Capacity
    OBVIOUS
  <2>3. file \in [Files -> Seq(Entry)]
    OBVIOUS
  <2>. QED
    BY <2>1, <2>2, <2>3 DEF TypeOK
<1>2. OneWriter /\ LinesInHand
  BY DEF OneWriter, LinesInHand, LogKeys
<1>3. QueuedLines /\ QueueOrder /\ FileOrder
  BY DEF QueuedLines, QueueOrder, FileOrder
<1>4. \A s \in Sources, n \in Nat : ~ Settled(s, n)
  BY DEF Settled, Logged, Failed, FileOf
<1>5. SettledLines /\ NoGap
  BY <1>4 DEF SettledLines, NoGap
<1>6. Attributed /\ NoSilentLoss /\ NothingLeft
  BY DEF Attributed, NoSilentLoss, NothingLeft
<1>. QED
  BY <1>1, <1>2, <1>3, <1>5, <1>6 DEF IInv

-----------------------------------------------------------------------------
(* Readings of the invariant that every step uses *)

(* Queued lines are lines. *)
LEMMA QueuedType ==
    ASSUME TypeOK, NEW w \in Sources, NEW i \in 1 .. Len(queue[w])
    PROVE  /\ queue[w][i] = [source |-> queue[w][i].source, n |-> queue[w][i].n]
           /\ queue[w][i].source \in Sources
           /\ queue[w][i].n \in Nat
<1>1. queue[w] \in Seq(Line)
  BY DEF TypeOK
<1>2. queue[w][i] \in Line
  BY <1>1
<1>. QED
  BY <1>2 DEF Line

(* Only a write settles a line. *)
LEMMA SettledSame ==
    ASSUME UNCHANGED <<file, unwritten>>
    PROVE  \A s, n : (Settled(s, n)' <=> Settled(s, n))
  BY DEF Settled, Logged, Failed, FileOf

(* Only a read cuts a line off.                                            *)
LEMMA CutOffSame ==
    ASSUME UNCHANGED <<read, closing, cut>>
    PROVE  \A s, n : (CutOff(s, n)' <=> CutOff(s, n))
  BY DEF CutOff

(* A line that was read is in hand, queued, settled or cut off while its   *)
(* writer can be written to.                                               *)
LEMMA WhereLinesAre ==
    ASSUME NoSilentLoss, ~ over, NEW s \in Sources, NEW n \in 1 .. read[s]
    PROVE  InHand(s, n) \/ Queued(s, n) \/ Settled(s, n) \/ WriterGone(s) \/ CutOff(s, n)
  BY DEF NoSilentLoss, Settled

-----------------------------------------------------------------------------
(* The steps *)

(* A source takes up a line, or a piece of one: it is the newest of its     *)
(* source, and the one it was within before, unless that is cut off.       *)
LEMMA TakeUpKeeps ==
    ASSUME IInv, ~ over,
           NEW s \in Sources, NEW number, NEW where \in {"within", "holding"},
           NEW ending \in Endings, where = "within" => ending = "no",
           TakeUp(s, number, where, ending),
           \/ number = Newest(s) /\ UNCHANGED cut
           \/ /\ number = read[s] + 1 /\ ending = "failed" /\ s \in Stderr
              /\ cut' = IF at[s] = "within" THEN cut \cup {s} ELSE cut,
           pipe' \in [Sources -> 0 .. PipeSize]
    PROVE  IInv'
<1> USE SourcesAssumption, ServersAssumption, BoundsAssumption DEF IInv
<1>0. /\ at' = [at EXCEPT ![s] = where]
      /\ read' = [read EXCEPT ![s] = number]
      /\ closing' = [closing EXCEPT ![s] = ending]
      /\ at[s] \in {"reading", "within"}
      /\ UNCHANGED <<via, senders, stage, queue, file, unwritten, over>>
  BY DEF TakeUp
<1>r. /\ read \in [Sources -> Nat]
      /\ number = read[s] + 1 \/ (number = read[s] /\ at[s] = "within")
      /\ number \in Nat /\ read[s] <= number
  BY <1>0 DEF TypeOK, Newest
<1>t. /\ at \in [Sources -> Places]
      /\ closing \in [Sources -> Endings]
      /\ \A r \in Sources : read[r] \in Nat /\ read'[r] \in Nat /\ read[r] <= read'[r]
  BY <1>0, <1>r DEF TypeOK
\* a line no longer in hand does not come back
<1>n. \A r \in Sources : \A n \in 1 .. read[r] : ~ InHand(r, n) => ~ InHand(r, n)'
  <2> SUFFICES ASSUME NEW r \in Sources, NEW n \in 1 .. read[r], ~ InHand(r, n)
               PROVE  ~ InHand(r, n)'
    OBVIOUS
  <2>1. CASE r # s
    BY <2>1, <1>0, <1>r, <1>t DEF InHand
  <2>2. CASE r = s
    <3>1. read'[s] = number
      BY <1>0, <1>r
    <3>2. n # number
      BY <2>2, <1>r DEF InHand
    <3>. QED
      BY <2>2, <3>1, <3>2 DEF InHand
  <2>. QED
    BY <2>1, <2>2
\* no source but s has a line cut off, and s had none
<1>c. /\ \A m : ~ CutOff(s, m)
      /\ \A r \in Sources \ {s} : \A m : (CutOff(r, m)' <=> CutOff(r, m))
  <2>1. closing[s] = "no"
    BY <1>0 DEF LinesInHand
  <2>2. \A r \in Sources \ {s} :
           read'[r] = read[r] /\ closing'[r] = closing[r] /\ (r \in cut' <=> r \in cut)
    BY <1>0, <1>r, <1>t
  <2>. QED
    BY <2>1, <2>2 DEF CutOff
<1>1. TypeOK'
  <2>1. read' \in [Sources -> Nat]
    BY <1>0, <1>r
  <2>2. at' \in [Sources -> Places]
    BY <1>0, <1>t
  <2>3. closing' \in [Sources -> Endings]
    BY <1>0, <1>t
  <2>4. \A r \in Sources : at'[r] = "sending" => via'[r] # None
    BY <1>0, <1>t DEF TypeOK
  <2>5. cut' \subseteq Stderr
    BY DEF TypeOK
  <2>. QED
    BY <1>0, <2>1, <2>2, <2>3, <2>4, <2>5 DEF TypeOK
<1>2. OneWriter'
  BY <1>0 DEF OneWriter, LogKeys
<1>3. LinesInHand'
  <2> SUFFICES ASSUME NEW r \in Sources
               PROVE  /\ Reading(r)' => closing'[r] = "no"
                      /\ at'[r] \in {"within", "holding", "sending"} => read'[r] > 0
                      /\ at'[r] = "sending" => via'[r] = senders'[LogKey(r)]
    BY DEF LinesInHand
  <2>1. CASE r # s
    BY <2>1, <1>0, <1>r, <1>t DEF LinesInHand
  <2>2. CASE r = s
    <3>1. number > 0
      BY <1>r DEF LinesInHand
    <3>. QED
      BY <2>2, <3>1, <1>0, <1>r, <1>t
  <2>. QED
    BY <2>1, <2>2
<1>4. QueuedLines'
  <2> SUFFICES ASSUME NEW w \in Sources, NEW i \in 1 .. Len(queue[w])
               PROVE  LET l == queue[w][i] IN
                      /\ senders[LogKey(l.source)] = w
                      /\ stage[w] \in {"opening", "open"}
                      /\ l.n \in 1 .. read'[l.source]
                      /\ ~ InHand(l.source, l.n)'
    BY <1>0 DEF QueuedLines
  <2> DEFINE l == queue[w][i]
  <2>1. /\ senders[LogKey(l.source)] = w
        /\ stage[w] \in {"opening", "open"}
        /\ l.n \in 1 .. read[l.source]
        /\ ~ InHand(l.source, l.n)
    BY DEF QueuedLines
  <2>2. l.source \in Sources
    BY QueuedType
  <2>3. ~ InHand(l.source, l.n)'
    BY <1>0, <2>1, <2>2, <1>n
  <2>4. l.n \in 1 .. read'[l.source]
    BY <2>1, <2>2, <1>t
  <2>. QED
    BY <2>1, <2>3, <2>4
<1>5. QueueOrder'
  BY <1>0 DEF QueueOrder
<1>6. SettledLines'
  <2> SUFFICES ASSUME NEW r \in Sources, NEW n \in Nat, Settled(r, n)
               PROVE  /\ n \in 1 .. read'[r]
                      /\ ~ InHand(r, n)'
                      /\ senders[LogKey(r)] # None
                      /\ stage[senders[LogKey(r)]] = "open" \/ over
                      /\ \A w \in Sources : \A i \in 1 .. Len(queue[w]) :
                            queue[w][i].source = r => n < queue[w][i].n
    BY <1>0, SettledSame DEF SettledLines
  <2>1. /\ n \in 1 .. read[r] /\ ~ InHand(r, n)
        /\ senders[LogKey(r)] # None
        /\ stage[senders[LogKey(r)]] = "open" \/ over
        /\ \A w \in Sources : \A i \in 1 .. Len(queue[w]) :
              queue[w][i].source = r => n < queue[w][i].n
    BY DEF SettledLines
  <2>2. n \in 1 .. read'[r]
    BY <2>1, <1>t
  <2>3. ~ InHand(r, n)'
    BY <2>1, <1>n
  <2>. QED
    BY <2>1, <2>2, <2>3
<1>7. FileOrder'
  BY <1>0 DEF FileOrder
<1>8. NoGap'
  <2> SUFFICES ASSUME NEW r \in Sources, NEW n \in 1 .. read'[r], NEW m \in 1 .. n - 1,
                      Settled(r, n)
               PROVE  Settled(r, m) \/ CutOff(r, m)'
    BY <1>0, SettledSame DEF NoGap
  <2>1. n \in 1 .. read[r]
    BY <1>t DEF SettledLines
  <2>. QED
    BY <2>1, <1>c DEF NoGap
<1>9. Attributed'
  BY <1>0 DEF Attributed
<1>10. NoSilentLoss'
  <2> SUFFICES ASSUME NEW r \in Sources, NEW n \in 1 .. read'[r]
               PROVE  InHand(r, n)' \/ Queued(r, n)' \/ Settled(r, n)' \/ WriterGone(r)' \/ CutOff(r, n)'
    BY DEF NoSilentLoss, Settled
  <2>1. CASE r = s /\ n = number
    <3>1. read'[s] = number /\ at'[s] = where
      BY <1>0, <1>r, <1>t
    <3>. QED
      BY <2>1, <3>1 DEF InHand
  <2>2. CASE r = s /\ n # number /\ InHand(s, n)
    <3>1. n = read[s] /\ at[s] = "within"
      BY <2>2, <1>0 DEF InHand
    <3>2. s \in cut' /\ ending = "failed" /\ number = n + 1
      BY <3>1, <2>2 DEF Newest
    <3>3. read'[s] = number /\ closing'[s] = ending
      BY <1>0, <1>r, <1>t
    <3>. QED
      BY <2>2, <3>2, <3>3 DEF CutOff
  <2>3. CASE ~ (r = s /\ (n = number \/ InHand(s, n)))
    <3>1. n \in 1 .. read[r]
      BY <2>3, <1>0, <1>r, <1>t
    <3>2. InHand(r, n) => InHand(r, n)'
      BY <2>3, <1>0, <1>r, <1>t DEF InHand
    <3>3. Queued(r, n) => Queued(r, n)'
      BY <1>0 DEF Queued
    <3>4. WriterGone(r) => WriterGone(r)'
      BY <1>0 DEF WriterGone
    <3>. QED
      BY <3>1, <3>2, <3>3, <3>4, <1>0, <1>c, SettledSame, WhereLinesAre
  <2>. QED
    BY <2>1, <2>2, <2>3
<1>11. NothingLeft'
  BY <1>0 DEF NothingLeft
<1>. QED
  BY <1>1, <1>2, <1>3, <1>4, <1>5, <1>6, <1>7, <1>8, <1>9, <1>10, <1>11 DEF IInv

(* A source gets its sender: the one writer of its key, or a new one. *)
LEMMA GetSenderKeeps ==
    ASSUME IInv, ~ over, NEW s \in Sources, GetSender(s)
    PROVE  IInv'
<1> USE SourcesAssumption, ServersAssumption, BoundsAssumption DEF IInv
<1>0. /\ at[s] = "holding"
      /\ at' = [at EXCEPT ![s] = "sending"]
      /\ UNCHANGED <<pipe, read, closing, cut, queue, file, unwritten, over>>
  BY DEF GetSender
<1>k. LogKey(s) \in LogKeys
  BY DEF LogKeys
<1>t. /\ at \in [Sources -> Places]
      /\ via \in [Sources -> Sources \cup {None}]
      /\ senders \in [LogKeys -> Sources \cup {None}]
      /\ stage \in [Sources -> {"absent", "opening", "open", "gone"}]
  BY DEF TypeOK
\* one writer more, or none
<1>m. \/ /\ senders[LogKey(s)] # None
         /\ via' = [via EXCEPT ![s] = senders[LogKey(s)]]
         /\ UNCHANGED <<senders, stage>>
      \/ /\ senders[LogKey(s)] = None
         /\ senders' = [senders EXCEPT ![LogKey(s)] = s]
         /\ stage' = [stage EXCEPT ![s] = "opening"]
         /\ via' = [via EXCEPT ![s] = s]
  BY DEF GetSender, MakeWriter
<1>a. senders[LogKey(s)] = None => stage[s] = "absent"
  BY DEF OneWriter
\* no writer there is loses its key or its stage
<1>o. /\ \A k \in LogKeys : senders[k] # None => senders'[k] = senders[k]
      /\ \A w \in Sources : stage[w] # "absent" => stage'[w] = stage[w]
  BY <1>m, <1>a, <1>k, <1>t
<1>v. /\ senders'[LogKey(s)] # None /\ via'[s] = senders'[LogKey(s)]
      /\ senders'[LogKey(s)] \in Sources
      /\ \A r \in Sources \ {s} : via'[r] = via[r] /\ at'[r] = at[r]
  BY <1>m, <1>k, <1>t, <1>0
<1>n. \A r \in Sources, n \in Nat : InHand(r, n)' <=> InHand(r, n)
  BY <1>0, <1>t DEF InHand
<1>1. TypeOK'
  <2>1. at' \in [Sources -> Places]
    BY <1>0, <1>t
  <2>2. via' \in [Sources -> Sources \cup {None}]
    BY <1>m, <1>k, <1>t
  <2>3. senders' \in [LogKeys -> Sources \cup {None}]
    BY <1>m, <1>k, <1>t
  <2>4. stage' \in [Sources -> {"absent", "opening", "open", "gone"}]
    BY <1>m, <1>t
  <2>5. \A r \in Sources : at'[r] = "sending" => via'[r] # None
    BY <1>v DEF TypeOK
  <2>. QED
    BY <1>0, <2>1, <2>2, <2>3, <2>4, <2>5 DEF TypeOK
<1>2. OneWriter'
  <2>1. ASSUME NEW k \in LogKeys, senders'[k] # None
        PROVE  LogKey(senders'[k]) = k /\ stage'[senders'[k]] # "absent"
    <3>1. CASE senders[k] # None
      BY <3>1, <1>o, <1>t DEF OneWriter
    <3>2. CASE senders[k] = None
      BY <3>2, <2>1, <1>m, <1>k, <1>t
    <3>. QED
      BY <3>1, <3>2
  <2>2. ASSUME NEW w \in Sources, stage'[w] # "absent"
        PROVE  senders'[LogKey(w)] = w
    <3>1. LogKey(w) \in LogKeys
      BY DEF LogKeys
    <3>2. CASE stage[w] # "absent"
      BY <3>1, <3>2, <1>o DEF OneWriter
    <3>3. CASE stage[w] = "absent"
      BY <3>1, <3>3, <2>2, <1>m, <1>t
    <3>. QED
      BY <3>2, <3>3
  <2>. QED
    BY <2>1, <2>2 DEF OneWriter
<1>3. LinesInHand'
  <2>0. \A r \in Sources : at'[r] \in {"within", "holding", "sending"} => read[r] > 0
    BY <1>0, <1>t DEF LinesInHand
  <2> SUFFICES ASSUME NEW r \in Sources, at'[r] = "sending"
               PROVE  via'[r] = senders'[LogKey(r)]
    BY <2>0, <1>0 DEF LinesInHand
  <2>1. CASE r = s
    BY <2>1, <1>v
  <2>2. CASE r # s
    <3>1. via[r] = senders[LogKey(r)] /\ via[r] # None
      BY <2>2, <1>v DEF LinesInHand, TypeOK
    <3>2. LogKey(r) \in LogKeys
      BY DEF LogKeys
    <3>. QED
      BY <2>2, <3>1, <3>2, <1>v, <1>o
  <2>. QED
    BY <2>1, <2>2
<1>4. QueuedLines'
  <2> SUFFICES ASSUME NEW w \in Sources, NEW i \in 1 .. Len(queue[w])
               PROVE  LET l == queue[w][i] IN
                      /\ senders'[LogKey(l.source)] = w
                      /\ stage'[w] \in {"opening", "open"}
                      /\ l.n \in 1 .. read[l.source]
                      /\ ~ InHand(l.source, l.n)'
    BY <1>0 DEF QueuedLines
  <2> DEFINE l == queue[w][i]
  <2>1. /\ senders[LogKey(l.source)] = w
        /\ stage[w] \in {"opening", "open"}
        /\ l.n \in 1 .. read[l.source]
        /\ ~ InHand(l.source, l.n)
    BY DEF QueuedLines
  <2>2. l.source \in Sources /\ l.n \in Nat
    BY QueuedType
  <2>3. LogKey(l.source) \in LogKeys
    BY <2>2 DEF LogKeys
  <2>4. senders'[LogKey(l.source)] = w /\ stage'[w] = stage[w]
    BY <2>1, <2>3, <1>o
  <2>5. ~ InHand(l.source, l.n)'
    BY <2>1, <2>2, <1>0, <1>t DEF InHand
  <2>. QED
    BY <2>1, <2>4, <2>5
<1>5. QueueOrder'
  BY <1>0 DEF QueueOrder
<1>6. SettledLines'
  <2> SUFFICES ASSUME NEW r \in Sources, NEW n \in Nat, Settled(r, n)
               PROVE  /\ n \in 1 .. read[r]
                      /\ ~ InHand(r, n)'
                      /\ senders'[LogKey(r)] # None
                      /\ stage'[senders'[LogKey(r)]] = "open" \/ over
                      /\ \A w \in Sources : \A i \in 1 .. Len(queue[w]) :
                            queue[w][i].source = r => n < queue[w][i].n
    BY <1>0, SettledSame DEF SettledLines
  <2>1. LogKey(r) \in LogKeys
    BY DEF LogKeys
  <2>2. /\ n \in 1 .. read[r] /\ ~ InHand(r, n)
        /\ senders[LogKey(r)] # None /\ stage[senders[LogKey(r)]] = "open"
        /\ \A w \in Sources : \A i \in 1 .. Len(queue[w]) :
              queue[w][i].source = r => n < queue[w][i].n
    BY DEF SettledLines
  <2>3. senders'[LogKey(r)] = senders[LogKey(r)] /\ senders[LogKey(r)] \in Sources
    BY <2>1, <2>2, <1>o, <1>t
  <2>4. stage'[senders[LogKey(r)]] = "open"
    BY <2>2, <2>3, <1>o
  <2>. QED
    BY <2>2, <2>3, <2>4, <1>n
<1>7. FileOrder'
  BY <1>0 DEF FileOrder
<1>8. NoGap'
  BY <1>0, SettledSame, CutOffSame DEF NoGap
<1>9. Attributed'
  BY <1>0 DEF Attributed
<1>10. NoSilentLoss'
  <2> SUFFICES ASSUME NEW r \in Sources, NEW n \in 1 .. read[r]
               PROVE  InHand(r, n)' \/ Queued(r, n)' \/ Settled(r, n)' \/ WriterGone(r)' \/ CutOff(r, n)'
    BY <1>0 DEF NoSilentLoss, Settled
  <2>1. n \in Nat
    OBVIOUS
  <2>2. Queued(r, n) => Queued(r, n)'
    BY <1>0 DEF Queued
  <2>3. WriterGone(r) => WriterGone(r)'
    <3>1. LogKey(r) \in LogKeys
      BY DEF LogKeys
    <3>. QED
      BY <3>1, <1>o, <1>t DEF WriterGone
  <2>. QED
    BY <2>1, <2>2, <2>3, <1>n, <1>0, SettledSame, CutOffSame, WhereLinesAre
<1>11. NothingLeft'
  BY <1>0 DEF NothingLeft
<1>. QED
  BY <1>1, <1>2, <1>3, <1>4, <1>5, <1>6, <1>7, <1>8, <1>9, <1>10, <1>11 DEF IInv

(* A line is sent: it comes after every line of its source. *)
LEMMA SendKeeps ==
    ASSUME IInv, ~ over, NEW s \in Sources, Send(s)
    PROVE  IInv'
<1> USE SourcesAssumption, ServersAssumption, BoundsAssumption DEF IInv
<1> DEFINE w == via[s]
<1> DEFINE new == [source |-> s, n |-> read[s]]
<1>0. /\ at[s] = "sending" /\ stage[w] # "gone" /\ Len(queue[w]) < Capacity
      /\ at' = [at EXCEPT ![s] = IF closing[s] = "no" THEN "reading" ELSE "ended"]
      /\ via' = [via EXCEPT ![s] = None]
      /\ queue' = [queue EXCEPT ![w] = Append(@, new)]
      /\ UNCHANGED <<pipe, read, closing, cut, senders, stage, file, unwritten, over>>
  BY DEF Send, LetGo, Room
<1>u. UNCHANGED <<read, senders, stage>>
  BY <1>0
<1>t. /\ at \in [Sources -> Places]
      /\ via \in [Sources -> Sources \cup {None}]
      /\ read \in [Sources -> Nat]
      /\ queue \in [Sources -> Seq(Line)]
      /\ read[s] \in Nat /\ read[s] > 0
      /\ w \in Sources /\ w = senders[LogKey(s)]
      /\ stage[w] \in {"opening", "open"}
  <2>1. w \in Sources /\ w = senders[LogKey(s)] /\ LogKey(s) \in LogKeys
    BY <1>0 DEF TypeOK, LinesInHand, LogKeys
  <2>2. stage[w] # "absent"
    BY <2>1 DEF OneWriter
  <2>. QED
    BY <1>0, <2>1, <2>2 DEF TypeOK, LinesInHand
<1>e. new \in Line
  BY <1>t DEF Line
<1>q. /\ Append(queue[w], new) \in Seq(Line)
      /\ Len(queue'[w]) = Len(queue[w]) + 1
      /\ queue'[w][Len(queue[w]) + 1] = new
      /\ \A i \in 1 .. Len(queue[w]) : queue'[w][i] = queue[w][i]
      /\ \A x \in Sources : x # w => queue'[x] = queue[x]
      /\ \A x \in Sources : Len(queue[x]) \in Nat
  <2>1. queue[w] \in Seq(Line) /\ queue'[w] = Append(queue[w], new)
    BY <1>0, <1>t
  <2>2. \A x \in Sources : x # w => queue'[x] = queue[x]
    BY <1>0, <1>t
  <2>3. \A x \in Sources : Len(queue[x]) \in Nat
    BY <1>t
  <2>. QED
    BY <2>1, <2>2, <2>3, <1>e, AppendIndex
\* the queues are what they were, with one line more
<1>i. \A x \in Sources : \A i \in 1 .. Len(queue'[x]) :
         \/ i \in 1 .. Len(queue[x]) /\ queue'[x][i] = queue[x][i]
         \/ x = w /\ i = Len(queue[w]) + 1 /\ queue'[x][i] = new
  BY <1>q
<1>n. \A r \in Sources, n \in Nat : InHand(r, n)' <=> InHand(r, n) /\ r # s
  BY <1>0, <1>t DEF InHand
<1>h. InHand(s, read[s])
  BY <1>0 DEF InHand
\* what is queued of s is older
<1>b. \A x \in Sources : \A i \in 1 .. Len(queue[x]) :
         queue[x][i].source = s => x = w /\ queue[x][i].n < read[s]
  <2> SUFFICES ASSUME NEW x \in Sources, NEW i \in 1 .. Len(queue[x]), queue[x][i].source = s
               PROVE  x = w /\ queue[x][i].n < read[s]
    OBVIOUS
  <2>1. x = w /\ queue[x][i].n \in 1 .. read[s] /\ ~ InHand(s, queue[x][i].n)
    BY <1>t DEF QueuedLines
  <2>. QED
    BY <2>1, <1>h, <1>t
<1>1. TypeOK'
  <2>1. at' \in [Sources -> Places]
    BY <1>0, <1>t
  <2>2. via' \in [Sources -> Sources \cup {None}]
    BY <1>0, <1>t
  <2>3. queue' \in [Sources -> Seq(Line)]
    BY <1>0, <1>t, <1>q
  <2>4. \A x \in Sources : Len(queue'[x]) <= Capacity
    BY <1>0, <1>q DEF TypeOK
  <2>5. \A r \in Sources : at'[r] = "sending" => via'[r] # None
    BY <1>0, <1>t DEF TypeOK
  <2>. QED
    BY <1>0, <2>1, <2>2, <2>3, <2>4, <2>5 DEF TypeOK
<1>2. OneWriter'
  BY <1>0 DEF OneWriter, LogKeys
<1>3. LinesInHand'
  BY <1>0, <1>t DEF LinesInHand
<1>4. QueuedLines'
  <2> SUFFICES ASSUME NEW x \in Sources, NEW i \in 1 .. Len(queue'[x])
               PROVE  LET l == queue'[x][i] IN
                      /\ senders[LogKey(l.source)] = x
                      /\ stage[x] \in {"opening", "open"}
                      /\ l.n \in 1 .. read[l.source]
                      /\ ~ (l.n = read[l.source] /\ at'[l.source] \in {"within", "holding", "sending"})
    BY <1>u DEF QueuedLines, InHand
  <2>1. CASE i \in 1 .. Len(queue[x]) /\ queue'[x][i] = queue[x][i]
    <3> DEFINE l == queue[x][i]
    <3>1. /\ senders[LogKey(l.source)] = x
          /\ stage[x] \in {"opening", "open"}
          /\ l.n \in 1 .. read[l.source]
          /\ ~ (l.n = read[l.source] /\ at[l.source] \in {"within", "holding", "sending"})
      BY <2>1 DEF QueuedLines, InHand
    <3>2. l.source \in Sources
      BY <2>1, QueuedType
    <3>3. at'[l.source] \in {"within", "holding", "sending"} => at[l.source] \in {"within", "holding", "sending"}
      BY <3>2, <1>0, <1>t
    <3>. QED
      BY <2>1, <3>1, <3>3
  <2>2. CASE x = w /\ queue'[x][i] = new
    BY <2>2, <1>t, <1>0
  <2>. QED
    BY <1>i, <2>1, <2>2
<1>5. QueueOrder'
  <2> SUFFICES ASSUME NEW x \in Sources,
                      NEW i \in 1 .. Len(queue'[x]), NEW j \in 1 .. Len(queue'[x]),
                      i < j, queue'[x][i].source = queue'[x][j].source
               PROVE  queue'[x][i].n < queue'[x][j].n
    BY DEF QueueOrder
  <2>1. i \in 1 .. Len(queue[x]) /\ queue'[x][i] = queue[x][i]
    BY <1>i, <1>q
  <2>2. CASE j \in 1 .. Len(queue[x]) /\ queue'[x][j] = queue[x][j]
    BY <2>1, <2>2 DEF QueueOrder
  <2>3. CASE x = w /\ queue'[x][j] = new
    BY <2>1, <2>3, <1>b
  <2>. QED
    BY <1>i, <2>2, <2>3
<1>6. SettledLines'
  <2> SUFFICES ASSUME NEW r \in Sources, NEW n \in Nat, Settled(r, n)
               PROVE  /\ n \in 1 .. read[r]
                      /\ ~ InHand(r, n)'
                      /\ senders[LogKey(r)] # None
                      /\ stage[senders[LogKey(r)]] = "open" \/ over
                      /\ \A x \in Sources : \A i \in 1 .. Len(queue'[x]) :
                            queue'[x][i].source = r => n < queue'[x][i].n
    BY <1>0, SettledSame DEF SettledLines
  <2>1. /\ n \in 1 .. read[r] /\ ~ InHand(r, n)
        /\ senders[LogKey(r)] # None /\ stage[senders[LogKey(r)]] = "open"
        /\ \A x \in Sources : \A i \in 1 .. Len(queue[x]) :
              queue[x][i].source = r => n < queue[x][i].n
    BY DEF SettledLines
  <2>2. r = s => n < read[s]
    BY <2>1, <1>h, <1>t
  <2>3. \A x \in Sources : \A i \in 1 .. Len(queue'[x]) :
          queue'[x][i].source = r => n < queue'[x][i].n
    <3> SUFFICES ASSUME NEW x \in Sources, NEW i \in 1 .. Len(queue'[x]),
                        queue'[x][i].source = r
                 PROVE  n < queue'[x][i].n
      OBVIOUS
    <3>1. CASE i \in 1 .. Len(queue[x]) /\ queue'[x][i] = queue[x][i]
      BY <3>1, <2>1
    <3>2. CASE queue'[x][i] = new
      BY <3>2, <2>2
    <3>. QED
      BY <3>1, <3>2, <1>i
  <2>. QED
    BY <2>1, <2>3, <1>n
<1>7. FileOrder'
  BY <1>0 DEF FileOrder
<1>8. NoGap'
  BY <1>0, SettledSame, CutOffSame DEF NoGap
<1>9. Attributed'
  BY <1>0 DEF Attributed
<1>10. NoSilentLoss'
  <2> SUFFICES ASSUME NEW r \in Sources, NEW n \in 1 .. read[r]
               PROVE  InHand(r, n)' \/ Queued(r, n)' \/ Settled(r, n)' \/ WriterGone(r)' \/ CutOff(r, n)'
    BY <1>0 DEF NoSilentLoss, Settled
  <2>1. CASE r = s /\ n = read[s]
    <3>1. Len(queue[w]) + 1 \in DOMAIN queue'[w] /\ queue'[w][Len(queue[w]) + 1] = new
      BY <1>q, <1>0, <1>t
    <3>. QED
      BY <2>1, <3>1, <1>0, <1>t DEF Queued
  <2>2. CASE ~ (r = s /\ n = read[s])
    <3>1. InHand(r, n) => InHand(r, n)'
      BY <2>2, <1>n DEF InHand
    <3>2. Queued(r, n) => Queued(r, n)'
      <4>1. \A x \in Sources : queue[x] \in Seq(Line) /\ queue'[x] \in Seq(Line)
        BY <1>0, <1>q, <1>t
      <4>2. \A x \in Sources : /\ DOMAIN queue[x] = 1 .. Len(queue[x])
                               /\ DOMAIN queue'[x] = 1 .. Len(queue'[x])
        BY <4>1
      <4>3. \A x \in Sources : \A i \in 1 .. Len(queue[x]) :
               i \in 1 .. Len(queue'[x]) /\ queue'[x][i] = queue[x][i]
        <5>1. \A i \in 1 .. Len(queue[w]) :
                 i \in 1 .. Len(queue'[w]) /\ queue'[w][i] = queue[w][i]
          BY <1>q, <1>t
        <5>2. \A x \in Sources \ {w} : queue'[x] = queue[x]
          BY <1>q
        <5>. QED
          BY <5>1, <5>2
      <4>4. \A x \in Sources : \A i \in DOMAIN queue[x] :
               i \in DOMAIN queue'[x] /\ queue'[x][i] = queue[x][i]
        BY <4>2, <4>3
      <4>. QED
        BY <4>4 DEF Queued
    <3>3. WriterGone(r) => WriterGone(r)'
      BY <1>0 DEF WriterGone
    <3>. QED
      BY <3>1, <3>2, <3>3, <1>0, SettledSame, CutOffSame, WhereLinesAre
  <2>. QED
    BY <2>1, <2>2
<1>11. NothingLeft'
  BY <1>0 DEF NothingLeft
<1>. QED
  BY <1>1, <1>2, <1>3, <1>4, <1>5, <1>6, <1>7, <1>8, <1>9, <1>10, <1>11 DEF IInv

(* A line is refused: the writer of its source is gone. *)
LEMMA SendRefusedKeeps ==
    ASSUME IInv, ~ over, NEW s \in Sources, SendRefused(s)
    PROVE  IInv'
<1> USE SourcesAssumption, ServersAssumption, BoundsAssumption DEF IInv
<1>0. /\ at[s] = "sending" /\ stage[via[s]] = "gone"
      /\ at' = [at EXCEPT ![s] = IF closing[s] = "no" THEN "reading" ELSE "ended"]
      /\ via' = [via EXCEPT ![s] = None]
      /\ UNCHANGED <<pipe, read, closing, cut, senders, stage, queue, file, unwritten, over>>
  BY DEF SendRefused, LetGo
<1>t. /\ at \in [Sources -> Places]
      /\ via \in [Sources -> Sources \cup {None}]
      /\ via[s] # None /\ via[s] = senders[LogKey(s)]
  BY <1>0 DEF TypeOK, LinesInHand
<1>n. \A r \in Sources, n \in Nat : InHand(r, n)' <=> InHand(r, n) /\ r # s
  BY <1>0, <1>t DEF InHand
<1>g. WriterGone(s)
  BY <1>0, <1>t DEF WriterGone
<1>1. TypeOK'
  <2>1. at' \in [Sources -> Places]
    BY <1>0, <1>t
  <2>2. via' \in [Sources -> Sources \cup {None}]
    BY <1>0, <1>t
  <2>3. \A r \in Sources : at'[r] = "sending" => via'[r] # None
    BY <1>0, <1>t DEF TypeOK
  <2>. QED
    BY <1>0, <2>1, <2>2, <2>3 DEF TypeOK
<1>2. OneWriter'
  BY <1>0 DEF OneWriter, LogKeys
<1>3. LinesInHand'
  BY <1>0, <1>t DEF LinesInHand
<1>4. QueuedLines'
  <2> SUFFICES ASSUME NEW w \in Sources, NEW i \in 1 .. Len(queue[w])
               PROVE  LET l == queue[w][i] IN
                      /\ senders[LogKey(l.source)] = w
                      /\ stage[w] \in {"opening", "open"}
                      /\ l.n \in 1 .. read[l.source]
                      /\ ~ (l.n = read[l.source] /\ at'[l.source] \in {"within", "holding", "sending"})
    BY <1>0 DEF QueuedLines, InHand
  <2> DEFINE l == queue[w][i]
  <2>1. /\ senders[LogKey(l.source)] = w
        /\ stage[w] \in {"opening", "open"}
        /\ l.n \in 1 .. read[l.source]
        /\ ~ (l.n = read[l.source] /\ at[l.source] \in {"within", "holding", "sending"})
    BY DEF QueuedLines, InHand
  <2>2. l.source \in Sources
    BY QueuedType
  <2>3. at'[l.source] \in {"within", "holding", "sending"} => at[l.source] \in {"within", "holding", "sending"}
    BY <2>2, <1>0, <1>t
  <2>. QED
    BY <2>1, <2>3
<1>5. QueueOrder'
  BY <1>0 DEF QueueOrder
<1>6. SettledLines'
  <2> SUFFICES ASSUME NEW r \in Sources, NEW n \in Nat, Settled(r, n)
               PROVE  /\ n \in 1 .. read[r]
                      /\ ~ InHand(r, n)'
                      /\ senders[LogKey(r)] # None
                      /\ stage[senders[LogKey(r)]] = "open" \/ over
                      /\ \A w \in Sources : \A i \in 1 .. Len(queue[w]) :
                            queue[w][i].source = r => n < queue[w][i].n
    BY <1>0, SettledSame DEF SettledLines
  <2>. QED
    BY <1>n DEF SettledLines
<1>7. FileOrder'
  BY <1>0 DEF FileOrder
<1>8. NoGap'
  BY <1>0, SettledSame, CutOffSame DEF NoGap
<1>9. Attributed'
  BY <1>0 DEF Attributed
<1>10. NoSilentLoss'
  <2> SUFFICES ASSUME NEW r \in Sources, NEW n \in 1 .. read[r]
               PROVE  InHand(r, n)' \/ Queued(r, n)' \/ Settled(r, n)' \/ WriterGone(r)' \/ CutOff(r, n)'
    BY <1>0 DEF NoSilentLoss, Settled
  <2>1. Queued(r, n) => Queued(r, n)'
    BY <1>0 DEF Queued
  <2>2. WriterGone(r) => WriterGone(r)'
    BY <1>0 DEF WriterGone
  <2>3. InHand(r, n) => InHand(r, n)' \/ WriterGone(r)
    BY <1>n, <1>g DEF InHand
  <2>. QED
    BY <2>1, <2>2, <2>3, <1>0, SettledSame, CutOffSame, WhereLinesAre
<1>11. NothingLeft'
  BY <1>0 DEF NothingLeft
<1>. QED
  BY <1>1, <1>2, <1>3, <1>4, <1>5, <1>6, <1>7, <1>8, <1>9, <1>10, <1>11 DEF IInv

(* A writer has opened its file. *)
LEMMA OpenFileKeeps ==
    ASSUME IInv, ~ over, NEW w \in Sources, OpenFile(w)
    PROVE  IInv'
<1> USE SourcesAssumption, ServersAssumption, BoundsAssumption DEF IInv
<1>0. /\ stage[w] = "opening"
      /\ stage' = [stage EXCEPT ![w] = "open"]
      /\ UNCHANGED <<pipe, read, at, closing, cut, via, senders, queue, file, unwritten, over>>
  BY DEF OpenFile
<1>t. /\ stage \in [Sources -> {"absent", "opening", "open", "gone"}]
      /\ senders \in [LogKeys -> Sources \cup {None}]
      /\ \A s \in Sources : LogKey(s) \in LogKeys
  BY DEF TypeOK, LogKeys
<1>n. \A r, n : InHand(r, n)' <=> InHand(r, n)
  BY <1>0 DEF InHand
<1>1. TypeOK'
  <2>1. stage' \in [Sources -> {"absent", "opening", "open", "gone"}]
    BY <1>0, <1>t
  <2>. QED
    BY <1>0, <2>1 DEF TypeOK
<1>2. OneWriter'
  BY <1>0, <1>t DEF OneWriter, LogKeys
<1>3. LinesInHand'
  BY <1>0 DEF LinesInHand
<1>4. QueuedLines'
  BY <1>0, <1>t DEF QueuedLines, InHand
<1>5. QueueOrder'
  BY <1>0 DEF QueueOrder
<1>6. SettledLines'
  <2> SUFFICES ASSUME NEW r \in Sources, NEW n \in Nat, Settled(r, n)
               PROVE  /\ n \in 1 .. read[r]
                      /\ ~ InHand(r, n)'
                      /\ senders[LogKey(r)] # None
                      /\ stage'[senders[LogKey(r)]] = "open" \/ over
                      /\ \A x \in Sources : \A i \in 1 .. Len(queue[x]) :
                            queue[x][i].source = r => n < queue[x][i].n
    BY <1>0, SettledSame DEF SettledLines
  <2>1. stage'[senders[LogKey(r)]] = "open"
    BY <1>0, <1>t DEF SettledLines
  <2>. QED
    BY <1>n, <2>1 DEF SettledLines
<1>7. FileOrder'
  BY <1>0 DEF FileOrder
<1>8. NoGap'
  BY <1>0, SettledSame, CutOffSame DEF NoGap
<1>9. Attributed'
  BY <1>0 DEF Attributed
<1>10. NoSilentLoss'
  <2> SUFFICES ASSUME NEW r \in Sources, NEW n \in 1 .. read[r]
               PROVE  InHand(r, n)' \/ Queued(r, n)' \/ Settled(r, n)' \/ WriterGone(r)' \/ CutOff(r, n)'
    BY <1>0 DEF NoSilentLoss, Settled
  <2>1. Queued(r, n) => Queued(r, n)'
    BY <1>0 DEF Queued
  <2>2. WriterGone(r) => WriterGone(r)'
    BY <1>0, <1>t DEF WriterGone
  <2>. QED
    BY <2>1, <2>2, <1>n, <1>0, SettledSame, CutOffSame, WhereLinesAre
<1>11. NothingLeft'
  BY <1>0 DEF NothingLeft
<1>. QED
  BY <1>1, <1>2, <1>3, <1>4, <1>5, <1>6, <1>7, <1>8, <1>9, <1>10, <1>11 DEF IInv

(* A writer could not open its file: it had settled nothing.  *)
LEMMA OpenFailsKeeps ==
    ASSUME IInv, ~ over, NEW w \in Sources, OpenFails(w)
    PROVE  IInv'
<1> USE SourcesAssumption, ServersAssumption, BoundsAssumption DEF IInv
<1>0. /\ stage[w] = "opening"
      /\ stage' = [stage EXCEPT ![w] = "gone"]
      /\ queue' = [queue EXCEPT ![w] = <<>>]
      /\ UNCHANGED <<pipe, read, at, closing, cut, via, senders, file, unwritten, over>>
  BY DEF OpenFails
<1>t. /\ stage \in [Sources -> {"absent", "opening", "open", "gone"}]
      /\ queue \in [Sources -> Seq(Line)]
      /\ senders \in [LogKeys -> Sources \cup {None}]
      /\ \A s \in Sources : LogKey(s) \in LogKeys
  BY DEF TypeOK, LogKeys
<1>q. /\ Len(queue'[w]) = 0
      /\ \A x \in Sources : x # w => queue'[x] = queue[x] /\ stage'[x] = stage[x]
      /\ stage'[w] = "gone"
  BY <1>0, <1>t
<1>n. \A r, n : InHand(r, n)' <=> InHand(r, n)
  BY <1>0 DEF InHand
<1>1. TypeOK'
  <2>1. stage' \in [Sources -> {"absent", "opening", "open", "gone"}]
    BY <1>0, <1>t
  <2>2. <<>> \in Seq(Line)
    OBVIOUS
  <2>3. queue' \in [Sources -> Seq(Line)]
    BY <1>0, <1>t, <2>2
  <2>4. \A x \in Sources : Len(queue'[x]) <= Capacity
    <3>1. \A x \in Sources : Len(queue[x]) <= Capacity
      BY DEF TypeOK
    <3>. QED
      BY <3>1, <1>q
  <2>. QED
    BY <1>0, <2>1, <2>3, <2>4 DEF TypeOK
<1>2. OneWriter'
  BY <1>0, <1>t DEF OneWriter, LogKeys
<1>3. LinesInHand'
  BY <1>0 DEF LinesInHand
<1>4. QueuedLines'
  <2> SUFFICES ASSUME NEW x \in Sources, NEW i \in 1 .. Len(queue'[x])
               PROVE  LET l == queue'[x][i] IN
                      /\ senders[LogKey(l.source)] = x
                      /\ stage'[x] \in {"opening", "open"}
                      /\ l.n \in 1 .. read[l.source]
                      /\ ~ (l.n = read[l.source] /\ at[l.source] \in {"within", "holding", "sending"})
    BY <1>0 DEF QueuedLines, InHand
  <2>1. x # w /\ queue'[x] = queue[x] /\ stage'[x] = stage[x]
    BY <1>q
  <2>. QED
    BY <2>1 DEF QueuedLines, InHand
<1>5. QueueOrder'
  <2> SUFFICES ASSUME NEW x \in Sources,
                      NEW i \in 1 .. Len(queue'[x]), NEW j \in 1 .. Len(queue'[x]),
                      i < j, queue'[x][i].source = queue'[x][j].source
               PROVE  queue'[x][i].n < queue'[x][j].n
    BY DEF QueueOrder
  <2>1. x # w /\ queue'[x] = queue[x]
    BY <1>q
  <2>. QED
    BY <2>1 DEF QueueOrder
<1>6. SettledLines'
  <2> SUFFICES ASSUME NEW r \in Sources, NEW n \in Nat, Settled(r, n)
               PROVE  /\ n \in 1 .. read[r]
                      /\ ~ InHand(r, n)'
                      /\ senders[LogKey(r)] # None
                      /\ stage'[senders[LogKey(r)]] = "open" \/ over
                      /\ \A x \in Sources : \A i \in 1 .. Len(queue'[x]) :
                            queue'[x][i].source = r => n < queue'[x][i].n
    BY <1>0, SettledSame DEF SettledLines
  <2>1. /\ n \in 1 .. read[r] /\ ~ InHand(r, n)
        /\ senders[LogKey(r)] # None /\ stage[senders[LogKey(r)]] = "open"
        /\ \A x \in Sources : \A i \in 1 .. Len(queue[x]) :
              queue[x][i].source = r => n < queue[x][i].n
    BY DEF SettledLines
  <2>2. senders[LogKey(r)] \in Sources \ {w}
    BY <2>1, <1>0, <1>t
  <2>3. stage'[senders[LogKey(r)]] = "open"
    BY <2>1, <2>2, <1>q
  <2>4. \A x \in Sources : \A i \in 1 .. Len(queue'[x]) :
          queue'[x][i].source = r => n < queue'[x][i].n
    BY <2>1, <1>q
  <2>. QED
    BY <1>n, <2>1, <2>3, <2>4
<1>7. FileOrder'
  BY <1>0 DEF FileOrder
<1>8. NoGap'
  BY <1>0, SettledSame, CutOffSame DEF NoGap
<1>9. Attributed'
  BY <1>0 DEF Attributed
<1>10. NoSilentLoss'
  <2> SUFFICES ASSUME NEW r \in Sources, NEW n \in 1 .. read[r]
               PROVE  InHand(r, n)' \/ Queued(r, n)' \/ Settled(r, n)' \/ WriterGone(r)' \/ CutOff(r, n)'
    BY <1>0 DEF NoSilentLoss, Settled
  <2>1. WriterGone(r) => WriterGone(r)'
    BY <1>0, <1>t DEF WriterGone
  <2>2. Queued(r, n) => Queued(r, n)' \/ WriterGone(r)'
    <3> SUFFICES ASSUME NEW x \in Sources, NEW i \in DOMAIN queue[x],
                        queue[x][i] = [source |-> r, n |-> n]
                 PROVE  Queued(r, n)' \/ WriterGone(r)'
      BY DEF Queued
    <3>1. CASE x = w
      <4>1. i \in 1 .. Len(queue[x]) /\ queue[x][i].source = r
        BY <1>t
      <4>2. senders[LogKey(r)] = w
        BY <3>1, <4>1 DEF QueuedLines
      <4>. QED
        BY <4>2, <1>0, <1>q DEF WriterGone
    <3>2. CASE x # w
      BY <3>2, <1>q DEF Queued
    <3>. QED
      BY <3>1, <3>2
  <2>. QED
    BY <2>1, <2>2, <1>n, <1>0, SettledSame, CutOffSame, WhereLinesAre
<1>11. NothingLeft'
  BY <1>0 DEF NothingLeft
<1>. QED
  BY <1>1, <1>2, <1>3, <1>4, <1>5, <1>6, <1>7, <1>8, <1>9, <1>10, <1>11 DEF IInv

(* A writer takes the first line of its channel and is done with it,       *)
(* written or not: it is the oldest of its source there.                   *)
LEMMA ReceiveKeeps ==
    ASSUME IInv, ~ over, NEW w \in Sources, Receive(w),
           \A r \in Sources, n \in Nat :
              Settled(r, n)' <=> Settled(r, n) \/ [source |-> r, n |-> n] = queue[w][1]
    PROVE  /\ queue' \in [Sources -> Seq(Line)]
           /\ \A x \in Sources : Len(queue'[x]) <= Capacity
           /\ OneWriter' /\ LinesInHand' /\ QueuedLines' /\ QueueOrder'
           /\ SettledLines' /\ NoGap' /\ NoSilentLoss' /\ NothingLeft'
<1> USE SourcesAssumption, ServersAssumption, BoundsAssumption DEF IInv
<1>0. /\ stage[w] = "open" /\ queue[w] # <<>>
      /\ queue' = [queue EXCEPT ![w] = Tail(@)]
      /\ UNCHANGED <<pipe, read, at, closing, cut, via, senders, stage, over>>
  BY DEF Receive
<1>t. /\ queue \in [Sources -> Seq(Line)] /\ queue[w] \in Seq(Line)
      /\ senders \in [LogKeys -> Sources \cup {None}]
      /\ \A s \in Sources : LogKey(s) \in LogKeys
      /\ \A x \in Sources : Len(queue[x]) \in Nat
  BY DEF TypeOK, LogKeys
<1>q. /\ Tail(queue[w]) \in Seq(Line)
      /\ queue'[w] = Tail(queue[w])
      /\ Len(queue[w]) > 0 /\ Len(queue'[w]) = Len(queue[w]) - 1
      /\ \A i \in 1 .. Len(queue[w]) - 1 : queue'[w][i] = queue[w][i + 1]
      /\ \A x \in Sources : x # w => queue'[x] = queue[x]
  <2>1. queue'[w] = Tail(queue[w])
    BY <1>0, <1>t
  <2>2. \A x \in Sources : x # w => queue'[x] = queue[x]
    BY <1>0, <1>t
  <2>. QED
    BY <2>1, <2>2, <1>0, <1>t, TailIndex
\* a queue is what it was from the next line on, or from the same
<1>i. \A x \in Sources : \E d \in {0, 1} :
         \A i \in 1 .. Len(queue'[x]) :
            /\ i + d \in 1 .. Len(queue[x])
            /\ queue'[x][i] = queue[x][i + d]
            /\ x = w => d = 1
  <2> SUFFICES ASSUME NEW x \in Sources
               PROVE  \E d \in {0, 1} : \A i \in 1 .. Len(queue'[x]) :
                         /\ i + d \in 1 .. Len(queue[x])
                         /\ queue'[x][i] = queue[x][i + d]
                         /\ x = w => d = 1
    OBVIOUS
  <2>1. CASE x = w
    <3>1. \A i \in 1 .. Len(queue'[x]) :
             i + 1 \in 1 .. Len(queue[x]) /\ queue'[x][i] = queue[x][i + 1]
      BY <2>1, <1>q, <1>t
    <3>. QED
      BY <3>1
  <2>2. CASE x # w
    <3>1. queue'[x] = queue[x]
      BY <2>2, <1>q
    <3>2. \A i \in 1 .. Len(queue[x]) : i + 0 = i
      OBVIOUS
    <3>. QED
      BY <2>2, <3>1, <3>2
  <2>. QED
    BY <2>1, <2>2
<1>n. \A r, n : InHand(r, n)' <=> InHand(r, n)
  BY <1>0 DEF InHand
<1> DEFINE s == queue[w][1].source
<1> DEFINE k == queue[w][1].n
<1>h. /\ 1 \in 1 .. Len(queue[w])
      /\ s \in Sources /\ k \in Nat
      /\ queue[w][1] = [source |-> s, n |-> k]
      /\ senders[LogKey(s)] = w
      /\ k \in 1 .. read[s]
      /\ ~ InHand(s, k)
  <2>1. 1 \in 1 .. Len(queue[w])
    BY <1>q, <1>t
  <2>2. s \in Sources /\ k \in Nat /\ queue[w][1] = [source |-> s, n |-> k]
    BY <2>1, QueuedType
  <2>3. senders[LogKey(s)] = w /\ k \in 1 .. read[s] /\ ~ InHand(s, k)
    BY <2>1 DEF QueuedLines
  <2>. QED
    BY <2>1, <2>2, <2>3
<1>s. \A r \in Sources, n \in Nat :
         Settled(r, n)' <=> Settled(r, n) \/ (r = s /\ n = k)
  <2> SUFFICES ASSUME NEW r \in Sources, NEW n \in Nat
               PROVE  Settled(r, n)' <=> Settled(r, n) \/ (r = s /\ n = k)
    OBVIOUS
  <2> DEFINE line == [source |-> r, n |-> n]
  <2>1. line = queue[w][1] <=> r = s /\ n = k
    <3>1. line.source = r /\ line.n = n
      OBVIOUS
    <3>2. line = queue[w][1] => r = s /\ n = k
      BY <3>1
    <3>3. r = s /\ n = k => line = queue[w][1]
      BY <1>h
    <3>. QED
      BY <3>2, <3>3
  <2>. QED
    BY <2>1
<1>1. queue' \in [Sources -> Seq(Line)]
  BY <1>0, <1>t, <1>q
<1>2. \A x \in Sources : Len(queue'[x]) <= Capacity
  <2>1. \A x \in Sources : Len(queue[x]) <= Capacity
    BY DEF TypeOK
  <2>2. Len(queue'[w]) <= Capacity
    BY <2>1, <1>q, <1>t
  <2>. QED
    BY <2>1, <2>2, <1>q
<1>3. OneWriter' /\ LinesInHand'
  BY <1>0 DEF OneWriter, LinesInHand, LogKeys
<1>4. QueuedLines'
  <2> SUFFICES ASSUME NEW x \in Sources, NEW i \in 1 .. Len(queue'[x])
               PROVE  LET l == queue'[x][i] IN
                      /\ senders[LogKey(l.source)] = x
                      /\ stage[x] \in {"opening", "open"}
                      /\ l.n \in 1 .. read[l.source]
                      /\ ~ InHand(l.source, l.n)
    BY <1>0, <1>n DEF QueuedLines
  <2>1. PICK j \in 1 .. Len(queue[x]) : queue'[x][i] = queue[x][j]
    BY <1>i
  <2>. QED
    BY <2>1 DEF QueuedLines, InHand
<1>5. QueueOrder'
  <2> SUFFICES ASSUME NEW x \in Sources,
                      NEW i \in 1 .. Len(queue'[x]), NEW j \in 1 .. Len(queue'[x]),
                      i < j, queue'[x][i].source = queue'[x][j].source
               PROVE  queue'[x][i].n < queue'[x][j].n
    BY DEF QueueOrder
  <2>1. PICK d \in {0, 1} : \A m \in 1 .. Len(queue'[x]) :
            m + d \in 1 .. Len(queue[x]) /\ queue'[x][m] = queue[x][m + d]
    BY <1>i
  <2>2. i + d \in 1 .. Len(queue[x]) /\ queue'[x][i] = queue[x][i + d]
    BY <2>1
  <2>3. j + d \in 1 .. Len(queue[x]) /\ queue'[x][j] = queue[x][j + d]
    BY <2>1
  <2>4. i + d < j + d
    BY <1>t, <1>1
  <2>5. queue[x][i + d].source = queue[x][j + d].source
    BY <2>2, <2>3
  <2>6. queue[x][i + d].n < queue[x][j + d].n
    BY <2>2, <2>3, <2>4, <2>5 DEF QueueOrder
  <2>. QED
    BY <2>2, <2>3, <2>6
\* what stays queued of s is newer
<1>y. \A x \in Sources : \A i \in 1 .. Len(queue'[x]) :
         queue'[x][i].source = s => k < queue'[x][i].n
  <2> SUFFICES ASSUME NEW x \in Sources, NEW i \in 1 .. Len(queue'[x]),
                      queue'[x][i].source = s
               PROVE  k < queue'[x][i].n
    OBVIOUS
  <2>1. PICK d \in {0, 1} : /\ i + d \in 1 .. Len(queue[x])
                            /\ queue'[x][i] = queue[x][i + d]
                            /\ x = w => d = 1
    BY <1>i
  <2>2. senders[LogKey(queue[x][i + d].source)] = x
    BY <2>1 DEF QueuedLines
  <2>3. x = w
    BY <2>1, <2>2, <1>h
  <2>4. i + d \in 1 .. Len(queue[w]) /\ 1 < i + d
    BY <2>1, <2>3
  <2>5. queue[w][1].n < queue[w][i + d].n
    BY <2>1, <2>3, <2>4, <1>h DEF QueueOrder
  <2>. QED
    BY <2>1, <2>3, <2>5
<1>6. SettledLines'
  <2> SUFFICES ASSUME NEW r \in Sources, NEW n \in Nat, Settled(r, n)'
               PROVE  /\ n \in 1 .. read[r]
                      /\ ~ InHand(r, n)'
                      /\ senders[LogKey(r)] # None
                      /\ stage[senders[LogKey(r)]] = "open" \/ over
                      /\ \A x \in Sources : \A i \in 1 .. Len(queue'[x]) :
                            queue'[x][i].source = r => n < queue'[x][i].n
    BY <1>0 DEF SettledLines
  <2>1. CASE Settled(r, n)
    <3>1. /\ n \in 1 .. read[r] /\ ~ InHand(r, n)
          /\ senders[LogKey(r)] # None /\ stage[senders[LogKey(r)]] = "open"
          /\ \A x \in Sources : \A i \in 1 .. Len(queue[x]) :
                queue[x][i].source = r => n < queue[x][i].n
      BY <2>1 DEF SettledLines
    <3>2. ASSUME NEW x \in Sources, NEW i \in 1 .. Len(queue'[x]), queue'[x][i].source = r
          PROVE  n < queue'[x][i].n
      <4>1. PICK j \in 1 .. Len(queue[x]) : queue'[x][i] = queue[x][j]
        BY <1>i
      <4>. QED
        BY <3>1, <3>2, <4>1
    <3>. QED
      BY <3>1, <3>2, <1>n
  <2>2. CASE r = s /\ n = k
    BY <2>2, <1>h, <1>y, <1>n, <1>0
  <2>. QED
    BY <2>1, <2>2, <1>s
<1>7. NoGap'
  <2> SUFFICES ASSUME NEW r \in Sources, NEW n \in 1 .. read[r], NEW m \in 1 .. n - 1,
                      Settled(r, n)'
               PROVE  Settled(r, m)' \/ CutOff(r, m)'
    BY <1>0 DEF NoGap
  <2>0. read[r] \in Nat /\ n \in Nat /\ m \in Nat /\ m < n /\ m \in 1 .. read[r]
    BY DEF TypeOK
  <2>1. CASE Settled(r, n)
    BY <2>0, <2>1, <1>s, <1>0, CutOffSame DEF NoGap
  <2>2. CASE r = s /\ n = k
    <3>1. ~ InHand(r, m)
      BY <2>0, <2>2 DEF InHand
    <3>2. ~ WriterGone(r)
      BY <2>2, <1>h, <1>0 DEF WriterGone
    <3>3. ~ Queued(r, m)
      <4> SUFFICES ASSUME NEW x \in Sources, NEW i \in DOMAIN queue[x],
                          queue[x][i] = [source |-> r, n |-> m]
                   PROVE  FALSE
        BY DEF Queued
      <4>1. i \in 1 .. Len(queue[x]) /\ queue[x][i].source = s /\ queue[x][i].n = m
        BY <2>2, <1>t
      <4>2. x = w
        BY <4>1, <1>h DEF QueuedLines
      <4>3. i = 1 \/ 1 < i
        BY <4>1
      <4>4. 1 < i => k < m
        BY <4>1, <4>2, <1>h DEF QueueOrder
      <4>. QED
        BY <4>1, <4>2, <4>3, <4>4, <2>0, <2>2
    <3>4. Settled(r, m) \/ CutOff(r, m)
      BY <3>1, <3>2, <3>3, <2>0, WhereLinesAre
    <3>. QED
      BY <3>4, <2>0, <1>s, <1>0, CutOffSame
  <2>. QED
    BY <2>0, <2>1, <2>2, <1>s
<1>8. NoSilentLoss'
  <2> SUFFICES ASSUME NEW r \in Sources, NEW n \in 1 .. read[r]
               PROVE  InHand(r, n)' \/ Queued(r, n)' \/ Settled(r, n)' \/ WriterGone(r)' \/ CutOff(r, n)'
    BY <1>0 DEF NoSilentLoss, Settled
  <2>0. n \in Nat
    OBVIOUS
  <2>1. WriterGone(r) => WriterGone(r)'
    BY <1>0 DEF WriterGone
  <2>2. Queued(r, n) => Queued(r, n)' \/ Settled(r, n)'
    <3> SUFFICES ASSUME NEW x \in Sources, NEW i \in DOMAIN queue[x],
                        queue[x][i] = [source |-> r, n |-> n]
                 PROVE  Queued(r, n)' \/ Settled(r, n)'
      BY DEF Queued
    <3>0. i \in 1 .. Len(queue[x])
      BY <1>t
    <3>1. CASE x # w
      BY <3>1, <1>q DEF Queued
    <3>2. CASE x = w /\ i = 1
      BY <3>2, <2>0, <1>h, <1>s
    <3>3. CASE x = w /\ i # 1
      <4>1. i - 1 \in 1 .. Len(queue[w]) - 1 /\ (i - 1) + 1 = i
        BY <3>0, <3>3, <1>t
      <4>2. queue'[w][i - 1] = queue[w][i]
        BY <4>1, <1>q
      <4>3. i - 1 \in DOMAIN queue'[w]
        BY <4>1, <1>1, <1>q
      <4>. QED
        BY <3>3, <4>2, <4>3 DEF Queued
    <3>. QED
      BY <3>1, <3>2, <3>3
  <2>3. Settled(r, n) => Settled(r, n)'
    BY <2>0, <1>s
  <2>. QED
    BY <2>1, <2>2, <2>3, <1>n, <1>0, CutOffSame, WhereLinesAre
<1>9. NothingLeft'
  BY <1>0 DEF NothingLeft
<1>. QED
  BY <1>1, <1>2, <1>3, <1>4, <1>5, <1>6, <1>7, <1>8, <1>9

(* A line is written, under the name of the server that both its source    *)
(* and its writer belong to.                                               *)
LEMMA WriteLineKeeps ==
    ASSUME IInv, ~ over, NEW w \in Sources, WriteLine(w)
    PROVE  IInv'
<1> USE SourcesAssumption, ServersAssumption, BoundsAssumption DEF IInv
<1> DEFINE f == LogFile[Server[w]]
<1> DEFINE s == queue[w][1].source
<1> DEFINE k == queue[w][1].n
<1> DEFINE e == [prefix |-> Server[w], source |-> s, n |-> k]
<1>0. /\ stage[w] = "open" /\ queue[w] # <<>> /\ queue[w] \in Seq(Line)
      /\ UNCHANGED <<pipe, read, at, closing, cut, via, senders, stage, over, unwritten>>
  BY DEF WriteLine, Receive, TypeOK
<1>h. /\ Head(queue[w]) = queue[w][1]
      /\ queue[w][1] = [source |-> s, n |-> k]
      /\ s \in Sources /\ k \in Nat
      /\ Server[w] = Server[s]
      /\ Settled(s, k) => FALSE
      /\ \A n \in Nat : Settled(s, n) => n < k
  <2>1. Head(queue[w]) = queue[w][1] /\ 1 \in 1 .. Len(queue[w])
    BY <1>0, TailIndex
  <2>2. s \in Sources /\ k \in Nat /\ queue[w][1] = [source |-> s, n |-> k]
    BY <2>1, QueuedType
  <2>3. senders[LogKey(s)] = w /\ LogKey(s) \in LogKeys
    BY <2>1, <2>2 DEF QueuedLines, LogKeys
  <2>4. LogKey(w) = LogKey(s)
    BY <2>3 DEF OneWriter, TypeOK
  <2>5. Server[w] = Server[s]
    BY <2>4 DEF LogKey
  <2>6. \A n \in Nat : Settled(s, n) => n < k
    BY <2>1, <2>2 DEF SettledLines
  <2>. QED
    BY <2>1, <2>2, <2>5, <2>6
<1>f. /\ f \in Files /\ e \in Entry
      /\ file \in [Files -> Seq(Entry)] /\ file[f] \in Seq(Entry)
      /\ file' = [file EXCEPT ![f] = Append(@, e)]
  <2>1. f \in Files /\ e \in Entry
    BY <1>h DEF Entry
  <2>. QED
    BY <2>1, <1>h DEF WriteLine, TypeOK
<1>g. /\ Append(file[f], e) \in Seq(Entry)
      /\ Len(file[f]) \in Nat /\ Len(file'[f]) = Len(file[f]) + 1
      /\ file'[f][Len(file[f]) + 1] = e
      /\ \A i \in 1 .. Len(file[f]) : file'[f][i] = file[f][i]
      /\ \A g \in Files : g # f => file'[g] = file[g]
  <2>1. file'[f] = Append(file[f], e)
    BY <1>f
  <2>2. \A g \in Files : g # f => file'[g] = file[g]
    BY <1>f
  <2>. QED
    BY <2>1, <2>2, <1>f, AppendIndex
\* the files are what they were, with one line more
<1>i. \A g \in Files : \A i \in 1 .. Len(file'[g]) :
         \/ i \in 1 .. Len(file[g]) /\ file'[g][i] = file[g][i]
         \/ g = f /\ i = Len(file[f]) + 1 /\ file'[g][i] = e
  BY <1>g
<1>j. file' \in [Files -> Seq(Entry)]
  BY <1>f, <1>g
<1>s. \A r \in Sources, n \in Nat :
         Settled(r, n)' <=> Settled(r, n) \/ [source |-> r, n |-> n] = queue[w][1]
  <2> SUFFICES ASSUME NEW r \in Sources, NEW n \in Nat
               PROVE  Settled(r, n)' <=> Settled(r, n) \/ [source |-> r, n |-> n] = queue[w][1]
    OBVIOUS
  <2> DEFINE g == LogFile[Server[r]]
  <2>0. /\ g \in Files
        /\ DOMAIN file[g] = 1 .. Len(file[g]) /\ DOMAIN file'[g] = 1 .. Len(file'[g])
    BY <1>f, <1>j
  <2>1. ASSUME Logged(r, n)' PROVE Logged(r, n) \/ (r = s /\ n = k)
    <3>1. PICK i \in 1 .. Len(file'[g]) : file'[g][i].source = r /\ file'[g][i].n = n
      BY <2>0, <2>1 DEF Logged, FileOf
    <3>2. CASE i \in 1 .. Len(file[g]) /\ file'[g][i] = file[g][i]
      BY <3>1, <3>2, <2>0 DEF Logged, FileOf
    <3>3. CASE file'[g][i] = e
      BY <3>1, <3>3
    <3>. QED
      BY <2>0, <3>2, <3>3, <1>i
  <2>2. ASSUME Logged(r, n) PROVE Logged(r, n)'
    <3>1. PICK i \in 1 .. Len(file[g]) : file[g][i].source = r /\ file[g][i].n = n
      BY <2>0, <2>2 DEF Logged, FileOf
    <3>2. i \in 1 .. Len(file'[g]) /\ file'[g][i] = file[g][i]
      <4>1. CASE g = f
        BY <4>1, <1>g
      <4>2. CASE g # f
        BY <4>2, <2>0, <1>g
      <4>. QED
        BY <4>1, <4>2
    <3>. QED
      BY <3>1, <3>2, <2>0 DEF Logged, FileOf
  <2>3. ASSUME r = s, n = k PROVE Logged(r, n)'
    <3>1. g = f
      BY <2>3, <1>h
    <3>2. Len(file[f]) + 1 \in 1 .. Len(file'[f])
      BY <1>g
    <3>3. Len(file[f]) + 1 \in DOMAIN file'[g]
      BY <3>1, <3>2, <2>0
    <3>4. file'[g][Len(file[f]) + 1] = e
      BY <3>1, <1>g
    <3>5. e.source = r /\ e.n = n
      BY <2>3
    <3>. QED
      BY <3>3, <3>4, <3>5 DEF Logged, FileOf
  <2> DEFINE line == [source |-> r, n |-> n]
  <2>4. line.source = r /\ line.n = n
    OBVIOUS
  <2>5. line = queue[w][1] <=> r = s /\ n = k
    BY <2>4, <1>h
  <2>6. Failed(r, n)' <=> Failed(r, n)
    BY <1>0 DEF Failed
  <2>. QED
    BY <2>1, <2>2, <2>3, <2>5, <2>6 DEF Settled
<1>r. Receive(w)
  BY DEF WriteLine
<1>2. /\ queue' \in [Sources -> Seq(Line)]
      /\ \A x \in Sources : Len(queue'[x]) <= Capacity
      /\ OneWriter' /\ LinesInHand' /\ QueuedLines' /\ QueueOrder'
      /\ SettledLines' /\ NoGap' /\ NoSilentLoss' /\ NothingLeft'
  BY <1>r, <1>s, ReceiveKeeps
<1>1. TypeOK'
  BY <1>0, <1>2, <1>j DEF TypeOK
<1>3. FileOrder'
  <2> SUFFICES ASSUME NEW g \in Files,
                      NEW i \in 1 .. Len(file'[g]), NEW j \in 1 .. Len(file'[g]),
                      i < j, file'[g][i].source = file'[g][j].source
               PROVE  file'[g][i].n < file'[g][j].n
    BY DEF FileOrder
  <2>1. i \in 1 .. Len(file[g]) /\ file'[g][i] = file[g][i]
    BY <1>i, <1>g
  <2>2. CASE j \in 1 .. Len(file[g]) /\ file'[g][j] = file[g][j]
    BY <2>1, <2>2 DEF FileOrder
  <2>3. CASE g = f /\ file'[g][j] = e
    <3>1. file[f][i].source = s /\ file[f][i] \in Entry
      BY <2>1, <2>3, <1>f
    <3>2. FileOf(s) = file[f]
      BY <1>h DEF FileOf
    <3>4. i \in DOMAIN file[f]
      BY <2>1, <2>3, <1>f
    <3>3. Settled(s, file[f][i].n) /\ file[f][i].n \in Nat
      BY <3>1, <3>2, <3>4 DEF Settled, Logged, Entry
    <3>5. file[f][i].n < k
      BY <3>3, <1>h
    <3>6. file'[g][i].n = file[f][i].n /\ file'[g][j].n = k
      BY <2>1, <2>3
    <3>. QED
      BY <3>5, <3>6
  <2>. QED
    BY <1>i, <2>2, <2>3
<1>4. Attributed'
  <2> SUFFICES ASSUME NEW g \in Files, NEW i \in 1 .. Len(file'[g])
               PROVE  /\ file'[g][i].prefix = Server[file'[g][i].source]
                      /\ LogFile[file'[g][i].prefix] = g
    <3>1. \A g \in Files : DOMAIN file'[g] = 1 .. Len(file'[g])
      BY <1>j
    <3>. QED
      BY <3>1 DEF Attributed
  <2>1. CASE i \in 1 .. Len(file[g]) /\ file'[g][i] = file[g][i]
    <3>1. i \in DOMAIN file[g]
      BY <2>1, <1>f
    <3>. QED
      BY <2>1, <3>1 DEF Attributed
  <2>2. CASE g = f /\ file'[g][i] = e
    <3>1. e.prefix = Server[w] /\ e.source = s
      OBVIOUS
    <3>. QED
      BY <2>2, <3>1, <1>h
  <2>. QED
    BY <1>i, <2>1, <2>2
<1>. QED
  BY <1>1, <1>2, <1>3, <1>4 DEF IInv

(* A write fails. *)
LEMMA WriteFailsKeeps ==
    ASSUME IInv, ~ over, NEW w \in Sources, WriteFails(w)
    PROVE  IInv'
<1> USE SourcesAssumption, ServersAssumption, BoundsAssumption DEF IInv
<1>0. /\ queue[w] # <<>> /\ queue[w] \in Seq(Line)
      /\ Receive(w)
      /\ UNCHANGED <<pipe, read, at, closing, cut, via, senders, stage, over, file>>
      /\ unwritten' = unwritten \cup {Head(queue[w])}
  BY DEF WriteFails, Receive, TypeOK
<1>h. Head(queue[w]) = queue[w][1] /\ Head(queue[w]) \in Line
  BY <1>0, TailIndex
<1>s. \A r \in Sources, n \in Nat :
         Settled(r, n)' <=> Settled(r, n) \/ [source |-> r, n |-> n] = queue[w][1]
  <2>1. \A r, n : Logged(r, n)' <=> Logged(r, n)
    BY <1>0 DEF Logged, FileOf
  <2>2. \A r, n : Failed(r, n)' <=> Failed(r, n) \/ [source |-> r, n |-> n] = queue[w][1]
    BY <1>0, <1>h DEF Failed
  <2>. QED
    BY <2>1, <2>2 DEF Settled
<1>2. /\ queue' \in [Sources -> Seq(Line)]
      /\ \A x \in Sources : Len(queue'[x]) <= Capacity
      /\ OneWriter' /\ LinesInHand' /\ QueuedLines' /\ QueueOrder'
      /\ SettledLines' /\ NoGap' /\ NoSilentLoss' /\ NothingLeft'
  BY <1>0, <1>s, ReceiveKeeps
<1>1. TypeOK'
  <2>1. unwritten' \subseteq Line
    BY <1>0, <1>h DEF TypeOK
  <2>. QED
    BY <1>0, <1>2, <2>1 DEF TypeOK
<1>3. FileOrder' /\ Attributed'
  BY <1>0 DEF FileOrder, Attributed
<1>. QED
  BY <1>1, <1>2, <1>3 DEF IInv

(* Every task is dropped. *)
LEMMA ExitKeeps ==
    ASSUME IInv, ~ over, Exit
    PROVE  IInv'
<1> USE SourcesAssumption, ServersAssumption, BoundsAssumption DEF IInv
<1>0. /\ over' = TRUE
      /\ at' = [s \in Sources |-> "ended"]
      /\ via' = [s \in Sources |-> None]
      /\ stage' = [w \in Sources |-> "gone"]
      /\ queue' = [w \in Sources |-> <<>>]
      /\ UNCHANGED <<pipe, read, closing, cut, senders, file, unwritten>>
  BY DEF Exit
<1>q. \A x \in Sources : Len(queue'[x]) = 0
  BY <1>0
<1>1. TypeOK'
  <2>1. queue' \in [Sources -> Seq(Line)]
    BY <1>0
  <2>2. \A x \in Sources : Len(queue'[x]) <= Capacity
    BY <1>q
  <2>3. /\ stage' \in [Sources -> {"absent", "opening", "open", "gone"}]
        /\ at' \in [Sources -> Places]
        /\ via' \in [Sources -> Sources \cup {None}]
        /\ \A r \in Sources : at'[r] = "sending" => via'[r] # None
    BY <1>0
  <2>. QED
    BY <1>0, <2>1, <2>2, <2>3 DEF TypeOK
<1>2. OneWriter'
  BY <1>0 DEF OneWriter, LogKeys, TypeOK
<1>3. LinesInHand'
  BY <1>0 DEF LinesInHand
<1>4. QueuedLines' /\ QueueOrder'
  BY <1>q DEF QueuedLines, QueueOrder
<1>5. SettledLines'
  <2> SUFFICES ASSUME NEW r \in Sources, NEW n \in Nat, Settled(r, n)
               PROVE  /\ n \in 1 .. read[r]
                      /\ ~ InHand(r, n)'
                      /\ senders[LogKey(r)] # None
                      /\ \A w \in Sources : \A i \in 1 .. Len(queue'[w]) :
                            queue'[w][i].source = r => n < queue'[w][i].n
    BY <1>0, SettledSame DEF SettledLines
  <2>1. n \in 1 .. read[r] /\ senders[LogKey(r)] # None
    BY DEF SettledLines
  <2>2. ~ InHand(r, n)'
    BY <1>0 DEF InHand
  <2>. QED
    BY <2>1, <2>2, <1>q
<1>6. FileOrder' /\ Attributed'
  <2>1. UNCHANGED file
    BY <1>0
  <2>2. FileOrder'
    BY <2>1 DEF FileOrder
  <2>3. Attributed'
    BY <2>1 DEF Attributed
  <2>. QED
    BY <2>2, <2>3
<1>7. NoGap'
  BY <1>0, SettledSame, CutOffSame DEF NoGap
<1>8. NoSilentLoss' /\ NothingLeft'
  BY <1>0 DEF NoSilentLoss, NothingLeft
<1>. QED
  BY <1>1, <1>2, <1>3, <1>4, <1>5, <1>6, <1>7, <1>8 DEF IInv

(* A child prints or closes its stderr: nothing is read, sent or written. *)
LEMMA ChildKeeps ==
    ASSUME IInv, ~ over, NEW s \in Sources, Prints(s) \/ ReadEnds(s)
    PROVE  IInv'
<1> USE SourcesAssumption, ServersAssumption, BoundsAssumption DEF IInv
<1>0. UNCHANGED <<read, closing, cut, via, senders, stage, queue, file, unwritten, over>>
  BY DEF Prints, ReadEnds
<1>t. /\ at \in [Sources -> Places]
      /\ pipe \in [Sources -> 0 .. PipeSize]
  BY DEF TypeOK
<1>a. /\ pipe' \in [Sources -> 0 .. PipeSize]
      /\ at' \in [Sources -> Places]
      /\ \A r \in Sources : \A where \in {"within", "holding", "sending"} :
            at'[r] = where <=> at[r] = where
      /\ \A r \in Sources : Reading(r)' => Reading(r)
  BY <1>t DEF Prints, ReadEnds
<1>n. \A r \in Sources, n \in Nat : InHand(r, n)' <=> InHand(r, n)
  BY <1>0, <1>a DEF InHand
<1>1. TypeOK'
  BY <1>0, <1>a DEF TypeOK
<1>2. OneWriter'
  BY <1>0 DEF OneWriter, LogKeys
<1>3. LinesInHand'
  BY <1>0, <1>a DEF LinesInHand
<1>4. QueuedLines'
  <2> SUFFICES ASSUME NEW w \in Sources, NEW i \in 1 .. Len(queue[w])
               PROVE  LET l == queue[w][i] IN
                      /\ senders[LogKey(l.source)] = w
                      /\ stage[w] \in {"opening", "open"}
                      /\ l.n \in 1 .. read[l.source]
                      /\ ~ (l.n = read[l.source] /\ at'[l.source] \in {"within", "holding", "sending"})
    BY <1>0 DEF QueuedLines, InHand
  <2>1. queue[w][i].source \in Sources
    BY QueuedType
  <2>. QED
    BY <2>1, <1>a DEF QueuedLines, InHand
<1>5. QueueOrder'
  BY <1>0 DEF QueueOrder
<1>6. SettledLines'
  <2> SUFFICES ASSUME NEW r \in Sources, NEW n \in Nat, Settled(r, n)
               PROVE  /\ n \in 1 .. read[r]
                      /\ ~ InHand(r, n)'
                      /\ senders[LogKey(r)] # None
                      /\ stage[senders[LogKey(r)]] = "open" \/ over
                      /\ \A w \in Sources : \A i \in 1 .. Len(queue[w]) :
                            queue[w][i].source = r => n < queue[w][i].n
    BY <1>0, SettledSame DEF SettledLines
  <2>. QED
    BY <1>n DEF SettledLines
<1>7. FileOrder'
  BY <1>0 DEF FileOrder
<1>8. NoGap'
  BY <1>0, SettledSame, CutOffSame DEF NoGap
<1>9. Attributed'
  BY <1>0 DEF Attributed
<1>10. NoSilentLoss'
  <2> SUFFICES ASSUME NEW r \in Sources, NEW n \in 1 .. read[r]
               PROVE  InHand(r, n)' \/ Queued(r, n)' \/ Settled(r, n)' \/ WriterGone(r)' \/ CutOff(r, n)'
    BY <1>0 DEF NoSilentLoss, Settled
  <2>1. Queued(r, n) => Queued(r, n)'
    BY <1>0 DEF Queued
  <2>2. WriterGone(r) => WriterGone(r)'
    BY <1>0 DEF WriterGone
  <2>3. n \in Nat
    OBVIOUS
  <2>. QED
    BY <2>1, <2>2, <2>3, <1>n, <1>0, SettledSame, CutOffSame, WhereLinesAre
<1>11. NothingLeft'
  BY <1>0 DEF NothingLeft
<1>. QED
  BY <1>1, <1>2, <1>3, <1>4, <1>5, <1>6, <1>7, <1>8, <1>9, <1>10, <1>11 DEF IInv

(* Every step keeps the invariant. *)
LEMMA InvariantNext == IInv /\ [Next]_vars => IInv'
<1> SUFFICES ASSUME IInv, [Next]_vars PROVE IInv'
  OBVIOUS
<1> USE SourcesAssumption, ServersAssumption, BoundsAssumption
<1>1. ASSUME NEW s \in Sources, ~ over,
             ReadLine(s) \/ ReadPiece(s) \/ ReadFails(s) \/ ReadUnended(s) \/ Notify(s)
      PROVE  IInv'
  <2>1. pipe \in [Sources -> 0 .. PipeSize]
    BY DEF IInv, TypeOK
  <2>2. CASE ReadLine(s) \/ ReadPiece(s)
    <3>1. /\ pipe' \in [Sources -> 0 .. PipeSize]
          /\ UNCHANGED cut
      BY <2>1, <2>2 DEF ReadLine, ReadPiece
    <3>2. PICK where \in {"within", "holding"} : TakeUp(s, Newest(s), where, "no")
      BY <2>2 DEF ReadLine, ReadPiece
    <3>. QED
      BY <1>1, <3>1, <3>2, TakeUpKeeps
  <2>3. CASE ReadUnended(s) \/ Notify(s)
    <3>1. /\ pipe' \in [Sources -> 0 .. PipeSize]
          /\ UNCHANGED cut
          /\ TakeUp(s, Newest(s), "holding", "done")
      BY <2>1, <2>3 DEF ReadUnended, Notify
    <3>. QED
      BY <1>1, <3>1, TakeUpKeeps
  <2>4. CASE ReadFails(s)
    <3>1. /\ pipe' \in [Sources -> 0 .. PipeSize]
          /\ s \in Stderr
          /\ cut' = IF at[s] = "within" THEN cut \cup {s} ELSE cut
          /\ TakeUp(s, read[s] + 1, "holding", "failed")
      BY <2>1, <2>4 DEF ReadFails
    <3>. QED
      BY <1>1, <3>1, TakeUpKeeps
  <2>. QED
    BY <1>1, <2>2, <2>3, <2>4
<1>2. ASSUME NEW s \in Sources, ~ over, Prints(s) \/ ReadEnds(s)
      PROVE  IInv'
  BY <1>2, ChildKeeps
<1>3. ASSUME NEW s \in Sources, ~ over, GetSender(s) PROVE IInv'
  BY <1>3, GetSenderKeeps
<1>4. ASSUME NEW s \in Sources, ~ over, Send(s) PROVE IInv'
  BY <1>4, SendKeeps
<1>5. ASSUME NEW s \in Sources, ~ over, SendRefused(s) PROVE IInv'
  BY <1>5, SendRefusedKeeps
<1>6. ASSUME NEW w \in Sources, ~ over, OpenFile(w) PROVE IInv'
  BY <1>6, OpenFileKeeps
<1>7. ASSUME NEW w \in Sources, ~ over, OpenFails(w) PROVE IInv'
  BY <1>7, OpenFailsKeeps
<1>8. ASSUME NEW w \in Sources, ~ over, WriteLine(w) PROVE IInv'
  BY <1>8, WriteLineKeeps
<1>9. ASSUME NEW w \in Sources, ~ over, WriteFails(w) PROVE IInv'
  BY <1>9, WriteFailsKeeps
<1>10. ASSUME ~ over, Exit PROVE IInv'
  BY <1>10, ExitKeeps
<1>11. ASSUME UNCHANGED vars PROVE IInv'
  <2> USE <1>11 DEF IInv, vars
  <2>1. TypeOK' /\ OneWriter' /\ LinesInHand'
    BY DEF TypeOK, OneWriter, LinesInHand, LogKeys
  <2>2. QueuedLines' /\ QueueOrder'
    BY DEF QueuedLines, QueueOrder, InHand
  <2>3. SettledLines' /\ NoGap'
    BY SettledSame, CutOffSame DEF SettledLines, NoGap, InHand
  <2>4. FileOrder' /\ Attributed' /\ NothingLeft'
    BY DEF FileOrder, Attributed, NothingLeft
  <2>5. NoSilentLoss'
    <3>1. \A s, n : /\ InHand(s, n)' <=> InHand(s, n)
                    /\ Queued(s, n)' <=> Queued(s, n)
                    /\ WriterGone(s)' <=> WriterGone(s)
      BY DEF InHand, Queued, WriterGone
    <3>2. \A s, n : /\ Logged(s, n)' <=> Logged(s, n)
                    /\ Failed(s, n)' <=> Failed(s, n)
      BY DEF Logged, Failed, FileOf
    <3>. QED
      BY <3>1, <3>2, CutOffSame DEF NoSilentLoss
  <2>. QED
    BY <2>1, <2>2, <2>3, <2>4, <2>5
<1>. QED
  BY <1>1, <1>2, <1>3, <1>4, <1>5, <1>6, <1>7, <1>8, <1>9, <1>10, <1>11 DEF Next

-----------------------------------------------------------------------------
(* The theorems *)

LEMMA Invariant == Spec => []IInv
<1>1. Init => IInv
  BY InvariantInit
<1>2. IInv /\ [Next]_vars => IInv'
  BY InvariantNext
<1>. QED
  BY <1>1, <1>2, PTL DEF Spec

(* Every variable keeps its type; in particular no channel holds more than *)
(* LOG_CHANNEL_CAPACITY lines.                                             *)
THEOREM TypeCorrect == Spec => []TypeOK
<1>1. IInv => TypeOK
  BY DEF IInv
<1>. QED
  BY <1>1, Invariant, PTL

(* The lines of a source are in the log in order and without gaps, however *)
(* many sources, servers and files there are.                              *)
THEOREM LogsInOrder == Spec => []InOrder
<1>1. IInv => InOrder
  <2> SUFFICES ASSUME IInv PROVE InOrder
    OBVIOUS
  <2>1. \A f \in Files : DOMAIN file[f] = 1 .. Len(file[f])
    BY DEF IInv, TypeOK
  <2>2. \A f \in Files : \A i, j \in DOMAIN file[f] :
           i < j /\ file[f][i].source = file[f][j].source => file[f][i].n < file[f][j].n
    BY <2>1 DEF IInv, FileOrder
  <2>3. \A s \in Sources : \A n \in 1 .. read[s] : \A m \in 1 .. n - 1 :
           Logged(s, n) => Logged(s, m) \/ Failed(s, m) \/ CutOff(s, m)
    BY DEF IInv, NoGap, Settled
  <2>. QED
    BY <2>2, <2>3 DEF InOrder
<1>. QED
  BY <1>1, Invariant, PTL

(* Every line in a log carries the name of its own server. *)
THEOREM LogsAttributed == Spec => []Attributed
<1>1. IInv => Attributed
  BY DEF IInv
<1>. QED
  BY <1>1, Invariant, PTL

(* No line is lost on the way to the log without a trace, whatever the     *)
(* capacity of the channel.                                                *)
THEOREM NoLineLostSilently == Spec => []NoSilentLoss
<1>1. IInv => NoSilentLoss
  BY DEF IInv
<1>. QED
  BY <1>1, Invariant, PTL

(* A source that waits to send can do so, or its writer can go on.         *)
Served(s) ==
    at[s] = "sending" =>
        \/ stage[via[s]] = "gone" \/ Room(via[s])
        \/ stage[via[s]] = "opening"
        \/ stage[via[s]] = "open" /\ queue[via[s]] # <<>>

(* What NeverStuck rests on, beside the fairness of the scheduler: nobody  *)
(* waits to send to a writer that was not started, or to one that waits    *)
(* for a line in turn, for any capacity and any number of sources.         *)
THEOREM SendersAreServed == Spec => [](\A s \in Sources : Served(s))
<1>1. ASSUME IInv PROVE \A s \in Sources : Served(s)
  <2> SUFFICES ASSUME NEW s \in Sources, at[s] = "sending"
               PROVE  Served(s)
    BY DEF Served
  <2>1. via[s] \in Sources /\ via[s] = senders[LogKey(s)]
    BY <1>1 DEF IInv, TypeOK, LinesInHand
  <2>2. stage[via[s]] # "absent"
    BY <1>1, <2>1, SourcesAssumption DEF IInv, OneWriter, LogKeys
  <2>3. queue[via[s]] = <<>> => Room(via[s])
    BY BoundsAssumption DEF Room
  <2>. QED
    BY <1>1, <2>1, <2>2, <2>3 DEF IInv, TypeOK, Served
<1>. QED
  BY <1>1, Invariant, PTL
=============================================================================
