------------------------------ MODULE LogPipeline ------------------------------
(***************************************************************************)
(* The logs of the upstream servers (src/src/process.rs): the task that    *)
(* reads the stderr of a child, the notification handlers that log one     *)
(* line each (src/src/forward.rs), the bounded channel of each (log file,  *)
(* server) pair and the writer task at its other end.  The child itself is *)
(* part of it: its stderr is a pipe, and it waits when the pipe is full.   *)
(*                                                                         *)
(* A line is known by its source and its number; what it says, its         *)
(* redaction and its truncation are left out.  A chunk that is read may    *)
(* end in the middle of a line, whose beginning the reader then keeps.     *)
(***************************************************************************)
EXTENDS Naturals, Sequences

CONSTANTS
    Sources,    \* tasks that log: stderr readers and notification handlers
    Stderr,     \* those that read the stderr of a child
    Servers, Files,
    Server,     \* the server each source logs for
    LogFile,    \* the log file of each server; several may name one file
    Lines,      \* lines each child prints (a bound of the model)
    PipeSize,   \* lines a pipe holds
    Capacity,   \* LOG_CHANNEL_CAPACITY
    None

ASSUME SourcesAssumption == Stderr \subseteq Sources /\ None \notin Sources
ASSUME ServersAssumption ==
    Server \in [Sources -> Servers] /\ LogFile \in [Servers -> Files]
ASSUME BoundsAssumption ==
    Lines \in [Stderr -> Nat] /\ PipeSize \in Nat \ {0} /\ Capacity \in Nat \ {0}

VARIABLES
    pipe,       \* lines, or pieces of one, each child printed and nobody read
    read,       \* lines each source has taken up, the one it is within included
    at,         \* where each source is
    closing,    \* why the line it has in hand is its last, or "no"
    cut,        \* the readers whose read failed within a line
    via,        \* the sender it got from log_sender
    senders,    \* LOG_WRITERS: a writer is named by the source that made it
    stage,      \* what each writer does
    queue,      \* the channel of each writer
    file,       \* the log files
    unwritten,  \* the lines a writer failed to write
    over        \* fanin-mcp has exited

vars == <<pipe, read, at, closing, cut, via, senders, stage, queue, file, unwritten, over>>

(* As if: the senders are kept by file. *)
KeyOfFile(s) == <<LogFile[Server[s]], LogFile[Server[s]]>>

LogKey(s) == <<LogFile[Server[s]], Server[s]>>

LogKeys == {LogKey(s) : s \in Sources}
Line == [source : Sources, n : Nat]
Entry == [prefix : Servers, source : Sources, n : Nat]

Places == {"reading", "within", "holding", "sending", "ended"}
Endings == {"no", "done", "failed"}

TypeOK ==
    /\ pipe \in [Sources -> 0 .. PipeSize]
    /\ read \in [Sources -> Nat]
    /\ at \in [Sources -> Places]
    /\ closing \in [Sources -> Endings]
    /\ cut \subseteq Stderr
    /\ via \in [Sources -> Sources \cup {None}]
    /\ \A s \in Sources : at[s] = "sending" => via[s] # None
    /\ senders \in [LogKeys -> Sources \cup {None}]
    /\ stage \in [Sources -> {"absent", "opening", "open", "gone"}]
    /\ queue \in [Sources -> Seq(Line)]
    /\ \A w \in Sources : Len(queue[w]) <= Capacity
    /\ file \in [Files -> Seq(Entry)]
    /\ unwritten \subseteq Line
    /\ over \in BOOLEAN

Init ==
    /\ pipe = [s \in Sources |-> 0]
    /\ read = [s \in Sources |-> 0]
    /\ at = [s \in Sources |-> "reading"]
    /\ closing = [s \in Sources |-> "no"]
    /\ cut = {}
    /\ via = [s \in Sources |-> None]
    /\ senders = [k \in LogKeys |-> None]
    /\ stage = [w \in Sources |-> "absent"]
    /\ queue = [w \in Sources |-> <<>>]
    /\ file = [f \in Files |-> <<>>]
    /\ unwritten = {}
    /\ over = FALSE

-----------------------------------------------------------------------------
(* The sources *)

(* Waiting for its input, between two lines or within one.                 *)
Reading(s) == at[s] \in {"reading", "within"}

(* The line it is within, or the one after those it has taken up.          *)
Newest(s) == IF at[s] = "within" THEN read[s] ELSE read[s] + 1

(* The child prints, when its pipe has room.                               *)
Prints(s) ==
    /\ s \in Stderr /\ at[s] # "ended" /\ closing[s] # "done"
    /\ pipe[s] < PipeSize
    /\ Newest(s) + pipe[s] <= Lines[s]
    /\ pipe' = [pipe EXCEPT ![s] = @ + 1]
    /\ UNCHANGED <<read, at, closing, cut, via, senders, stage, queue, file, unwritten, over>>

TakeUp(s, n, where, ending) ==
    /\ Reading(s)
    /\ read' = [read EXCEPT ![s] = n]
    /\ at' = [at EXCEPT ![s] = where]
    /\ closing' = [closing EXCEPT ![s] = ending]
    /\ UNCHANGED <<via, senders, stage, queue, file, unwritten, over>>

ReadLine(s) ==
    /\ s \in Stderr /\ pipe[s] > 0
    /\ pipe' = [pipe EXCEPT ![s] = @ - 1]
    /\ TakeUp(s, Newest(s), "holding", "no")
    /\ UNCHANGED cut

(* A chunk that ends before the line does.                                 *)
ReadPiece(s) ==
    /\ s \in Stderr /\ pipe[s] > 0
    /\ pipe' = [pipe EXCEPT ![s] = @ - 1]
    /\ TakeUp(s, Newest(s), "within", "no")
    /\ UNCHANGED cut

(* The reader logs the error and is done: what is in the pipe is lost, and *)
(* so is the beginning of a line it had read.                              *)
ReadFails(s) ==
    /\ s \in Stderr
    /\ TakeUp(s, read[s] + 1, "holding", "failed")
    /\ cut' = IF at[s] = "within" THEN cut \cup {s} ELSE cut
    /\ UNCHANGED pipe

(* The child has closed its stderr: the reader is done, and logs what it   *)
(* has of an unended line first.                                           *)
ReadEnds(s) ==
    /\ s \in Stderr /\ at[s] = "reading" /\ pipe[s] = 0
    /\ at' = [at EXCEPT ![s] = "ended"]
    /\ UNCHANGED <<pipe, read, closing, cut, via, senders, stage, queue, file, unwritten, over>>

ReadUnended(s) ==
    /\ s \in Stderr /\ at[s] = "within" /\ pipe[s] = 0
    /\ TakeUp(s, Newest(s), "holding", "done")
    /\ UNCHANGED <<pipe, cut>>

(* on_logging_message, on_progress: one line in a task of its own. *)
Notify(s) ==
    /\ s \notin Stderr
    /\ TakeUp(s, Newest(s), "holding", "done")
    /\ UNCHANGED <<pipe, cut>>

MakeWriter(s) ==
    /\ senders' = [senders EXCEPT ![LogKey(s)] = s]
    /\ stage' = [stage EXCEPT ![s] = "opening"]
    /\ via' = [via EXCEPT ![s] = s]

(* As if: log_sender let go of the lock between its lookup and its         *)
(* insertion, so that two sources that were both looking make one each.    *)
GetSenderUnlocked(s) ==
    /\ at[s] = "holding"
    /\ at' = [at EXCEPT ![s] = "sending"]
    /\ IF senders[LogKey(s)] # None /\ stage[s] # "absent"
       THEN /\ via' = [via EXCEPT ![s] = senders[LogKey(s)]]
            /\ UNCHANGED <<senders, stage>>
       ELSE MakeWriter(s)
    /\ UNCHANGED <<pipe, read, closing, cut, queue, file, unwritten, over>>

(* log_sender, under the lock of LOG_WRITERS. *)
GetSender(s) ==
    /\ at[s] = "holding"
    /\ at' = [at EXCEPT ![s] = "sending"]
    /\ IF senders[LogKey(s)] # None
       THEN /\ via' = [via EXCEPT ![s] = senders[LogKey(s)]]
            /\ UNCHANGED <<senders, stage>>
       ELSE MakeWriter(s)
    /\ UNCHANGED <<pipe, read, closing, cut, queue, file, unwritten, over>>

(* As if: the channel admitted one line more than it holds. *)
RoomForOneMore(w) == Len(queue[w]) <= Capacity

Room(w) == Len(queue[w]) < Capacity

LetGo(s) ==
    /\ at[s] = "sending"
    /\ at' = [at EXCEPT ![s] = IF closing[s] = "no" THEN "reading" ELSE "ended"]
    /\ via' = [via EXCEPT ![s] = None]
    /\ UNCHANGED <<pipe, read, closing, cut, senders, stage, file, unwritten, over>>

(* As if: a line that finds the channel full were dropped (try_send). *)
SendOrDrop(s) ==
    /\ LetGo(s)
    /\ stage[via[s]] # "gone"
    /\ queue' = IF Room(via[s])
                THEN [queue EXCEPT ![via[s]] = Append(@, [source |-> s, n |-> read[s]])]
                ELSE queue

(* The source waits for room. *)
Send(s) ==
    /\ LetGo(s)
    /\ stage[via[s]] # "gone" /\ Room(via[s])
    /\ queue' = [queue EXCEPT ![via[s]] = Append(@, [source |-> s, n |-> read[s]])]

(* As if: the source tried again when the writer is gone. *)
SendAgain(s) ==
    /\ at[s] = "sending"
    /\ stage[via[s]] = "gone"
    /\ UNCHANGED vars

(* The writer is gone: the line is dropped, with a warning. *)
SendRefused(s) ==
    /\ LetGo(s)
    /\ stage[via[s]] = "gone"
    /\ UNCHANGED queue

-----------------------------------------------------------------------------
(* The writers *)

OpenFile(w) ==
    /\ stage[w] = "opening"
    /\ stage' = [stage EXCEPT ![w] = "open"]
    /\ UNCHANGED <<pipe, read, at, closing, cut, via, senders, queue, file, unwritten, over>>

(* The writer returns, and with it the channel and the lines in it; its    *)
(* sender stays in LOG_WRITERS.                                            *)
OpenFails(w) ==
    /\ stage[w] = "opening"
    /\ stage' = [stage EXCEPT ![w] = "gone"]
    /\ queue' = [queue EXCEPT ![w] = <<>>]
    /\ UNCHANGED <<pipe, read, at, closing, cut, via, senders, file, unwritten, over>>

Receive(w) ==
    /\ stage[w] = "open" /\ queue[w] # <<>>
    /\ queue' = [queue EXCEPT ![w] = Tail(@)]
    /\ UNCHANGED <<pipe, read, at, closing, cut, via, senders, stage, over>>

(* The line goes to the file of the writer under the name of its server. *)
WriteLine(w) ==
    /\ Receive(w)
    /\ LET line == Head(queue[w]) IN
       file' = [file EXCEPT ![LogFile[Server[w]]] =
                   Append(@, [prefix |-> Server[w], source |-> line.source, n |-> line.n])]
    /\ UNCHANGED unwritten

(* The write or the flush after it fails: the line is lost, with a warning. *)
WriteFails(w) ==
    /\ Receive(w)
    /\ unwritten' = unwritten \cup {Head(queue[w])}
    /\ UNCHANGED file

-----------------------------------------------------------------------------
(* main returns, and the runtime drops every task with what it holds. *)
Exit ==
    /\ over' = TRUE
    /\ at' = [s \in Sources |-> "ended"]
    /\ via' = [s \in Sources |-> None]
    /\ stage' = [w \in Sources |-> "gone"]
    /\ queue' = [w \in Sources |-> <<>>]
    /\ UNCHANGED <<pipe, read, closing, cut, senders, file, unwritten>>

Next ==
    /\ ~ over
    /\ \/ \E s \in Sources :
             \/ Prints(s) \/ ReadLine(s) \/ ReadPiece(s) \/ ReadFails(s)
             \/ ReadEnds(s) \/ ReadUnended(s) \/ Notify(s)
             \/ GetSender(s) \/ Send(s) \/ SendRefused(s)
       \/ \E w \in Sources :
             \/ OpenFile(w) \/ OpenFails(w) \/ WriteLine(w) \/ WriteFails(w)
       \/ Exit

(* The tasks run on, and a file operation ends one way or the other.  The  *)
(* permits of a channel are given out in the order they were asked for.    *)
Fairness ==
    \A s \in Sources :
        /\ WF_vars(~ over /\ (ReadLine(s) \/ ReadPiece(s)))
        /\ WF_vars(~ over /\ GetSender(s))
        /\ SF_vars(~ over /\ (Send(s) \/ SendRefused(s)))
        /\ WF_vars(~ over /\ (OpenFile(s) \/ OpenFails(s)))
        /\ WF_vars(~ over /\ (WriteLine(s) \/ WriteFails(s)))

Spec == Init /\ [][Next]_vars /\ Fairness

-----------------------------------------------------------------------------
(* Properties *)

(* Where a line of s goes. *)
FileOf(s) == file[LogFile[Server[s]]]

Logged(s, n) == \E i \in DOMAIN FileOf(s) : FileOf(s)[i].source = s /\ FileOf(s)[i].n = n
Failed(s, n) == [source |-> s, n |-> n] \in unwritten
Queued(s, n) == \E w \in Sources : \E i \in DOMAIN queue[w] :
                   queue[w][i] = [source |-> s, n |-> n]
InHand(s, n) == n = read[s] /\ at[s] \in {"within", "holding", "sending"}

(* Cut off by a failed read, of which the very next line of s, its last,   *)
(* tells.                                                                  *)
CutOff(s, n) == s \in cut /\ closing[s] = "failed" /\ n + 1 = read[s]

(* The writer that answers for s has not been able to open the file. *)
WriterGone(s) == senders[LogKey(s)] # None /\ stage[senders[LogKey(s)]] = "gone"

(* The lines of a source come to the log in the order it printed them, and *)
(* a line is there only after every line before it, but for those whose    *)
(* write failed and one cut off by a failed read: however sources of one   *)
(* server and servers of one file overlap, and though every line looks its *)
(* sender up anew.                                                         *)
InOrder ==
    /\ \A f \in Files : \A i, j \in DOMAIN file[f] :
          i < j /\ file[f][i].source = file[f][j].source => file[f][i].n < file[f][j].n
    /\ \A s \in Sources : \A n \in 1 .. read[s] : \A m \in 1 .. n - 1 :
          Logged(s, n) => Logged(s, m) \/ Failed(s, m) \/ CutOff(s, m)

(* Where two servers share a log file, each line carries the name of the   *)
(* server that printed it, and no line is in another server's file.        *)
Attributed ==
    \A f \in Files : \A i \in DOMAIN file[f] :
        LET e == file[f][i] IN e.prefix = Server[e.source] /\ LogFile[e.prefix] = f

(* A line of which anything was read is on its way or in the file, the     *)
(* unended last line of a child included, unless its write failed or its   *)
(* writer could not open the file, which is told in a warning, a failed    *)
(* read cut it off, which is told in the line after it, or fanin-mcp       *)
(* exited: a full channel costs no line.                                   *)
NoSilentLoss ==
    \A s \in Sources : \A n \in 1 .. read[s] :
        \/ InHand(s, n) \/ Queued(s, n) \/ Logged(s, n) \/ CutOff(s, n)
        \/ Failed(s, n) \/ WriterGone(s) \/ over

(* A child that waits for its pipe to be read. *)
Waiting(s) == at[s] # "ended" /\ pipe[s] = PipeSize

(* A child does not wait for its log for ever, whether the file can be     *)
(* opened and written or not: the reader behind a full channel goes on.    *)
NeverStuck == \A s \in Stderr : Waiting(s) ~> ~ Waiting(s)
=============================================================================
