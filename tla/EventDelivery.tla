---------------------------- MODULE EventDelivery ----------------------------
(***************************************************************************)
(* The event buffer of an endpoint (endpoint/event_buffer.py) and the      *)
(* ingest route of the gateway it is flushed to (app/main.py).  Each run   *)
(* of agent_demo.py is a process of its own that appends one event or      *)
(* flushes, so appends and flushes share nothing but the spool directory.  *)
(*                                                                         *)
(* A name of the directory refers to a file, and a process keeps reading   *)
(* or writing the file it opened whatever happens to the name.  A line is  *)
(* written by one system call; one that fails may leave a line without its *)
(* end, to which the next line is then glued.                              *)
(***************************************************************************)
EXTENDS Naturals, SequencesExt

CONSTANTS Events,          \* each appended at most once, by its own process
          Flushers,        \* processes that flush
          BatchSize,       \* events of a request
          MaxFileLines,    \* max_file_bytes, in lines
          MaxFaults,       \* bound: failures of flushes
          WritesMayFail    \* may the write of an append fail?

(* events-<hour>.jsonl sorts after events-<hour>-<time>.jsonl.  One name   *)
(* of each kind: a new hour does what a rotation does, give new events     *)
(* another name.                                                           *)
Rotated == 0
Base    == 1
Names   == {Rotated, Base}
Files   == 1 .. Cardinality(Events)
NoFile  == 0

ASSUME EventAssumption ==
    /\ IsFiniteSet(Events)
    /\ BatchSize \in Nat \ {0}
    /\ {MaxFileLines, MaxFaults} \subseteq Nat
    /\ WritesMayFail \in BOOLEAN

VARIABLES
    alone,                        \* does the host run one process at a time?
    dir, lines,                   \* file of each name, lines of each file
    apc, path, out,               \* each append: control, name, open file
    fpc, todo, in, offset, batch, \* each flush: control, names left, open file,
                                  \* lines read of it, events read but not sent
    late,                         \* requests given up, which may still arrive
    ingested,                     \* how often the gateway logged each event
    faults

appender == <<apc, path, out>>
flusher  == <<fpc, todo, in, offset, batch>>
files    == <<dir, lines>>
vars == <<alone, files, appender, flusher, late, ingested, faults>>

(* A line and the events that went into it; only a whole one is JSON.      *)
Line == [events: SUBSET Events, kind: {"whole", "torn", "glued"}]

Init ==
    /\ alone \in BOOLEAN
    /\ dir = [n \in Names |-> NoFile]
    /\ lines = [i \in Files |-> <<>>]
    /\ apc = [e \in Events |-> "new"]
    /\ path = [e \in Events |-> Base]
    /\ out = [e \in Events |-> NoFile]
    /\ fpc = [f \in Flushers |-> "idle"]
    /\ todo = [f \in Flushers |-> <<>>]
    /\ in = [f \in Flushers |-> NoFile]
    /\ offset = [f \in Flushers |-> 0]
    /\ batch = [f \in Flushers |-> <<>>]
    /\ late = <<>>
    /\ ingested = [e \in Events |-> 0]
    /\ faults = 0

(* The host lets a process start. *)
Free ==
    alone => /\ \A e \in Events : apc[e] \in {"new", "appended", "raised"}
             /\ \A f \in Flushers : fpc[f] = "idle"

-----------------------------------------------------------------------------
(* append.  _current_path tests whether the file of the hour exists ...    *)
Exists(e) ==
    /\ apc[e] = "new" /\ Free
    /\ path' = [path EXCEPT ![e] = Base]
    /\ apc' = [apc EXCEPT ![e] = IF dir[Base] = NoFile THEN "opening" ELSE "sizing"]
    /\ UNCHANGED <<alone, files, out, flusher, late, ingested, faults>>

(* ... and how large it is, by name again: it may be gone, which raises.   *)
Size(e) ==
    /\ apc[e] = "sizing"
    /\ LET i == dir[path[e]]
       IN  IF i = NoFile THEN apc' = [apc EXCEPT ![e] = "raised"] /\ UNCHANGED path
           ELSE /\ apc' = [apc EXCEPT ![e] = "opening"]
                /\ path' = IF Len(lines[i]) > MaxFileLines
                           THEN [path EXCEPT ![e] = Rotated] ELSE path
    /\ UNCHANGED <<alone, files, out, flusher, late, ingested, faults>>

(* open("a") creates the file where there is none. *)
NewFile ==
    CHOOSE i \in Files : lines[i] = <<>> /\ i \notin Range(dir) \cup Range(out) \cup Range(in)

OpenToAppend(e) ==
    /\ apc[e] = "opening"
    /\ LET i == IF dir[path[e]] # NoFile THEN dir[path[e]] ELSE NewFile
       IN  /\ dir' = [dir EXCEPT ![path[e]] = i]
           /\ out' = [out EXCEPT ![e] = i]
    /\ apc' = [apc EXCEPT ![e] = "writing"]
    /\ UNCHANGED <<alone, lines, path, flusher, late, ingested, faults>>

(* What a write adds to lines s: to the last of them if that is torn. *)
Glue(s, l) ==
    IF s # <<>> /\ Last(s).kind = "torn"
    THEN Append(Front(s), [l EXCEPT !.kind = IF @ = "torn" THEN "torn" ELSE "glued"])
    ELSE Append(s, l)

(* The append ends. *)
Close(e, s) ==
    /\ apc' = [apc EXCEPT ![e] = s]
    /\ path' = [path EXCEPT ![e] = Base]
    /\ out' = [out EXCEPT ![e] = NoFile]

Write(e) ==
    /\ apc[e] = "writing"
    /\ lines' = [lines EXCEPT ![out[e]] = Glue(@, [events |-> {e}, kind |-> "whole"])]
    /\ Close(e, "appended")
    /\ UNCHANGED <<alone, dir, flusher, late, ingested, faults>>

(* The write raises, or its process dies: nothing is written or a part.    *)
WriteFails(e) ==
    /\ WritesMayFail /\ apc[e] = "writing"
    /\ \/ lines' = [lines EXCEPT ![out[e]] = Glue(@, [events |-> {}, kind |-> "torn"])]
       \/ UNCHANGED lines
    /\ Close(e, "raised")
    /\ UNCHANGED <<alone, dir, flusher, late, ingested, faults>>

-----------------------------------------------------------------------------
(* flush.  To(f, s) is its next control state; Abandon ends it with an     *)
(* exception.                                                              *)
To(f, s)   == fpc' = [fpc EXCEPT ![f] = s]
Abandon(f) ==
    /\ To(f, "idle")
    /\ todo' = [todo EXCEPT ![f] = <<>>]
    /\ in' = [in EXCEPT ![f] = NoFile]
    /\ offset' = [offset EXCEPT ![f] = 0]
    /\ batch' = [batch EXCEPT ![f] = <<>>]

(* The gateway logs the events bs.  Their number saturates at a bound no   *)
(* property tells from larger ones.                                        *)
Ingest(bs) ==
    ingested' = [e \in Events |->
                    IF e \in ToSet(bs) /\ ingested[e] <= MaxFaults + 1
                    THEN ingested[e] + 1 ELSE ingested[e]]

Fault == faults < MaxFaults /\ faults' = faults + 1

(* The names ns in their order.                                            *)
Sorted(ns) ==
    CHOOSE s \in {<<>>, <<Rotated>>, <<Base>>, <<Rotated, Base>>} : ToSet(s) = ns

(* Mutant of Glob: the names of rotated files do not match. *)
GlobBase(f) ==
    LET found == {n \in Names : dir[n] # NoFile /\ n = Base}
    IN  /\ fpc[f] = "idle" /\ Free /\ found # {}
        /\ todo' = [todo EXCEPT ![f] = Sorted(found)]
        /\ To(f, "opening")
        /\ UNCHANGED <<alone, files, appender, in, offset, batch, late, ingested, faults>>

(* The names of the moment, sorted. *)
Glob(f) ==
    LET found == {n \in Names : dir[n] # NoFile}
    IN  /\ fpc[f] = "idle" /\ Free /\ found # {}
        /\ todo' = [todo EXCEPT ![f] = Sorted(found)]
        /\ To(f, "opening")
        /\ UNCHANGED <<alone, files, appender, in, offset, batch, late, ingested, faults>>

(* The next of them, which another flush may have unlinked: that raises.   *)
OpenToRead(f) ==
    /\ fpc[f] = "opening"
    /\ LET i == dir[Head(todo[f])]
       IN  IF i = NoFile THEN Abandon(f)
           ELSE /\ in' = [in EXCEPT ![f] = i]
                /\ offset' = [offset EXCEPT ![f] = 0]
                /\ To(f, "reading")
                /\ UNCHANGED <<todo, batch>>
    /\ UNCHANGED <<alone, files, appender, late, ingested, faults>>

(* Mutant of Read: the batch is sent once it is too large. *)
ReadOneMore(f) ==
    /\ fpc[f] = "reading" /\ Len(batch[f]) <= BatchSize /\ offset[f] < Len(lines[in[f]])
    /\ LET l == lines[in[f]][offset[f] + 1]
       IN  IF l.kind # "whole" THEN Abandon(f)
           ELSE /\ batch' = [batch EXCEPT ![f] = @ \o SetToSeq(l.events)]
                /\ offset' = [offset EXCEPT ![f] = @ + 1]
                /\ UNCHANGED <<fpc, todo, in>>
    /\ UNCHANGED <<alone, files, appender, late, ingested, faults>>

(* The next line; one that is not JSON raises. *)
Read(f) ==
    /\ fpc[f] = "reading" /\ Len(batch[f]) < BatchSize /\ offset[f] < Len(lines[in[f]])
    /\ LET l == lines[in[f]][offset[f] + 1]
       IN  IF l.kind # "whole" THEN Abandon(f)
           ELSE /\ batch' = [batch EXCEPT ![f] = @ \o SetToSeq(l.events)]
                /\ offset' = [offset EXCEPT ![f] = @ + 1]
                /\ UNCHANGED <<fpc, todo, in>>
    /\ UNCHANGED <<alone, files, appender, late, ingested, faults>>

(* Mutant of EndOfFile: what is left in the batch is forgotten. *)
EndOfBatches(f) ==
    /\ fpc[f] = "reading" /\ Len(batch[f]) < BatchSize /\ offset[f] = Len(lines[in[f]])
    /\ To(f, "unlinking")
    /\ batch' = [batch EXCEPT ![f] = <<>>]
    /\ UNCHANGED <<alone, files, appender, todo, in, offset, late, ingested, faults>>

(* The end of the file: lines that come later are not read. *)
EndOfFile(f) ==
    /\ fpc[f] = "reading" /\ Len(batch[f]) < BatchSize /\ offset[f] = Len(lines[in[f]])
    /\ To(f, IF batch[f] = <<>> THEN "unlinking" ELSE "finishing")
    /\ UNCHANGED <<alone, files, appender, todo, in, offset, batch, late, ingested, faults>>

(* _send_batch has a full batch, or the rest of the file, under way. *)
Sending(f) ==
    \/ fpc[f] = "reading" /\ Len(batch[f]) = BatchSize
    \/ fpc[f] = "finishing"

(* It is answered with 200: ingest_events logged every event. *)
Accepted(f) ==
    /\ Sending(f)
    /\ Ingest(batch[f])
    /\ batch' = [batch EXCEPT ![f] = <<>>]
    /\ To(f, IF fpc[f] = "finishing" THEN "unlinking" ELSE "reading")
    /\ UNCHANGED <<alone, files, appender, todo, in, offset, late, faults>>

(* Mutant of Refused: the status of the response is not looked at. *)
RefusedUnseen(f) ==
    /\ Sending(f) /\ Fault
    /\ \E k \in 0 .. Len(batch[f]) - 1 : Ingest(SubSeq(batch[f], 1, k))
    /\ batch' = [batch EXCEPT ![f] = <<>>]
    /\ To(f, IF fpc[f] = "finishing" THEN "unlinking" ELSE "reading")
    /\ UNCHANGED <<alone, files, appender, todo, in, offset, late>>

(* It is answered with 500: logging an event raised after some were logged. *)
Refused(f) ==
    /\ Sending(f) /\ Fault
    /\ \E k \in 0 .. Len(batch[f]) - 1 : Ingest(SubSeq(batch[f], 1, k))
    /\ Abandon(f)
    /\ UNCHANGED <<alone, files, appender, late>>

(* It is not answered within the timeout, or the flush dies meanwhile; the *)
(* request may be lost, or arrive at any later time.                       *)
TimedOut(f) ==
    /\ Sending(f) /\ Fault
    /\ late' = Append(late, batch[f])
    /\ Abandon(f)
    /\ UNCHANGED <<alone, files, appender, ingested>>

Arrives ==
    \E k \in DOMAIN late :
        /\ Ingest(late[k])
        /\ late' = RemoveAt(late, k)
        /\ UNCHANGED <<alone, files, appender, flusher, faults>>

(* The flush is done with its file. *)
Done(f) ==
    /\ todo' = [todo EXCEPT ![f] = Tail(@)]
    /\ in' = [in EXCEPT ![f] = NoFile]
    /\ offset' = [offset EXCEPT ![f] = 0]
    /\ To(f, IF Len(todo[f]) = 1 THEN "idle" ELSE "opening")
    /\ UNCHANGED batch

(* Mutant of Unlink: it follows the loop. *)
UnlinkLast(f) ==
    /\ fpc[f] = "unlinking"
    /\ dir' = IF Len(todo[f]) = 1 THEN [dir EXCEPT ![todo[f][1]] = NoFile] ELSE dir
    /\ Done(f)
    /\ UNCHANGED <<alone, lines, appender, late, ingested, faults>>

(* unlink takes the name away, whatever file it now refers to; that there  *)
(* is none is caught.                                                      *)
Unlink(f) ==
    /\ fpc[f] = "unlinking"
    /\ dir' = [dir EXCEPT ![Head(todo[f])] = NoFile]
    /\ Done(f)
    /\ UNCHANGED <<alone, lines, appender, late, ingested, faults>>

(* An unlink that is not permitted is caught too. *)
UnlinkFails(f) ==
    /\ fpc[f] = "unlinking" /\ Fault
    /\ Done(f)
    /\ UNCHANGED <<alone, files, appender, late, ingested>>

(* The flushing process dies elsewhere. *)
Dies(f) ==
    /\ fpc[f] # "idle" /\ Fault
    /\ Abandon(f)
    /\ UNCHANGED <<alone, files, appender, late, ingested>>

Appending(e) == Size(e) \/ OpenToAppend(e) \/ Write(e) \/ WriteFails(e)
Flush(f) ==
    \/ Glob(f) \/ OpenToRead(f) \/ Read(f) \/ EndOfFile(f)
    \/ Accepted(f) \/ Refused(f) \/ TimedOut(f)
    \/ Unlink(f) \/ UnlinkFails(f) \/ Dies(f)

Next ==
    \/ \E e \in Events : Exists(e) \/ Appending(e)
    \/ \E f \in Flushers : Flush(f)
    \/ Arrives

(* An append that was begun goes on, the host runs its flushes again and   *)
(* again, and the gateway does not fail them forever.                      *)
Spec     == Init /\ [][Next]_vars
FairSpec ==
    /\ Spec
    /\ \A e \in Events : WF_vars(Appending(e))
    /\ \A f \in Flushers : WF_vars(Flush(f))
-----------------------------------------------------------------------------
(* Type correctness; a request never carries more than a batch.            *)
TypeOK ==
    /\ alone \in BOOLEAN /\ faults \in 0 .. MaxFaults
    /\ dir \in [Names -> Files \cup {NoFile}]
    /\ \A i \in Files : ToSet(lines[i]) \subseteq Line
    /\ apc \in [Events -> {"new", "sizing", "opening", "writing", "appended", "raised"}]
    /\ path \in [Events -> Names] /\ out \in [Events -> Files \cup {NoFile}]
    /\ fpc \in [Flushers -> {"idle", "opening", "reading", "finishing", "unlinking"}]
    /\ \A f \in Flushers :
          /\ ToSet(todo[f]) \subseteq Names /\ in[f] \in Files \cup {NoFile}
          /\ ToSet(batch[f]) \subseteq Events /\ Len(batch[f]) <= BatchSize
          /\ Len(batch[f]) <= offset[f]
          /\ in[f] # NoFile => offset[f] <= Len(lines[in[f]])
    /\ ingested \in [Events -> 0 .. MaxFaults + 2]

(* The names under which an event is in the buffer. *)
BufferedAs(e) ==
    {n \in Names : dir[n] # NoFile /\ \E l \in ToSet(lines[dir[n]]) : e \in l.events}

(* What a flush has read of a file it has delivered by the time it comes   *)
(* to unlink the name, also when others append, flush and unlink meanwhile. *)
DeliveredBeforeUnlink ==
    \A f \in Flushers :
        fpc[f] = "unlinking" =>
            \A j \in 1 .. offset[f] : \A e \in lines[in[f]][j].events : ingested[e] > 0

(* "Small durable event buffer" (EndpointEventBuffer): an event whose      *)
(* append returned is in a file of the buffer or has reached the gateway.  *)
NoEventLost ==
    \A e \in Events : apc[e] = "appended" => BufferedAs(e) # {} \/ ingested[e] > 0

(* So it is on a host that runs one process at a time, whatever fails.     *)
DurableAlone == alone => NoEventLost

(* A line that is not JSON in the files flush comes to up to name n.       *)
PoisonedUpTo(n) ==
    \E m \in 0 .. n : dir[m] # NoFile /\ \E l \in ToSet(lines[dir[m]]) : l.kind # "whole"

(* There, an event is delivered once more than flushes failed at most:     *)
(* a flush that succeeds delivers nothing again.  Except that a line that  *)
(* is not JSON makes each flush fail, and deliver what precedes it again.  *)
RedeliveredByFailures ==
    alone /\ ~PoisonedUpTo(Base) => \A e \in Events : ingested[e] <= 1 + faults

(* There, every event of the buffer reaches the gateway, if no file up to  *)
(* its own holds a line that is not JSON.                                  *)
BufferedIsDelivered ==
    []<>(alone => \A e \in Events :
                      apc[e] = "appended" /\ ingested[e] = 0 =>
                          \E n \in BufferedAs(e) : PoisonedUpTo(n))
=============================================================================
