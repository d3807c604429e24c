---------------------------- MODULE TranscodeQueue ----------------------------
(***************************************************************************)
(* The transcoding of signage videos (signage/transcode.service.ts).       *)
(* Every server process works on one video at a time: it takes a PENDING   *)
(* one, marks it RUNNING, and for each quality that fits the source        *)
(* encodes, replaces the object in the store and then saves the row with   *)
(* its checksum, by which a player verifies what it downloads.  A video    *)
(* that can be played as it is gets rows that point at the upload.         *)
(*                                                                         *)
(* A request to transcode again queues the video and then deletes its rows.*)
(***************************************************************************)
EXTENDS Naturals, FiniteSets

CONSTANTS
  Video,
  Quality,    \* SD, HD, FHD
  Encoding,   \* what comes out of an encoder may differ: another release, other cores
  Worker,     \* server processes
  MaxCrashes, \* bound on the crashes
  MaxAgain    \* bound on the requests to transcode again

VARIABLES
  video,    \* the SignageVideo table: status; its source: if it plays as it is, what fits it
  row,      \* SignageVideoVariant: the checksum (of an encoding, or of the upload)
  object,   \* what the store has under the key of a variant
  worker,   \* what each process is doing
  again,    \* videos that were queued again and whose rows are still to be deleted
  crossed,  \* history: videos queued again while a process worked on them, taken by two, or
            \* taken before their rows were deleted
  crashed,  \* history: videos a process that stopped had been working on
  crashes, asked  \* bound Crash and Queue

vars == <<video, row, object, worker, again, crossed, crashed, crashes, asked>>

Status == {"none", "PENDING", "RUNNING", "DONE", "SKIPPED", "FAILED", "deleted"}
Slot == Video \X Quality
Idle == [step |-> "idle", video |-> {}, left |-> {}, at |-> {}]

TypeOK ==
  /\ video \in [Video -> [status : Status, good : BOOLEAN, fits : SUBSET Quality]]
  /\ row \in [Slot -> Encoding \cup {"none", "upload"}] /\ object \in [Slot -> Encoding \cup {"none"}]
  /\ worker \in [Worker -> [step : {"idle", "taken", "source", "encode", "save"},
                            video : SUBSET Video, left : SUBSET Quality, at : SUBSET Quality]]
  /\ again \subseteq Video /\ crossed \subseteq Video /\ crashed \subseteq Video
  /\ crashes \in 0..MaxCrashes /\ asked \in 0..MaxAgain

Works(w, v) == worker[w].step # "idle" /\ v \in worker[w].video
Saving(v, q) == \E w \in Worker : worker[w].step = "save" /\ Works(w, v) /\ q \in worker[w].at
NoRows(v) == [s \in Slot |-> IF s[1] = v THEN "none" ELSE row[s]]
There(v) == video[v].status \notin {"none", "deleted"}
End(w) == worker' = [worker EXCEPT ![w] = Idle]

createVideo(v) ==
  /\ video[v].status = "none"
  /\ \E F \in SUBSET Quality, g \in BOOLEAN :
       video' = [video EXCEPT ![v] = [status |-> "PENDING", good |-> g, fits |-> F]]
  /\ UNCHANGED <<row, object, worker, again, crossed, crashed, crashes, asked>>

\* The rows go with it, the objects stay.
deleteVideo(v) ==
  /\ There(v)
  /\ video' = [video EXCEPT ![v].status = "deleted"]
  /\ row' = NoRows(v)
  /\ UNCHANGED <<object, worker, again, crossed, crashed, crashes, asked>>

\* retranscode(): the video is queued again ...
Queue(v) ==
  /\ There(v) /\ v \notin again /\ asked < MaxAgain
  /\ video' = [video EXCEPT ![v].status = "PENDING"]
  /\ again' = again \cup {v}
  /\ crossed' = IF \E w \in Worker : Works(w, v) THEN crossed \cup {v} ELSE crossed
  /\ asked' = asked + 1
  /\ UNCHANGED <<row, object, worker, crashed, crashes>>

\* mutant: the variants of the time before are left
KeepRows(v) ==
  /\ v \in again
  /\ again' = again \ {v}
  /\ UNCHANGED <<video, row, object, worker, crossed, crashed, crashes, asked>>

\* ... and its rows are deleted, unless the request fails in between.
DeleteRows(v) ==
  /\ v \in again
  /\ again' = again \ {v}
  /\ \/ row' = NoRows(v) /\ UNCHANGED crossed
     \/ crossed' = crossed \cup {v} /\ UNCHANGED row
  /\ UNCHANGED <<video, object, worker, crashed, crashes, asked>>

-----------------------------------------------------------------------------
(* pickNext() and transcode(), of process w.                               *)

pickNext(w, v) ==
  /\ worker[w] = Idle /\ video[v].status = "PENDING"
  /\ worker' = [worker EXCEPT ![w] = [Idle EXCEPT !.step = "taken", !.video = {v}]]
  /\ crossed' = IF v \in again \/ \E u \in Worker : Works(u, v) THEN crossed \cup {v} ELSE crossed
  /\ UNCHANGED <<video, row, object, again, crashed, crashes, asked>>

\* A video that is gone is passed over.
Start(w, v) ==
  /\ worker[w].step = "taken" /\ Works(w, v)
  /\ IF There(v)
     THEN /\ video' = [video EXCEPT ![v].status = "RUNNING"]
          /\ worker' = [worker EXCEPT ![w].step = "source"]
     ELSE End(w) /\ UNCHANGED video
  /\ UNCHANGED <<row, object, again, crossed, crashed, crashes, asked>>

\* The source is played as it is: each quality that fits points at the upload.
Skip(w, v) ==
  /\ worker[w].step = "source" /\ Works(w, v) /\ There(v) /\ video[v].good
  /\ row' = [s \in Slot |-> IF s[1] = v /\ s[2] \in video[v].fits THEN "upload" ELSE row[s]]
  /\ video' = [video EXCEPT ![v].status = "SKIPPED"]
  /\ End(w)
  /\ UNCHANGED <<object, again, crossed, crashed, crashes, asked>>

Probe(w, v) ==
  /\ worker[w].step = "source" /\ Works(w, v) /\ ~video[v].good
  /\ worker' = [worker EXCEPT ![w].step = "encode", ![w].left = video[v].fits]
  /\ UNCHANGED <<video, row, object, again, crossed, crashed, crashes, asked>>

\* The object is replaced under the row that may be there.
PutFile(w, v, q) ==
  /\ worker[w].step = "encode" /\ Works(w, v) /\ q \in worker[w].left
  /\ \E e \in Encoding : object' = [object EXCEPT ![<<v, q>>] = e]
  /\ worker' = [worker EXCEPT ![w].step = "save", ![w].left = @ \ {q}, ![w].at = {q}]
  /\ UNCHANGED <<video, row, again, crossed, crashed, crashes, asked>>

\* The checksum was taken of the file that was put there.
SaveVariant(w, v, q) ==
  /\ worker[w].step = "save" /\ Works(w, v) /\ q \in worker[w].at /\ There(v)
  /\ row' = [row EXCEPT ![<<v, q>>] = object[<<v, q>>]]
  /\ worker' = [worker EXCEPT ![w].step = "encode", ![w].at = {}]
  /\ UNCHANGED <<video, object, again, crossed, crashed, crashes, asked>>

Finish(w, v) ==
  /\ worker[w].step = "encode" /\ Works(w, v) /\ worker[w].left = {} /\ There(v)
  /\ video' = [video EXCEPT ![v].status = "DONE"]
  /\ End(w)
  /\ UNCHANGED <<row, object, again, crossed, crashed, crashes, asked>>

\* mutant: a video that failed is left RUNNING
FailsRunning(w, v) ==
  /\ worker[w].step \in {"source", "encode", "save"} /\ Works(w, v)
  /\ End(w)
  /\ UNCHANGED <<video, row, object, again, crossed, crashed, crashes, asked>>

\* A download, an encoder, the store or a statement fails: the video is FAILED, if it
\* is still there.
Fails(w, v) ==
  /\ worker[w].step \in {"source", "encode", "save"} /\ Works(w, v)
  /\ video' = IF There(v) THEN [video EXCEPT ![v].status = "FAILED"] ELSE video
  /\ End(w)
  /\ UNCHANGED <<row, object, again, crossed, crashed, crashes, asked>>

\* The process stops; nothing looks for videos that are RUNNING when it starts again.
Crash(w) ==
  /\ worker[w] # Idle /\ crashes < MaxCrashes
  /\ crashed' = crashed \cup worker[w].video
  /\ crashes' = crashes + 1
  /\ End(w)
  /\ UNCHANGED <<video, row, object, again, crossed, asked>>

Init ==
  /\ video = [v \in Video |-> [status |-> "none", good |-> FALSE, fits |-> {}]]
  /\ row = [s \in Slot |-> "none"] /\ object = [s \in Slot |-> "none"]
  /\ worker = [w \in Worker |-> Idle]
  /\ again = {} /\ crossed = {} /\ crashed = {} /\ crashes = 0 /\ asked = 0

Work(w, v) ==
  \/ Start(w, v) \/ Skip(w, v) \/ Probe(w, v) \/ Finish(w, v) \/ Fails(w, v)
  \/ \E q \in Quality : PutFile(w, v, q) \/ SaveVariant(w, v, q)

Next ==
  \/ \E v \in Video : createVideo(v) \/ deleteVideo(v) \/ Queue(v) \/ DeleteRows(v)
  \/ \E w \in Worker : Crash(w) \/ \E v \in Video : pickNext(w, v) \/ Work(w, v)

\* The cron job of every process ticks on, and what it started goes on to its end.
Fairness ==
  \A w \in Worker : WF_vars(\E v \in Video : pickNext(w, v)) /\ WF_vars(\E v \in Video : Work(w, v))

Spec == Init /\ [][Next]_vars /\ Fairness

-----------------------------------------------------------------------------
\* What a player is pointed at verifies: a variant's checksum is that of its object,
\* but while a process has replaced the object and not saved the row; and a video that
\* is DONE has every quality that fits.  Neither holds of a video that was queued again
\* while a process worked on it or could take it, or that two processes took.
VariantsVerify ==
  \A v \in Video \ crossed, q \in Quality :
    /\ row[<<v, q>>] \in Encoding /\ ~Saving(v, q) => row[<<v, q>>] = object[<<v, q>>]
    /\ video[v].status = "DONE" /\ q \in video[v].fits => row[<<v, q>>] # "none"

\* A video is RUNNING only while a process works on it, though it may be queued again, taken by
\* two or deleted meanwhile - or after a process that worked on it stopped.
RunningHasProcess ==
  \A v \in Video : video[v].status = "RUNNING" => v \in crashed \/ \E w \in Worker : Works(w, v)

\* A video that waits is transcoded or fails in the end, or goes - unless a process
\* stopped while it worked on it: that one stays RUNNING.
QueueDrains ==
  \A v \in Video :
    video[v].status = "PENDING" ~>
      video[v].status \in {"DONE", "SKIPPED", "FAILED", "deleted"} \/ v \in crashed
=============================================================================
