---------------------------- MODULE StoredFiles -----------------------------
(***************************************************************************)
(* Files on the server's disk and the rows that name them: the images of   *)
(* conversations (application/attachments.go, agentthreads.go, the         *)
(* binding in agent.go) and the recordings of transcription jobs           *)
(* (httpapi/server.go, audioreaper.go).                                    *)
(*                                                                         *)
(* A file and its row are written and removed in different steps, by       *)
(* uploads, sends, deletions and the two reapers of the scheduler, each of *)
(* which may stop between any two.  Age is left out but for "old", which   *)
(* is past the time to live.                                               *)
(***************************************************************************)
EXTENDS Integers, FiniteSets

CONSTANTS
    Images, Threads, Recordings,
    NoThread,
    MaxRemovals, \* bound: deletions and sweeps under way at once
    MaxStops     \* bound: deaths of the process

ASSUME FilesAssumption ==
    NoThread \notin Threads /\ MaxRemovals \in Nat /\ MaxStops \in Nat

VARIABLES
    image,      \* agent_attachments, with the file of each
    thread,     \* the conversations that exist
    upload,     \* the thread each Upload was made for, while it runs
    removal,    \* the deletions and sweeps under way
    recording,
    sweep,      \* the recordings an audio sweep found unused and will remove
    stops,
    carried     \* history: the images sent in another conversation than the one whose
                \* deletion had listed them

fileVars == <<image, thread, upload, removal, recording, sweep, stops, carried>>
audio == <<recording, sweep>>

\* row: "loose" is a row without a thread.
Image == [row: {"none", "loose", "bound", "gone"}, thread: Threads \cup {NoThread},
          file: BOOLEAN, old: BOOLEAN]

\* A deletion: the rows it listed, and for a thread the thread.
Removal == [kind: {"image", "thread", "sweep"}, at: {"listed", "deleted"},
            images: SUBSET Images, thread: Threads \cup {NoThread}]

\* A recording: its file and the transcription job that reads it.
Recording == [file: BOOLEAN, old: BOOLEAN, job: {"none", "queued", "failed", "succeeded"},
              retried: BOOLEAN]

FilesTypeOK ==
    /\ image \in [Images -> Image]
    /\ thread \in [Threads -> {"none", "live", "gone"}]
    /\ upload \in [Images -> [at: {"idle", "checked", "written"}, thread: Threads \cup {NoThread}]]
    /\ removal \in SUBSET Removal
    /\ recording \in [Recordings -> Recording]
    /\ sweep \in SUBSET Recordings
    /\ stops \in 0..MaxStops
    /\ carried \in SUBSET Images

NoImage == [row |-> "none", thread |-> NoThread, file |-> FALSE, old |-> FALSE]
NoUpload == [at |-> "idle", thread |-> NoThread]
NoRecording == [file |-> FALSE, old |-> FALSE, job |-> "none", retried |-> FALSE]

FilesInit ==
    /\ image = [i \in Images |-> NoImage]
    /\ thread = [t \in Threads |-> "none"]
    /\ upload = [i \in Images |-> NoUpload]
    /\ removal = {}
    /\ recording = [r \in Recordings |-> NoRecording]
    /\ sweep = {}
    /\ stops = 0
    /\ carried = {}

HasRow(i) == image[i].row \in {"loose", "bound"}
Of(t) == {i \in Images : HasRow(i) /\ image[i].thread = t}

-----------------------------------------------------------------------------
(* Uploads.                                                                 *)

\* The checks and the quota of the thread, which is read and not held.
UploadChecks(i, t) ==
    /\ image[i] = NoImage /\ upload[i] = NoUpload
    /\ t \in {NoThread} \cup {u \in Threads : thread[u] = "live"}
    /\ upload' = [upload EXCEPT ![i] = [at |-> "checked", thread |-> t]]
    /\ UNCHANGED <<image, thread, removal, audio, stops, carried>>

UploadWrites(i) ==
    /\ upload[i].at = "checked"
    /\ image' = [image EXCEPT ![i].file = TRUE]
    /\ upload' = [upload EXCEPT ![i].at = "written"]
    /\ UNCHANGED <<thread, removal, audio, stops, carried>>

\* The row; a foreign key refuses a thread that is gone, and the file goes too.
UploadRecords(i) ==
    LET t == upload[i].thread
        refused == t # NoThread /\ thread[t] # "live"
    IN  /\ upload[i].at = "written"
        /\ image' = [image EXCEPT ![i] =
              IF refused THEN [NoImage EXCEPT !.row = "gone"]
              ELSE [NoImage EXCEPT !.row = IF t = NoThread THEN "loose" ELSE "bound",
                                   !.thread = t, !.file = image[i].file]]
        /\ upload' = [upload EXCEPT ![i] = NoUpload]
        /\ UNCHANGED <<thread, removal, audio, stops, carried>>

-----------------------------------------------------------------------------
(* Conversations.                                                           *)

\* What deletions of other conversations listed and will remove from the disk.
ListedElsewhere(t) == UNION {d.images : d \in {e \in removal : e.kind = "thread" /\ e.thread # t}}

\* SubmitCommands: one transaction opens the thread when the request names none
\* and binds the images of the message that still have a row, wherever they are
\* bound.
SubmitCommands(t, named) ==
    /\ thread[t] # "gone"
    /\ thread' = [thread EXCEPT ![t] = "live"]
    /\ image' = [i \in Images |->
          IF i \in named /\ HasRow(i) THEN [image[i] EXCEPT !.row = "bound", !.thread = t]
          ELSE image[i]]
    /\ carried' = carried \cup {i \in named \cap ListedElsewhere(t) : HasRow(i)}
    /\ UNCHANGED <<upload, removal, audio, stops>>

\* A deletion lists what it will remove ...
Begin(kind, images, t) ==
    /\ Cardinality(removal) < MaxRemovals
    /\ removal' = removal \cup {[kind |-> kind, at |-> "listed", images |-> images, thread |-> t]}

DeleteImage(i) ==
    /\ HasRow(i)
    /\ Begin("image", {i}, NoThread)
    /\ UNCHANGED <<image, thread, upload, audio, stops, carried>>

DeleteAgentThread(t) ==
    /\ thread[t] = "live"
    /\ Begin("thread", Of(t), t)
    /\ UNCHANGED <<image, thread, upload, audio, stops, carried>>

Orphans == {i \in Images : image[i].row = "loose" /\ image[i].old}

ReapOrphans ==
    /\ Orphans # {}
    /\ Begin("sweep", Orphans, NoThread)
    /\ UNCHANGED <<image, thread, upload, audio, stops, carried>>

Without(images) == [i \in Images |->
    IF i \in images /\ HasRow(i) THEN [image[i] EXCEPT !.row = "gone", !.thread = NoThread]
    ELSE image[i]]

NextRemoval(d, to) == removal' = (removal \ {d}) \cup to

\* ... then deletes rows: those of the thread as it is now, or those it listed,
\* whatever became of them.
RowsOf_Forgotten(d) == IF d.kind = "thread" THEN {} ELSE d.images

RowsOf(d) == IF d.kind = "thread" THEN Of(d.thread) ELSE d.images

DeleteRows(d) ==
    /\ d \in removal /\ d.at = "listed"
    /\ IF d.kind = "thread" /\ thread[d.thread] = "gone"
       THEN NextRemoval(d, {}) /\ UNCHANGED <<image, thread>>
       ELSE /\ image' = Without(RowsOf(d))
            /\ thread' = IF d.kind = "thread" THEN [thread EXCEPT ![d.thread] = "gone"] ELSE thread
            /\ NextRemoval(d, {[d EXCEPT !.at = "deleted"]})
    /\ UNCHANGED <<upload, audio, stops, carried>>

\* ... and the files it listed last.
DeleteFiles(d) ==
    /\ d \in removal /\ d.at = "deleted"
    /\ image' = [i \in Images |-> IF i \in d.images THEN [image[i] EXCEPT !.file = FALSE]
                                  ELSE image[i]]
    /\ NextRemoval(d, {})
    /\ UNCHANGED <<thread, upload, audio, stops, carried>>

ImageAges(i) ==
    /\ image[i].row = "loose" /\ ~image[i].old
    /\ image' = [image EXCEPT ![i].old = TRUE]
    /\ UNCHANGED <<thread, upload, removal, audio, stops, carried>>

-----------------------------------------------------------------------------
(* Recordings.                                                              *)

\* The voice route writes the file and then enqueues its job; a job that is
\* refused takes its file with it.
RecordVoice(r) ==
    /\ recording[r] = NoRecording
    /\ recording' = [recording EXCEPT ![r].file = TRUE]
    /\ UNCHANGED <<image, thread, upload, removal, sweep, stops, carried>>

EnqueueVoice(r) ==
    /\ recording[r].file /\ recording[r].job = "none" /\ ~recording[r].old
    /\ \/ recording' = [recording EXCEPT ![r].job = "queued"]
       \/ recording' = [recording EXCEPT ![r].file = FALSE, ![r].job = "failed"]
    /\ UNCHANGED <<image, thread, upload, removal, sweep, stops, carried>>

\* The worker: success removes the recording, a failure keeps it for a retry.
VoiceJobEnds(r) ==
    /\ recording[r].job = "queued"
    /\ \/ recording' = [recording EXCEPT ![r].job = "succeeded", ![r].file = FALSE]
       \/ recording' = [recording EXCEPT ![r].job = "failed"]
    /\ UNCHANGED <<image, thread, upload, removal, sweep, stops, carried>>

\* RetryJob of a failed job, whether or not its recording is still there.
RetryVoice(r) ==
    /\ recording[r].job = "failed" /\ ~recording[r].retried
    /\ recording' = [recording EXCEPT ![r].job = "queued", ![r].retried = TRUE]
    /\ UNCHANGED <<image, thread, upload, removal, sweep, stops, carried>>

RecordingAges(r) ==
    /\ recording[r].file /\ ~recording[r].old
    /\ recording' = [recording EXCEPT ![r].old = TRUE]
    /\ UNCHANGED <<image, thread, upload, removal, sweep, stops, carried>>

InUse_Failed(r) == recording[r].job = "failed"

InUse(r) == recording[r].job = "queued"

\* ReapStaleAudio: the jobs are read once, and then old files are removed.
ReapStaleAudio ==
    /\ sweep = {}
    /\ sweep' = {r \in Recordings : recording[r].file /\ recording[r].old /\ ~InUse(r)}
    /\ UNCHANGED <<image, thread, upload, removal, recording, stops, carried>>

RemoveAudio ==
    /\ sweep # {} /\ sweep' = {}
    /\ recording' = [r \in Recordings |->
          IF r \in sweep THEN [recording[r] EXCEPT !.file = FALSE] ELSE recording[r]]
    /\ UNCHANGED <<image, thread, upload, removal, stops, carried>>

\* The process dies with its uploads, deletions and sweeps.
FilesStop ==
    /\ stops < MaxStops /\ stops' = stops + 1
    /\ upload' = [i \in Images |-> NoUpload]
    /\ removal' = {} /\ sweep' = {}
    /\ UNCHANGED <<image, thread, recording, carried>>

ImageNext ==
    \/ \E i \in Images : \/ UploadWrites(i) \/ UploadRecords(i) \/ DeleteImage(i) \/ ImageAges(i)
                         \/ \E t \in Threads \cup {NoThread} : UploadChecks(i, t)
    \/ \E t \in Threads : \/ DeleteAgentThread(t)
                          \/ \E named \in SUBSET Images : SubmitCommands(t, named)
    \/ ReapOrphans
    \/ \E d \in removal : DeleteRows(d) \/ DeleteFiles(d)

AudioNext ==
    \/ \E r \in Recordings : \/ RecordVoice(r) \/ EnqueueVoice(r) \/ VoiceJobEnds(r)
                             \/ RetryVoice(r) \/ RecordingAges(r)
    \/ ReapStaleAudio \/ RemoveAudio

FilesNext == ImageNext \/ AudioNext \/ FilesStop

FilesSpec == FilesInit /\ [][FilesNext]_fileVars

-----------------------------------------------------------------------------
(* Properties.                                                              *)

\* "A row that still exists must keep its bytes readable" (agentthreads.go): no
\* order of uploads, sends, deletions and sweeps, and no death between their
\* steps, leaves a row without its file, but for one that the code does not
\* guard: an image that is sent in one conversation after the deletion of
\* another has listed it keeps its row there and loses its file.
RowKeepsItsBytes == \A i \in Images : HasRow(i) /\ i \notin carried => image[i].file

\* A transcription waits as long as it must and finds its recording: the reaper
\* takes that of a job that ended, also when a retry comes (ReapStaleAudio).
QueuedVoiceHasAudio ==
    \A r \in Recordings :
       recording[r].job = "queued" /\ ~recording[r].retried => recording[r].file

=============================================================================
