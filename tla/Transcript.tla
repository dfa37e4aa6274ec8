----------------------------- MODULE Transcript -----------------------------
(***************************************************************************)
(* The transcript of one agent run: the chunk log with its retained        *)
(* snapshot, the rows of the assistant message's parts, the streams of the *)
(* model proxy and the other writers, and a browser that follows the run   *)
(* (persistence/agent.go, application/harnessproxy.go, agentloop.go,       *)
(* httpapi/agent.go).                                                      *)
(*                                                                         *)
(* What a part holds is a number: of the deltas in a text or a chain of    *)
(* thought; of a tool call 0 until its arguments are complete, then 1, and *)
(* 2 with its result.  A chunk and the snapshot it is folded into are one  *)
(* transaction; rows are written in other ones.                            *)
(***************************************************************************)
EXTENDS Integers, Sequences

CONSTANTS
    MaxParts,    \* bound: parts of the message
    MaxDeltas,   \* bound: deltas of one stream
    MaxStreams,  \* bound: model streams of the run
    MaxCalls,    \* limits.MaxTurns: counted model calls before the budget is spent
    MaxNotices,  \* bound: requests that write the notice of a spent budget
    MaxReturns,  \* bound: times the browser comes back to the run
    MaxDeaths    \* bound: deaths of the API process

ASSUME TranscriptAssumption ==
    MaxParts \in Nat \ {0} /\ MaxDeltas \in Nat /\ MaxStreams \in Nat /\ MaxCalls \in Nat \ {0}
    /\ MaxNotices \in Nat \ {0} /\ MaxReturns \in Nat /\ MaxDeaths \in Nat

VARIABLES
    turn,         \* the run: its status, its driver and its counted model calls
    partRow,      \* agent_message_parts of the assistant message, by idx
    chunk,        \* agent_run_chunks
    retained,     \* state_json and checkpoint_seq
    modelStream,  \* the harnessTranscript of the stream that is open
    reply,        \* the replies and notices that the server writes by itself
    runSession,   \* what a handler's session holds until it saves it
    viewer,       \* the browser
    torn          \* history: parts that a writer left shown otherwise than stored

transcriptVars == <<turn, partRow, chunk, retained, modelStream, reply, runSession, viewer, torn>>

\* A run with a model is driven by a harness host, one without by the worker.
Drivers == {"host", "worker"}

PartIds == 1..MaxParts
Missing == -1
Amount == Nat \cup {Missing}
View == [shell: BOOLEAN, running: BOOLEAN, part: [PartIds -> Amount]]
Chunk == [op: {"shell", "set", "append", "end"}, part: PartIds, n: Nat, gain: [PartIds -> Nat]]
StreamPart == 0..MaxParts
Writers == 1..MaxNotices

\* "blind": a writer holds no session.  "silent": the run was ended by its status
\* alone, or the event of its end was not written.
Turn == [status: {"active", "ended"}, driver: Drivers, blind: BOOLEAN, silent: BOOLEAN,
         calls: Nat, streams: 0..MaxStreams, deaths: 0..MaxDeaths]
\* "twice": a second row was inserted at the same index.
PartRow == [kind: {"none", "text", "reasoning", "call"}, n: Nat, call: Nat, twice: BOOLEAN]
RetainedRow == [view: View, checkpoint: Nat]
Stream == [at: {"idle", "open", "flushed"}, text: StreamPart, reasoning: StreamPart,
           call: StreamPart, mirror: StreamPart, total: [{"text", "reasoning"} -> Nat],
           pending: [{"text", "reasoning"} -> Nat], cut: BOOLEAN, failed: BOOLEAN]
Reply == [at: {"idle", "loaded", "set", "said", "stored", "closed", "over"}, part: StreamPart]
RunSession == [view: View, cursor: Nat, loaded: BOOLEAN]
Viewer == [at: {"polled", "drained", "away", "told", "done", "expired"}, cursor: Nat, view: View,
           terminal: BOOLEAN, missed: BOOLEAN, returns: 0..MaxReturns]

TranscriptTypeOK ==
    /\ turn \in Turn /\ partRow \in [PartIds -> PartRow]
    /\ chunk \in Seq(Chunk) /\ retained \in RetainedRow
    /\ modelStream \in Stream /\ reply \in [Writers -> Reply]
    /\ runSession \in RunSession /\ viewer \in Viewer
    /\ torn \in SUBSET PartIds

Blank == [shell |-> FALSE, running |-> TRUE, part |-> [p \in PartIds |-> Missing]]
NoStream == [at |-> "idle", text |-> 0, reasoning |-> 0, call |-> 0, mirror |-> 0,
             total |-> [k \in {"text", "reasoning"} |-> 0],
             pending |-> [k \in {"text", "reasoning"} |-> 0], cut |-> FALSE, failed |-> FALSE]
NoReply == [at |-> "idle", part |-> 0]
NoSession == [view |-> Blank, cursor |-> 0, loaded |-> FALSE]

\* SubmitCommands has created the run, and its response is the first stream.
TranscriptInit ==
    /\ \E d \in Drivers :
          turn = [status |-> "active", driver |-> d, blind |-> FALSE, silent |-> FALSE,
                  calls |-> 0, streams |-> 0, deaths |-> 0]
    /\ partRow = [p \in PartIds |-> [kind |-> "none", n |-> 0, call |-> 0, twice |-> FALSE]]
    /\ chunk = << >>
    /\ retained = [view |-> Blank, checkpoint |-> 0]
    /\ modelStream = NoStream /\ reply = [w \in Writers |-> NoReply] /\ runSession = NoSession
    /\ viewer = [at |-> "drained", cursor |-> 0, view |-> Blank, terminal |-> FALSE,
                 missed |-> FALSE, returns |-> 0]
    /\ torn = {}

-----------------------------------------------------------------------------
(* The log.                                                                 *)

NoGain == [p \in PartIds |-> 0]
Event(op) == [op |-> op, part |-> 1, n |-> 0, gain |-> NoGain]
Set(p, n) == [Event("set") EXCEPT !.part = p, !.n = n]
AppendText(gain) == [Event("append") EXCEPT !.gain = gain]

\* ApplyStateJSON: one event; text goes only to parts that are there, or the
\* whole event is refused.
Applied(v, c) ==
    CASE c.op = "shell" -> [v EXCEPT !.shell = TRUE]
      [] c.op = "end" -> [v EXCEPT !.running = FALSE]
      [] c.op = "set" -> [v EXCEPT !.part[c.part] = c.n]
      [] c.op = "append" -> [v EXCEPT !.part = [p \in PartIds |-> @[p] + c.gain[p]]]

FoldsInto(v, c) == \A p \in PartIds : c.gain[p] > 0 => v.part[p] # Missing

\* The view after the events c[from..to].
Replayed(v, c, from, to) ==
    LET view[n \in 0 .. to] == IF n < from THEN v ELSE Applied(view[n - 1], c[n]) IN view[to]

\* AppendChunk: the event, the snapshot and the checkpoint.
AppendChunk(c) ==
    /\ FoldsInto(retained.view, c)
    /\ chunk' = Append(chunk, c)
    /\ retained' = [view |-> Applied(retained.view, c), checkpoint |-> Len(chunk) + 1]

UnchangedLog == UNCHANGED <<chunk, retained>>

-----------------------------------------------------------------------------
(* The run.                                                                 *)

Active == turn.status # "ended"

\* beginRun: the preamble ends with the message that the run writes into.  It
\* reads no status: the run may be over by then.
BeginRun ==
    /\ ~retained.view.shell /\ (turn.driver = "worker" => ~turn.blind)
    /\ AppendChunk(Event("shell"))
    /\ UNCHANGED <<turn, partRow, modelStream, reply, runSession, viewer, torn>>

\* finishRun: the events of the end and the status are one transaction.
FinishRun ==
    /\ Active /\ turn.driver = "host" /\ retained.view.shell
    /\ turn' = [turn EXCEPT !.status = "ended"]
    /\ AppendChunk(Event("end"))
    /\ UNCHANGED <<partRow, modelStream, reply, runSession, viewer, torn>>

\* It loads its session before that: one that was loaded before the message was
\* made ends the run by its status alone.
LoadNoSession ==
    /\ Active /\ turn.driver = "host" /\ ~retained.view.shell /\ ~turn.blind
    /\ turn' = [turn EXCEPT !.blind = TRUE]
    /\ UNCHANGED <<partRow, chunk, retained, modelStream, reply, runSession, viewer, torn>>

\* The end of a run by its status: no event is written with it.
EndSilently ==
    /\ Active /\ turn' = [turn EXCEPT !.status = "ended", !.silent = TRUE]
    /\ UNCHANGED <<partRow, chunk, retained, modelStream, reply, runSession, viewer, torn>>

FinishStatusOnly == turn.driver = "host" /\ turn.blind /\ EndSilently

\* ExecuteRun: the preamble of the worker's run failed.
BeginFails ==
    /\ Active /\ turn.driver = "worker" /\ ~retained.view.shell /\ ~turn.blind
    /\ turn' = [turn EXCEPT !.status = "ended", !.silent = TRUE, !.blind = TRUE]
    /\ UNCHANGED <<partRow, chunk, retained, modelStream, reply, runSession, viewer, torn>>

\* MarkInterruptedRuns: a worker that starts ends the runs it finds in flight,
\* whatever still writes into them.
WorkerStarts == EndSilently

\* Tool calls with a proposal; what became of it is not part of the amount.
Proposed == {p \in PartIds : partRow[p].kind = "call" /\ partRow[p].n = 2}

\* detachPendingBrowserApproval ends a parked run that a restored browser decides on;
Detach == turn.driver = "host" /\ Proposed # {} /\ EndSilently

\* refreshDetachedApproval, after that and after every decision on a run that is
\* over: it sets the card again as it is stored, and ends the log.
RefreshDetachedApproval ==
    /\ ~Active /\ turn.driver = "host" /\ Proposed # {} /\ retained.view.running
    /\ AppendChunk(Event("end"))
    /\ UNCHANGED <<turn, partRow, modelStream, reply, runSession, viewer, torn>>

\* toProtocolMessage: the parts as a reload or a session reads them.
StoredParts == [p \in PartIds |-> IF partRow[p].kind = "none" THEN Missing ELSE partRow[p].n]

\* A handler loads a session from the rows ...
LoadSession ==
    /\ ~runSession.loaded /\ retained.view.shell
    /\ runSession' = [view |-> [retained.view EXCEPT !.part = StoredParts],
                      cursor |-> Len(chunk), loaded |-> TRUE]
    /\ UNCHANGED <<turn, partRow, chunk, retained, modelStream, reply, viewer, torn>>

\* ... and SaveRunState finds chunks, whose snapshot is newer.
MaySave_Always == TRUE

MaySave == chunk = << >>

SaveSession ==
    /\ runSession.loaded /\ runSession' = NoSession
    /\ retained' = IF MaySave THEN [view |-> runSession.view, checkpoint |-> runSession.cursor]
                   ELSE retained
    /\ UNCHANGED <<turn, partRow, chunk, modelStream, reply, viewer, torn>>

-----------------------------------------------------------------------------
(* A stream of the model proxy.                                             *)

OpenStream ==
    /\ Active /\ retained.view.shell /\ turn.driver = "host" /\ turn.calls < MaxCalls
    /\ modelStream.at = "idle" /\ turn.streams < MaxStreams
    /\ modelStream' = [NoStream EXCEPT !.at = "open"]
    /\ turn' = [turn EXCEPT !.streams = @ + 1]
    /\ UNCHANGED <<partRow, chunk, retained, reply, runSession, viewer, torn>>

FreeIdx == {p \in PartIds : partRow[p].kind = "none"}
NextPartIdx == CHOOSE p \in FreeIdx : \A q \in FreeIdx : p <= q

\* reasoningPartID: the chain of thought that the same model call began before.
BegunBefore_AnyCall == {p \in PartIds : partRow[p].kind = "reasoning"}

BegunBefore == {p \in PartIds : partRow[p].kind = "reasoning" /\ partRow[p].call = turn.calls + 1}

\* createPart: the row and its index, or the row of the broken attempt.
CreatePart(kind) ==
    /\ modelStream.at = "open" /\ modelStream.mirror = 0 /\ ~modelStream.cut /\ modelStream[kind] = 0
    /\ \E p \in PartIds :
          /\ IF kind = "reasoning" /\ BegunBefore # {}
             THEN p \in BegunBefore /\ UNCHANGED partRow
             ELSE /\ FreeIdx # {} /\ p = NextPartIdx
                  /\ partRow' = [partRow EXCEPT ![p] =
                        [kind |-> kind, n |-> 0, call |-> turn.calls + 1, twice |-> FALSE]]
          /\ modelStream' = [modelStream EXCEPT ![kind] = p, !.mirror = p]
    /\ UNCHANGED <<turn, chunk, retained, reply, runSession, viewer, torn>>

\* mirrorPart: the event that shows the row; its error is ignored.
MirrorPart ==
    /\ modelStream.at = "open" /\ modelStream.mirror # 0
    /\ modelStream' = [modelStream EXCEPT !.mirror = 0]
    /\ IF modelStream.cut THEN UnchangedLog /\ UNCHANGED torn
       ELSE /\ AppendChunk(Set(modelStream.mirror, partRow[modelStream.mirror].n))
            /\ torn' = torn \ {modelStream.mirror}
    /\ UNCHANGED <<turn, partRow, reply, runSession, viewer>>

\* TextDelta and ReasoningDelta.
Delta(kind) ==
    /\ modelStream.at = "open" /\ modelStream.mirror = 0 /\ modelStream[kind] # 0
    /\ modelStream.total[kind] < MaxDeltas
    /\ modelStream' = [modelStream EXCEPT !.total[kind] = @ + 1, !.pending[kind] = @ + 1]
    /\ UNCHANGED <<turn, partRow, chunk, retained, reply, runSession, viewer, torn>>

\* flushDeltas: the waiting deltas of both kinds are one event.
Waiting == [p \in PartIds |-> IF p = modelStream.text THEN modelStream.pending["text"]
                              ELSE IF p = modelStream.reasoning THEN modelStream.pending["reasoning"]
                              ELSE 0]

\* The deltas of a tool call wait for the end of the stream, but what was said
\* before the call is flushed first.
ToolCallDelta == Waiting = NoGain /\ CreatePart("call")

Flushed == [modelStream EXCEPT !.pending = NoStream.pending]

Flush ==
    /\ modelStream.at = "open" /\ modelStream.mirror = 0 /\ ~modelStream.cut
    /\ Waiting # NoGain
    /\ AppendChunk(AppendText(Waiting))
    /\ modelStream' = Flushed
    /\ UNCHANGED <<turn, partRow, reply, runSession, viewer, torn>>

\* The host hangs up: nothing more is written under its request.
HangUp ==
    /\ modelStream.at = "open" /\ ~modelStream.cut
    /\ modelStream' = [modelStream EXCEPT !.cut = TRUE]
    /\ UNCHANGED <<turn, partRow, chunk, retained, reply, runSession, viewer, torn>>

\* Parts that the viewers have seen more of than their rows hold.
ShownOnly(ps) == {p \in ps : retained.view.part[p] \notin {Missing, StoredParts[p]}}

StreamTexts == {modelStream.text, modelStream.reasoning} \ {0}

\* finish flushes under a context of its own.  When one of the texts belongs to
\* a part that was never shown, the event is refused, and with it the rest of
\* finish: no row gets its text and the model call is not counted.
FinishFlush ==
    /\ modelStream.at = "open" /\ modelStream.mirror = 0
    /\ IF ~FoldsInto(retained.view, AppendText(Waiting))
       THEN /\ modelStream' = NoStream /\ torn' = torn \cup ShownOnly(StreamTexts)
            /\ UnchangedLog
       ELSE /\ \E failed \in {modelStream.cut, TRUE} :
                  modelStream' = [Flushed EXCEPT !.at = "flushed", !.failed = failed]
            /\ IF Waiting = NoGain THEN UnchangedLog ELSE AppendChunk(AppendText(Waiting))
            /\ UNCHANGED torn
    /\ UNCHANGED <<turn, partRow, reply, runSession, viewer>>

FinalText(kind) == modelStream.total[kind]

\* ... then one transaction writes the texts onto their rows, counts the call
\* and completes the tool call with an event.
FinishRows ==
    LET c == modelStream.call
        n == IF modelStream.failed THEN 0 ELSE 1
    IN  /\ modelStream.at = "flushed" /\ modelStream' = NoStream
        /\ partRow' = [p \in PartIds |->
              IF p = modelStream.text THEN [partRow[p] EXCEPT !.n = FinalText("text")]
              ELSE IF p = modelStream.reasoning THEN [partRow[p] EXCEPT !.n = FinalText("reasoning")]
              ELSE IF p = c THEN [partRow[p] EXCEPT !.n = n] ELSE partRow[p]]
        /\ turn' = [turn EXCEPT !.calls = @ + 1]
        /\ IF c # 0 THEN AppendChunk(Set(c, n)) ELSE UnchangedLog
        /\ UNCHANGED <<reply, runSession, viewer, torn>>

\* recordToolResult: the row and the event in one transaction, also when the run
\* ended while the tool ran.
RecordToolResult(p) ==
    /\ partRow[p].kind = "call" /\ partRow[p].n = 1
    /\ partRow' = [partRow EXCEPT ![p].n = 2]
    /\ AppendChunk(Set(p, 2))
    /\ UNCHANGED <<turn, modelStream, reply, runSession, viewer, torn>>

\* A text that the server writes whole.
Notice(again) == [kind |-> "text", n |-> 1, call |-> 0, twice |-> again]

\* recordConflict: the note under a proposal that could not be applied, its row
\* and its event in one transaction.
RecordConflict ==
    /\ Proposed # {} /\ FreeIdx # {}
    /\ partRow' = [partRow EXCEPT ![NextPartIdx] = Notice(FALSE)]
    /\ AppendChunk(Set(NextPartIdx, 1)) /\ torn' = torn \ {NextPartIdx}
    /\ UNCHANGED <<turn, modelStream, reply, runSession, viewer>>

-----------------------------------------------------------------------------
(* What the server says by itself: the worker's deterministic reply, and    *)
(* the notice of a spent turn budget, which every request of the host       *)
(* writes that finds the budget spent.  Each step commits on its own.       *)

Saying(w) == reply[w].at \in {"set", "said"}
Writing(w) == reply[w].at \notin {"idle", "over"}
Over == [NoReply EXCEPT !.at = "over"]

\* The session that a reply is written with, and with it the index of its part.
BeginReply(w) ==
    /\ reply[w].at = "idle" /\ \A v \in Writers : v < w => reply[v].at # "idle"
    /\ retained.view.shell /\ FreeIdx # {}
    /\ IF turn.driver = "host" THEN Active /\ turn.calls >= MaxCalls ELSE w = 1
    /\ reply' = [reply EXCEPT ![w] = [at |-> "loaded", part |-> NextPartIdx]]
    /\ UNCHANGED <<turn, partRow, chunk, retained, modelStream, runSession, viewer, torn>>

AddTextPart(w) ==
    /\ reply[w].at = "loaded" /\ reply' = [reply EXCEPT ![w].at = "set"]
    /\ AppendChunk(Set(reply[w].part, 0)) /\ torn' = torn \ {reply[w].part}
    /\ UNCHANGED <<turn, partRow, modelStream, runSession, viewer>>

AppendReply(w) ==
    /\ reply[w].at = "set" /\ reply' = [reply EXCEPT ![w].at = "said"]
    /\ AppendChunk(AppendText([NoGain EXCEPT ![reply[w].part] = 1]))
    /\ UNCHANGED <<turn, partRow, modelStream, runSession, viewer, torn>>

\* persistTextPart inserts the row.  No index forbids a second row at the place
\* of another, and a reload then shows every later part one place further.
PersistReply(w) ==
    LET p == reply[w].part
        again == partRow[p].kind # "none"
    IN  /\ reply[w].at = "said"
        /\ reply' = [reply EXCEPT ![w] = IF turn.driver = "worker" THEN [@ EXCEPT !.at = "stored"]
                                         ELSE Over]
        /\ partRow' = [partRow EXCEPT ![p] = Notice(again)]
        /\ torn' = IF again THEN torn \cup {p} ELSE torn
        /\ UNCHANGED <<turn, chunk, retained, modelStream, runSession, viewer>>

\* The event of the end, whose error is ignored.
SayTheEnd ==
    \/ AppendChunk(Event("end")) /\ UNCHANGED turn
    \/ UnchangedLog /\ turn' = [turn EXCEPT !.silent = TRUE]

\* succeed: the end of the log, and then the status.
CloseReply(w) ==
    /\ reply[w].at = "stored" /\ reply' = [reply EXCEPT ![w].at = "closed"]
    /\ SayTheEnd
    /\ UNCHANGED <<partRow, modelStream, runSession, viewer, torn>>

\* failRun: a step of the worker's reply is refused; what was said stays said.
FailRun(w) ==
    /\ turn.driver = "worker" /\ (Saying(w) \/ reply[w].at = "loaded")
    /\ reply' = [reply EXCEPT ![w].at = "closed"] /\ SayTheEnd
    /\ torn' = IF Saying(w) THEN torn \cup ShownOnly({reply[w].part}) ELSE torn
    /\ UNCHANGED <<partRow, modelStream, runSession, viewer>>

SetRunStatus(w) ==
    /\ reply[w].at = "closed" /\ reply' = [reply EXCEPT ![w] = Over]
    /\ turn' = [turn EXCEPT !.status = "ended"]
    /\ UNCHANGED <<partRow, chunk, retained, modelStream, runSession, viewer, torn>>

\* A write fails, the host hangs up or the worker dies: the rest is not written.
ReplyCut(w) ==
    /\ Writing(w) /\ reply' = [reply EXCEPT ![w] = Over]
    /\ torn' = IF Saying(w) THEN torn \cup ShownOnly({reply[w].part}) ELSE torn
    /\ UNCHANGED <<turn, partRow, chunk, retained, modelStream, runSession, viewer>>

\* The API process dies with its streams, its sessions and the notices it writes;
\* the browser's connection goes with it.
ServerDies ==
    /\ turn.driver = "host" /\ (modelStream.at # "idle" \/ \E w \in Writers : Writing(w))
    /\ turn.deaths < MaxDeaths /\ turn' = [turn EXCEPT !.deaths = @ + 1]
    /\ modelStream' = NoStream /\ runSession' = NoSession
    /\ reply' = [w \in Writers |-> IF Writing(w) THEN Over ELSE reply[w]]
    /\ torn' = torn \cup ShownOnly(StreamTexts \cup {reply[w].part : w \in {v \in Writers : Saying(v)}})
    /\ viewer' = IF viewer.at \in {"done", "expired"} THEN viewer ELSE [viewer EXCEPT !.at = "away"]
    /\ UNCHANGED <<partRow, chunk, retained>>

-----------------------------------------------------------------------------
(* The browser.                                                             *)

\* streamRun drains the log after it has read the status ...
DrainChunks ==
    /\ viewer.at = "polled"
    /\ viewer' = [viewer EXCEPT !.at = "drained", !.cursor = Len(chunk), !.missed = FALSE,
                                !.view = Replayed(@, chunk, viewer.cursor + 1, Len(chunk))]
    /\ UNCHANGED <<turn, partRow, chunk, retained, modelStream, reply, runSession, torn>>

\* ... where a log that cannot be read counts as one without news, ...
DrainFails ==
    /\ viewer.at = "polled"
    /\ viewer' = [viewer EXCEPT !.at = "drained", !.missed = TRUE]
    /\ UNCHANGED <<turn, partRow, chunk, retained, modelStream, reply, runSession, torn>>

Terminal_ReadLast == ~Active

Terminal == viewer.terminal

\* ... and says [DONE] when that status was terminal; else it reads it again.
EndOrPoll ==
    /\ viewer.at = "drained"
    /\ viewer' = IF Terminal THEN [viewer EXCEPT !.at = "done"]
                 ELSE [viewer EXCEPT !.at = "polled", !.terminal = ~Active]
    /\ UNCHANGED <<turn, partRow, chunk, retained, modelStream, reply, runSession, torn>>

\* It says [DONE] too when the status cannot be read, and at its greatest age.
StreamExpires ==
    /\ viewer.at = "drained"
    /\ viewer' = [viewer EXCEPT !.at = "expired"]
    /\ UNCHANGED <<turn, partRow, chunk, retained, modelStream, reply, runSession, torn>>

Leave ==
    /\ viewer.at \in {"polled", "drained"}
    /\ viewer' = [viewer EXCEPT !.at = "away"]
    /\ UNCHANGED <<turn, partRow, chunk, retained, modelStream, reply, runSession, torn>>

\* resume-state answers with the snapshot of an active run ...
ResumeState ==
    /\ viewer.at \in {"away", "expired"} /\ Active /\ viewer.returns < MaxReturns
    /\ viewer' = [viewer EXCEPT !.at = "told", !.view = retained.view, !.returns = @ + 1]
    /\ UNCHANGED <<turn, partRow, chunk, retained, modelStream, reply, runSession, torn>>

\* ... and resume streams from the checkpoint that it reads.
Resume ==
    /\ viewer.at = "told"
    /\ viewer' = [viewer EXCEPT !.at = "polled", !.cursor = retained.checkpoint,
                                !.terminal = ~Active]
    /\ UNCHANGED <<turn, partRow, chunk, retained, modelStream, reply, runSession, torn>>

WriterNext ==
    \/ BeginRun \/ FinishRun \/ LoadNoSession \/ FinishStatusOnly
    \/ BeginFails \/ WorkerStarts \/ Detach \/ RefreshDetachedApproval
    \/ OpenStream \/ MirrorPart \/ Flush \/ HangUp \/ FinishFlush \/ FinishRows
    \/ \E kind \in {"text", "reasoning"} : CreatePart(kind) \/ Delta(kind)
    \/ ToolCallDelta
    \/ \E p \in PartIds : RecordToolResult(p)
    \/ RecordConflict
    \/ \E w \in Writers :
          \/ BeginReply(w) \/ AddTextPart(w) \/ AppendReply(w) \/ PersistReply(w)
          \/ CloseReply(w) \/ FailRun(w) \/ SetRunStatus(w) \/ ReplyCut(w)
    \/ ServerDies

SessionNext == LoadSession \/ SaveSession

ViewerNext == DrainChunks \/ DrainFails \/ EndOrPoll \/ StreamExpires \/ Leave \/ ResumeState \/ Resume

TranscriptNext == WriterNext \/ SessionNext \/ ViewerNext

TranscriptSpec == TranscriptInit /\ [][TranscriptNext]_transcriptVars

-----------------------------------------------------------------------------
(* Properties.                                                              *)

\* The retained snapshot is the log replayed to the checkpoint, whichever
\* handlers save the sessions they loaded earlier (AppendChunk; SaveRunState:
\* "A stale request-local session must never roll that snapshot back").
SnapshotIsTheLog ==
    /\ retained.checkpoint = Len(chunk)
    /\ retained.view = Replayed(Blank, chunk, 1, Len(chunk))

\* A browser that stayed with the run's first stream until the [DONE] of a status
\* read as terminal has been shown that the run is over, in however many
\* transactions it ended (streamRun, finishRun, succeed: "Chunks are committed
\* before the run status flips terminal, so a terminal read implies the log is
\* complete").  The ends by status alone are the exception: MarkInterruptedRuns,
\* detachPendingBrowserApproval, a finishRun that found no message yet, a failed
\* preamble, and an end whose event could not be written; and so is a last read
\* of the log that failed.
DoneShowsTheEnd ==
    /\ viewer.at = "done" /\ viewer.returns = 0 /\ ~viewer.missed /\ ~turn.silent =>
          ~viewer.view.running
    /\ ~Active /\ retained.view.running => turn.silent

Shifted == UNION {p..MaxParts : p \in {q \in PartIds : partRow[q].twice}}

\* What was streamed is what a reload reads from the rows, once nobody writes:
\* cut and failed streams, retried calls, streams that outlive the run and the
\* notices of several requests included.  The exceptions are a part whose writer
\* died, was cut off or refused while it showed more or less than its row, and
\* the parts from an index on at which two writers of the server inserted a row.
\* (createPart, finish, persistTextPart, toProtocolMessage)
ReloadShowsWhatWasStreamed ==
    modelStream.at = "idle" /\ (\A w \in Writers : ~Writing(w)) =>
       \A p \in PartIds \ (torn \cup Shifted) : retained.view.part[p] \in {Missing, StoredParts[p]}

=============================================================================
