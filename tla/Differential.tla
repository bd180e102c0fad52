---------------------------- MODULE Differential ----------------------------
(***************************************************************************)
(* A differential download: DifferentialDownloader executes the plan with  *)
(* one range per request or, on the hosts that serve several ranges, with  *)
(* batches of ranges whose multipart answer DataSplitter takes apart while *)
(* it comes in, in chunks cut anywhere.  The old file is read and the new  *)
(* one written as the stream goes; a cancel, a failure of the server or    *)
(* the watchdog may stop it at any point, a refusal of several ranges      *)
(* starts it again with one range per request.                             *)
(***************************************************************************)
EXTENDS DownloadPlan

CONSTANTS
  OldMaps, NewMaps,     \* the block maps of the old and of the new file
  FileMetadata,         \* fileMetadataBuffer: the end of the new file, outside its blocks
  CRLF, LF,             \* line ends, as bytes
  MaxRanges, MaxTasks,  \* MAX_RANGES_PER_REQUEST, MAX_TASKS_PER_REQUEST
  RangesPerPause,       \* downloads between two pauses of a second (100)
  MaxFaults             \* bound: failures of the server

ASSUME LimitsAssumption ==
  /\ MaxRanges \in Nat \ {0} /\ MaxTasks \in Nat \ {0} /\ RangesPerPause \in Nat \ {0}
  /\ MaxFaults \in Nat
ASSUME MapsAssumption == \A m \in OldMaps \union NewMaps : m \in Seq(DOMAIN Content)
ASSUME MetadataAssumption == FileMetadata \in Seq(Byte)
\* no byte of a line end is in the tokens of a delimiter or a header
ASSUME LineEndAssumption ==
  /\ CRLF = <<CRLF[1], CRLF[2]>> /\ LF = <<CRLF[2]>> /\ CRLF[1] # CRLF[2]
  /\ {CRLF[1], CRLF[2], "-", "boundary", "header"} \subseteq Byte
  /\ {CRLF[1], CRLF[2]} \intersect {"-", "boundary", "header"} = {}

VARIABLES
  \* chosen by the release, the machine and the host
  oldMap, newMap,
  isOldFileIntact,      \* the old file is the one its block map describes
  \* DifferentialDownloader
  useMultiple,          \* isUseMultipleRangeRequest
  plan,                 \* the operations
  phase,
  error,                \* what writeNewFile has rejected with
  cancelled,            \* the cancellation token
  oldFileOpen,          \* the descriptor of the old file
  newFile,              \* the bytes written to the new file
  \* writeNewFile
  step,                 \* what w waits for
  next,                 \* the index of the next operation
  batch,                \* the operations of the request: start, and end (exclusive)
  copy,                 \* the operation whose copy reads the old file, or 0
  downloads,            \* downloadOperationCount
  timer,                \* the pause
  \* the multipart answer
  response,             \* its bytes to come
  chunk,                \* the bytes of the chunk that handleData has not handled
  splitter,             \* DataSplitter
  faults

inputs == <<oldMap, newMap, isOldFileIntact>>
control == <<phase, error, useMultiple, cancelled, plan>>
files == <<oldFileOpen, newFile>>
multipart == <<response, chunk, splitter>>
vars == <<inputs, control, files, step, next, batch, copy, downloads, timer, multipart, faults>>

NewBytes == FileOf(newMap) \o FileMetadata
\* An old file that is not intact has lost its first byte.
OldBytes == IF isOldFileIntact THEN FileOf(oldMap) ELSE SubSeq(FileOf(oldMap), 2, Len(FileOf(oldMap)))

Slice(bytes, operation) ==
  SubSeq(bytes, operation.start + 1, IF operation.end < Len(bytes) THEN operation.end ELSE Len(bytes))

IsSettled == phase \in {"done", "failed"}
----------------------------------------------------------------------------
(* The batches of ranges and the multipart answer of the server.            *)

Downloads(operations, b) ==
  LET before[i \in b.start .. b.end] ==
        IF i = b.start THEN <<>>
        ELSE IF operations[i - 1].kind = "download" THEN Append(before[i - 1], i - 1)
        ELSE before[i - 1]
  IN before[b.end]

\* computeBatchEnd: as many operations as one request may take.
ComputeBatchEnd(start) ==
  Max({e \in start .. Len(plan) + 1 :
         /\ e - start <= MaxTasks
         /\ Len(Downloads(plan, [start |-> start, end |-> e])) <= MaxRanges})

\* partIndexToTaskIndex, partIndexToLength; parts are counted from 0 as in the code
PartCount == Len(Downloads(plan, batch))
TaskOf(part) == IF part = PartCount THEN batch.end ELSE Downloads(plan, batch)[part + 1]
PrevTaskOf(part) == IF part = 0 THEN batch.start ELSE TaskOf(part - 1) + 1
PartLength(part) == Length(plan[TaskOf(part)])

Delimiter == <<"-", "-", "boundary">>
BoundaryTextLength == 1

PartHead(part, eol) ==
  (IF part = 0 THEN <<>> ELSE eol) \o Delimiter \o eol \o <<"header">> \o eol \o eol

\* The answer to a request of ranges.
AnswerTo(bytes, ranges, eol) ==
  FlattenSeq([k \in DOMAIN ranges |-> PartHead(k - 1, eol) \o Slice(bytes, ranges[k])])
    \o eol \o Delimiter \o <<"-", "-">> \o eol

MultipartBody(eol) == AnswerTo(NewBytes, [k \in 1..PartCount |-> plan[TaskOf(k - 1)]], eol)

NoSplitter == [part |-> -1, at |-> "none", isHeader |-> FALSE, ignore |-> 0, remaining |-> 0,
               tail |-> <<>>, boundaryLength |-> 0, actual |-> 0]
\* the first delimiter has no line end before it
NewSplitter == [NoSplitter EXCEPT !.at = "idle", !.boundaryLength = BoundaryTextLength + 4,
                                  !.ignore = BoundaryTextLength + 2]

\* Mutant: one byte too few is carried to the next chunk.
CarriedTooShort(data) == SubSeq(data, Max({1, Len(data) - 1}), Len(data))

\* HEADER_LIST_END_CARRY: what may be the start of a terminator
Carried(data) == SubSeq(data, Max({1, Len(data) - 2}), Len(data))

Occurrences(data, text) == {i \in 1 .. Len(data) - Len(text) + 1 :
                              SubSeq(data, i, i + Len(text) - 1) = text}

\* findHeaderListEnd: where the first empty line ends, and the line end it is made of
HeaderListEnds(data) ==
  {[end |-> i + 3, eol |-> CRLF] : i \in Occurrences(data, CRLF \o CRLF)}
    \union {[end |-> i + 1, eol |-> LF] : i \in Occurrences(data, LF \o LF)}
----------------------------------------------------------------------------
Init ==
  /\ oldMap \in OldMaps /\ newMap \in NewMaps /\ isOldFileIntact \in BOOLEAN
  /\ useMultiple \in BOOLEAN
  /\ plan = PlanFor(oldMap, newMap, useMultiple) /\ phase = "planning" /\ error = "none" /\ cancelled = FALSE
  /\ oldFileOpen = FALSE /\ newFile = <<>>
  /\ step = "none" /\ next = 1 /\ batch = [start |-> 1, end |-> 1] /\ copy = 0
  /\ downloads = 0 /\ timer = FALSE
  /\ response = <<>> /\ chunk = <<>> /\ splitter = NoSplitter
  /\ faults = 0

\* Everything but the control stays: for the actions of downloadFile and doDownloadFile.
Idle == UNCHANGED <<inputs, next, batch, downloads, timer, faults>>

\* The promise of writeNewFile rejects: doDownloadFile aborts the requests and destroys the
\* streams.  A copy in progress goes on until stopCopies.
Reject(e) ==
  /\ phase' = "stopping" /\ error' = e /\ step' = "none"
  /\ response' = <<>> /\ chunk' = <<>> /\ splitter' = NoSplitter

StopsFor(e) ==
  /\ Reject(e)
  /\ UNCHANGED <<inputs, useMultiple, plan, files, next, batch, copy, downloads, timer>>

\* doDownload: a plan that cannot be executed is rejected before any file is opened.
CheckPlan ==
  /\ phase = "planning"
  /\ IF IsPlanValid(plan, Len(NewBytes) - Len(FileMetadata))
     THEN phase' = "starting" /\ error' = error
     ELSE phase' = "failed" /\ error' = "plan"
  /\ UNCHANGED <<useMultiple, cancelled, plan, files, step, copy, multipart>> /\ Idle

\* downloadFile: the old file is opened, the new one is written from the start.
StartAttempt ==
  /\ phase = "starting" /\ ~cancelled
  /\ phase' = "running" /\ error' = "none"
  /\ oldFileOpen' = TRUE /\ newFile' = <<>>
  /\ step' = "next" /\ next' = 1 /\ downloads' = 0
  /\ batch' = [start |-> 1, end |-> IF useMultiple THEN 1 ELSE Len(plan) + 1]
  /\ UNCHANGED <<inputs, useMultiple, cancelled, plan, copy, timer, multipart, faults>>

StartCancelled ==
  /\ phase = "starting" /\ cancelled
  /\ phase' = "failed" /\ error' = "cancelled"
  /\ UNCHANGED <<useMultiple, cancelled, plan, files, step, copy, multipart>> /\ Idle

\* Mutant: the cancel only reaches the progress transform, when data flows.
CancelWhenDataFlows ==
  /\ ~cancelled /\ ~IsSettled
  /\ cancelled' = TRUE
  /\ faults' = faults
  /\ IF phase = "running" /\ step \notin {"response", "split"} THEN StopsFor("cancelled")
     ELSE UNCHANGED <<inputs, phase, error, useMultiple, plan, files, step, next, batch, copy,
                      downloads, timer, multipart>>

\* The app cancels the token: createPromise rejects at once, whatever is waited for.
Cancel ==
  /\ ~cancelled /\ ~IsSettled
  /\ cancelled' = TRUE
  /\ faults' = faults
  /\ IF phase = "running" THEN StopsFor("cancelled")
     ELSE UNCHANGED <<inputs, phase, error, useMultiple, plan, files, step, next, batch, copy,
                      downloads, timer, multipart>>

\* doDownloadFile has waited for the new file to close.
CloseNewFile ==
  /\ phase = "stopping"
  /\ phase' = "stopped"
  /\ UNCHANGED <<error, useMultiple, cancelled, plan, files, step, copy, multipart>> /\ Idle

\* Mutant: the descriptor is closed without waiting for the copies to stop.
CopiesAreNotAwaited == TRUE

\* stopCopies resolves when the read in progress has ended
CopiesAreClosed == copy = 0

\* downloadFile closes the old file, doDownload settles or starts the attempt with single ranges.
CloseOldFile ==
  /\ phase = "stopped" /\ CopiesAreClosed
  /\ oldFileOpen' = FALSE
  /\ IF error = "multipleRanges" /\ useMultiple /\ ~cancelled
     THEN phase' = "starting" /\ useMultiple' = FALSE
     ELSE phase' = (IF error = "none" THEN "done" ELSE "failed") /\ UNCHANGED useMultiple
  /\ UNCHANGED <<error, cancelled, plan, newFile, step, copy, multipart>> /\ Idle
----------------------------------------------------------------------------
(* writeNewFile's w: one operation after the other.                          *)

OutIsDestroyed == phase # "running"

StartBatch ==
  /\ step = "next" /\ useMultiple /\ next = batch.end /\ next <= Len(plan)
  /\ batch' = [start |-> next, end |-> ComputeBatchEnd(next)]
  /\ step' = IF Len(Downloads(plan, batch')) > 1 THEN "response" ELSE step
  /\ UNCHANGED <<inputs, control, files, next, copy, downloads, timer, multipart, faults>>

IsMultiRequest == useMultiple /\ PartCount > 1

\* copyData
StartCopy ==
  /\ step = "next" /\ next < batch.end /\ plan[next].kind = "copy" /\ ~OutIsDestroyed
  /\ copy' = next /\ step' = "copying"
  /\ UNCHANGED <<inputs, control, files, next, batch, downloads, timer, multipart, faults>>

EndCopy ==
  /\ copy # 0 /\ ~OutIsDestroyed
  /\ newFile' = newFile \o Slice(OldBytes, plan[copy])
  /\ next' = copy + 1 /\ copy' = 0
  /\ step' = IF step = "copying" THEN "next" ELSE step
  /\ UNCHANGED <<inputs, control, oldFileOpen, batch, downloads, timer, multipart, faults>>

\* A copy of a stopped download ends by itself (what follows it is refused) or is destroyed.
EndStoppedCopy ==
  /\ copy # 0 /\ OutIsDestroyed
  /\ copy' = 0
  /\ UNCHANGED <<control, files, step, multipart>> /\ Idle

RequestRange ==
  /\ step = "next" /\ next < batch.end /\ plan[next].kind = "download" /\ ~OutIsDestroyed
  /\ step' = "response"
  /\ UNCHANGED <<inputs, control, files, next, batch, copy, downloads, timer, multipart, faults>>

\* The host answers exactly the requested range.  w goes on, after a pause when many were requested.
ReceiveRange ==
  /\ step = "response" /\ ~IsMultiRequest
  /\ newFile' = newFile \o Slice(NewBytes, plan[next])
  /\ next' = next + 1
  /\ LET isPause == ~useMultiple /\ downloads + 1 = RangesPerPause
     IN /\ downloads' = IF useMultiple THEN downloads ELSE (downloads + 1) % RangesPerPause
        /\ timer' = isPause
        /\ step' = IF isPause THEN "none" ELSE "next"
  /\ UNCHANGED <<inputs, control, oldFileOpen, batch, copy, multipart, faults>>

\* The timer is not cleared when the download stops: w looks at the stream itself.
EndPause ==
  /\ timer
  /\ timer' = FALSE
  /\ step' = IF OutIsDestroyed THEN step ELSE "next"
  /\ UNCHANGED <<inputs, control, files, next, batch, copy, downloads, multipart, faults>>

\* Anything but the requested range, an error status, or a broken connection.
ServerFails ==
  /\ step \in {"response", "split"} /\ faults < MaxFaults
  /\ faults' = faults + 1 /\ cancelled' = cancelled
  /\ StopsFor("server")

EndFile ==
  /\ step = "next" /\ next > Len(plan)
  /\ newFile' = newFile \o FileMetadata
  /\ step' = "finishing"
  /\ UNCHANGED <<inputs, control, oldFileOpen, next, batch, copy, downloads, timer, multipart, faults>>

\* DigestTransform.validate, against the sha512 of the update info
IsDigestValid(bytes) == bytes = NewBytes

ValidateNewFile ==
  /\ step = "finishing"
  /\ IF IsDigestValid(newFile)
     THEN phase' = "stopped" /\ step' = "none" /\ UNCHANGED <<error, multipart>>
     ELSE Reject("digest")
  /\ UNCHANGED <<useMultiple, cancelled, plan, files, copy>> /\ Idle
----------------------------------------------------------------------------
(* DataSplitter: the multipart answer comes in chunks, the next one when    *)
(* handleData is done with this one.                                        *)

AnswerMultipart(eol) ==
  /\ step = "response" /\ IsMultiRequest
  /\ step' = "split"
  /\ response' = MultipartBody(eol) /\ chunk' = <<>> /\ splitter' = NewSplitter
  /\ UNCHANGED <<inputs, control, files, next, batch, copy, downloads, timer, faults>>

\* The host does not serve several ranges (any more).
RefuseRanges ==
  /\ step = "response" /\ IsMultiRequest
  /\ StopsFor("multipleRanges")
  /\ UNCHANGED <<cancelled, faults>>

Splitting(at) == step = "split" /\ splitter.at = at

SplitterStep ==
  UNCHANGED <<inputs, useMultiple, cancelled, plan, oldFileOpen, batch, downloads, timer, faults>>

\* _write: the ignored bytes of a delimiter or the rest of a part's data, then the rest of the chunk.
ReceiveChunk(n) ==
  /\ Splitting("idle") /\ n \in 1..Len(response)
  /\ response' = SubSeq(response, n + 1, Len(response))
  /\ LET isData == splitter.ignore = 0 /\ splitter.remaining > 0
         taken == Min({n, splitter.ignore + splitter.remaining})
     IN /\ newFile' = IF isData THEN newFile \o SubSeq(response, 1, taken) ELSE newFile
        /\ chunk' = SubSeq(response, taken + 1, n)
        /\ splitter' = [splitter EXCEPT
             !.ignore = IF isData THEN @ ELSE @ - taken,
             !.remaining = IF isData THEN @ - taken ELSE @,
             !.actual = IF isData THEN @ + taken ELSE @,
             !.at = IF taken = n THEN "idle" ELSE IF splitter.isHeader THEN "header" ELSE "part"]
  /\ UNCHANGED <<phase, error, step, next, copy>> /\ SplitterStep

\* Top of the loop: the copies between the previous part and this one come first.
NextPart ==
  /\ Splitting("part")
  /\ splitter' = [splitter EXCEPT !.part = @ + 1, !.at = "copies"]
  /\ next' = PrevTaskOf(splitter.part + 1)
  /\ UNCHANGED <<phase, error, files, step, copy, response, chunk>> /\ SplitterStep

CopyExistingData ==
  /\ Splitting("copies") /\ copy = 0 /\ next < TaskOf(splitter.part)
  /\ copy' = next
  /\ UNCHANGED <<phase, error, files, step, next, multipart>> /\ SplitterStep

IsPartWhole(part) == splitter.actual = PartLength(part)

\* The copies are done: after the last part the batch is, else the part's header list follows.
EndCopies ==
  /\ Splitting("copies") /\ copy = 0 /\ next = TaskOf(splitter.part)
  /\ IF splitter.part < PartCount
     THEN splitter' = [splitter EXCEPT !.at = "header"] /\ UNCHANGED <<phase, error, step, response, chunk>>
     ELSE IF IsPartWhole(splitter.part - 1)
     THEN step' = "next" /\ response' = <<>> /\ chunk' = <<>> /\ splitter' = NoSplitter
          /\ UNCHANGED <<phase, error>>
     ELSE Reject("splitter")
  /\ UNCHANGED <<files, next, copy>> /\ SplitterStep

SearchHeaderListEnd ==
  /\ Splitting("header")
  /\ LET data == splitter.tail \o chunk
         ends == HeaderListEnds(data)
     IN IF ends = {}
        THEN /\ splitter' = [splitter EXCEPT !.tail = Carried(data), !.isHeader = TRUE, !.at = "idle"]
             /\ chunk' = <<>>
        ELSE LET found == CHOOSE e \in ends : \A f \in ends : e.end <= f.end
             IN /\ splitter' = [splitter EXCEPT !.tail = <<>>, !.isHeader = FALSE, !.at = "body",
                                  !.boundaryLength = BoundaryTextLength + Len(found.eol) + 2]
                /\ chunk' = SubSeq(data, found.end + 1, Len(data))
  /\ UNCHANGED <<phase, error, files, step, next, copy, response>> /\ SplitterStep

\* processPartStarted, then the delimiter after the data, as far as the chunk goes.
ReadPart ==
  /\ Splitting("body")
  /\ IF splitter.part # 0 /\ ~IsPartWhole(splitter.part - 1)
     THEN Reject("splitter") /\ UNCHANGED newFile
     ELSE LET length == PartLength(splitter.part)
              taken == Min({length, Len(chunk)})
              end == taken + splitter.boundaryLength
              isWhole == taken = length
          IN /\ newFile' = newFile \o SubSeq(chunk, 1, taken)
             /\ splitter' = [splitter EXCEPT
                  !.actual = taken,
                  !.remaining = length - taken,
                  !.ignore = IF isWhole /\ end >= Len(chunk) THEN end - Len(chunk) ELSE @,
                  !.at = IF isWhole /\ end < Len(chunk) THEN "part" ELSE "idle"]
             /\ chunk' = SubSeq(chunk, end + 1, Len(chunk))
             /\ UNCHANGED <<phase, error, step, response>>
  /\ UNCHANGED <<oldFileOpen, next, copy>> /\ SplitterStep

\* The connection closes before the whole answer was sent.
TruncateResponse ==
  /\ step = "split" /\ response # <<>> /\ faults < MaxFaults
  /\ response' = <<>> /\ faults' = faults + 1
  /\ UNCHANGED <<inputs, control, files, step, next, batch, copy, downloads, timer, chunk, splitter>>

\* Ten seconds after the end of the response, if the batch is not finished: the data was cut off,
\* or a copy takes that long.
Watchdog ==
  /\ step = "split" /\ response = <<>>
  /\ UNCHANGED <<cancelled, faults>>
  /\ StopsFor(IF splitter.at = "idle" THEN "incomplete" ELSE "slow")
----------------------------------------------------------------------------
ServerStep ==
  \/ ReceiveRange
  \/ \E eol \in {CRLF, LF} : AnswerMultipart(eol)
  \/ RefuseRanges
  \/ \E n \in 1..Len(response) : ReceiveChunk(n)

LocalStep ==
  \/ CheckPlan \/ StartAttempt \/ StartCancelled \/ CloseNewFile \/ CloseOldFile
  \/ StartBatch \/ StartCopy \/ EndCopy \/ EndStoppedCopy \/ RequestRange \/ EndPause
  \/ EndFile \/ ValidateNewFile
  \/ NextPart \/ CopyExistingData \/ EndCopies \/ SearchHeaderListEnd \/ ReadPart \/ Watchdog

Next == ServerStep \/ LocalStep \/ Cancel \/ ServerFails \/ TruncateResponse

Spec == Init /\ [][Next]_vars /\ WF_vars(LocalStep)
----------------------------------------------------------------------------
TypeOK ==
  /\ useMultiple \in BOOLEAN /\ cancelled \in BOOLEAN /\ oldFileOpen \in BOOLEAN /\ timer \in BOOLEAN
  /\ phase \in {"planning", "starting", "running", "stopping", "stopped", "done", "failed"}
  /\ error \in {"none", "plan", "cancelled", "server", "multipleRanges", "digest", "splitter",
                "incomplete", "slow"}
  /\ step \in {"none", "next", "copying", "response", "split", "finishing"}
  /\ next \in 1 .. Len(plan) + 1 /\ copy \in 0..Len(plan)
  /\ batch.start \in 1 .. Len(plan) + 1 /\ batch.end \in batch.start .. Len(plan) + 1
  /\ splitter.at \in {"none", "idle", "part", "copies", "header", "body"}
  /\ splitter.part \in -1 .. PartCount
  /\ splitter.ignore \in Nat /\ splitter.remaining \in Nat
  /\ splitter.ignore = 0 \/ splitter.remaining = 0
  /\ downloads \in 0 .. RangesPerPause - 1 /\ faults \in 0..MaxFaults

\* What goes wrong outside: the app cancels, the server fails, the old file is not the one of the
\* block map, the block map has an empty block, or a copy takes longer than the watchdog allows.
HasExcuse ==
  \/ cancelled \/ faults > 0 \/ ~isOldFileIntact \/ error = "slow"
  \/ \E i \in DOMAIN newMap : newMap[i].size = 0

\* The download ends with the new file, and fails only for a cause outside: for every pair of block
\* maps, however the host cuts and separates the parts, and also when it refuses several ranges
\* after a part of the file was written.  A wrong offset in the plan, a terminator missed between
\* two chunks or a batch boundary in the wrong place would show as a failure without a cause
\* (and, in the app, as a full download each time).
OutcomeIsRight ==
  /\ TypeOK
  /\ phase = "done" => newFile = NewBytes
  /\ phase = "failed" => HasExcuse

\* The old file is never read after its descriptor was closed, when the number may be another
\* file's: neither by a copy in progress when the download stops, nor by one that the timer of a
\* pause starts afterwards.
OldFileIsOpenWhileRead == copy # 0 => oldFileOpen

\* A cancelled download settles even when the server never sends another byte; and every download
\* settles when the server keeps answering.
DownloadSettles ==
  /\ cancelled ~> IsSettled
  /\ WF_vars(ServerStep) => <>IsSettled
=============================================================================
