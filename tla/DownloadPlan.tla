---------------------------- MODULE DownloadPlan ----------------------------
(***************************************************************************)
(* The plan of a differential download (downloadPlanBuilder.ts): the       *)
(* operations that build the new file, in its order, from ranges of the    *)
(* old file (COPY) and of the new file on the server (DOWNLOAD).           *)
(*                                                                         *)
(* A block map is a sequence of blocks [checksum, size].  Content gives    *)
(* the bytes of every block, so that blocks of equal checksum and unequal  *)
(* size (a collision the code guards against) are different bytes.  The    *)
(* loops of the code are recursive functions of the number of rounds.      *)
(***************************************************************************)
EXTENDS Integers, SequencesExt

CONSTANTS
  Byte,           \* what files and answers consist of
  Content,        \* the bytes of every block: a function of the blocks
  MultipartGap,   \* MULTIPART_DOWNLOAD_GAP_COALESCE_THRESHOLD
  SingleGap       \* DOWNLOAD_GAP_COALESCE_THRESHOLD

ASSUME ContentAssumption ==
  \A b \in DOMAIN Content :
    /\ b = [checksum |-> b.checksum, size |-> b.size]
    /\ Content[b] \in Seq(Byte) /\ Len(Content[b]) = b.size
ASSUME GapAssumption == MultipartGap \in Nat /\ SingleGap \in Nat

FileOf(blockMap) == FlattenSeq([i \in DOMAIN blockMap |-> Content[blockMap[i]]])

\* Where each of several pieces ends when they are laid one after the other.
EndsOf(lengths) ==
  LET end[i \in 0 .. Len(lengths)] == IF i = 0 THEN 0 ELSE end[i - 1] + lengths[i] IN end

OffsetOf(blockMap, i) == EndsOf([k \in DOMAIN blockMap |-> blockMap[k].size])[i - 1]

\* buildChecksumMap: the first block of a checksum stands for all of them
OldBlocksOf(oldMap, checksum) == {i \in DOMAIN oldMap : oldMap[i].checksum = checksum}
FirstOldBlock(oldMap, checksum) == Min(OldBlocksOf(oldMap, checksum))

IsReusable(oldMap, block) ==
  /\ OldBlocksOf(oldMap, block.checksum) # {}
  /\ oldMap[FirstOldBlock(oldMap, block.checksum)].size = block.size

Length(operation) == operation.end - operation.start

\* Where block i of the new file comes from.
SourceOf(oldMap, newMap, i) ==
  LET block == newMap[i]
      isReusable == IsReusable(oldMap, block)
      offset == IF isReusable THEN OffsetOf(oldMap, FirstOldBlock(oldMap, block.checksum))
                ELSE OffsetOf(newMap, i)
  IN [kind |-> IF isReusable THEN "copy" ELSE "download",
      start |-> offset, end |-> offset + block.size]

\* A block prolongs the last operation when it continues its range.
AddBlock(operations, source) ==
  LET last == operations[Len(operations)]
  IN IF operations # <<>> /\ last.kind = source.kind /\ last.end = source.start
     THEN [operations EXCEPT ![Len(operations)] = [last EXCEPT !.end = source.end]]
     ELSE Append(operations, source)

ComputeOperations(oldMap, newMap) ==
  LET operations[i \in 0 .. Len(newMap)] ==
        IF i = 0 THEN <<>> ELSE AddBlock(operations[i - 1], SourceOf(oldMap, newMap, i))
  IN operations[Len(newMap)]

\* One round of coalesceDownloadGaps.  lastDownload: the index in result of the last download, or 0.
AddOperation(state, operation, maxGap) ==
  LET last == state.result[state.lastDownload]
      isShortGap == /\ state.lastDownload > 0 /\ state.gap < maxGap
                    /\ last.end + state.gap = operation.start
  IN IF operation.kind = "copy"
     THEN [state EXCEPT !.result = Append(@, operation),
                        !.gap = IF state.lastDownload > 0 THEN @ + Length(operation) ELSE @]
     ELSE IF isShortGap
     THEN [state EXCEPT !.result = Append(SubSeq(@, 1, state.lastDownload - 1),
                                          [last EXCEPT !.end = operation.end]),
                        !.gap = 0]
     ELSE [result |-> Append(state.result, operation),
           lastDownload |-> Len(state.result) + 1, gap |-> 0]

\* The copies between two downloads are downloaded through when they are short and the second
\* download is where they end.
CoalesceDownloadGaps(operations, maxGap) ==
  LET state[i \in 0 .. Len(operations)] ==
        IF i = 0 THEN [result |-> <<>>, lastDownload |-> 0, gap |-> 0]
        ELSE AddOperation(state[i - 1], operations[i], maxGap)
  IN state[Len(operations)].result

PlanFor(oldMap, newMap, useMultiple) ==
  CoalesceDownloadGaps(ComputeOperations(oldMap, newMap),
                       IF useMultiple THEN MultipartGap ELSE SingleGap)

\* doDownload rejects a plan with an empty range or of another size than the new file's.
IsPlanValid(plan, newSize) ==
  /\ \A i \in DOMAIN plan : plan[i].end > plan[i].start
  /\ EndsOf([i \in DOMAIN plan |-> Length(plan[i])])[Len(plan)] = newSize
=============================================================================
