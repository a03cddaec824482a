---------------------------- MODULE SnapshotPages ----------------------------
(***************************************************************************)
(* The arithmetic of one paged TugQL result: spoolTugQL, which admits rows *)
(* into the spool file, serveSnapshotPage, which cuts the file into pages  *)
(* by byte offset, and the client that follows nextPageToken and asks      *)
(* again when an answer is lost.  A row is known by where it ends in the   *)
(* file, which holds the rows one after the other, each followed by a      *)
(* newline.                                                                *)
(***************************************************************************)
EXTENDS Integers, Sequences

CONSTANTS
  MaxPageBytes, \* maxPageBytes
  Envelope,     \* the 2048 bytes kept for the response around the metadata
  MaxRows,      \* SnapshotLimits.Rows
  MaxBytes,     \* SnapshotLimits.Bytes
  PageSizes,    \* values of OVDB-Page-Size
  Metadata,     \* rightsCapture.reservedBytes of a capture
  RowLengths    \* lengths of encoded rows the source may return

ASSUME PagesAssumption ==
  /\ {MaxPageBytes, Envelope, MaxRows, MaxBytes} \subseteq Nat \ {0}
  /\ PageSizes \subseteq Nat \ {0}
  /\ Metadata \subseteq Nat
  /\ \A m \in Metadata : m < MaxBytes /\ m + Envelope < MaxPageBytes
  /\ RowLengths \subseteq Nat \ {0}

VARIABLES
  pageSize, reserved, \* of this capture
  ends,               \* where each row captured so far ends in the file
  phase,              \* capturing, refused, registered, paging (in the loop of
                      \* serveSnapshotPage), removed or finished
  token,              \* offset the client asks for next
  offset,             \* serveSnapshotPage: where it reads,
  rows, pageBytes,    \* the rows of the page so far and its bytes
  got                 \* the rows of the pages the client received

capture == <<pageSize, reserved, ends>>
page == <<offset, rows, pageBytes>>
pageVars == <<capture, phase, token, page, got>>

\* Bytes of the file that the first k rows take.
End(k) == IF k = 0 THEN 0 ELSE ends[k]

Bytes == End(Len(ends))

\* The bytes a page starts with, and the largest row spoolTugQL admits.
PageStart == IF reserved > 0 THEN reserved + Envelope ELSE 0
RowBudget == MaxPageBytes - PageStart

\* The row that ReadBytes finds at an offset, and what is left of it.
RowAt(o) == CHOOSE k \in 1 .. Len(ends) : End(k - 1) <= o /\ o < End(k)

\* Fault: the newline is not part of what was read.
LeftNoNewline(o) == End(RowAt(o)) - o - 1

Left(o) == End(RowAt(o)) - o
-----------------------------------------------------------------------------
PagesInit ==
  /\ pageSize \in PageSizes
  /\ reserved \in Metadata
  /\ ends = <<>>
  /\ phase = "capturing"
  /\ token = 0
  /\ offset = 0 /\ rows = <<>> /\ pageBytes = 0
  /\ got = <<>>

\* Fault: no bound on a single row.
AdmitsAnyRow(length) ==
  /\ Len(ends) < MaxRows
  /\ Bytes + length + 1 <= MaxBytes - reserved

\* The checks of spoolTugQL on the next row of the result; the metadata was
\* taken off the byte limit.
Admits(length) ==
  /\ length <= RowBudget
  /\ Len(ends) < MaxRows
  /\ Bytes + length + 1 <= MaxBytes - reserved

\* spoolTugQL writes a row.
SpoolRow(length) ==
  /\ phase = "capturing"
  /\ Admits(length)
  /\ ends' = Append(ends, Bytes + length + 1)
  /\ UNCHANGED <<pageSize, reserved, phase, token, page, got>>

\* spoolTugQL meets a row it does not admit: 413 snapshot_too_large.
SpoolRefuses(length) ==
  /\ phase = "capturing"
  /\ ~ Admits(length)
  /\ phase' = "refused"
  /\ UNCHANGED <<capture, token, page, got>>

\* The result ends; the snapshot is registered.
CaptureEnds ==
  /\ phase = "capturing"
  /\ phase' = "registered"
  /\ UNCHANGED <<capture, token, page, got>>

\* serveSnapshotPage seeks to the client's token.
OpenPage ==
  /\ phase = "registered"
  /\ phase' = "paging"
  /\ offset' = token /\ rows' = <<>> /\ pageBytes' = PageStart
  /\ UNCHANGED <<capture, token, got>>

\* The condition of the loop, and whether the row it reads still fits.
InLoop == Len(rows) < pageSize /\ offset < Bytes
Fits == pageBytes + Left(offset) <= MaxPageBytes

\* One turn of the loop.  A row is its place and where in it the read began.
ReadRow ==
  /\ phase = "paging"
  /\ InLoop /\ Fits
  /\ rows' = Append(rows, <<RowAt(offset), offset - End(RowAt(offset) - 1)>>)
  /\ pageBytes' = pageBytes + Left(offset)
  /\ offset' = offset + Left(offset)
  /\ UNCHANGED <<capture, phase, token, got>>

\* The loop ends with a page.
PageDone ==
  /\ phase = "paging"
  /\ InLoop => ~ Fits /\ rows # <<>>

\* The client gets the page, with nextPageToken while rows are left.
ServePage ==
  /\ PageDone
  /\ got' = got \o rows
  /\ token' = offset
  /\ phase' = IF offset < Bytes THEN "registered" ELSE "finished"
  /\ UNCHANGED <<capture, page>>

\* A page is lost on its way; the client has its token and asks for it again.
\* The first page brings the tokens: who loses that one starts a new query.
PageLost ==
  /\ PageDone
  /\ token > 0
  /\ phase' = "registered"
  /\ UNCHANGED <<capture, token, page, got>>

\* Not one row fits: serveSnapshotPage removes the snapshot and fails with
\* ErrResultTooLarge.
ServeTooLarge ==
  /\ phase = "paging"
  /\ InLoop /\ ~ Fits /\ rows = <<>>
  /\ phase' = "removed"
  /\ UNCHANGED <<capture, token, page, got>>

PagesNext ==
  \/ \E length \in RowLengths : SpoolRow(length)
  \/ \E length \in RowLengths : SpoolRefuses(length)
  \/ CaptureEnds
  \/ OpenPage
  \/ ReadRow
  \/ ServePage
  \/ PageLost
  \/ ServeTooLarge

PagesSpec == PagesInit /\ [][PagesNext]_pageVars
-----------------------------------------------------------------------------
\* The pages received so far, put end to end, are exactly the first rows of
\* the capture, each whole, in order and once, also when pages were lost and
\* asked for again; after the last page, all.
PagesPartitionResult ==
  /\ got = [k \in 1 .. Len(got) |-> <<k, 0>>]
  /\ token = End(Len(got))
  /\ phase = "finished" => Len(got) = Len(ends)

\* Paging fails only at a row of exactly the admitted length.
FailsOnlyAtBudget ==
  phase = "removed" =>
    \E k \in 1 .. Len(ends) : End(k) - End(k - 1) - 1 = RowBudget

\* The rows of a page never take more than maxPageBytes, and with the metadata
\* and the bytes kept for the response around it never more either; a capture
\* without metadata keeps none, and its page is bounded by its rows alone.
PageFits ==
  phase = "paging" =>
    /\ offset - token <= MaxPageBytes
    /\ reserved > 0 => reserved + Envelope + (offset - token) <= MaxPageBytes

\* An answer brings the client on: a page has a row, or there is none left.
AnswersBringOn ==
  [][ServePage => Len(got') > Len(got) \/ phase' = "finished"]_pageVars
=============================================================================
