------------------------------ MODULE Uploads ------------------------------
(***************************************************************************)
(* Uploading a file and attaching it: the controller sniffs, checks the    *)
(* size, reads an MP4's duration, writes the file and answers with its     *)
(* URL; the assets section of the editor then adds an asset with that URL. *)
(* The duration reader walks the boxes of a file it does not trust: what   *)
(* it reads is chosen when it reads it.  One unit is four bytes.           *)
(***************************************************************************)
EXTENDS BackOffice

CONSTANTS
  File,         \* uploads; also names what the storage holds of each
  Length,       \* units in an uploaded MP4
  MaxImage,     \* the image ceiling, in units
  MaxVideo      \* the video ceiling

ASSUME UploadsAssumption ==
  Length \in Nat /\ MaxImage \in Nat /\ MaxVideo \in Nat /\ MaxImage < Length

VARIABLES
  upload,   \* per file: where its request is
  scan,     \* the duration reader, of the file whose request is "reading"
  stored,   \* per file: absent, partial or whole on disk
  section,  \* the assets section: the URL of its last upload, its rows as listed
  assets    \* content_assets: the files named by live rows

uploadVars == <<upload, scan, stored, section, assets>>

HeaderUnits == 2
LargeSizeUnits == 2
NoScan == [level |-> "off", offset |-> 0, limit |-> 0, reads |-> 0]

UploadTypeOK ==
  /\ \A f \in File : upload[f].pc \in {"new", "reading", "checked", "writing", "written", "answered",
                                    "refused", "failed"}
  /\ scan.level \in {"off", "file", "moov", "mvhd"}
  /\ scan.offset \in 0..Length /\ scan.limit \in 0..Length
  /\ stored \in [File -> {"absent", "partial", "whole"}]
  /\ section.busy \in BOOLEAN /\ section.url \in File \cup {None}
  /\ section.listed \subseteq File /\ assets \subseteq File

UploadInit ==
  /\ upload = [f \in File |-> [pc |-> "new", seconds |-> None]]
  /\ scan = NoScan
  /\ stored = [f \in File |-> "absent"]
  /\ section = [busy |-> FALSE, url |-> None, listed |-> {}]
  /\ assets = {}

Moves(f, pc) == upload' = [upload EXCEPT ![f].pc = pc]

-----------------------------------------------------------------------------
\* validate: the type is sniffed from the bytes, then the ceiling of its
\* category applies; only a video is read for its duration.
Validate(f) ==
  /\ upload[f].pc = "new" /\ scan = NoScan /\ ~section.busy
  /\ section' = [section EXCEPT !.busy = TRUE]
  /\ \E sniffed \in {"image", "video", "unknown"}, size \in {MaxImage, MaxImage + 1, Length} :
       LET limit == IF sniffed = "image" THEN MaxImage ELSE MaxVideo IN
       IF sniffed = "unknown" \/ size > limit
         THEN Moves(f, "refused") /\ UNCHANGED scan
         ELSE IF sniffed = "image"
           THEN Moves(f, "checked") /\ UNCHANGED scan
           ELSE /\ Moves(f, "reading")
                /\ scan' = [level |-> "file", offset |-> 0, limit |-> size, reads |-> 0]
  /\ UNCHANGED <<stored, assets>>

\* Mutant: a box may end where it starts.
AnyEnd(start, end, limit) == end <= limit

BoxEnds(start, end, limit) == end > start /\ end <= limit

\* readBoxAt and readExtendedSizeBox: a size of 0 reaches to the end of the
\* range, 1 announces a large size, and a box that does not fit its range is
\* no box.  A range that ends inside the header or the size field has none.
Box(start, limit) ==
  IF start + HeaderUnits > limit THEN {}
  ELSE {[body |-> start + HeaderUnits, end |-> e] :
           e \in {limit} \cup {x \in start + 1 .. limit : BoxEnds(start, x, limit)}}
       \cup (IF start + HeaderUnits + LargeSizeUnits > limit THEN {}
             ELSE {[body |-> start + HeaderUnits + LargeSizeUnits, end |-> e] :
                      e \in {x \in start .. limit : BoxEnds(start, x, limit)}})

Reads(f, seconds) ==
  /\ upload' = [upload EXCEPT ![f] = [pc |-> "checked", seconds |-> seconds]]
  /\ scan' = NoScan

\* findBox: the next sibling, or down into the first one of the wanted type;
\* a range without it, or a malformed box, gives null.
ReadBox(f) ==
  /\ upload[f].pc = "reading" /\ scan.level \in {"file", "moov"}
  /\ \/ /\ scan.offset < scan.limit
        /\ \E box \in Box(scan.offset, scan.limit), wanted \in BOOLEAN :
             /\ scan' = [scan EXCEPT
                           !.reads = @ + 1,
                           !.level = IF ~wanted THEN @ ELSE IF @ = "file" THEN "moov" ELSE "mvhd",
                           !.offset = IF wanted THEN box.body ELSE box.end,
                           !.limit = IF wanted THEN box.end ELSE @]
             /\ UNCHANGED upload
     \/ Reads(f, None)
  /\ UNCHANGED <<stored, section, assets>>

\* Math.round of a positive duration over a positive timescale: 0 below a half.
WholeSeconds(timescale, duration) ==
  IF timescale = 0 \/ duration = 0 THEN None
  ELSE (2 * duration + timescale) \div (2 * timescale)

\* readMvhdDurationSeconds: version 0 or 1, with all its fields inside the box;
\* reading the version beyond the file throws, which is caught.
ReadMvhd(f) ==
  /\ upload[f].pc = "reading" /\ scan.level = "mvhd"
  /\ \/ \E fields \in {5, 8}, timescale \in {0, 1, 3}, duration \in {0, 1, 4} :
          /\ scan.offset + fields <= scan.limit
          /\ Reads(f, WholeSeconds(timescale, duration))
     \/ Reads(f, None)
  /\ UNCHANGED <<stored, section, assets>>

\* LocalDiskStorageAdapter.save: writeFile, under a name of its own.
WriteStarts(f) ==
  /\ upload[f].pc = "checked"
  /\ Moves(f, "writing") /\ stored' = [stored EXCEPT ![f] = "partial"]
  /\ UNCHANGED <<scan, section, assets>>

WriteEnds(f) ==
  /\ upload[f].pc = "writing"
  /\ Moves(f, "written") /\ stored' = [stored EXCEPT ![f] = "whole"]
  /\ UNCHANGED <<scan, section, assets>>

Answers(f) == upload[f].pc = "written"

UploadAnswered(f) ==
  /\ Answers(f) /\ section.busy
  /\ Moves(f, "answered")
  /\ section' = [section EXCEPT !.busy = FALSE, !.url = f]
  /\ UNCHANGED <<scan, stored, assets>>

\* Refused, the disk failed or the process stopped: what was written stays.
UploadFails(f) ==
  /\ upload[f].pc \in {"checked", "writing", "written", "refused"} /\ section.busy
  /\ Moves(f, "failed") /\ section' = [section EXCEPT !.busy = FALSE]
  /\ UNCHANGED <<scan, stored, assets>>

-----------------------------------------------------------------------------
\* AssetsSection.handleAdd; the list is read again after it.  The answer may
\* fail after the insert: the URL stays in the form and can be added again.
AddAsset ==
  /\ ~section.busy /\ section.url # None
  /\ assets' = assets \cup {section.url}
  /\ \/ section' = [section EXCEPT !.url = None, !.listed = assets']
     \/ section' = [section EXCEPT !.url = None]
     \/ UNCHANGED section
  /\ UNCHANGED <<upload, scan, stored>>

\* The row goes; the file stays.  Removing twice is a 404.
RemoveAsset(f) ==
  /\ f \in section.listed /\ f \in assets
  /\ assets' = assets \ {f}
  /\ section' \in {section, [section EXCEPT !.listed = assets']}
  /\ UNCHANGED <<upload, scan, stored>>

UploadNext ==
  \/ AddAsset
  \/ \E f \in File : \/ Validate(f) \/ ReadBox(f) \/ ReadMvhd(f) \/ WriteStarts(f)
                     \/ WriteEnds(f) \/ UploadAnswered(f) \/ UploadFails(f) \/ RemoveAsset(f)

UploadSpec == UploadInit /\ [][UploadNext]_uploadVars

-----------------------------------------------------------------------------
\* The duration reader moves forward at every box, whatever sizes the file
\* claims, so that it stops; and an asset, or the form, names a file only when
\* the whole of it is on disk.
UploadsAreSound ==
  /\ scan.reads <= scan.offset
  /\ \A f \in assets \cup ({section.url} \ {None}) : stored[f] = "whole"
=============================================================================
