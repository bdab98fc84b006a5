----------------------------- MODULE ChecksScan -----------------------------
(***************************************************************************)
(* The scan of one check type for one user.  A start request launches a    *)
(* thread that walks over the candidate images and either saves what it    *)
(* finds as a list, or stops at the first finding and shows it; the rest   *)
(* of the image waits in the resume cursor for the next start.  Suggested  *)
(* solutions may be applied by the scan itself.  Meanwhile the user        *)
(* resolves or ignores findings, after which the list and the progress     *)
(* are refreshed for that image.                                           *)
(* A finding is a natural number on an image; images are numbered in the   *)
(* order of the walk.  Metadata, messages and counters are left out.       *)
(***************************************************************************)
EXTENDS Naturals, FiniteSets

CONSTANTS
  Finding,   \* what the check finds on the images before anybody acts
  ImageOf,   \* Finding -> its image
  Suggested, \* findings with a suggested solution
  Images,    \* how many candidate images there are
  MaxScans, MaxEvents, \* bounds: scans started; requests, failures and restarts
  None

ASSUME FindingAssumption ==
  /\ Finding \subseteq Nat /\ IsFiniteSet(Finding)
  /\ Images \in Nat
  /\ ImageOf \in [Finding -> 1..Images]
  /\ Suggested \subseteq Finding
  /\ None \notin Finding

VARIABLES
  snapshot,   \* the check type is name_conflicts, whose refresh re-reads no image
  record,     \* checks_progress
  remembered, \* memory holds it, not only the database
  list,       \* the stored findings of the check type
  scan,       \* the scan thread, or NoScan
  former,     \* a saving scan that has written its list and not yet its last report
  desk,       \* a request of the user that changes an image
  open,       \* findings that exist on the images
  ignored,    \* the ignore list
  scans, events, \* counters of the bounds
  passed,     \* history: findings the user was shown and went on from
  lost,       \* history: findings dropped in one of the ways named below
  misreported \* history: a scan died unreported, or an older record was put over a newer

vars == <<snapshot, record, remembered, list, scan, former, desk, open, ignored,
          scans, events, passed, lost, misreported>>
userVars == <<snapshot, desk, ignored>>

Blank == [running |-> FALSE, stop |-> FALSE, save |-> FALSE, cursor |-> FALSE,
          path |-> 0, pending |-> {}, manual |-> {}, result |-> None]
Record == [running : BOOLEAN, stop : BOOLEAN, save : BOOLEAN, cursor : BOOLEAN,
           path : 0..Images, pending : SUBSET Finding, manual : SUBSET Finding,
           result : Finding \cup {None}]
NoList == [entries |-> {}, status |-> "none", save |-> FALSE]
NoScan == [pc |-> "none", save |-> FALSE, auto |-> FALSE, resume |-> FALSE, index |-> 0,
           pending |-> {}, manual |-> {}, todo |-> {}, saved |-> {}, flushed |-> 0]
Scan == [pc : {"none", "begin", "listing", "pending", "image", "read", "entries", "applied", "ending", "error"},
         save : BOOLEAN, auto : BOOLEAN, resume : BOOLEAN, index : 0..Images,
         pending : SUBSET Finding, manual : SUBSET Finding, todo : SUBSET Finding,
         saved : SUBSET Finding, flushed : 0..Cardinality(Finding)]
AtRest == [pc |-> "idle", finding |-> None, gone |-> {}, read |-> Blank]
Desk == [pc : {"idle", "item", "list", "progress", "write"}, finding : Finding \cup {None},
         gone : SUBSET Finding, read : Record]
Lists == [entries : SUBSET Finding, status : {"none", "running", "stopped", "failed", "finished"}, save : BOOLEAN]

Init ==
  /\ snapshot \in BOOLEAN
  /\ record = Blank /\ remembered = FALSE /\ list = NoList
  /\ scan = NoScan /\ former = NoScan /\ desk = AtRest
  /\ open = Finding /\ ignored = {}
  /\ scans = 0 /\ events = 0
  /\ passed = {} /\ lost = {} /\ misreported = FALSE
-----------------------------------------------------------------------------
(* _buildCheckEntriesForType reads the image as it is now.                   *)
EntriesOf(i) == {f \in open \ ignored : ImageOf[f] = i}
FirstOf(S) == CHOOSE f \in S : \A g \in S : f <= g

Event == events < MaxEvents /\ events' = events + 1
SetProgress(r) == record' = r /\ remembered' = TRUE

(* requestStopChecks merges the request into what memory holds; after a      *)
(* restart that is nothing, and the resume cursor goes.                      *)
RequestStop ==
  /\ Event
  /\ LET held == IF remembered THEN record ELSE Blank
     IN  SetProgress([held EXCEPT !.stop = TRUE])
  /\ UNCHANGED <<snapshot, list, scan, former, desk, open, ignored, scans, passed, lost, misreported>>

(* start_scan: the cursor of the progress is taken over, and decides over    *)
(* save_only, when the client asks to go on; a finding that was shown counts *)
(* as dealt with.  A start beside a scan that still works, which an older    *)
(* record put over the newer one makes possible, is left out.                *)
CursorOf(r) == [path |-> r.path, pending |-> r.pending, manual |-> r.manual]
CursorWithoutPending(r) == [path |-> r.path, pending |-> {}, manual |-> {}]
ResumeCursor(r) == CursorOf(r)
StartScan(save, auto, resume) ==
  LET goesOn == resume /\ record.cursor
      c == IF goesOn THEN ResumeCursor(record) ELSE CursorOf(Blank)
      saves == IF goesOn THEN record.save ELSE save
  IN  /\ scans < MaxScans /\ scans' = scans + 1
      /\ ~record.running
      /\ former = NoScan /\ scan.pc \in {"none", "ending"}
      /\ former' = IF scan.pc = "ending" THEN scan ELSE NoScan
      /\ SetProgress([Blank EXCEPT !.running = TRUE, !.save = saves, !.cursor = TRUE, !.path = c.path,
                                   !.pending = c.pending, !.manual = c.manual])
      /\ scan' = [NoScan EXCEPT !.pc = "begin", !.save = saves, !.auto = auto, !.resume = goesOn,
                                !.index = c.path, !.pending = c.pending, !.manual = c.manual]
      /\ passed' = IF goesOn THEN passed \cup ({record.result} \ {None}) ELSE {}
      /\ lost' = IF goesOn THEN lost ELSE {}
      /\ misreported' = FALSE
      /\ UNCHANGED <<userVars, list, open, events>>
ChecksStart == \E save, auto, resume \in BOOLEAN : StartScan(save, auto, resume)
-----------------------------------------------------------------------------
(* flush_saved_checks_findings                                               *)
WriteList(status, entries) == list' = [entries |-> entries, status |-> status, save |-> TRUE]

(* build_scan_payload, and the end of _run_scan.                             *)
Payload(s, path, pending, result) ==
  [Blank EXCEPT !.save = s.save, !.cursor = TRUE, !.path = path, !.pending = pending,
                !.manual = s.manual \cap pending, !.result = result]
End(path, pending, result) == SetProgress(Payload(scan, path, pending, result)) /\ scan' = NoScan

(* A saving scan forces the list out first, and that already reports the end *)
(* of the scan: another may start before the last report of this one.        *)
Finish(status, path, pending) ==
  IF scan.save
  THEN /\ WriteList(status, scan.saved)
       /\ SetProgress([record EXCEPT !.running = FALSE])
       /\ scan' = [NoScan EXCEPT !.pc = "ending", !.save = TRUE, !.index = path, !.pending = pending]
  ELSE UNCHANGED list /\ End(path, pending, None)
Leave ==
  /\ scan.pc = "ending"
  /\ End(scan.index, scan.pending, None)
  /\ UNCHANGED <<list, open, events, lost>>
LeaveLate ==
  /\ former.pc = "ending"
  /\ SetProgress(Payload(former, former.index, former.pending, None))
  /\ former' = NoScan /\ lost' = Finding /\ misreported' = TRUE
  /\ UNCHANGED <<userVars, list, scan, open, scans, events, passed>>

(* resume_saved_entries: only a resumed saving scan reads the stored list.   *)
NothingSaved(s) == {}
SavedEntries(s) == IF s.save /\ s.resume /\ list.save THEN list.entries ELSE {}

(* The shared folder may be missing; the cursor is then one of a new scan.   *)
Begin ==
  /\ scan.pc = "begin"
  /\ \/ /\ scan' = [scan EXCEPT !.pc = "listing", !.resume = FALSE, !.saved = SavedEntries(scan)]
        /\ UNCHANGED <<record, remembered, events>>
     \/ /\ Event
        /\ End(0, {}, None)
  /\ UNCHANGED <<list, open, lost>>

(* The first report withdraws a stop that came since the start.              *)
ListPaths ==
  /\ scan.pc = "listing"
  /\ SetProgress([record EXCEPT !.running = TRUE, !.stop = FALSE, !.path = scan.index,
                                !.pending = scan.pending, !.manual = scan.manual])
  /\ scan' = [scan EXCEPT !.pc = IF scan.pending # {} /\ ~scan.save THEN "pending" ELSE "image"]
  /\ UNCHANGED <<list, open, events, lost>>
-----------------------------------------------------------------------------
(* resolve_checks_review_entry: a suggested solution is applied when the     *)
(* scan may; a finding put back for manual review is only shown.             *)
Applicable(f) == scan.auto /\ f \in Suggested \ scan.manual /\ f \in open

(* The head of the walk on a resumed scan: the findings left from the image  *)
(* at which the last one stopped.                                            *)
StopAtPending ==
  /\ scan.pc = "pending" /\ record.stop
  /\ End(scan.index, scan.pending, None)
  /\ UNCHANGED <<list, open, events, lost>>
ShowPending ==
  /\ scan.pc = "pending" /\ ~record.stop
  /\ LET f == FirstOf(scan.pending) IN End(scan.index, scan.pending \ {f}, f)
  /\ UNCHANGED <<list, open, events, lost>>
ApplyPending ==
  /\ scan.pc = "pending" /\ ~record.stop /\ Applicable(FirstOf(scan.pending))
  /\ open' = open \ {FirstOf(scan.pending)}
  /\ scan' = [scan EXCEPT !.pc = "applied"]
  /\ UNCHANGED <<record, remembered, list, events, lost>>
(* What is left of the image is built anew, except for name conflicts.       *)
Refreshed(f, rest) ==
  IF snapshot THEN rest \ {f}
  ELSE EntriesOf(ImageOf[f]) \cup {g \in rest : ImageOf[g] # ImageOf[f]}
AppliedPending ==
  /\ scan.pc = "applied" /\ scan.pending # {} /\ ~scan.save
  /\ LET f == FirstOf(scan.pending)
         rest == Refreshed(f, scan.pending)
     IN  IF record.stop THEN End(scan.index, scan.pending, None)
         ELSE IF rest = {}
         THEN /\ scan' = [scan EXCEPT !.pc = "image", !.pending = {}, !.manual = {}]
              /\ UNCHANGED <<record, remembered>>
         ELSE End(scan.index, rest \ {FirstOf(rest)}, FirstOf(rest))
  /\ UNCHANGED <<list, open, events, lost>>
-----------------------------------------------------------------------------
(* The loop over the images.                                                 *)
StopWalk ==
  /\ scan.pc = "image" /\ scan.index < Images /\ record.stop
  /\ Finish("stopped", scan.index, {})
  /\ UNCHANGED <<open, events, lost>>
EndWalk ==
  /\ scan.pc = "image" /\ scan.index = Images
  /\ Finish("finished", Images, {})
  /\ UNCHANGED <<open, events, lost>>
NextImage ==
  /\ scan.pc = "image" /\ scan.index < Images /\ ~record.stop
  /\ SetProgress([record EXCEPT !.running = TRUE, !.stop = FALSE, !.path = scan.index,
                                !.pending = {}, !.manual = {}])
  /\ scan' = [scan EXCEPT !.pc = "read", !.pending = {}, !.manual = {}]
  /\ UNCHANGED <<list, open, events, lost>>
ReadImage ==
  LET i == scan.index + 1
  IN  /\ scan.pc = "read"
      /\ scan' = IF EntriesOf(i) = {} THEN [scan EXCEPT !.pc = "image", !.index = i]
                 ELSE [scan EXCEPT !.pc = "entries", !.todo = EntriesOf(i)]
      /\ UNCHANGED <<record, remembered, list, open, events, lost>>

(* A stop that is seen while an entry is resolved leaves the entries of the  *)
(* image in the cursor: a saving scan neither saves them nor, resumed, looks *)
(* at them.                                                                  *)
StopAtEntry ==
  /\ scan.pc \in {"entries", "applied"} /\ scan.todo # {} /\ record.stop
  /\ Finish("stopped", scan.index + 1, scan.todo)
  /\ lost' = IF scan.save THEN lost \cup (scan.todo \ scan.saved) ELSE lost
  /\ UNCHANGED <<open, events>>
ApplyEntry ==
  /\ scan.pc = "entries" /\ ~record.stop /\ Applicable(FirstOf(scan.todo))
  /\ open' = open \ {FirstOf(scan.todo)}
  /\ scan' = [scan EXCEPT !.pc = "applied"]
  /\ UNCHANGED <<record, remembered, list, events, lost>>

(* A saving scan appends the entries, and writes the list with the first, by *)
(* number or time, or when a solution was refused.                           *)
DoneStaying(entries) == [scan EXCEPT !.pc = "image", !.todo = {}, !.saved = @ \cup entries]
Done(entries) == [scan EXCEPT !.pc = "image", !.index = @ + 1, !.todo = {}, !.saved = @ \cup entries]
Keep(entries) ==
  LET next == Done(entries)
      n == Cardinality(next.saved)
  IN  /\ \/ n > scan.flushed /\ WriteList("running", next.saved) /\ scan' = [next EXCEPT !.flushed = n]
         \/ (n = scan.flushed \/ scan.flushed > 0) /\ UNCHANGED list /\ scan' = next
      /\ SetProgress([record EXCEPT !.running = TRUE, !.path = scan.index + 1,
                                    !.pending = {}, !.manual = {}])
Present(entries) ==
  IF scan.save THEN Keep(entries)
  ELSE IF entries = {} THEN scan' = Done({}) /\ UNCHANGED <<record, remembered, list>>
  ELSE End(scan.index + 1, entries \ {FirstOf(entries)}, FirstOf(entries)) /\ UNCHANGED list
(* Not applied: no suggestion, none allowed, or Photos or the file refused.  *)
KeepEntries ==
  /\ scan.pc = "entries" /\ ~record.stop
  /\ Present(scan.todo)
  /\ UNCHANGED <<open, events, lost>>
AppliedEntry ==
  /\ scan.pc = "applied" /\ scan.todo # {} /\ ~record.stop
  /\ Present(Refreshed(FirstOf(scan.todo), scan.todo))
  /\ UNCHANGED <<open, events, lost>>
-----------------------------------------------------------------------------
(* Any call may raise; a stop that is seen by the ExifTool reader raises as  *)
(* well, and ends as a failure.                                              *)
Raise ==
  /\ scan.pc \notin {"none", "ending", "error"}
  /\ \/ Event
     \/ scan.pc = "read" /\ record.stop /\ UNCHANGED events
  /\ scan' = [scan EXCEPT !.pc = "error"]
  /\ UNCHANGED <<record, remembered, list, open, lost>>
(* write_persisted_findings_status writes the stored entries as failed; what *)
(* the scan has not flushed goes.                                            *)
Unflushed == IF scan.save THEN scan.saved \ list.entries ELSE {}
FailedStillRunning(r) == [r EXCEPT !.stop = FALSE]
Failed(r) == [r EXCEPT !.running = FALSE, !.stop = FALSE]
HandleError ==
  /\ scan.pc = "error"
  /\ IF scan.save THEN WriteList("failed", list.entries) ELSE UNCHANGED list
  /\ lost' = lost \cup Unflushed
  /\ SetProgress(Failed(record))
  /\ scan' = NoScan
  /\ UNCHANGED <<open, events>>

ScanStep ==
  /\ \/ Begin \/ ListPaths
     \/ StopAtPending \/ ShowPending \/ ApplyPending \/ AppliedPending
     \/ StopWalk \/ EndWalk \/ NextImage \/ ReadImage
     \/ StopAtEntry \/ ApplyEntry \/ KeepEntries \/ AppliedEntry
     \/ Leave \/ HandleError
  /\ UNCHANGED <<userVars, former, scans, passed, misreported>>

(* An image that was changed meanwhile: _run_scan raises the error again.    *)
Die ==
  /\ scan.pc \in {"pending", "entries"} /\ scan.auto
  /\ Event
  /\ lost' = lost \cup Unflushed /\ misreported' = TRUE
  /\ scan' = NoScan
  /\ UNCHANGED <<userVars, record, remembered, list, former, open, scans, passed>>

(* The backend is restarted.                                                 *)
Restart ==
  /\ Event
  /\ lost' = lost \cup Unflushed
  /\ scan' = NoScan /\ former' = NoScan /\ desk' = AtRest /\ remembered' = FALSE
  /\ UNCHANGED <<snapshot, record, list, open, ignored, scans, passed, misreported>>
-----------------------------------------------------------------------------
(* The user deals with a stored or shown finding: a face is deleted or       *)
(* renamed, and one that cannot be renamed as it is gone refreshes as well;  *)
(* a face is moved or assigned; or the finding is put on the ignore list.    *)
OnDesk(f) ==
  /\ Event
  /\ desk.pc = "idle" /\ f \in list.entries \cup {record.result}
  /\ desk' = [AtRest EXCEPT !.pc = "list", !.finding = f]
  /\ UNCHANGED <<snapshot, record, remembered, list, scan, former, scans, passed, lost, misreported>>
ChangeFace(f) == OnDesk(f) /\ open' = open \ {f} /\ UNCHANGED ignored
PlaceFace(f) == OnDesk(f) /\ f \in open /\ open' = open \ {f} /\ UNCHANGED ignored
IgnoreEntry(f) == OnDesk(f) /\ ignored' = ignored \cup {f} /\ UNCHANGED open

(* checks_item: a stored finding is opened, its suggestion may be applied,   *)
(* and the list is refreshed when the finding is gone, unless a stop has     *)
(* come; the progress is not.                                                *)
OpenItem(f) ==
  /\ Event
  /\ desk.pc = "idle" /\ f \in list.entries /\ ~record.stop
  /\ f \in Suggested \/ f \notin open
  /\ open' = open \ {f}
  /\ desk' = IF snapshot THEN AtRest ELSE [AtRest EXCEPT !.pc = "item", !.finding = f]
  /\ UNCHANGED <<snapshot, record, remembered, list, scan, former, ignored, scans, passed, lost, misreported>>

(* refresh_finding_entries_for_image, under the findings lock: the entries   *)
(* of the image are built anew.                                              *)
OnImage(S) == {f \in S : ImageOf[f] = ImageOf[desk.finding]}
BuiltAnew(entries) ==
  IF OnImage(entries) = {} THEN entries ELSE (entries \ OnImage(entries)) \cup EntriesOf(ImageOf[desk.finding])
RefreshItem ==
  /\ desk.pc = "item"
  /\ list' = IF record.stop THEN list ELSE [list EXCEPT !.entries = BuiltAnew(@)]
  /\ desk' = AtRest
  /\ UNCHANGED <<snapshot, record, remembered, scan, former, open, ignored, scans, events, passed, lost, misreported>>
RefreshList ==
  /\ desk.pc = "list" /\ ~snapshot
  /\ list' = [list EXCEPT !.entries = BuiltAnew(@)]
  /\ desk' = [desk EXCEPT !.pc = "progress"]
  /\ UNCHANGED <<snapshot, record, remembered, scan, former, open, ignored, scans, events, passed, lost, misreported>>

(* refresh_scan_progress_for_image reads the progress, the image and then    *)
(* writes the progress back: the shown finding is withdrawn, the others of   *)
(* its image are kept for manual review.                                     *)
ReadProgress ==
  /\ desk.pc = "progress"
  /\ desk' = IF snapshot \/ record.cursor THEN [desk EXCEPT !.pc = "write", !.read = record] ELSE AtRest
  /\ UNCHANGED <<snapshot, record, remembered, list, scan, former, open, ignored, scans, events, passed, lost, misreported>>
Rebuilt(r) ==
  LET again == EntriesOf(ImageOf[desk.finding]) \ OnImage({r.result} \ {None})
      others == r.pending \ OnImage(r.pending)
  IN  [r EXCEPT !.pending = again \cup others, !.result = None, !.manual = again \cup (@ \cap others)]
Withdrawn(r) == [r EXCEPT !.pending = @ \ desk.gone, !.manual = @ \ desk.gone]
WriteProgress ==
  /\ desk.pc = "write"
  /\ SetProgress(IF snapshot THEN Withdrawn(desk.read) ELSE Rebuilt(desk.read))
  /\ lost' = lost \cup (IF record # desk.read THEN Finding ELSE desk.gone \cup ({record.result} \ {None}))
  /\ misreported' = (misreported \/ record # desk.read \/ ~remembered)
  /\ desk' = AtRest
  /\ UNCHANGED <<snapshot, list, scan, former, open, ignored, scans, events, passed>>

(* _snapshot_name_conflicts_mutation_state: the finding and others of the    *)
(* image with one of its names leave the list and then the cursor, unread.   *)
Snapshot ==
  /\ desk.pc = "list" /\ snapshot
  /\ \E others \in SUBSET OnImage(open) :
       LET gone == {desk.finding} \cup others
       IN  /\ list' = [list EXCEPT !.entries = @ \ gone]
           /\ desk' = [desk EXCEPT !.pc = "progress", !.gone = gone]
           /\ lost' = lost \cup others
  /\ UNCHANGED <<snapshot, record, remembered, scan, former, open, ignored, scans, events, passed, misreported>>

(* The refresh fails: the answer carries refresh_error.                      *)
RefreshFails ==
  /\ desk.pc # "idle" /\ Event
  /\ desk' = AtRest
  /\ UNCHANGED <<snapshot, record, remembered, list, scan, former, open, ignored, scans, passed, lost, misreported>>
-----------------------------------------------------------------------------
Next ==
  \/ ScanStep
  \/ ChecksStart
  \/ RequestStop \/ LeaveLate \/ Die \/ Restart
  \/ Raise /\ UNCHANGED <<userVars, former, scans, passed, misreported>>
  \/ \E f \in Finding : ChangeFace(f) \/ PlaceFace(f) \/ IgnoreEntry(f) \/ OpenItem(f)
  \/ RefreshItem \/ RefreshList \/ ReadProgress \/ WriteProgress \/ Snapshot \/ RefreshFails

Spec == Init /\ [][Next]_vars
FairSpec == Spec /\ WF_vars(ScanStep)
-----------------------------------------------------------------------------
TypeOK ==
  /\ snapshot \in BOOLEAN /\ remembered \in BOOLEAN /\ misreported \in BOOLEAN
  /\ record \in Record /\ list \in Lists /\ desk \in Desk
  /\ scan \in Scan /\ former \in Scan
  /\ open \subseteq Finding /\ ignored \subseteq Finding
  /\ passed \subseteq Finding /\ lost \subseteq Finding

(* Every finding that still exists on an image the scan has passed can be    *)
(* found again: in the list of a saving scan, or among the shown, the        *)
(* waiting and the passed ones of a reviewing scan; a saving scan loses one  *)
(* only in the ways of StopAtEntry, HandleError, Die and Restart, a          *)
(* reviewing one only in those of WriteProgress and Snapshot.                *)
Passed == IF scan.pc = "none" THEN record.path ELSE scan.index
Kept ==
  IF (IF scan.pc = "none" THEN record.save ELSE scan.save) THEN list.entries \cup scan.saved
  ELSE {record.result} \cup passed \cup (IF scan.pc = "none" THEN record.pending ELSE scan.pending)
NothingForgotten ==
  \A f \in open \ ignored : ImageOf[f] <= Passed => f \in Kept \cup lost

(* The record in memory says running exactly while a scan works, unless one  *)
(* died unreported or a late writer put an older record over a newer one or, *)
(* after a restart, into memory.                                             *)
ScanIsWorked ==
  remembered /\ ~misreported => (record.running <=> scan.pc \notin {"none", "ending"})

(* A scan always ends: no image, entry or applied solution is gone over for  *)
(* ever.                                                                     *)
ScanEnds == scan.pc # "none" ~> scan.pc = "none"
=============================================================================
