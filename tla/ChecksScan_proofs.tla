------------------------- MODULE ChecksScan_proofs -------------------------
(***************************************************************************)
(* What ChecksScan keeps for any number of findings, images, scans and     *)
(* events: its types, that a record running in memory has a scan at work,  *)
(* and that no finding on a passed image is forgotten.                     *)
(***************************************************************************)
EXTENDS ChecksScan, FiniteSetTheorems, WellFoundedInduction, TLAPS

Working == scan.pc \notin {"none", "ending"}

(* What the steps of a scan rely on: where each field of it may be set, and  *)
(* that memory holds the record as long as it works.                         *)
ScanOK ==
  /\ scan.pc # "none" => remembered
  /\ scan.pc \in {"none", "ending"} => scan.saved = {} /\ scan.todo = {}
  /\ scan.pc = "ending" => scan.save
  /\ scan.pc \in {"begin", "listing", "pending", "image", "read"} => scan.todo = {}
  /\ scan.pc = "begin" => scan.saved = {} /\ (scan.resume \/ scan.index = 0)
  /\ scan.pc = "pending" => scan.pending # {} /\ ~scan.save
  /\ scan.pc = "read" => scan.index < Images
  /\ scan.pc = "entries" \/ (scan.pc = "applied" /\ scan.todo # {}) =>
       scan.index < Images /\ (scan.save \/ scan.pending = {})
  /\ scan.pc = "entries" => scan.todo # {}
  /\ scan.pc \in {"image", "read"} => scan.save \/ scan.pending = {}
  /\ former.pc \in {"none", "ending"}
  /\ desk.pc # "idle" => desk.finding \in Finding

(* A solution in the making is gone from its image, as is the finding on the *)
(* desk unless it was put on the ignore list.                                *)
Left == open \ ignored
GoneOK ==
  /\ scan.pc = "applied" /\ scan.todo # {} => FirstOf(scan.todo) \notin open
  /\ scan.pc = "applied" /\ scan.pending # {} /\ ~scan.save => FirstOf(scan.pending) \notin open
  /\ desk.pc # "idle" => desk.finding \in Finding \ Left

(* The record follows the scan, unless an older one was put over it.         *)
Follows ==
  \/ lost = Finding
  \/ scan.pc = "none"
  \/ record.save = scan.save /\ record.path <= scan.index /\ record.result = None

(* What is left on the images up to the n-th is in K or named as lost.       *)
Covers(K, n) == \A f \in Left : ImageOf[f] <= n => f \in K \cup lost
RecordCovers ==
  Covers(IF record.save THEN list.entries \cup scan.saved ELSE {record.result} \cup passed \cup record.pending,
         record.path)
ScanCovers ==
  /\ scan.pc # "none" => Covers(IF scan.save THEN list.entries \cup scan.saved ELSE passed \cup scan.pending, scan.index)
  /\ scan.save /\ scan.pc \notin {"none", "begin", "ending", "error"} => Covers(scan.saved, scan.index)
  /\ scan.todo # {} /\ scan.pc \in {"entries", "applied"} =>
       \A f \in Left : ImageOf[f] = scan.index + 1 => f \in scan.todo
ListOK == list.entries # {} => list.save

ScanIInv == TypeOK /\ ScanOK /\ ScanIsWorked
FindingsIInv == GoneOK /\ Follows /\ RecordCovers /\ ScanCovers /\ ListOK
-----------------------------------------------------------------------------
USE FindingAssumption DEF FindingAssumption

LEMMA LessThanWellFounded ==
  IsWellFoundedOn({p \in Nat \X Nat : p[1] < p[2]}, Nat)
BY NatLessThanWellFounded DEF OpToRel

LEMMA FirstIsMember ==
  ASSUME NEW S \in SUBSET Finding, S # {}
  PROVE  FirstOf(S) \in S
<1> DEFINE Less == {p \in Nat \X Nat : p[1] < p[2]}
<1>1. PICK x \in S : \A y \in S : ~(<<y, x>> \in Less)
  BY LessThanWellFounded, WFMin
<1>2. ASSUME NEW y \in S PROVE x <= y
  <2>1. x \in Nat /\ y \in Nat
    OBVIOUS
  <2>2. y < x => <<y, x>> \in Less
    BY <2>1
  <2> QED BY <1>1, <2>1, <2>2
<1> QED BY <1>2 DEF FirstOf

LEMMA Bounds ==
  /\ 0 \in 0..Images
  /\ Cardinality(Finding) \in Nat /\ 0 \in 0..Cardinality(Finding)
  /\ \A S \in SUBSET Finding : Cardinality(S) \in 0..Cardinality(Finding)
<1>1. Cardinality(Finding) \in Nat
  BY FS_CardinalityType
<1>2. ASSUME NEW S \in SUBSET Finding PROVE Cardinality(S) \in 0..Cardinality(Finding)
  <2>1. IsFiniteSet(S) /\ Cardinality(S) <= Cardinality(Finding)
    BY FS_Subset
  <2>2. Cardinality(S) \in Nat
    BY <2>1, FS_CardinalityType
  <2> QED BY <2>1, <2>2, <1>1
<1> QED BY <1>1, <1>2

LEMMA ConstantTypes ==
  /\ Blank \in Record /\ NoList \in Lists /\ NoScan \in Scan /\ AtRest \in Desk
<1>1. Blank \in Record
  BY Bounds DEF Blank, Record
<1>2. NoScan \in Scan
  BY Bounds DEF NoScan, Scan
<1> QED BY <1>1, <1>2 DEF NoList, Lists, AtRest, Desk

LEMMA RecordFields ==
  ASSUME NEW r \in Record
  PROVE  /\ r.running \in BOOLEAN /\ r.stop \in BOOLEAN /\ r.save \in BOOLEAN /\ r.cursor \in BOOLEAN
         /\ r.path \in 0..Images /\ r.pending \in SUBSET Finding /\ r.manual \in SUBSET Finding
         /\ r.result \in Finding \cup {None}
BY DEF Record

LEMMA ScanFields ==
  ASSUME NEW s \in Scan
  PROVE  /\ s.save \in BOOLEAN /\ s.auto \in BOOLEAN /\ s.resume \in BOOLEAN
         /\ s.index \in 0..Images /\ s.pending \in SUBSET Finding /\ s.manual \in SUBSET Finding
         /\ s.todo \in SUBSET Finding /\ s.saved \in SUBSET Finding /\ s.flushed \in 0..Cardinality(Finding)
BY DEF Scan

LEMMA EntriesType ==
  ASSUME TypeOK, NEW i
  PROVE  EntriesOf(i) \in SUBSET Finding
BY DEF EntriesOf, TypeOK

LEMMA RefreshedType ==
  ASSUME TypeOK, NEW f, NEW S \in SUBSET Finding
  PROVE  Refreshed(f, S) \in SUBSET Finding
BY EntriesType DEF Refreshed

LEMMA BuiltAnewType ==
  ASSUME TypeOK, NEW S \in SUBSET Finding
  PROVE  BuiltAnew(S) \in SUBSET Finding
BY EntriesType DEF BuiltAnew
-----------------------------------------------------------------------------
(* What the ends of a scan do to the record and the list.                    *)
LEMMA EndEffect ==
  ASSUME TypeOK, NEW path \in 0..Images, NEW pending \in SUBSET Finding,
         NEW result \in Finding \cup {None}, End(path, pending, result)
  PROVE  /\ record' \in Record /\ remembered' = TRUE /\ scan' = NoScan
         /\ record'.running = FALSE /\ record'.save = scan.save /\ record'.path = path
         /\ record'.pending = pending /\ record'.result = result
<1>1. scan \in Scan
  BY DEF TypeOK
<1>2. record' = Payload(scan, path, pending, result) /\ remembered' = TRUE /\ scan' = NoScan
  BY DEF End, SetProgress
<1>3. /\ Payload(scan, path, pending, result) \in Record
      /\ Payload(scan, path, pending, result).running = FALSE
      /\ Payload(scan, path, pending, result).save = scan.save
      /\ Payload(scan, path, pending, result).path = path
      /\ Payload(scan, path, pending, result).pending = pending
      /\ Payload(scan, path, pending, result).result = result
  BY <1>1, ScanFields, ConstantTypes DEF Payload, Record, Blank
<1> QED BY <1>2, <1>3

LEMMA WriteListType ==
  ASSUME NEW status \in {"running", "stopped", "failed", "finished"}, NEW S \in SUBSET Finding,
         WriteList(status, S)
  PROVE  list' \in Lists /\ list'.entries = S /\ list'.save = TRUE
BY DEF WriteList, Lists

LEMMA FinishEffect ==
  ASSUME TypeOK, NEW path \in 0..Images, NEW pending \in SUBSET Finding,
         NEW status \in {"stopped", "finished"}, Finish(status, path, pending)
  PROVE  /\ record' \in Record /\ remembered' = TRUE /\ record'.running = FALSE
         /\ list' \in Lists /\ scan' \in Scan /\ scan'.saved = {} /\ scan'.todo = {}
         /\ scan.save => /\ scan'.pc = "ending" /\ scan'.save /\ scan'.index = path
                         /\ list'.entries = scan.saved /\ list'.save
                         /\ record'.save = record.save /\ record'.path = record.path
                         /\ record'.pending = record.pending /\ record'.result = record.result
         /\ ~scan.save => /\ scan' = NoScan /\ list' = list
                          /\ record'.save = scan.save /\ record'.path = path
                          /\ record'.pending = pending /\ record'.result = None
<1>1. CASE scan.save
  <2>1. list' = [entries |-> scan.saved, status |-> status, save |-> TRUE]
    BY <1>1 DEF Finish, WriteList
  <2>2. record' = [record EXCEPT !.running = FALSE] /\ remembered' = TRUE
    BY <1>1 DEF Finish, SetProgress
  <2>3. scan' = [NoScan EXCEPT !.pc = "ending", !.save = TRUE, !.index = path, !.pending = pending]
    BY <1>1 DEF Finish
  <2>4. list' \in Lists /\ record' \in Record
    BY <2>1, <2>2, ScanFields DEF Lists, TypeOK, Record
  <2>5. scan' \in Scan
    BY <2>3, ConstantTypes DEF Scan
  <2> QED BY <1>1, <2>1, <2>2, <2>3, <2>4, <2>5 DEF TypeOK, Record, NoScan
<1>2. CASE ~scan.save
  <2>1. list' = list /\ End(path, pending, None)
    BY <1>2 DEF Finish
  <2>2. None \in Finding \cup {None}
    OBVIOUS
  <2>3. NoScan.saved = {} /\ NoScan.todo = {} /\ NoScan \in Scan
    BY ConstantTypes DEF NoScan
  <2>4. list \in Lists
    BY DEF TypeOK
  <2>5. /\ record' \in Record /\ remembered' = TRUE /\ scan' = NoScan
        /\ record'.running = FALSE /\ record'.save = scan.save /\ record'.path = path
        /\ record'.pending = pending /\ record'.result = None
    BY <2>1, <2>2, EndEffect
  <2> QED BY <1>2, <2>1, <2>3, <2>4, <2>5
<1> QED BY <1>1, <1>2, ScanFields DEF TypeOK

(* A scan that is gone, with a record that does not run.                     *)
LEMMA AtEnd ==
  ASSUME scan' = NoScan, UNCHANGED <<former, desk>>, ScanOK, record'.running = FALSE
  PROVE  ScanOK' /\ ScanIsWorked'
BY DEF ScanOK, ScanIsWorked, NoScan

ScanTypes == record \in Record /\ list \in Lists /\ scan \in Scan /\ open \subseteq Finding /\ lost \subseteq Finding
             /\ remembered \in BOOLEAN

LEMMA Leaving ==
  ASSUME TypeOK, ScanOK, UNCHANGED <<former, desk>>, NEW path \in 0..Images, NEW pending \in SUBSET Finding,
         NEW result \in Finding \cup {None}, End(path, pending, result),
         UNCHANGED <<list, open, lost>>
  PROVE  ScanTypes' /\ ScanOK' /\ ScanIsWorked'
<1>1. record'.running = FALSE /\ scan' = NoScan
  BY EndEffect
<1> QED BY <1>1, EndEffect, AtEnd, ConstantTypes DEF TypeOK, ScanTypes

LEMMA Finishing ==
  ASSUME TypeOK, ScanOK, UNCHANGED <<former, desk>>, NEW path \in 0..Images, NEW pending \in SUBSET Finding,
         NEW status \in {"stopped", "finished"}, Finish(status, path, pending)
  PROVE  record' \in Record /\ list' \in Lists /\ scan' \in Scan /\ remembered' \in BOOLEAN
         /\ ScanOK' /\ ScanIsWorked'
<1>0. /\ record' \in Record /\ remembered' = TRUE /\ record'.running = FALSE
      /\ list' \in Lists /\ scan' \in Scan /\ scan'.saved = {} /\ scan'.todo = {}
      /\ scan.save => scan'.pc = "ending" /\ scan'.save
      /\ ~scan.save => scan' = NoScan
  BY FinishEffect
<1>1. CASE scan.save
  <2>1. ScanOK'
    BY <1>0, <1>1 DEF ScanOK
  <2> QED BY <1>0, <1>1, <2>1 DEF ScanIsWorked
<1>2. CASE ~scan.save
  BY <1>0, <1>2, AtEnd
<1> QED BY <1>1, <1>2, FinishEffect, ScanFields DEF TypeOK

LEMMA ScanStepKeeps ==
  ASSUME ScanIInv, ScanStep
  PROVE  ScanTypes' /\ ScanOK' /\ ScanIsWorked'
<1> USE DEF ScanIInv
<1>0. UNCHANGED <<former, desk>> /\ misreported' = misreported /\ TypeOK /\ ScanOK
  BY DEF ScanStep, ScanIInv, userVars
<1>f. /\ scan.save \in BOOLEAN /\ scan.index \in 0..Images /\ scan.pending \in SUBSET Finding
      /\ scan.manual \in SUBSET Finding /\ scan.todo \in SUBSET Finding /\ scan.saved \in SUBSET Finding
      /\ record \in Record /\ scan \in Scan /\ list \in Lists /\ list.entries \in SUBSET Finding
      /\ open \in SUBSET Finding /\ lost \in SUBSET Finding /\ remembered \in BOOLEAN
  BY ScanFields DEF TypeOK, Lists
<1>1. CASE Begin
  <2>1. CASE scan' = [scan EXCEPT !.pc = "listing", !.resume = FALSE, !.saved = SavedEntries(scan)]
             /\ UNCHANGED <<record, remembered, events>>
    <3>1. SavedEntries(scan) \in SUBSET Finding
      BY <1>f DEF SavedEntries
    <3>2. scan' \in Scan
      BY <1>f, <2>1, <3>1 DEF Scan
    <3> QED BY <1>0, <1>f, <1>1, <2>1, <3>2 DEF Begin, ScanTypes, ScanOK, ScanIsWorked, Scan
  <2>2. CASE End(0, {}, None)
    BY <1>0, <1>1, <2>2, Leaving, Bounds DEF Begin
  <2> QED BY <1>1, <2>1, <2>2 DEF Begin
<1>2. CASE ListPaths
  <2>1. record' \in Record /\ record'.running = TRUE
    BY <1>2, <1>f DEF ListPaths, SetProgress, Record
  <2>2. scan' \in Scan
    BY <1>2, <1>f DEF ListPaths, Scan
  <2>3. ScanOK'
    BY <1>2, <1>0, <1>f DEF ListPaths, SetProgress, ScanOK, Scan
  <2>4. scan'.pc \notin {"none", "ending"}
    BY <1>2, <1>f DEF ListPaths, Scan
  <2> QED BY <1>2, <1>f, <2>1, <2>2, <2>3, <2>4 DEF ListPaths, SetProgress, ScanTypes, ScanIsWorked
<1>3. CASE StopAtPending
  BY <1>0, <1>f, <1>3, Leaving DEF StopAtPending
<1>4. CASE ShowPending
  <2>1. FirstOf(scan.pending) \in scan.pending
    BY <1>4, <1>0, <1>f, FirstIsMember DEF ShowPending, ScanOK
  <2> QED BY <1>0, <1>f, <1>4, <2>1, Leaving DEF ShowPending
<1>5. CASE ApplyPending
  <2>1. scan' \in Scan
    BY <1>5, <1>f DEF ApplyPending, Scan
  <2> QED BY <1>0, <1>f, <1>5, <2>1 DEF ApplyPending, ScanTypes, ScanOK, ScanIsWorked, Scan
<1>6. CASE AppliedPending
  <2> DEFINE f == FirstOf(scan.pending)
             rest == Refreshed(f, scan.pending)
  <2>1. rest \in SUBSET Finding
    BY <1>0, <1>f, RefreshedType
  <2>2. CASE record.stop
    BY <1>0, <1>f, <1>6, <2>2, Leaving DEF AppliedPending
  <2>3. CASE ~record.stop /\ rest = {}
    <3>1. /\ scan' = [scan EXCEPT !.pc = "image", !.pending = {}, !.manual = {}]
          /\ UNCHANGED <<record, remembered, list, open, lost>>
      BY <1>6, <2>3 DEF AppliedPending
    <3>2. scan' \in Scan /\ scan.pc = "applied"
      BY <1>6, <1>f, <3>1 DEF AppliedPending, Scan
    <3>3. scan.todo = {}
      BY <1>6, <1>0 DEF AppliedPending, ScanOK
    <3> QED BY <1>0, <1>f, <3>1, <3>2, <3>3 DEF ScanTypes, ScanOK, ScanIsWorked, Scan
  <2>4. CASE ~record.stop /\ rest # {}
    <3>1. FirstOf(rest) \in rest
      BY <2>1, <2>4, FirstIsMember
    <3>2. End(scan.index, rest \ {FirstOf(rest)}, FirstOf(rest)) /\ UNCHANGED <<list, open, lost>>
      BY <1>6, <2>4 DEF AppliedPending
    <3>3. rest \ {FirstOf(rest)} \in SUBSET Finding /\ FirstOf(rest) \in Finding \cup {None}
      BY <2>1, <3>1
    <3> HIDE DEF rest
    <3> QED BY <1>0, <1>f, <3>2, <3>3, Leaving
  <2> QED BY <2>2, <2>3, <2>4
<1>7. CASE StopWalk
  BY <1>0, <1>f, <1>7, Finishing DEF StopWalk, ScanTypes
<1>8. CASE EndWalk
  <2>1. Images \in 0..Images
    OBVIOUS
  <2> QED BY <1>0, <1>f, <1>8, <2>1, Finishing DEF EndWalk, ScanTypes
<1>9. CASE NextImage
  <2>1. record' \in Record /\ record'.running = TRUE
    BY <1>9, <1>f DEF NextImage, SetProgress, Record
  <2>2. scan' \in Scan /\ scan'.pc = "read"
    BY <1>9, <1>f DEF NextImage, Scan
  <2>3. ScanOK'
    BY <1>9, <1>0, <1>f DEF NextImage, SetProgress, ScanOK, Scan
  <2> QED BY <1>9, <1>f, <2>1, <2>2, <2>3 DEF NextImage, SetProgress, ScanTypes, ScanIsWorked
<1>10. CASE ReadImage
  <2>1. scan.index + 1 \in 0..Images
    BY <1>10, <1>0, <1>f DEF ReadImage, ScanOK
  <2>2. EntriesOf(scan.index + 1) \in SUBSET Finding
    BY <1>0, EntriesType
  <2>3. scan' \in Scan
    BY <1>10, <1>f, <2>1, <2>2 DEF ReadImage, Scan
  <2> QED BY <1>10, <1>0, <1>f, <2>3 DEF ReadImage, ScanTypes, ScanOK, ScanIsWorked, Scan
<1>11. CASE StopAtEntry
  <2>1. scan.index + 1 \in 0..Images
    BY <1>11, <1>0, <1>f DEF StopAtEntry, ScanOK
  <2>2. lost' \in SUBSET Finding /\ open' = open
    BY <1>11, <1>f DEF StopAtEntry
  <2> QED BY <1>0, <1>f, <1>11, <2>1, <2>2, Finishing DEF StopAtEntry, ScanTypes
<1>12. CASE ApplyEntry
  <2>1. scan' \in Scan
    BY <1>12, <1>f DEF ApplyEntry, Scan
  <2> QED BY <1>0, <1>f, <1>12, <2>1 DEF ApplyEntry, ScanTypes, ScanOK, ScanIsWorked, Scan
<1>13. ASSUME NEW S \in SUBSET Finding, Present(S), scan.index < Images, scan.save \/ scan.pending = {},
              scan.pc \in {"entries", "applied"}, UNCHANGED <<open, lost>>
       PROVE  ScanTypes' /\ ScanOK' /\ ScanIsWorked'
  <2>1. scan.index + 1 \in 0..Images
    BY <1>13, <1>f
  <2>2. Done(S) \in Scan /\ Done({}) \in Scan
    BY <1>f, <2>1 DEF Done, Scan
  <2>3. CASE scan.save
    <3>1. Keep(S)
      BY <1>13, <2>3 DEF Present
    <3>2. record' \in Record /\ record'.running = TRUE /\ remembered' = TRUE
      BY <1>f, <2>1, <3>1 DEF Keep, SetProgress, Record
    <3>3. Cardinality(Done(S).saved) \in 0..Cardinality(Finding)
      BY <2>2, Bounds, ScanFields
    <3>4. scan' = Done(S) \/ scan' = [Done(S) EXCEPT !.flushed = Cardinality(Done(S).saved)]
      BY <3>1 DEF Keep
    <3>5. scan' \in Scan
      BY <2>2, <3>3, <3>4 DEF Scan
    <3>6. scan'.pc = "image" /\ scan'.todo = {} /\ scan'.save
      BY <1>f, <2>3, <3>4 DEF Done, Scan
    <3>7. list' \in Lists
      <4>1. Done(S).saved \in SUBSET Finding
        BY <2>2, ScanFields
      <4>2. WriteList("running", Done(S).saved) \/ UNCHANGED list
        BY <3>1 DEF Keep
      <4> QED BY <1>f, <4>1, <4>2, WriteListType
    <3> QED BY <1>0, <1>13, <1>f, <3>2, <3>5, <3>6, <3>7 DEF ScanTypes, ScanOK, ScanIsWorked
  <2>4. CASE ~scan.save /\ S = {}
    <3>1. scan' = Done({}) /\ UNCHANGED <<record, remembered, list>>
      BY <1>13, <2>4 DEF Present
    <3>2. scan'.pc = "image" /\ scan'.todo = {} /\ scan'.pending = {}
      BY <1>13, <2>4, <1>f, <3>1 DEF Done, Scan
    <3> QED BY <1>0, <1>13, <1>f, <2>2, <3>1, <3>2 DEF ScanTypes, ScanOK, ScanIsWorked
  <2>5. CASE ~scan.save /\ S # {}
    <3>1. FirstOf(S) \in S
      BY <2>5, FirstIsMember
    <3>2. End(scan.index + 1, S \ {FirstOf(S)}, FirstOf(S)) /\ UNCHANGED list
      BY <1>13, <2>5 DEF Present
    <3> QED BY <1>0, <1>13, <2>1, <3>1, <3>2, Leaving
  <2> QED BY <1>f, <2>3, <2>4, <2>5
<1>14. CASE KeepEntries
  BY <1>0, <1>f, <1>13, <1>14 DEF KeepEntries, ScanOK
<1>15. CASE AppliedEntry
  <2>1. Refreshed(FirstOf(scan.todo), scan.todo) \in SUBSET Finding
    BY <1>0, <1>f, RefreshedType
  <2> QED BY <1>0, <1>f, <1>13, <1>15, <2>1 DEF AppliedEntry, ScanOK
<1>16. CASE Leave
  <2>1. None \in Finding \cup {None}
    OBVIOUS
  <2> QED BY <1>0, <1>f, <1>16, <2>1, Leaving DEF Leave
<1>17. CASE HandleError
  <2>1. record' \in Record /\ record'.running = FALSE /\ remembered' = TRUE
    BY <1>17, <1>f DEF HandleError, SetProgress, Failed, Record
  <2>2. list' \in Lists
    BY <1>17, <1>f, WriteListType DEF HandleError
  <2>3. lost' \in SUBSET Finding /\ scan' = NoScan /\ open' = open
    BY <1>17, <1>f DEF HandleError, Unflushed
  <2> QED BY <1>0, <1>f, <2>1, <2>2, <2>3, AtEnd, ConstantTypes DEF ScanTypes
<1> QED BY <1>1, <1>2, <1>3, <1>4, <1>5, <1>6, <1>7, <1>8, <1>9, <1>10, <1>11, <1>12, <1>14, <1>15, <1>16, <1>17
        DEF ScanStep
-----------------------------------------------------------------------------
(* The same of the steps of the user, of another scan and of a failure.      *)
LEMMA StartEffect ==
  ASSUME TypeOK, NEW save \in BOOLEAN, NEW auto \in BOOLEAN, NEW resume \in BOOLEAN,
         StartScan(save, auto, resume)
  PROVE  /\ record' \in Record /\ record'.running = TRUE /\ remembered' = TRUE
         /\ record'.result = None /\ record'.save = scan'.save /\ record'.path = scan'.index
         /\ record'.pending = scan'.pending
         /\ scan' \in Scan /\ scan'.pc = "begin" /\ scan'.saved = {} /\ scan'.todo = {}
         /\ scan'.resume \/ scan'.index = 0
         /\ former' \in Scan /\ former'.pc \in {"none", "ending"}
         /\ passed' \subseteq Finding /\ lost' \subseteq Finding
         /\ \/ /\ scan'.save = record.save /\ scan'.index = record.path /\ scan'.pending = record.pending
               /\ passed' = passed \cup ({record.result} \ {None}) /\ lost' = lost
            \/ scan'.index = 0
<1> DEFINE goesOn == resume /\ record.cursor
           c == IF goesOn THEN ResumeCursor(record) ELSE CursorOf(Blank)
           saves == IF goesOn THEN record.save ELSE save
<1>1. /\ record.save \in BOOLEAN /\ record.path \in 0..Images /\ record.pending \in SUBSET Finding
      /\ record.manual \in SUBSET Finding /\ record.result \in Finding \cup {None}
      /\ record.cursor \in BOOLEAN /\ passed \subseteq Finding /\ lost \subseteq Finding
      /\ scan \in Scan
  BY RecordFields DEF TypeOK
<1>2. /\ record' = [Blank EXCEPT !.running = TRUE, !.save = saves, !.cursor = TRUE, !.path = c.path,
                                 !.pending = c.pending, !.manual = c.manual]
      /\ remembered' = TRUE
      /\ scan' = [NoScan EXCEPT !.pc = "begin", !.save = saves, !.auto = auto, !.resume = goesOn,
                                !.index = c.path, !.pending = c.pending, !.manual = c.manual]
      /\ passed' = IF goesOn THEN passed \cup ({record.result} \ {None}) ELSE {}
      /\ lost' = IF goesOn THEN lost ELSE {}
      /\ former' = IF scan.pc = "ending" THEN scan ELSE NoScan
  BY DEF StartScan, SetProgress
<1>3. /\ c.path \in 0..Images /\ c.pending \in SUBSET Finding /\ c.manual \in SUBSET Finding
      /\ saves \in BOOLEAN /\ goesOn \in BOOLEAN
  BY <1>1, Bounds DEF ResumeCursor, CursorOf, Blank
<1>4. goesOn => c.path = record.path /\ c.pending = record.pending /\ saves = record.save
  BY DEF ResumeCursor, CursorOf
<1>5. ~goesOn => c.path = 0
  BY DEF CursorOf, Blank
<1> HIDE DEF c, saves, goesOn
<1>6. record' \in Record /\ scan' \in Scan
  BY <1>2, <1>3, ConstantTypes DEF Record, Scan
<1>7. /\ record'.running = TRUE /\ record'.result = None /\ record'.save = saves
      /\ record'.path = c.path /\ record'.pending = c.pending
  BY <1>2 DEF Blank
<1>8. /\ scan'.pc = "begin" /\ scan'.saved = {} /\ scan'.todo = {} /\ scan'.save = saves
      /\ scan'.index = c.path /\ scan'.pending = c.pending /\ scan'.resume = goesOn
  BY <1>2 DEF NoScan
<1>9. former' \in Scan /\ former'.pc \in {"none", "ending"}
  BY <1>1, <1>2, ConstantTypes DEF NoScan
<1>10. passed' \subseteq Finding /\ lost' \subseteq Finding
  BY <1>1, <1>2
<1>11. CASE goesOn
  BY <1>2, <1>4, <1>6, <1>7, <1>8, <1>9, <1>10, <1>11
<1>12. CASE ~goesOn
  BY <1>2, <1>5, <1>6, <1>7, <1>8, <1>9, <1>10, <1>12
<1> QED BY <1>11, <1>12

LEMMA WriteProgressEffect ==
  ASSUME TypeOK, WriteProgress
  PROVE  /\ record' \in Record /\ record'.running = desk.read.running /\ record'.stop = desk.read.stop
         /\ record'.save = desk.read.save /\ record'.path = desk.read.path
         /\ snapshot => record'.result = desk.read.result /\ record'.pending = desk.read.pending \ desk.gone
         /\ ~snapshot => record'.result = None /\ record'.pending = Rebuilt(desk.read).pending
<1>1. desk.read \in Record /\ desk.gone \in SUBSET Finding
  BY DEF TypeOK, Desk
<1>2. CASE snapshot
  <2>1. record' = [desk.read EXCEPT !.pending = @ \ desk.gone, !.manual = @ \ desk.gone]
    BY <1>2 DEF WriteProgress, SetProgress, Withdrawn
  <2> QED BY <1>1, <1>2, <2>1 DEF Record
<1>3. CASE ~snapshot
  <2> DEFINE again == EntriesOf(ImageOf[desk.finding]) \ OnImage({desk.read.result} \ {None})
             others == desk.read.pending \ OnImage(desk.read.pending)
  <2>1. record' = [desk.read EXCEPT !.pending = again \cup others, !.result = None,
                                    !.manual = again \cup (@ \cap others)]
    BY <1>3 DEF WriteProgress, SetProgress, Rebuilt
  <2>2. again \in SUBSET Finding /\ others \in SUBSET Finding
    BY <1>1, EntriesType, RecordFields
  <2>3. Rebuilt(desk.read).pending = again \cup others
    BY <1>1 DEF Rebuilt, Record
  <2> HIDE DEF again, others
  <2> QED BY <1>1, <1>3, <2>1, <2>2, <2>3 DEF Record
<1> QED BY <1>2, <1>3 DEF TypeOK

LEMMA UserStepKeeps ==
  ASSUME ScanIInv, RequestStop \/ LeaveLate \/ Die \/ Restart \/ ChecksStart
                   \/ (Raise /\ UNCHANGED <<userVars, former, scans, passed, misreported>>)
  PROVE  ScanIInv'
<1> USE DEF ScanIInv
<1>f. /\ scan.save \in BOOLEAN /\ scan.index \in 0..Images /\ scan.pending \in SUBSET Finding
      /\ scan.saved \in SUBSET Finding /\ list.entries \in SUBSET Finding
      /\ record \in Record /\ scan \in Scan /\ former \in Scan
  BY ScanFields DEF TypeOK, Lists
<1>1. CASE RequestStop
  <2> DEFINE held == IF remembered THEN record ELSE Blank
  <2>1. record' = [held EXCEPT !.stop = TRUE] /\ remembered' = TRUE
    BY <1>1 DEF RequestStop, SetProgress
  <2>2. held \in Record
    BY <1>f, ConstantTypes
  <2>3. record' \in Record /\ record'.running = held.running
    BY <2>1, <2>2 DEF Record
  <2>4. TypeOK' /\ ScanOK'
    BY <1>1, <2>1, <2>3 DEF RequestStop, TypeOK, ScanOK
  <2>5. CASE remembered
    BY <1>1, <2>3, <2>4, <2>5 DEF RequestStop, ScanIsWorked
  <2>6. CASE ~remembered
    <3>1. held.running = FALSE /\ scan.pc = "none" /\ scan' = scan
      BY <1>1, <2>6 DEF Blank, ScanOK, RequestStop
    <3> QED BY <2>3, <2>4, <3>1 DEF ScanIsWorked
  <2> QED BY <2>5, <2>6 DEF TypeOK
<1>2. CASE LeaveLate
  <2>1. record' = Payload(former, former.index, former.pending, None) /\ remembered' = TRUE
    BY <1>2 DEF LeaveLate, SetProgress
  <2>2. record' \in Record
    BY <1>f, <2>1, ScanFields, ConstantTypes DEF Payload, Record, Blank
  <2>3. former' = NoScan /\ misreported' = TRUE /\ lost' = Finding
        /\ UNCHANGED <<snapshot, desk, ignored, list, scan, open, passed>>
    BY <1>2 DEF LeaveLate, userVars
  <2>4. TypeOK'
    BY <2>1, <2>2, <2>3, ConstantTypes DEF TypeOK
  <2>5. ScanOK'
    BY <2>1, <2>3 DEF ScanOK, NoScan
  <2> QED BY <2>3, <2>4, <2>5 DEF ScanIsWorked
<1>3. CASE Die
  <2>1. /\ scan' = NoScan /\ misreported' = TRUE /\ lost' = lost \cup Unflushed
        /\ UNCHANGED <<snapshot, desk, ignored, record, remembered, list, former, open, passed>>
    BY <1>3 DEF Die, userVars
  <2>2. lost' \subseteq Finding
    BY <1>f, <2>1 DEF Unflushed, TypeOK
  <2>3. TypeOK'
    BY <2>1, <2>2, ConstantTypes DEF TypeOK
  <2> QED BY <2>1, <2>3 DEF ScanOK, ScanIsWorked, NoScan
<1>4. CASE Restart
  <2>1. /\ scan' = NoScan /\ former' = NoScan /\ desk' = AtRest /\ remembered' = FALSE
        /\ lost' = lost \cup Unflushed
        /\ UNCHANGED <<snapshot, record, list, open, ignored, passed, misreported>>
    BY <1>4 DEF Restart
  <2>2. lost' \subseteq Finding
    BY <1>f, <2>1 DEF Unflushed, TypeOK
  <2>3. TypeOK'
    BY <2>1, <2>2, ConstantTypes DEF TypeOK
  <2> QED BY <2>1, <2>3 DEF ScanOK, ScanIsWorked, NoScan, AtRest
<1>5. CASE ChecksStart
  <2>1. PICK save \in BOOLEAN, auto \in BOOLEAN, resume \in BOOLEAN : StartScan(save, auto, resume)
    BY <1>5 DEF ChecksStart
  <2>2. /\ record' \in Record /\ record'.running = TRUE /\ remembered' = TRUE
        /\ scan' \in Scan /\ scan'.pc = "begin" /\ scan'.saved = {} /\ scan'.todo = {}
        /\ scan'.resume \/ scan'.index = 0
        /\ former' \in Scan /\ former'.pc \in {"none", "ending"}
        /\ passed' \subseteq Finding /\ lost' \subseteq Finding
    BY <2>1, StartEffect
  <2>3. misreported' = FALSE /\ UNCHANGED <<snapshot, desk, ignored, list, open>>
    BY <2>1 DEF StartScan, userVars
  <2>4. TypeOK'
    BY <2>2, <2>3 DEF TypeOK
  <2>5. ScanOK'
    BY <2>2, <2>3 DEF ScanOK
  <2> QED BY <2>2, <2>4, <2>5 DEF ScanIsWorked
<1>6. CASE Raise /\ UNCHANGED <<userVars, former, scans, passed, misreported>>
  <2>1. /\ scan' = [scan EXCEPT !.pc = "error"] /\ scan.pc \notin {"none", "ending", "error"}
        /\ UNCHANGED <<snapshot, desk, ignored, record, remembered, list, open, lost, former, passed, misreported>>
    BY <1>6 DEF Raise, userVars
  <2>2. scan' \in Scan /\ scan'.pc = "error"
    BY <1>f, <2>1 DEF Scan
  <2>3. TypeOK'
    BY <2>1, <2>2 DEF TypeOK
  <2>4. ScanOK' /\ ScanIsWorked'
    BY <2>1, <2>2 DEF ScanOK, ScanIsWorked
  <2> QED BY <2>3, <2>4
<1> QED BY <1>1, <1>2, <1>3, <1>4, <1>5, <1>6

Review ==
  \/ \E f \in Finding : ChangeFace(f) \/ PlaceFace(f) \/ IgnoreEntry(f) \/ OpenItem(f)
  \/ RefreshItem \/ RefreshList \/ ReadProgress \/ WriteProgress \/ Snapshot \/ RefreshFails

LEMMA ReviewKeeps ==
  ASSUME ScanIInv, Review
  PROVE  ScanIInv'
<1> USE DEF ScanIInv
<1>0. UNCHANGED <<scan, former>>
  BY DEF Review, ChangeFace, PlaceFace, IgnoreEntry, OnDesk, OpenItem, RefreshItem, RefreshList, ReadProgress,
         WriteProgress, Snapshot, RefreshFails
<1>1. CASE WriteProgress
  <2>1. record' \in Record /\ record'.running = desk.read.running /\ remembered' = TRUE
    BY <1>1, WriteProgressEffect DEF WriteProgress, SetProgress
  <2>2. /\ misreported' = (misreported \/ record # desk.read \/ ~remembered) /\ desk' = AtRest
        /\ lost' = lost \cup (IF record # desk.read THEN Finding ELSE desk.gone \cup ({record.result} \ {None}))
        /\ UNCHANGED <<snapshot, list, open, ignored, passed>>
    BY <1>1 DEF WriteProgress
  <2>3. lost' \subseteq Finding
    BY <2>2, RecordFields DEF TypeOK, Desk
  <2>4. TypeOK'
    BY <1>0, <2>1, <2>2, <2>3, ConstantTypes DEF TypeOK
  <2>5. ScanOK'
    BY <1>0, <2>1, <2>2 DEF ScanOK, AtRest
  <2>6. ScanIsWorked'
    BY <1>0, <2>1, <2>2 DEF ScanIsWorked
  <2> QED BY <2>4, <2>5, <2>6
<1>2. CASE ~WriteProgress
  <2>1. UNCHANGED <<snapshot, record, remembered, misreported, passed>>
    BY <1>2 DEF Review, ChangeFace, PlaceFace, IgnoreEntry, OnDesk, OpenItem, RefreshItem, RefreshList,
                ReadProgress, Snapshot, RefreshFails
  <2>2. open' \subseteq Finding /\ ignored' \subseteq Finding
    BY DEF Review, ChangeFace, PlaceFace, IgnoreEntry, OnDesk, OpenItem, RefreshItem, RefreshList,
           ReadProgress, WriteProgress, Snapshot, RefreshFails, TypeOK
  <2>3. lost' \subseteq Finding
    <3>1. OnImage(open) \subseteq Finding
      BY DEF OnImage, TypeOK
    <3> QED BY <1>2, <3>1 DEF Review, ChangeFace, PlaceFace, IgnoreEntry, OnDesk, OpenItem, RefreshItem,
             RefreshList, ReadProgress, Snapshot, RefreshFails, TypeOK
  <2>4. list' \in Lists
    <3>1. list \in Lists /\ list.entries \in SUBSET Finding
      BY DEF TypeOK, Lists
    <3>2. BuiltAnew(list.entries) \in SUBSET Finding
      BY <3>1, BuiltAnewType
    <3>3. ASSUME NEW S \in SUBSET Finding PROVE [list EXCEPT !.entries = S] \in Lists
      BY <3>1 DEF Lists
    <3>4. \/ list' = list \/ list' = [list EXCEPT !.entries = BuiltAnew(list.entries)]
          \/ \E gone : list' = [list EXCEPT !.entries = list.entries \ gone]
      BY <1>2 DEF Review, ChangeFace, PlaceFace, IgnoreEntry, OnDesk, OpenItem, RefreshItem, RefreshList,
                  ReadProgress, Snapshot, RefreshFails
    <3> QED BY <3>1, <3>2, <3>3, <3>4
  <2>5. desk' \in Desk
    <3>0. desk \in Desk /\ record \in Record /\ list.entries \in SUBSET Finding
      BY DEF TypeOK, Lists
    <3>1. ASSUME NEW f \in Finding, ChangeFace(f) \/ PlaceFace(f) \/ IgnoreEntry(f) \/ OpenItem(f)
          PROVE  desk' \in Desk
      <4>1. \/ desk' = AtRest \/ desk' = [AtRest EXCEPT !.pc = "item", !.finding = f]
            \/ desk' = [AtRest EXCEPT !.pc = "list", !.finding = f]
        BY <3>1 DEF ChangeFace, PlaceFace, IgnoreEntry, OnDesk, OpenItem
      <4> QED BY <4>1, ConstantTypes DEF Desk
    <3>2. CASE RefreshItem \/ RefreshFails
      BY <3>2, ConstantTypes DEF RefreshItem, RefreshFails
    <3>3. CASE RefreshList
      BY <3>0, <3>3 DEF RefreshList, Desk
    <3>4. CASE ReadProgress
      <4>1. desk' = AtRest \/ desk' = [desk EXCEPT !.pc = "write", !.read = record]
        BY <3>4 DEF ReadProgress
      <4> QED BY <3>0, <4>1, ConstantTypes DEF Desk
    <3>5. CASE Snapshot
      <4>1. PICK others \in SUBSET OnImage(open) :
              desk' = [desk EXCEPT !.pc = "progress", !.gone = {desk.finding} \cup others]
        BY <3>5 DEF Snapshot
      <4>2. {desk.finding} \cup others \in SUBSET Finding
        <5>1. others \subseteq Finding
          BY DEF OnImage, TypeOK
        <5>2. desk.finding \in Finding
          BY <3>5 DEF Snapshot, ScanOK
        <5> QED BY <5>1, <5>2
      <4> QED BY <3>0, <4>1, <4>2 DEF Desk
    <3> QED BY <1>2, <3>1, <3>2, <3>3, <3>4, <3>5 DEF Review
  <2>6. TypeOK'
    BY <1>0, <2>1, <2>2, <2>3, <2>4, <2>5 DEF TypeOK
  <2>7. desk'.pc # "idle" => desk'.finding \in Finding
    <3>1. ASSUME NEW f \in Finding, ChangeFace(f) \/ PlaceFace(f) \/ IgnoreEntry(f) \/ OpenItem(f)
          PROVE  desk' = AtRest \/ desk'.finding = f
      BY <3>1 DEF ChangeFace, PlaceFace, IgnoreEntry, OnDesk, OpenItem, AtRest
    <3>2. CASE RefreshItem \/ RefreshFails
      BY <3>2 DEF RefreshItem, RefreshFails, AtRest
    <3>3. CASE RefreshList \/ ReadProgress \/ Snapshot
      <4>1. desk.pc # "idle" /\ (desk' = AtRest \/ desk'.finding = desk.finding)
        BY <3>3 DEF RefreshList, ReadProgress, Snapshot, TypeOK, Desk
      <4> QED BY <4>1 DEF ScanOK, AtRest
    <3> QED BY <1>2, <3>1, <3>2, <3>3 DEF Review, AtRest
  <2>8. ScanOK' /\ ScanIsWorked'
    BY <1>0, <2>1, <2>7 DEF ScanOK, ScanIsWorked
  <2> QED BY <2>6, <2>8
<1> QED BY <1>1, <1>2
-----------------------------------------------------------------------------
LEMMA ScanIInvHolds == Spec => []ScanIInv
<1>1. Init => ScanIInv
  <2> SUFFICES ASSUME Init PROVE ScanIInv
    OBVIOUS
  <2>1. TypeOK
    BY ConstantTypes DEF Init, TypeOK
  <2> QED BY <2>1 DEF Init, ScanIInv, ScanOK, ScanIsWorked, NoScan, AtRest
<1>2. ScanIInv /\ [Next]_vars => ScanIInv'
  <2> SUFFICES ASSUME ScanIInv, [Next]_vars PROVE ScanIInv'
    OBVIOUS
  <2>1. CASE ScanStep
    <3>1. UNCHANGED <<snapshot, desk, ignored, former, passed, misreported>>
      BY <2>1 DEF ScanStep, userVars
    <3> QED BY <2>1, <3>1, ScanStepKeeps DEF ScanTypes, ScanIInv, TypeOK
  <2>2. CASE Review
    BY <2>2, ReviewKeeps
  <2>3. CASE UNCHANGED vars
    BY <2>3 DEF vars, ScanIInv, TypeOK, ScanOK, ScanIsWorked
  <2> QED BY <2>1, <2>2, <2>3, UserStepKeeps DEF Next, Review
<1> QED BY <1>1, <1>2, PTL DEF Spec

(* The variables keep their types: the cursor stays within the images, and   *)
(* the record, the list and the desk hold findings of the check only.        *)
THEOREM TypeCorrect == Spec => []TypeOK
BY ScanIInvHolds, PTL DEF ScanIInv

(* Whatever the requests, failures and restarts, a record in memory says     *)
(* running exactly while a scan works, but for the named ways.               *)
THEOREM ScansAreWorked == Spec => []ScanIsWorked
BY ScanIInvHolds, PTL DEF ScanIInv
-----------------------------------------------------------------------------
(* What an ending scan leaves behind covers the images it has passed.        *)
LEMMA LeavingCovers ==
  ASSUME ScanIInv, FindingsIInv, UNCHANGED <<desk, ignored, list, open, passed>>, lost \subseteq lost',
         NEW path \in 0..Images, NEW pending \in SUBSET Finding, NEW result \in Finding \cup {None},
         End(path, pending, result),
         \A f \in Left : ImageOf[f] <= path =>
            f \in (IF scan.save THEN list.entries ELSE {result} \cup passed \cup pending) \cup lost'
  PROVE  FindingsIInv'
<1>1. /\ scan' = NoScan /\ record'.save = scan.save /\ record'.path = path
      /\ record'.pending = pending /\ record'.result = result
  BY EndEffect DEF ScanIInv
<1>2. Left' = Left
  BY DEF Left
<1>3. scan'.pc = "none" /\ scan'.saved = {} /\ scan'.todo = {}
  BY <1>1 DEF NoScan
<1>4. RecordCovers'
  BY <1>1, <1>2, <1>3 DEF RecordCovers, Covers
<1> QED BY <1>2, <1>3, <1>4 DEF FindingsIInv, GoneOK, Follows, ScanCovers, ListOK

LEMMA LeavingUnshown ==
  ASSUME ScanIInv, FindingsIInv, UNCHANGED <<desk, ignored, list, open, passed>>, lost \subseteq lost',
         NEW path \in 0..Images, NEW pending \in SUBSET Finding, End(path, pending, None),
         \A f \in Left : ImageOf[f] <= path =>
            f \in (IF scan.save THEN list.entries ELSE passed \cup pending) \cup lost'
  PROVE  FindingsIInv'
<1>1. None \in Finding \cup {None}
  OBVIOUS
<1>2. \A f \in Left : ImageOf[f] <= path =>
         f \in (IF scan.save THEN list.entries ELSE {None} \cup passed \cup pending) \cup lost'
  OBVIOUS
<1> QED BY <1>1, <1>2, LeavingCovers

LEMMA FinishingCovers ==
  ASSUME ScanIInv, ScanIInv', FindingsIInv, UNCHANGED <<desk, ignored, open, passed>>, lost \subseteq lost',
         scan.pc \notin {"none", "ending"},
         NEW path \in 0..Images, NEW pending \in SUBSET Finding, NEW status \in {"stopped", "finished"},
         Finish(status, path, pending), scan.index <= path,
         \A f \in Left : ImageOf[f] <= path =>
            f \in (IF scan.save THEN scan.saved ELSE passed \cup pending) \cup lost'
  PROVE  FindingsIInv'
<1>1. CASE ~scan.save
  <2>1. End(path, pending, None) /\ list' = list /\ None \in Finding \cup {None}
    BY <1>1 DEF Finish
  <2> QED BY <1>1, <2>1, LeavingCovers
<1>2. CASE scan.save
  <2>1. /\ scan'.pc = "ending" /\ scan'.save /\ scan'.index = path /\ scan'.saved = {} /\ scan'.todo = {}
        /\ list'.entries = scan.saved /\ list'.save
        /\ record'.save = record.save /\ record'.path = record.path /\ record'.result = record.result
    BY <1>2, FinishEffect DEF ScanIInv
  <2>2. /\ Left' = Left /\ Left \subseteq Finding
        /\ lost' = Finding \/ (record.save /\ record.path <= scan.index /\ record.result = None)
    BY <1>2 DEF Left, ScanIInv, TypeOK, FindingsIInv, Follows
  <2>3. Covers(list.entries, path)'
    BY <1>2, <2>1, <2>2 DEF Covers
  <2>4. record.path \in Nat /\ scan.index \in Nat /\ path \in Nat
    BY RecordFields, ScanFields DEF ScanIInv, TypeOK
  <2>5. RecordCovers'
    <3> SUFFICES ASSUME NEW f \in Left', ImageOf[f] <= record'.path, f \notin lost'
                 PROVE  f \in IF record'.save THEN list'.entries \cup scan'.saved
                              ELSE {record'.result} \cup passed' \cup record'.pending
      BY DEF RecordCovers, Covers
    <3>1. record'.save /\ record'.path <= path /\ ImageOf[f] \in Nat
      BY <2>1, <2>2, <2>4
    <3>2. ImageOf[f] <= path
      BY <3>1, <2>1, <2>4
    <3> QED BY <2>3, <3>1, <3>2 DEF Covers
  <2>6. Follows'
    <3>1. scan'.save \in BOOLEAN /\ record'.save \in BOOLEAN
      BY RecordFields, ScanFields DEF ScanIInv, TypeOK
    <3>2. CASE lost' = Finding
      BY <3>2 DEF Follows
    <3>3. CASE record.save /\ record.path <= scan.index /\ record.result = None
      <4>1. record'.path <= scan'.index
        BY <2>1, <2>4, <3>3
      <4>2. record'.save = TRUE /\ scan'.save = TRUE
        BY <2>1, <3>1, <3>3
      <4> QED BY <2>1, <3>3, <4>1, <4>2 DEF Follows
    <3> QED BY <2>2, <3>2, <3>3
  <2>7. ScanCovers'
    BY <2>1, <2>3 DEF ScanCovers, Covers
  <2> QED BY <2>1, <2>2, <2>5, <2>6, <2>7 DEF FindingsIInv, GoneOK, ListOK
<1> QED BY <1>1, <1>2
LEMMA RefreshedKeeps ==
  ASSUME NEW f, f \notin open, NEW S \in SUBSET Finding
  PROVE  \A g \in Left : g \in S => g \in Refreshed(f, S)
<1> SUFFICES ASSUME NEW g \in Left, g \in S PROVE g \in Refreshed(f, S)
  OBVIOUS
<1>1. g # f
  BY DEF Left
<1>2. ImageOf[g] = ImageOf[f] => g \in EntriesOf(ImageOf[f])
  BY DEF EntriesOf, Left
<1> QED BY <1>1, <1>2 DEF Refreshed

LEMMA BuiltAnewKeeps ==
  ASSUME NEW S \in SUBSET Finding
  PROVE  /\ \A g \in Left : g \in S => g \in BuiltAnew(S)
         /\ S = {} => BuiltAnew(S) = {}
<1>1. ASSUME NEW g \in Left, g \in S PROVE g \in BuiltAnew(S)
  <2>1. g \in OnImage(S) => g \in EntriesOf(ImageOf[desk.finding])
    BY <1>1 DEF EntriesOf, Left, OnImage
  <2> QED BY <1>1, <2>1 DEF BuiltAnew
<1>2. S = {} => BuiltAnew(S) = {}
  BY DEF BuiltAnew, OnImage
<1> QED BY <1>1, <1>2

LEMMA ScanStepCovers ==
  ASSUME ScanIInv, ScanIInv', FindingsIInv, ScanStep
  PROVE  FindingsIInv'
<1>0. UNCHANGED <<snapshot, desk, ignored, passed>> /\ TypeOK /\ ScanOK
  BY DEF ScanStep, ScanIInv, userVars
<1>f. /\ scan.save \in BOOLEAN /\ scan.index \in 0..Images /\ scan.pending \in SUBSET Finding
      /\ scan.todo \in SUBSET Finding /\ scan.saved \in SUBSET Finding
      /\ record \in Record /\ record.path \in 0..Images /\ scan \in Scan /\ list.entries \in SUBSET Finding
      /\ lost \in SUBSET Finding /\ Left \in SUBSET Finding
      /\ \A f \in Finding : ImageOf[f] \in 1..Images
  BY <1>0, ScanFields, RecordFields DEF TypeOK, Lists, Left
<1>p. /\ GoneOK /\ Follows /\ RecordCovers /\ ScanCovers /\ ListOK
  BY DEF FindingsIInv
<1>1. CASE Begin
  <2>1. CASE scan' = [scan EXCEPT !.pc = "listing", !.resume = FALSE, !.saved = SavedEntries(scan)]
             /\ UNCHANGED <<record, remembered, events>>
    <3>1. /\ scan'.pc = "listing" /\ scan'.save = scan.save /\ scan'.index = scan.index
          /\ scan'.pending = scan.pending /\ scan'.saved = SavedEntries(scan)
      BY <1>f, <2>1 DEF Scan
    <3>2. UNCHANGED <<record, list, open, lost>>
      BY <1>1, <2>1 DEF Begin
    <3>3. Left' = Left
      BY <1>0, <3>2 DEF Left
    <3>4. scan.save => Covers(SavedEntries(scan), scan.index)
      <4> SUFFICES ASSUME scan.save, NEW f \in Left, ImageOf[f] <= scan.index PROVE f \in SavedEntries(scan) \cup lost
        BY DEF Covers
      <4>1. scan.index # 0
        BY <1>f
      <4>2. scan.resume /\ scan.pc = "begin" /\ scan.saved = {}
        BY <1>0, <1>1, <4>1 DEF Begin, ScanOK
      <4>3. f \in list.entries \cup lost
        BY <1>p, <4>2 DEF ScanCovers, Covers
      <4> QED BY <1>p, <4>2, <4>3 DEF SavedEntries, ListOK
    <3>5. ScanCovers'
      BY <1>0, <1>p, <1>1, <3>1, <3>2, <3>3, <3>4 DEF ScanCovers, Covers, Begin
    <3>6. RecordCovers'
      <4>1. SavedEntries(scan) \subseteq list.entries /\ scan.saved = {}
        BY <1>0, <1>1 DEF SavedEntries, Begin, ScanOK
      <4> QED BY <1>0, <1>p, <3>1, <3>2, <3>3, <4>1 DEF RecordCovers, Covers
    <3>7. GoneOK' /\ ListOK'
      BY <1>0, <1>p, <3>1, <3>2, <3>3 DEF GoneOK, ListOK
    <3>8. Follows'
      BY <1>p, <1>1, <3>1, <3>2 DEF Follows, Begin
    <3> QED BY <3>5, <3>6, <3>7, <3>8 DEF FindingsIInv
  <2>2. CASE End(0, {}, None)
    BY <1>0, <1>1, <1>f, <2>2, Bounds, LeavingCovers DEF Begin
  <2> QED BY <1>1, <2>1, <2>2 DEF Begin
<1>2. CASE ListPaths
  <2>1. /\ scan' = [scan EXCEPT !.pc = IF scan.pending # {} /\ ~scan.save THEN "pending" ELSE "image"]
        /\ UNCHANGED <<list, open, lost>> /\ scan.pc = "listing"
    BY <1>2 DEF ListPaths
  <2>2. /\ scan'.pc \in {"pending", "image"} /\ scan'.save = scan.save /\ scan'.index = scan.index
        /\ scan'.pending = scan.pending /\ scan'.saved = scan.saved /\ scan'.todo = scan.todo
    BY <1>f, <2>1 DEF Scan
  <2>3. /\ record'.save = record.save /\ record'.path = scan.index /\ record'.pending = scan.pending
        /\ record'.result = record.result
    BY <1>f, <1>2 DEF ListPaths, SetProgress, Record
  <2>4. Left' = Left
    BY <1>0, <2>1 DEF Left
  <2>5. RecordCovers'
    BY <1>0, <1>f, <1>p, <2>1, <2>2, <2>3, <2>4 DEF RecordCovers, ScanCovers, Follows, Covers
  <2> QED BY <1>0, <1>f, <1>p, <2>1, <2>2, <2>3, <2>4, <2>5 DEF FindingsIInv, GoneOK, Follows, ScanCovers, Covers, ListOK
<1>3. CASE StopAtPending
  <2>1. ~scan.save /\ scan.pc = "pending" /\ End(scan.index, scan.pending, None) /\ UNCHANGED <<list, open, lost>>
    BY <1>0, <1>3 DEF StopAtPending, ScanOK
  <2>2. \A f \in Left : ImageOf[f] <= scan.index => f \in passed \cup scan.pending \cup lost
    BY <1>p, <2>1 DEF ScanCovers, Covers
  <2> QED BY <1>0, <1>f, <2>1, <2>2, LeavingUnshown
<1>4. CASE ShowPending
  <2> DEFINE f == FirstOf(scan.pending)
  <2>1. /\ ~scan.save /\ scan.pc = "pending" /\ End(scan.index, scan.pending \ {f}, f)
        /\ UNCHANGED <<list, open, lost>>
    BY <1>0, <1>4 DEF ShowPending, ScanOK
  <2>2. f \in scan.pending
    BY <1>0, <1>f, <1>4, FirstIsMember DEF ShowPending, ScanOK
  <2> HIDE DEF f
  <2>3. \A g \in Left : ImageOf[g] <= scan.index => g \in {f} \cup passed \cup (scan.pending \ {f}) \cup lost
    BY <1>p, <2>1 DEF ScanCovers, Covers
  <2>4. f \in Finding \cup {None} /\ scan.pending \ {f} \in SUBSET Finding
    BY <1>f, <2>2
  <2> QED BY <1>0, <1>f, <2>1, <2>3, <2>4, LeavingCovers
<1>5. CASE ApplyPending
  <2>1. /\ scan.pc = "pending" /\ scan' = [scan EXCEPT !.pc = "applied"] /\ open' = open \ {FirstOf(scan.pending)}
        /\ UNCHANGED <<record, list, lost>>
    BY <1>5 DEF ApplyPending
  <2>2. /\ scan'.pc = "applied" /\ scan'.save = scan.save /\ scan'.index = scan.index
        /\ scan'.pending = scan.pending /\ scan'.saved = scan.saved /\ scan'.todo = {}
    BY <1>0, <1>f, <2>1 DEF Scan, ScanOK
  <2>3. Left' \subseteq Left
    BY <1>0, <2>1 DEF Left
  <2>4. FirstOf(scan'.pending) \notin open'
    BY <2>1, <2>2
  <2>5. GoneOK'
    BY <1>0, <1>p, <2>1, <2>2, <2>3, <2>4 DEF GoneOK
  <2>6. RecordCovers' /\ ScanCovers'
    BY <1>0, <1>p, <2>1, <2>2, <2>3 DEF RecordCovers, ScanCovers, Covers
  <2> QED BY <1>p, <2>1, <2>2, <2>5, <2>6 DEF FindingsIInv, Follows, ListOK
<1>6. CASE AppliedPending
  <2> DEFINE f == FirstOf(scan.pending)
             rest == Refreshed(f, scan.pending)
  <2>1. /\ scan.pc = "applied" /\ scan.pending # {} /\ ~scan.save /\ UNCHANGED <<list, open, lost>>
        /\ f \notin open
    BY <1>6, <1>p DEF AppliedPending, GoneOK
  <2>2. rest \in SUBSET Finding /\ \A g \in Left : g \in scan.pending => g \in rest
    BY <1>0, <1>f, <2>1, RefreshedType, RefreshedKeeps
  <2>3. \A g \in Left : ImageOf[g] <= scan.index => g \in passed \cup scan.pending \cup lost
    BY <1>p, <2>1 DEF ScanCovers, Covers
  <2>4. CASE record.stop
    <3>1. End(scan.index, scan.pending, None)
      BY <1>6, <2>4 DEF AppliedPending
    <3> HIDE DEF f
    <3> QED BY <1>0, <1>f, <2>1, <2>3, <3>1, LeavingUnshown
  <2>5. CASE ~record.stop /\ rest = {}
    <3>1. /\ scan' = [scan EXCEPT !.pc = "image", !.pending = {}, !.manual = {}] /\ record' = record
      BY <1>6, <2>5 DEF AppliedPending
    <3>2. /\ scan'.pc = "image" /\ scan'.save = scan.save /\ scan'.index = scan.index
          /\ scan'.pending = {} /\ scan'.saved = scan.saved
      BY <1>f, <3>1 DEF Scan
    <3>3. Left' = Left
      BY <1>0, <2>1 DEF Left
    <3>4. RecordCovers'
      BY <1>0, <1>p, <2>1, <3>1, <3>2, <3>3 DEF RecordCovers, Covers
    <3>5. ScanCovers'
      BY <1>0, <2>1, <2>2, <2>3, <2>5, <3>2, <3>3 DEF ScanCovers, Covers
    <3> QED BY <1>0, <1>p, <2>1, <3>1, <3>2, <3>3, <3>4, <3>5 DEF FindingsIInv, GoneOK, Follows, ListOK
  <2>6. CASE ~record.stop /\ rest # {}
    <3> DEFINE g == FirstOf(rest)
    <3>1. g \in rest
      BY <2>2, <2>6, FirstIsMember
    <3>2. End(scan.index, rest \ {g}, g)
      BY <1>6, <2>6 DEF AppliedPending
    <3> HIDE DEF f, rest, g
    <3>3. \A h \in Left : ImageOf[h] <= scan.index => h \in {g} \cup passed \cup (rest \ {g}) \cup lost
      BY <2>2, <2>3
    <3>4. g \in Finding \cup {None} /\ rest \ {g} \in SUBSET Finding
      BY <2>2, <3>1
    <3>5. \A h \in Left : ImageOf[h] <= scan.index =>
             h \in (IF scan.save THEN list.entries ELSE {g} \cup passed \cup (rest \ {g})) \cup lost'
      BY <2>1, <3>3
    <3>6. UNCHANGED <<desk, ignored, list, open, passed>> /\ lost \subseteq lost' /\ scan.index \in 0..Images
      BY <1>0, <1>f, <2>1
    <3> QED BY <3>2, <3>4, <3>5, <3>6, LeavingCovers
  <2> QED BY <2>4, <2>5, <2>6
<1>7. CASE StopWalk
  <2>1. scan.pc = "image" /\ Finish("stopped", scan.index, {}) /\ UNCHANGED <<open, lost>>
    BY <1>7 DEF StopWalk
  <2>2. \A f \in Left : ImageOf[f] <= scan.index =>
           f \in (IF scan.save THEN scan.saved ELSE passed \cup {}) \cup lost'
    BY <1>0, <1>p, <2>1 DEF ScanCovers, ScanOK, Covers
  <2> QED BY <1>0, <1>f, <2>1, <2>2, FinishingCovers
<1>8. CASE EndWalk
  <2>1. scan.pc = "image" /\ scan.index = Images /\ Finish("finished", scan.index, {}) /\ UNCHANGED <<open, lost>>
    BY <1>8 DEF EndWalk
  <2>2. \A f \in Left : ImageOf[f] <= scan.index =>
           f \in (IF scan.save THEN scan.saved ELSE passed \cup {}) \cup lost'
    BY <1>0, <1>p, <2>1 DEF ScanCovers, ScanOK, Covers
  <2> QED BY <1>0, <1>f, <2>1, <2>2, FinishingCovers
<1>9. CASE NextImage
  <2>1. /\ scan.pc = "image" /\ scan' = [scan EXCEPT !.pc = "read", !.pending = {}, !.manual = {}]
        /\ UNCHANGED <<list, open, lost>>
    BY <1>9 DEF NextImage
  <2>2. /\ scan'.pc = "read" /\ scan'.save = scan.save /\ scan'.index = scan.index
        /\ scan'.pending = {} /\ scan'.saved = scan.saved /\ scan'.todo = scan.todo
    BY <1>f, <2>1 DEF Scan
  <2>3. /\ record'.save = record.save /\ record'.path = scan.index /\ record'.pending = {}
        /\ record'.result = record.result
    BY <1>f, <1>9 DEF NextImage, SetProgress, Record
  <2>4. Left' = Left /\ (scan.save \/ scan.pending = {})
    BY <1>0, <2>1 DEF Left, ScanOK
  <2>5. ScanCovers'
    BY <1>0, <1>p, <2>1, <2>2, <2>4 DEF ScanCovers, Covers
  <2>6. RecordCovers'
    BY <1>0, <1>f, <1>p, <2>1, <2>2, <2>3, <2>4 DEF RecordCovers, ScanCovers, Follows, Covers
  <2>7. Follows'
    BY <1>f, <1>p, <2>1, <2>2, <2>3 DEF Follows
  <2>8. GoneOK' /\ ListOK'
    BY <1>0, <1>p, <2>1, <2>2, <2>4 DEF GoneOK, ListOK
  <2> QED BY <2>5, <2>6, <2>7, <2>8 DEF FindingsIInv
<1>10. CASE ReadImage
  <2> DEFINE i == scan.index + 1
  <2>1. scan.pc = "read" /\ UNCHANGED <<record, list, open, lost>> /\ i \in 0..Images
    BY <1>0, <1>f, <1>10 DEF ReadImage, ScanOK
  <2>2. Left' = Left /\ (scan.save \/ scan.pending = {})
    BY <1>0, <2>1 DEF Left, ScanOK
  <2>3. CASE EntriesOf(i) = {}
    <3>1. scan' = [scan EXCEPT !.pc = "image", !.index = i]
      BY <1>10, <2>3 DEF ReadImage
    <3>2. /\ scan'.pc = "image" /\ scan'.save = scan.save /\ scan'.index = i
          /\ scan'.pending = scan.pending /\ scan'.saved = scan.saved
      BY <1>f, <3>1 DEF Scan
    <3>3. ASSUME NEW f \in Left, ImageOf[f] <= i PROVE ImageOf[f] <= scan.index
      <4>1. ImageOf[f] # i
        BY <2>3 DEF EntriesOf, Left
      <4> QED BY <1>f, <3>3, <4>1
    <3>4. ScanCovers'
      BY <1>0, <1>p, <2>1, <2>2, <3>2, <3>3 DEF ScanCovers, Covers
    <3>5. Follows'
      BY <1>f, <1>p, <2>1, <3>2 DEF Follows
    <3>6. RecordCovers' /\ GoneOK' /\ ListOK'
      BY <1>0, <1>p, <2>1, <2>2, <3>2 DEF RecordCovers, Covers, GoneOK, ListOK
    <3> QED BY <3>4, <3>5, <3>6 DEF FindingsIInv
  <2>4. CASE EntriesOf(i) # {}
    <3>1. scan' = [scan EXCEPT !.pc = "entries", !.todo = EntriesOf(i)]
      BY <1>10, <2>4 DEF ReadImage
    <3>2. /\ scan'.pc = "entries" /\ scan'.save = scan.save /\ scan'.index = scan.index
          /\ scan'.pending = scan.pending /\ scan'.saved = scan.saved /\ scan'.todo = EntriesOf(i)
      BY <1>f, <3>1 DEF Scan
    <3>3. \A f \in Left : ImageOf[f] = i => f \in EntriesOf(i)
      BY DEF EntriesOf, Left
    <3>4. ScanCovers'
      BY <1>0, <1>p, <2>1, <2>2, <3>2, <3>3 DEF ScanCovers, Covers
    <3>5. Follows' /\ RecordCovers' /\ GoneOK' /\ ListOK'
      BY <1>0, <1>p, <2>1, <2>2, <3>2 DEF RecordCovers, Covers, GoneOK, ListOK, Follows
    <3> QED BY <3>4, <3>5 DEF FindingsIInv
  <2> QED BY <2>3, <2>4
<1>t. ASSUME scan.todo # {}, scan.pc \in {"entries", "applied"}
      PROVE  /\ scan.index + 1 \in 0..Images /\ scan.index <= scan.index + 1
             /\ \A f \in Left : ImageOf[f] <= scan.index + 1 =>
                  f \in scan.todo \cup (IF scan.save THEN scan.saved ELSE passed) \cup lost
  <2>1. scan.index + 1 \in 0..Images /\ scan.index <= scan.index + 1 /\ (scan.save \/ scan.pending = {})
    BY <1>0, <1>f, <1>t DEF ScanOK
  <2>2. ASSUME NEW f \in Left, ImageOf[f] <= scan.index + 1
        PROVE  f \in scan.todo \cup (IF scan.save THEN scan.saved ELSE passed) \cup lost
    <3>1. ImageOf[f] = scan.index + 1 \/ ImageOf[f] <= scan.index
      BY <1>f, <2>2
    <3>2. CASE ImageOf[f] = scan.index + 1
      BY <1>p, <1>t, <3>2 DEF ScanCovers
    <3>3. CASE ImageOf[f] <= scan.index
      BY <1>p, <1>t, <2>1, <3>3 DEF ScanCovers, Covers
    <3> QED BY <3>1, <3>2, <3>3
  <2> QED BY <2>1, <2>2
<1>11. CASE StopAtEntry
  <2>1. /\ scan.todo # {} /\ scan.pc \in {"entries", "applied"}
        /\ Finish("stopped", scan.index + 1, scan.todo) /\ open' = open
        /\ lost' = IF scan.save THEN lost \cup (scan.todo \ scan.saved) ELSE lost
    BY <1>11 DEF StopAtEntry
  <2>2. \A f \in Left : ImageOf[f] <= scan.index + 1 =>
           f \in (IF scan.save THEN scan.saved ELSE passed \cup scan.todo) \cup lost'
    BY <1>t, <2>1
  <2>3. lost \subseteq lost' /\ scan.pc \notin {"none", "ending"} /\ "stopped" \in {"stopped", "finished"}
    BY <2>1
  <2> QED BY <1>0, <1>f, <1>t, <2>1, <2>2, <2>3, FinishingCovers
<1>12. CASE ApplyEntry
  <2>1. /\ scan.pc = "entries" /\ scan' = [scan EXCEPT !.pc = "applied"] /\ open' = open \ {FirstOf(scan.todo)}
        /\ UNCHANGED <<record, list, lost>>
    BY <1>12 DEF ApplyEntry
  <2>2. /\ scan'.pc = "applied" /\ scan'.save = scan.save /\ scan'.index = scan.index
        /\ scan'.pending = scan.pending /\ scan'.saved = scan.saved /\ scan'.todo = scan.todo
        /\ scan.save \/ scan.pending = {}
    BY <1>0, <1>f, <2>1 DEF Scan, ScanOK
  <2>3. Left' \subseteq Left
    BY <1>0, <2>1 DEF Left
  <2>4. FirstOf(scan'.todo) \notin open'
    BY <2>1, <2>2
  <2>5. GoneOK'
    BY <1>0, <1>p, <2>1, <2>2, <2>3, <2>4 DEF GoneOK
  <2>6. RecordCovers' /\ ScanCovers'
    BY <1>0, <1>p, <2>1, <2>2, <2>3 DEF RecordCovers, ScanCovers, Covers
  <2> QED BY <1>p, <2>1, <2>2, <2>5, <2>6 DEF FindingsIInv, Follows, ListOK
<1>13. ASSUME NEW S \in SUBSET Finding, \A f \in Left : f \in scan.todo => f \in S, Present(S),
              scan.todo # {}, scan.pc \in {"entries", "applied"}, UNCHANGED <<open, lost>>
       PROVE  FindingsIInv'
  <2> DEFINE i == scan.index + 1
  <2>1. i \in 0..Images /\ scan.index <= i
    BY <1>t, <1>13
  <2>2. \A f \in Left : ImageOf[f] <= i => f \in S \cup (IF scan.save THEN scan.saved ELSE passed) \cup lost
    BY <1>t, <1>13
  <2>3. Left' = Left /\ Left \subseteq Finding /\ (scan.save \/ scan.pending = {})
    BY <1>0, <1>f, <1>13 DEF Left, ScanOK
  <2>4. CASE scan.save
    <3>1. Keep(S)
      BY <1>13, <2>4 DEF Present
    <3>2. /\ record'.save = record.save /\ record'.path = i /\ record'.pending = {}
          /\ record'.result = record.result
      BY <1>f, <3>1 DEF Keep, SetProgress, Record
    <3>3. scan' = Done(S) \/ scan' = [Done(S) EXCEPT !.flushed = Cardinality(Done(S).saved)]
      BY <3>1 DEF Keep
    <3>4. /\ scan'.pc = "image" /\ scan'.todo = {} /\ scan'.save = scan.save /\ scan'.index = i
          /\ scan'.saved = scan.saved \cup S
      BY <1>f, <3>3 DEF Done, Scan
    <3>5. list' = list \/ (list'.save = TRUE)
      BY <3>1 DEF Keep, WriteList
    <3>6. Covers(scan.saved, scan.index)'
      BY <2>2, <2>3, <2>4, <3>4, <1>13 DEF Covers
    <3>7. ScanCovers'
      BY <2>4, <3>4, <3>6 DEF ScanCovers, Covers
    <3>8. Follows'
      BY <1>p, <1>f, <1>13, <2>1, <3>2, <3>4 DEF Follows
    <3>9. RecordCovers'
      <4>1. CASE lost = Finding
        BY <1>13, <2>3, <4>1 DEF RecordCovers, Covers
      <4>2. CASE lost # Finding
        <5>1. record'.save
          BY <1>p, <1>13, <2>4, <3>2, <4>2 DEF Follows
        <5> QED BY <5>1, <3>2, <3>4, <3>6 DEF RecordCovers, Covers
      <4> QED BY <4>1, <4>2
    <3>10. GoneOK' /\ ListOK'
      BY <1>0, <1>p, <2>3, <3>4, <3>5 DEF GoneOK, ListOK
    <3> QED BY <3>7, <3>8, <3>9, <3>10 DEF FindingsIInv
  <2>5. CASE ~scan.save /\ S = {}
    <3>1. scan' = Done({}) /\ UNCHANGED <<record, list>>
      BY <1>13, <2>5 DEF Present
    <3>2. /\ scan'.pc = "image" /\ scan'.todo = {} /\ scan'.save = scan.save /\ scan'.index = i
          /\ scan'.pending = {} /\ scan'.saved = scan.saved
      BY <1>f, <2>3, <2>5, <3>1 DEF Done, Scan
    <3>3. ScanCovers'
      BY <1>0, <1>13, <2>2, <2>3, <2>5, <3>2 DEF ScanCovers, Covers
    <3>4. Follows'
      BY <1>p, <1>f, <1>13, <2>1, <3>1, <3>2 DEF Follows
    <3>5. RecordCovers'
      BY <1>0, <1>p, <1>13, <2>3, <3>1, <3>2 DEF RecordCovers, Covers
    <3>6. GoneOK' /\ ListOK'
      BY <1>0, <1>p, <2>3, <3>1, <3>2 DEF GoneOK, ListOK
    <3> QED BY <3>3, <3>4, <3>5, <3>6 DEF FindingsIInv
  <2>6. CASE ~scan.save /\ S # {}
    <3> DEFINE g == FirstOf(S)
    <3>1. g \in S
      BY <2>6, FirstIsMember
    <3>2. End(i, S \ {g}, g) /\ UNCHANGED list
      BY <1>13, <2>6 DEF Present
    <3> HIDE DEF g
    <3>3. \A h \in Left : ImageOf[h] <= i =>
             h \in (IF scan.save THEN list.entries ELSE {g} \cup passed \cup (S \ {g})) \cup lost'
      BY <1>13, <2>2, <2>6
    <3>4. UNCHANGED <<desk, ignored, list, open, passed>> /\ lost \subseteq lost'
      BY <1>0, <1>13, <3>2
    <3>5. g \in Finding \cup {None} /\ S \ {g} \in SUBSET Finding
      BY <3>1
    <3> HIDE DEF i
    <3> QED BY <2>1, <3>2, <3>3, <3>4, <3>5, LeavingCovers
  <2> QED BY <1>f, <2>4, <2>5, <2>6
<1>14. CASE KeepEntries
  BY <1>0, <1>f, <1>13, <1>14 DEF KeepEntries, ScanOK
<1>15. CASE AppliedEntry
  <2> DEFINE S == Refreshed(FirstOf(scan.todo), scan.todo)
  <2>1. /\ scan.pc = "applied" /\ scan.todo # {} /\ Present(S) /\ UNCHANGED <<open, lost>>
        /\ FirstOf(scan.todo) \notin open
    BY <1>15, <1>p DEF AppliedEntry, GoneOK
  <2>2. S \in SUBSET Finding /\ \A g \in Left : g \in scan.todo => g \in S
    BY <1>0, <1>f, <2>1, RefreshedType, RefreshedKeeps
  <2> HIDE DEF S
  <2> QED BY <1>13, <2>1, <2>2
<1>16. CASE Leave
  <2>1. /\ scan.pc = "ending" /\ scan.save /\ scan.saved = {}
        /\ End(scan.index, scan.pending, None) /\ UNCHANGED <<list, open, lost>>
    BY <1>0, <1>16 DEF Leave, ScanOK
  <2>2. \A f \in Left : ImageOf[f] <= scan.index => f \in list.entries \cup lost
    BY <1>p, <2>1 DEF ScanCovers, Covers
  <2> QED BY <1>0, <1>f, <2>1, <2>2, LeavingUnshown
<1>17. CASE HandleError
  <2>1. scan.pc = "error" /\ scan' = NoScan /\ lost' = lost \cup Unflushed /\ UNCHANGED open
    BY <1>17 DEF HandleError
  <2>2. list' = list \/ (list'.entries = list.entries /\ list'.save = TRUE)
    BY <1>17 DEF HandleError, WriteList
  <2>3. record'.save = record.save /\ record'.path = record.path /\ record'.pending = record.pending
        /\ record'.result = record.result
    BY <1>f, <1>17 DEF HandleError, SetProgress, Failed, Record
  <2>4. Left' = Left /\ Left \subseteq Finding /\ scan'.pc = "none" /\ scan'.todo = {}
    BY <1>0, <1>f, <2>1 DEF Left, NoScan
  <2>5. RecordCovers'
    <3>1. CASE lost = Finding
      BY <2>1, <2>4, <3>1 DEF RecordCovers, Covers
    <3>2. CASE lost # Finding
      <4>1. record.save = scan.save
        BY <1>p, <2>1, <3>2 DEF Follows
      <4> QED BY <1>0, <1>p, <2>1, <2>2, <2>3, <2>4, <4>1 DEF RecordCovers, Covers, Unflushed
    <3> QED BY <3>1, <3>2
  <2>6. ListOK'
    BY <1>p, <2>2 DEF ListOK
  <2> QED BY <1>0, <1>p, <2>4, <2>5, <2>6 DEF FindingsIInv, GoneOK, Follows, ScanCovers
<1> QED BY <1>1, <1>2, <1>3, <1>4, <1>5, <1>6, <1>7, <1>8, <1>9, <1>10, <1>11, <1>12, <1>14, <1>15, <1>16, <1>17
        DEF ScanStep

LEMMA UserStepCovers ==
  ASSUME ScanIInv, ScanIInv', FindingsIInv,
         RequestStop \/ LeaveLate \/ Die \/ Restart \/ ChecksStart
           \/ (Raise /\ UNCHANGED <<userVars, former, scans, passed, misreported>>)
  PROVE  FindingsIInv'
<1>0. TypeOK /\ ScanOK /\ GoneOK /\ Follows /\ RecordCovers /\ ScanCovers /\ ListOK
  BY DEF FindingsIInv, ScanIInv
<1>f. /\ record \in Record /\ record.path \in 0..Images /\ scan \in Scan /\ scan.index \in 0..Images
      /\ Left \subseteq Finding /\ lost \subseteq Finding
      /\ \A f \in Finding : ImageOf[f] \in 1..Images
  BY <1>0, RecordFields, ScanFields DEF TypeOK, Left
<1>z. ASSUME NEW f \in Left PROVE ~(ImageOf[f] <= 0)
  BY <1>f
<1>1. CASE RequestStop
  <2>1. UNCHANGED <<list, scan, desk, open, ignored, passed, lost>>
    BY <1>1 DEF RequestStop
  <2>2. Left' = Left
    BY <2>1 DEF Left
  <2>3. CASE remembered
    <3>1. record' = [record EXCEPT !.stop = TRUE]
      BY <1>1, <2>3 DEF RequestStop, SetProgress
    <3>2. record'.save = record.save /\ record'.path = record.path /\ record'.pending = record.pending
          /\ record'.result = record.result
      BY <1>f, <3>1 DEF Record
    <3> QED BY <1>0, <2>1, <2>2, <3>2 DEF FindingsIInv, GoneOK, Follows, RecordCovers, ScanCovers, Covers, ListOK
  <2>4. CASE ~remembered
    <3>1. scan.pc = "none"
      BY <1>0, <2>4 DEF ScanOK
    <3>2. record'.path = 0
      BY <1>1, <2>4 DEF RequestStop, SetProgress, Blank
    <3>3. RecordCovers'
      BY <1>z, <2>2, <3>2 DEF RecordCovers, Covers
    <3> QED BY <1>0, <2>1, <2>2, <3>1, <3>3 DEF FindingsIInv, GoneOK, Follows, ScanCovers, Covers, ListOK
  <2> QED BY <2>3, <2>4
<1>2. CASE LeaveLate
  <2>1. lost' = Finding /\ UNCHANGED <<desk, ignored, list, scan, open, passed>>
    BY <1>2 DEF LeaveLate, userVars
  <2>2. Left' = Left
    BY <2>1 DEF Left
  <2> QED BY <1>0, <1>f, <2>1, <2>2 DEF FindingsIInv, GoneOK, Follows, RecordCovers, ScanCovers, Covers, ListOK
<1>3. ASSUME scan' = NoScan, lost' = lost \cup Unflushed, UNCHANGED <<record, list, open, ignored, passed>>,
             desk' = desk \/ desk' = AtRest
      PROVE  FindingsIInv'
  <2>1. Left' = Left /\ scan'.pc = "none" /\ scan'.todo = {}
    BY <1>3 DEF Left, NoScan
  <2>2. RecordCovers'
    <3>1. CASE lost = Finding
      BY <1>3, <1>f, <2>1, <3>1 DEF RecordCovers, Covers
    <3>2. CASE scan.pc = "none"
      BY <1>0, <1>3, <2>1, <3>2 DEF RecordCovers, Covers, ScanOK
    <3>3. CASE record.save = scan.save
      BY <1>0, <1>3, <2>1, <3>3 DEF RecordCovers, Covers, Unflushed
    <3> QED BY <1>0, <3>1, <3>2, <3>3 DEF Follows
  <2>3. GoneOK'
    BY <1>0, <1>3, <2>1 DEF GoneOK, AtRest
  <2> QED BY <1>0, <1>3, <2>1, <2>2, <2>3 DEF FindingsIInv, Follows, ScanCovers, ListOK
<1>4. CASE Die
  BY <1>3, <1>4 DEF Die, userVars
<1>5. CASE Restart
  BY <1>3, <1>5 DEF Restart
<1>6. CASE ChecksStart
  <2>1. PICK save \in BOOLEAN, auto \in BOOLEAN, resume \in BOOLEAN : StartScan(save, auto, resume)
    BY <1>6 DEF ChecksStart
  <2>2. /\ record'.result = None /\ record'.save = scan'.save /\ record'.path = scan'.index
        /\ record'.pending = scan'.pending
        /\ scan'.pc = "begin" /\ scan'.saved = {} /\ scan'.todo = {}
        /\ \/ /\ scan'.save = record.save /\ scan'.index = record.path /\ scan'.pending = record.pending
              /\ passed' = passed \cup ({record.result} \ {None}) /\ lost' = lost
           \/ scan'.index = 0
    BY <1>0, <2>1, StartEffect
  <2>3. scan.pc \in {"none", "ending"} /\ UNCHANGED <<desk, ignored, list, open>>
    BY <2>1 DEF StartScan, userVars
  <2>4. Left' = Left /\ None \notin Left /\ scan.saved = {}
    BY <1>0, <1>f, <2>3 DEF Left, ScanOK
  <2>5. Covers(IF scan.save THEN list.entries ELSE passed \cup scan.pending, scan.index)'
    <3>1. CASE scan'.index = 0
      BY <1>z, <2>4, <3>1 DEF Covers
    <3>2. CASE /\ scan'.save = record.save /\ scan'.index = record.path /\ scan'.pending = record.pending
               /\ passed' = passed \cup ({record.result} \ {None}) /\ lost' = lost
      BY <1>0, <2>3, <2>4, <3>2 DEF Covers, RecordCovers
    <3> QED BY <2>2, <3>1, <3>2
  <2>6. RecordCovers' /\ ScanCovers'
    BY <2>2, <2>5 DEF RecordCovers, ScanCovers, Covers
  <2>7. scan'.index <= scan'.index
    BY ScanFields DEF ScanIInv, TypeOK
  <2> QED BY <1>0, <2>2, <2>3, <2>4, <2>6, <2>7 DEF FindingsIInv, GoneOK, Follows, ListOK
<1>7. CASE Raise /\ UNCHANGED <<userVars, former, scans, passed, misreported>>
  <2>1. /\ scan' = [scan EXCEPT !.pc = "error"] /\ scan.pc \notin {"none", "ending", "error"}
        /\ UNCHANGED <<desk, ignored, record, list, open, lost, passed>>
    BY <1>7 DEF Raise, userVars
  <2>2. /\ scan'.pc = "error" /\ scan'.save = scan.save /\ scan'.index = scan.index
        /\ scan'.pending = scan.pending /\ scan'.saved = scan.saved
    BY <1>f, <2>1 DEF Scan
  <2>3. Left' = Left
    BY <2>1 DEF Left
  <2>4. RecordCovers' /\ ScanCovers'
    BY <1>0, <2>1, <2>2, <2>3 DEF RecordCovers, ScanCovers, Covers
  <2> QED BY <1>0, <2>1, <2>2, <2>3, <2>4 DEF FindingsIInv, GoneOK, Follows, ListOK
<1> QED BY <1>1, <1>2, <1>4, <1>5, <1>6, <1>7
(* A finding of the user's that no longer exists leaves the list, and the    *)
(* others of its image stay in it.                                           *)
LEMMA ReviewCovers ==
  ASSUME ScanIInv, ScanIInv', FindingsIInv, Review
  PROVE  FindingsIInv'
<1>0. /\ TypeOK /\ ScanOK /\ GoneOK /\ Follows /\ RecordCovers /\ ScanCovers /\ ListOK
      /\ record \in Record /\ list \in Lists /\ list.entries \in SUBSET Finding /\ desk \in Desk
      /\ Left \in SUBSET Finding
  BY DEF FindingsIInv, ScanIInv, TypeOK, Lists, Left
<1>1. UNCHANGED <<scan, passed>>
  BY DEF Review, ChangeFace, PlaceFace, IgnoreEntry, OnDesk, OpenItem, RefreshItem, RefreshList, ReadProgress,
         WriteProgress, Snapshot, RefreshFails
<1>2. ASSUME open' \subseteq open, ignored \subseteq ignored', lost \subseteq lost', UNCHANGED record,
             list'.save = list.save, list.entries = {} => list'.entries = {},
             \A f \in Left : f \in list.entries => f \in list'.entries \cup lost',
             desk'.pc # "idle" => desk'.finding \in Finding \ (open' \ ignored')
      PROVE  FindingsIInv'
  <2>1. Left' \subseteq Left
    BY <1>2 DEF Left
  <2>2. RecordCovers'
    BY <1>0, <1>1, <1>2, <2>1 DEF RecordCovers, Covers
  <2>3. ScanCovers'
    BY <1>0, <1>1, <1>2, <2>1 DEF ScanCovers, Covers
  <2>4. GoneOK' /\ ListOK'
    BY <1>0, <1>1, <1>2, <2>1 DEF GoneOK, ListOK, Left
  <2>5. lost = Finding => lost' = Finding
    BY <1>2 DEF ScanIInv, TypeOK
  <2>6. Follows'
    BY <1>0, <1>1, <1>2, <2>5 DEF Follows
  <2> QED BY <2>2, <2>3, <2>4, <2>6 DEF FindingsIInv
<1>3. ASSUME NEW f \in Finding, ChangeFace(f) \/ PlaceFace(f) \/ IgnoreEntry(f) \/ OpenItem(f)
      PROVE  FindingsIInv'
  <2>1. /\ open' \subseteq open /\ ignored \subseteq ignored' /\ f \notin open' \ ignored'
        /\ UNCHANGED <<record, list, lost>>
    BY <1>3 DEF ChangeFace, PlaceFace, IgnoreEntry, OnDesk, OpenItem
  <2>2. desk' = AtRest \/ desk'.finding = f
    BY <1>3 DEF ChangeFace, PlaceFace, IgnoreEntry, OnDesk, OpenItem, AtRest
  <2>3. desk'.pc # "idle" => desk'.finding \in Finding \ (open' \ ignored')
    BY <2>1, <2>2 DEF AtRest
  <2> QED BY <1>2, <2>1, <2>3
<1>4. CASE RefreshItem \/ RefreshList
  <2>1. /\ list' = list \/ list' = [list EXCEPT !.entries = BuiltAnew(list.entries)]
        /\ UNCHANGED <<record, open, ignored, lost>> /\ desk.pc # "idle"
        /\ desk' = AtRest \/ desk' = [desk EXCEPT !.pc = "progress"]
    BY <1>4 DEF RefreshItem, RefreshList
  <2>2. list'.save = list.save /\ (list'.entries = list.entries \/ list'.entries = BuiltAnew(list.entries))
    BY <1>0, <2>1 DEF Lists
  <2>3. /\ list.entries = {} => list'.entries = {}
        /\ \A f \in Left : f \in list.entries => f \in list'.entries \cup lost'
    <3>1. /\ list.entries = {} => BuiltAnew(list.entries) = {}
          /\ \A f \in Left : f \in list.entries => f \in BuiltAnew(list.entries)
      BY <1>0, BuiltAnewKeeps DEF BuiltAnew, OnImage, EntriesOf
    <3> QED BY <2>2, <3>1
  <2>4. desk'.pc # "idle" => desk'.finding \in Finding \ (open' \ ignored')
    <3>1. desk.finding \in Finding \ Left /\ Left = open' \ ignored'
      BY <1>0, <2>1 DEF GoneOK, Left
    <3>2. desk' = AtRest \/ desk'.finding = desk.finding
      BY <1>0, <2>1 DEF Desk
    <3> QED BY <3>1, <3>2 DEF AtRest
  <2> QED BY <1>2, <2>1, <2>2, <2>3, <2>4
<1>5. CASE ReadProgress \/ RefreshFails
  <2>1. /\ UNCHANGED <<record, list, open, ignored, lost>> /\ desk.pc # "idle"
        /\ desk' = AtRest \/ desk' = [desk EXCEPT !.pc = "write", !.read = record]
    BY <1>5 DEF ReadProgress, RefreshFails
  <2>2. desk'.pc # "idle" => desk'.finding \in Finding \ (open' \ ignored')
    <3>1. desk.finding \in Finding \ Left /\ Left = open' \ ignored'
      BY <1>0, <2>1 DEF GoneOK, Left
    <3>2. desk' = AtRest \/ desk'.finding = desk.finding
      BY <1>0, <2>1 DEF Desk
    <3> QED BY <3>1, <3>2 DEF AtRest
  <2> QED BY <1>2, <2>1, <2>2
<1>6. CASE Snapshot
  <2>1. PICK others \in SUBSET OnImage(open) :
          /\ list' = [list EXCEPT !.entries = @ \ ({desk.finding} \cup others)]
          /\ desk' = [desk EXCEPT !.pc = "progress", !.gone = {desk.finding} \cup others]
          /\ lost' = lost \cup others
    BY <1>6 DEF Snapshot
  <2>2. desk.pc # "idle" /\ UNCHANGED <<record, open, ignored>>
    BY <1>6 DEF Snapshot
  <2>3. list'.save = list.save /\ list'.entries = list.entries \ ({desk.finding} \cup others)
        /\ desk'.finding = desk.finding
    BY <1>0, <2>1 DEF Lists, Desk
  <2>4. desk.finding \in Finding \ Left
    BY <1>0, <2>2 DEF GoneOK
  <2>5. /\ list.entries = {} => list'.entries = {}
        /\ \A f \in Left : f \in list.entries => f \in list'.entries \cup lost'
    BY <2>1, <2>3, <2>4
  <2>6. desk'.finding \in Finding \ (open' \ ignored')
    BY <2>2, <2>3, <2>4 DEF Left
  <2> QED BY <1>2, <2>1, <2>2, <2>3, <2>5, <2>6
<1>7. CASE WriteProgress
  <2>1. /\ desk' = AtRest /\ UNCHANGED <<snapshot, list, open, ignored>>
        /\ lost' = lost \cup (IF record # desk.read THEN Finding ELSE desk.gone \cup ({record.result} \ {None}))
    BY <1>7 DEF WriteProgress
  <2>2. Left' = Left /\ lost' \subseteq Finding /\ lost \subseteq lost'
    BY <2>1 DEF Left, ScanIInv, TypeOK
  <2>3. GoneOK' /\ ListOK'
    BY <1>0, <1>1, <2>1, <2>2 DEF GoneOK, ListOK, AtRest
  <2>4. ScanCovers'
    BY <1>0, <1>1, <2>1, <2>2 DEF ScanCovers, Covers
  <2>5. CASE record # desk.read
    <3>1. lost' = Finding
      BY <2>1, <2>2, <2>5
    <3>2. Follows' /\ RecordCovers'
      BY <1>0, <2>2, <3>1 DEF Follows, RecordCovers, Covers
    <3> QED BY <2>3, <2>4, <3>2 DEF FindingsIInv
  <2>6. CASE record = desk.read
    <3>1. /\ record'.save = record.save /\ record'.path = record.path
          /\ snapshot => record'.result = record.result /\ record'.pending = record.pending \ desk.gone
          /\ ~snapshot => record'.result = None /\ record'.pending = Rebuilt(record).pending
      BY <1>0, <1>7, <2>6, WriteProgressEffect
    <3>2. Follows'
      <4>1. record.result = None => record'.result = None
        BY <1>0, <3>1 DEF TypeOK
      <4>2. lost = Finding => lost' = Finding
        BY <2>2
      <4> QED BY <1>0, <1>1, <3>1, <4>1, <4>2 DEF Follows
    <3>3. \A f \in Left : f \in record.pending => f \in record'.pending \cup lost'
      <4>1. CASE snapshot
        BY <2>1, <2>6, <3>1, <4>1
      <4>2. CASE ~snapshot
        <5> DEFINE again == EntriesOf(ImageOf[desk.finding]) \ OnImage({record.result} \ {None})
                   others == record.pending \ OnImage(record.pending)
        <5>1. Rebuilt(record).pending = again \cup others
          BY <1>0 DEF Rebuilt, Record
        <5>2. ASSUME NEW f \in Left, f \in record.pending PROVE f \in again \cup others \cup lost'
          <6>1. CASE f \in OnImage(record.pending)
            <7>1. f \in EntriesOf(ImageOf[desk.finding])
              BY <6>1 DEF OnImage, EntriesOf, Left
            <7>2. f \in OnImage({record.result} \ {None}) => f \in lost'
              BY <2>1, <2>6 DEF OnImage
            <7> QED BY <7>1, <7>2
          <6>2. CASE f \notin OnImage(record.pending)
            BY <5>2, <6>2
          <6> QED BY <6>1, <6>2
        <5> HIDE DEF again, others
        <5> QED BY <3>1, <4>2, <5>1, <5>2
      <4> QED BY <4>1, <4>2
    <3>4. record.result \in lost' \cup {None}
      BY <2>1, <2>6
    <3>5. RecordCovers'
      <4> SUFFICES ASSUME NEW f \in Left, ImageOf[f] <= record.path, f \notin lost'
                   PROVE  f \in IF record.save THEN list.entries \cup scan.saved
                                ELSE {record'.result} \cup passed \cup record'.pending
        BY <1>1, <2>1, <2>2, <3>1 DEF RecordCovers, Covers
      <4>1. f \in IF record.save THEN list.entries \cup scan.saved
                  ELSE {record.result} \cup passed \cup record.pending
        BY <1>0, <2>2 DEF RecordCovers, Covers
      <4>2. f # None
        BY <1>0
      <4> QED BY <3>3, <3>4, <4>1, <4>2
    <3> QED BY <2>3, <2>4, <3>2, <3>5 DEF FindingsIInv
  <2> QED BY <2>5, <2>6
<1> QED BY <1>3, <1>4, <1>5, <1>6, <1>7 DEF Review

LEMMA FindingsIInvHolds == Spec => [](ScanIInv /\ FindingsIInv)
<1>1. Init => FindingsIInv
  <2> SUFFICES ASSUME Init PROVE FindingsIInv
    OBVIOUS
  <2>1. RecordCovers
    <3>1. record.path = 0
      BY DEF Init, Blank
    <3>2. ASSUME NEW f \in Left PROVE ~(ImageOf[f] <= 0)
      <4>1. f \in Finding
        BY DEF Init, Left
      <4>2. ImageOf[f] \in 1..Images
        BY <4>1
      <4> QED BY <4>2
    <3> QED BY <3>1, <3>2 DEF RecordCovers, Covers
  <2> QED BY <2>1 DEF Init, FindingsIInv, GoneOK, Follows, ScanCovers, ListOK, NoScan, NoList, AtRest
<1>2. ScanIInv /\ ScanIInv' /\ FindingsIInv /\ [Next]_vars => FindingsIInv'
  <2> SUFFICES ASSUME ScanIInv, ScanIInv', FindingsIInv, [Next]_vars PROVE FindingsIInv'
    OBVIOUS
  <2>1. CASE UNCHANGED vars
    BY <2>1 DEF vars, FindingsIInv, GoneOK, Follows, RecordCovers, ScanCovers, Covers, Left, ListOK
  <2> QED BY <2>1, ScanStepCovers, UserStepCovers, ReviewCovers DEF Next, Review
<1> QED BY <1>1, <1>2, ScanIInvHolds, PTL DEF Spec

(* Whatever the user does meanwhile, every finding that still exists on an   *)
(* image the scan has passed can be found again, or was lost in one of the   *)
(* named ways.                                                               *)
THEOREM NoFindingForgotten == Spec => []NothingForgotten
<1>1. ScanIInv /\ FindingsIInv => NothingForgotten
  <2> SUFFICES ASSUME ScanIInv, FindingsIInv, NEW f \in Left, ImageOf[f] <= Passed PROVE f \in Kept \cup lost
    BY DEF NothingForgotten, Left
  <2>1. CASE scan.pc = "none"
    BY <2>1 DEF FindingsIInv, RecordCovers, Covers, Passed, Kept
  <2>2. CASE scan.pc # "none"
    BY <2>2 DEF FindingsIInv, ScanCovers, Covers, Passed, Kept
  <2> QED BY <2>1, <2>2
<1> QED BY <1>1, FindingsIInvHolds, PTL
=============================================================================
