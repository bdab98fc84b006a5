------------------------ MODULE Recognition_proofs ------------------------
(***************************************************************************)
(* That an excluded face stays out of the profiles, and that a scan has    *)
(* found what it looked for at every person it has passed, and that the    *)
(* state is well formed: for any faces, persons, images and keys and any   *)
(* number of runs, failures and decisions.                                 *)
(***************************************************************************)
EXTENDS Recognition, FiniteSetTheorems, WellFoundedInduction, TLAPS

(* The fields the proof follows are there, and profiles are lists.           *)
Profiled(s) == s \in Seq(ToSet(s)) /\ \A x \in ToSet(s) : "refs" \in DOMAIN x
RunShape ==
  /\ {"pc", "kind", "key", "mode", "auto", "built", "copy", "excluded", "entries"} \subseteq DOMAIN run
  /\ run.mode \in {"immediate", "save_only"}
  /\ run.pc # "none" => run.key \in Key
ProfilesShape == DOMAIN profiles = Key /\ \A key \in Key : Profiled(profiles[key])
Shape ==
  /\ RunShape
  /\ {"step", "face", "payload", "key", "copy"} \subseteq DOMAIN reviewer
  /\ reviewer.mode \in {"immediate", "save_only"}
  /\ reviewer.key \in Key \/ reviewer.step # "rewrite" => Profiled(reviewer.copy)
  /\ reviewer.step = "rewrite" /\ reviewer.key \in Key => reviewer.face \notin RefsOf(reviewer.copy)
  /\ DOMAIN stored = Review
  /\ ProfilesShape /\ Profiled(run.built) /\ Profiled(run.copy)
(* A scan that only reports has excluded nothing in the list it is to store. *)
OnlyReported ==
  run.mode = "save_only" =>
    /\ run.entries \in Seq(ToSet(run.entries))
    /\ run.kind = "outliers" /\ ~run.auto => Excluded(run.entries) = {}
(* What a build has taken over or made holds no excluded face,               *)
BuiltWithout ==
  run.kind = "build" /\ run.pc \notin {"none", "begin"} /\ run.key = OutKey =>
    Out \cap RefsOf(run.built) \subseteq late \cup Deciding
(* it knows those it must leave out,                                         *)
BuildKnows ==
  run.kind = "build" /\ run.pc \notin {"none", "begin", "exclusions"} /\ run.key = OutKey =>
    Out \subseteq run.excluded \cup late \cup Deciding
(* and what a scan or a request has read to take faces out of holds none it  *)
(* is not the other's turn to take out.                                      *)
ScanCopies ==
  run.pc = "rewrite" /\ run.key = OutKey => Out \cap RefsOf(run.copy) \subseteq late \cup Deciding
RequestCopies ==
  reviewer.step = "rewrite" /\ reviewer.key \in Key \cap {OutKey} =>
    Out \cap RefsOf(reviewer.copy) \subseteq late \cup Applying
ExclusionInv ==
  Shape /\ OnlyReported /\ BuiltWithout /\ BuildKnows /\ ScanCopies /\ RequestCopies /\ ExcludedStaysOut
-----------------------------------------------------------------------------
(* Lists and what they hold.                                                 *)
LEMMA SequenceOfItsSet ==
  ASSUME NEW t, NEW n \in Nat, t = [k \in 1 .. n |-> t[k]]
  PROVE  t \in Seq(ToSet(t))
  <1>1. \A k \in 1 .. n : t[k] \in ToSet(t) BY DEF ToSet
  <1> QED BY <1>1

LEMMA AppendToSet ==
  ASSUME NEW s, s \in Seq(ToSet(s)), NEW e
  PROVE  /\ Append(s, e) \in Seq(ToSet(Append(s, e)))
         /\ ToSet(Append(s, e)) = ToSet(s) \cup {e}
  <1> DEFINE S == ToSet(s)
             t == Append(s, e)
  <1>1. s \in Seq(S \cup {e}) /\ Len(s) \in Nat /\ DOMAIN s = 1 .. Len(s) OBVIOUS
  <1>2. /\ t \in Seq(S \cup {e}) /\ Len(t) = Len(s) + 1 /\ DOMAIN t = 1 .. Len(s) + 1
        /\ t[Len(s) + 1] = e /\ \A n \in 1 .. Len(s) : t[n] = s[n]
    BY <1>1
  <1>3. ToSet(t) = S \cup {e}
    <2>1. ToSet(t) \subseteq S \cup {e}
      <3> SUFFICES ASSUME NEW n \in DOMAIN t PROVE t[n] \in S \cup {e}
        BY DEF ToSet
      <3>1. n = Len(s) + 1 \/ n \in 1 .. Len(s) BY <1>1, <1>2
      <3> QED BY <3>1, <1>1, <1>2 DEF ToSet
    <2>2. S \cup {e} \subseteq ToSet(t)
      <3> SUFFICES ASSUME NEW x \in S \cup {e} PROVE \E n \in DOMAIN t : t[n] = x
        BY DEF ToSet
      <3>1. CASE x = e
        <4>1. Len(s) + 1 \in DOMAIN t BY <1>1, <1>2
        <4> QED BY <4>1, <3>1, <1>2
      <3>2. CASE x \in S
        <4>1. PICK n \in DOMAIN s : s[n] = x BY <3>2 DEF ToSet
        <4>2. n \in DOMAIN t /\ t[n] = x BY <4>1, <1>1, <1>2
        <4> QED BY <4>2
      <3> QED BY <3>1, <3>2
    <2> QED BY <2>1, <2>2
  <1> QED BY <1>2, <1>3

LEMMA ProfiledAppend ==
  ASSUME NEW s, Profiled(s), NEW p, NEW R
  PROVE  LET x == [person |-> p, refs |-> R]
         IN  Profiled(Append(s, x)) /\ RefsOf(Append(s, x)) = RefsOf(s) \cup R
  <1> DEFINE x == [person |-> p, refs |-> R]
  <1>1. ToSet(Append(s, x)) = ToSet(s) \cup {x} /\ Append(s, x) \in Seq(ToSet(Append(s, x)))
    BY AppendToSet DEF Profiled
  <1>2. "refs" \in DOMAIN x /\ x.refs = R OBVIOUS
  <1> HIDE DEF x
  <1>3. Profiled(Append(s, x)) BY <1>1, <1>2 DEF Profiled
  <1>4. RefsOf(Append(s, x)) = RefsOf(s) \cup R BY <1>1, <1>2 DEF RefsOf
  <1> QED BY <1>3, <1>4 DEF x

LEMMA ProfiledEmpty == Profiled(<<>>) /\ RefsOf(<<>>) = {}
  <1>1. ToSet(<<>>) = {} BY DEF ToSet
  <1> QED BY <1>1 DEF Profiled, RefsOf

LEMMA EntriesEmpty == <<>> \in Seq(ToSet(<<>>)) /\ Excluded(<<>>) = {}
  <1>1. ToSet(<<>>) = {} BY DEF ToSet
  <1> QED BY <1>1 DEF Excluded

LEMMA ExcludedAreEntries == \A s : Excluded(s) \subseteq EntryFaces(s)
  BY DEF Excluded, EntryFaces

LEMMA ProfiledWithout ==
  ASSUME NEW s, NEW F, Profiled(s)
  PROVE  Profiled(WithoutRefs(s, F)) /\ RefsOf(WithoutRefs(s, F)) \subseteq RefsOf(s) \ F
  <1> DEFINE t == WithoutRefs(s, F)
  <1>1. Len(s) \in Nat /\ DOMAIN s = 1 .. Len(s) BY DEF Profiled
  <1>2. DOMAIN t = DOMAIN s /\ t = [n \in 1 .. Len(s) |-> t[n]]
    BY <1>1 DEF WithoutRefs
  <1>3. ASSUME NEW n \in DOMAIN s
        PROVE  /\ "refs" \in DOMAIN s[n] /\ "refs" \in DOMAIN t[n]
               /\ t[n].refs = s[n].refs \ F
    <2>1. s[n] \in ToSet(s) BY DEF ToSet
    <2>2. "refs" \in DOMAIN s[n] BY <2>1 DEF Profiled
    <2>3. t[n] = [s[n] EXCEPT !.refs = s[n].refs \ F] BY DEF WithoutRefs
    <2> QED BY <2>2, <2>3
  <1> HIDE DEF t
  <1>4. t \in Seq(ToSet(t)) BY <1>1, <1>2, SequenceOfItsSet
  <1>5. \A x \in ToSet(t) : "refs" \in DOMAIN x BY <1>2, <1>3 DEF ToSet
  <1>6. RefsOf(t) \subseteq RefsOf(s) \ F
    <2> SUFFICES ASSUME NEW x \in ToSet(t), NEW f \in x.refs PROVE f \in RefsOf(s) \ F
      BY DEF RefsOf
    <2>1. PICK n \in DOMAIN s : x = t[n] BY <1>2 DEF ToSet
    <2>2. s[n] \in ToSet(s) BY DEF ToSet
    <2>3. f \in s[n].refs \ F BY <2>1, <1>3
    <2> QED BY <2>2, <2>3 DEF RefsOf
  <1> QED BY <1>4, <1>5, <1>6 DEF Profiled, t

(* Profiles that are written are those of one key.                           *)
LEMMA StoreWritten ==
  ASSUME ProfilesShape, NEW k, NEW s, k \in Key => Profiled(s), profiles' = [profiles EXCEPT ![k] = s]
  PROVE  ProfilesShape' /\ \A key \in Key : profiles'[key] = IF key = k THEN s ELSE profiles[key]
  <1>1. DOMAIN profiles' = Key BY DEF ProfilesShape
  <1>2. \A key \in Key : profiles'[key] = IF key = k THEN s ELSE profiles[key] BY DEF ProfilesShape
  <1>3. \A key \in Key : Profiled(profiles'[key]) BY <1>2 DEF ProfilesShape
  <1> QED BY <1>1, <1>2, <1>3 DEF ProfilesShape, Profiled

LEMMA StoreStays == ASSUME ProfilesShape, UNCHANGED profiles PROVE ProfilesShape'
  BY DEF ProfilesShape, Profiled
-----------------------------------------------------------------------------
(* What the steps have in common.                                            *)
LEMMA InitStarts == Init => ExclusionInv
  <1> SUFFICES ASSUME Init PROVE ExclusionInv OBVIOUS
  <1> DEFINE refs == [p \in Known |-> {f \in Face : PersonOf[f] = p /\ WithinLimit(f) /\ ImageOf[f] \notin Absent}]
             P == {p \in Known : refs[p] # {}}
             who == Sorted(P)
  <1>1. ProfilesShape
    <2>1. Profiled(BuiltBefore)
      <3>1. Cardinality(P) \in Nat
        <4>1. IsFiniteSet(P) BY PhotosAssumption, FS_Subset
        <4> QED BY <4>1, FS_CardinalityType
      <3>2. DOMAIN who = 1 .. Cardinality(P) BY DEF Sorted
      <3> DEFINE t == [n \in DOMAIN who |-> [person |-> who[n], refs |-> refs[who[n]]]]
      <3>3. BuiltBefore = t BY DEF BuiltBefore
      <3>4. \A n \in DOMAIN t : "refs" \in DOMAIN t[n] OBVIOUS
      <3>5. t = [n \in 1 .. Cardinality(P) |-> t[n]] BY <3>2
      <3> HIDE DEF t
      <3>6. t \in Seq(ToSet(t)) BY <3>1, <3>5, SequenceOfItsSet
      <3> QED BY <3>3, <3>4, <3>6 DEF Profiled, ToSet
    <2>2. profiles \in [Key -> {<<>>, BuiltBefore}] BY DEF Init
    <2> QED BY <2>1, <2>2, ProfiledEmpty DEF ProfilesShape
  <1>2. Out = {}
    <2>1. stored["outliers"] = NoPayload BY DEF Init, Review
    <2> QED BY <2>1, EntriesEmpty DEF Out, NoPayload
  <1>3. /\ RunShape /\ run.pc = "none" /\ run.entries = <<>> /\ run.built = <<>> /\ run.copy = <<>>
        /\ {"step", "face", "payload", "key", "copy"} \subseteq DOMAIN reviewer /\ reviewer.mode = "immediate"
        /\ reviewer.copy = <<>> /\ DOMAIN stored = Review
    BY DEF Init, NoRun, Idle, RunShape
  <1>4. Shape BY <1>1, <1>3, ProfiledEmpty DEF Shape
  <1>5. OnlyReported BY <1>3, EntriesEmpty DEF OnlyReported
  <1>6. ExcludedStaysOut /\ ScanCopies /\ RequestCopies
    BY <1>2 DEF ExcludedStaysOut, ScanCopies, RequestCopies
  <1> QED BY <1>3, <1>4, <1>5, <1>6 DEF ExclusionInv, BuiltWithout, BuildKnows

LEMMA Wrote ==
  ASSUME DOMAIN stored = Review, NEW r, NEW payload, r.mode \in {"immediate", "save_only"},
         WriteFindings(r, payload)
  PROVE  /\ DOMAIN stored' = Review
         /\ r.kind = "outliers" /\ r.mode = "save_only" => Out' = Excluded(payload.entries) /\ OutKey' = payload.key
         /\ ~(r.kind = "outliers" /\ r.mode = "save_only") => Out' = Out /\ OutKey' = OutKey
  <1>1. CASE r.mode = "immediate" BY <1>1 DEF WriteFindings, Out, OutKey
  <1>2. CASE r.mode = "save_only"
    <2>1. stored' = [stored EXCEPT ![r.kind] = payload] BY <1>2 DEF WriteFindings
    <2>2. "outliers" \in DOMAIN stored BY DEF Review
    <2>3. /\ DOMAIN stored' = Review
          /\ r.kind = "outliers" => stored'["outliers"] = payload
          /\ r.kind # "outliers" => stored'["outliers"] = stored["outliers"]
      BY <2>1, <2>2
    <2> QED BY <2>3, <1>2 DEF Out, OutKey
  <1> QED BY <1>1, <1>2

(* The thread has ended.                                                     *)
LEMMA EndsStep ==
  ASSUME ExclusionInv, run' = NoRun, reviewer' = reviewer, DOMAIN stored' = Review, ProfilesShape',
         \A key \in Key : key = OutKey' => Out' \cap RefsOf(profiles'[key]) \subseteq late' \cup Deciding',
         reviewer.step = "rewrite" /\ reviewer.key \in Key \cap {OutKey'} => Out' \cap RefsOf(reviewer.copy) \subseteq late'
  PROVE  ExclusionInv'
  <1>1. /\ RunShape' /\ run'.pc = "none" /\ run'.entries = <<>> /\ run'.built = <<>> /\ run'.copy = <<>>
        /\ run'.mode = "immediate"
    BY DEF NoRun, RunShape
  <1>2. Shape' BY <1>1, ProfiledEmpty DEF Shape, ExclusionInv, Profiled, RefsOf
  <1>3. OnlyReported' BY <1>1 DEF OnlyReported
  <1>4. ExcludedStaysOut' BY DEF ExcludedStaysOut, RefsOf
  <1>5. RequestCopies' BY DEF RequestCopies, RefsOf
  <1> QED BY <1>1, <1>2, <1>3, <1>4, <1>5 DEF ExclusionInv, BuiltWithout, BuildKnows, ScanCopies

SameRun ==
  /\ RunShape' /\ run'.kind = run.kind /\ run'.key = run.key /\ run'.mode = run.mode /\ run'.auto = run.auto
  /\ run'.built = run.built /\ run'.copy = run.copy /\ run'.excluded = run.excluded
Beside == UNCHANGED <<profiles, stored, late, reviewer>>
LEMMA BesideOut == ASSUME Beside PROVE Out' = Out /\ OutKey' = OutKey /\ Deciding' = Deciding
  BY DEF Beside, Out, OutKey, Deciding

(* The scan takes nothing out of profiles.                                   *)
LEMMA NotYetExcluded ==
  ASSUME ExclusionInv, run.pc \notin Removing
  PROVE  /\ Applying = {}
         /\ \A key \in Key : key = OutKey => Out \cap RefsOf(profiles[key]) \subseteq late \cup Deciding
         /\ reviewer.step = "rewrite" /\ reviewer.key \in Key \cap {OutKey} => Out \cap RefsOf(reviewer.copy) \subseteq late
  <1>1. Applying = {} BY DEF Applying
  <1> QED BY <1>1 DEF ExclusionInv, ExcludedStaysOut, RequestCopies

(* Nothing is written, and the thread takes nothing out.                     *)
LEMMA BesideStep ==
  ASSUME ExclusionInv, Beside, run.pc \notin Removing, Shape', OnlyReported', BuiltWithout', BuildKnows',
         run'.pc \notin Removing
  PROVE  ExclusionInv'
  <1>1. Out' = Out /\ OutKey' = OutKey /\ Deciding' = Deciding BY BesideOut
  <1>2. Applying = {} /\ Applying' = {} BY DEF Applying
  <1>3. ExcludedStaysOut' BY <1>1, NotYetExcluded DEF ExcludedStaysOut, Beside, RefsOf
  <1>4. RequestCopies' BY <1>1, NotYetExcluded DEF RequestCopies, Beside, RefsOf
  <1>5. ScanCopies' BY DEF ScanCopies, Removing
  <1> QED BY <1>3, <1>4, <1>5 DEF ExclusionInv

(* The scan goes on, or the build looks at one more image.                   *)
LEMMA QuietStep ==
  ASSUME ExclusionInv, Beside, SameRun, run'.entries = run.entries,
         run.pc \notin {"none", "begin", "exclusions", "exclude", "rewrite"}, run'.pc \notin {"exclude", "rewrite"}
  PROVE  ExclusionInv'
  <1>1. Out' = Out /\ OutKey' = OutKey /\ Deciding' = Deciding BY BesideOut
  <1>2. ProfilesShape' BY StoreStays DEF ExclusionInv, Shape, Beside
  <1>3. Shape' BY <1>2 DEF ExclusionInv, Shape, Beside, SameRun, Profiled, RefsOf
  <1>4. OnlyReported' BY DEF ExclusionInv, OnlyReported, SameRun
  <1>5. BuiltWithout' /\ BuildKnows'
    BY <1>1 DEF ExclusionInv, BuiltWithout, BuildKnows, SameRun, Beside
  <1> QED BY <1>3, <1>4, <1>5, BesideStep DEF Removing
-----------------------------------------------------------------------------
(* The steps of the thread.                                                  *)
LEMMA StartSteps ==
  ASSUME ExclusionInv, NEW k, NEW key \in Key, NEW m \in {"immediate", "save_only"}, NEW resume, NEW auto,
         Start(k, key, m, resume, auto)
  PROVE  ExclusionInv'
  <1>1. /\ RunShape' /\ run'.pc = "begin" /\ run'.mode = m /\ run'.kind = k /\ run'.entries = <<>>
        /\ run'.built = <<>> /\ run'.copy = <<>>
    BY DEF Start, NoRun, RunShape
  <1>2. run.pc = "none" BY DEF Start, Working
  <1>3. Beside BY DEF Start, Beside
  <1>4. Shape' BY <1>1, <1>3, ProfiledEmpty, StoreStays DEF ExclusionInv, Shape, Profiled, RefsOf, Beside
  <1>5. OnlyReported' BY <1>1, EntriesEmpty DEF OnlyReported
  <1> QED BY <1>1, <1>2, <1>3, <1>4, <1>5, BesideStep DEF BuiltWithout, BuildKnows, Removing

LEMMA RaiseStep == ASSUME ExclusionInv, Raise PROVE ExclusionInv'
  <1>1. run' = NoRun /\ UNCHANGED <<profiles, stored, reviewer>> /\ late' = late \cup Applying BY DEF Raise, Ends
  <1>2. Out' = Out /\ OutKey' = OutKey /\ Deciding' = Deciding BY <1>1 DEF Out, OutKey, Deciding
  <1>3. \A key \in Key : key = OutKey => Out \cap RefsOf(profiles[key]) \subseteq late \cup Applying \cup Deciding
    BY DEF ExclusionInv, ExcludedStaysOut
  <1>4. reviewer.step = "rewrite" /\ reviewer.key \in Key \cap {OutKey} => Out \cap RefsOf(reviewer.copy) \subseteq late'
    BY <1>1 DEF ExclusionInv, RequestCopies
  <1>5. DOMAIN stored' = Review /\ ProfilesShape' BY <1>1, StoreStays DEF ExclusionInv, Shape
  <1> QED BY <1>1, <1>2, <1>3, <1>4, <1>5, EndsStep

(* What a list that was built without the excluded faces becomes when it is  *)
(* stored, and a scan that ends.                                             *)
LEMMA StoppedBuildStep ==
  ASSUME ExclusionInv, StoppedBuild, UNCHANGED reviewer, run.kind = "build", run.pc \notin {"none", "begin"} \cup Removing
  PROVE  ExclusionInv'
  <1>1. run' = NoRun /\ profiles' = [profiles EXCEPT ![run.key] = run.built] /\ UNCHANGED <<stored, late>>
    BY DEF StoppedBuild, Ends, WriteNothing
  <1>2. Out' = Out /\ OutKey' = OutKey /\ Deciding' = Deciding BY <1>1 DEF Out, OutKey, Deciding
  <1>3. ProfilesShape' /\ \A key \in Key : profiles'[key] = IF key = run.key THEN run.built ELSE profiles[key]
    <2>1. PICK k, s : k = run.key /\ s = run.built OBVIOUS
    <2>2. ProfilesShape /\ (k \in Key => Profiled(s)) BY <2>1 DEF ExclusionInv, Shape
    <2>3. profiles' = [profiles EXCEPT ![k] = s] BY <1>1, <2>1
    <2>4. ProfilesShape' /\ \A key \in Key : profiles'[key] = IF key = k THEN s ELSE profiles[key]
      BY <2>2, <2>3, StoreWritten, ZenonT(60)
    <2> QED BY <2>1, <2>4
  <1>4. ASSUME NEW key \in Key, key = OutKey PROVE Out \cap RefsOf(profiles'[key]) \subseteq late \cup Deciding
    <2>1. CASE key = run.key BY <1>3, <1>4, <2>1 DEF ExclusionInv, BuiltWithout
    <2>2. CASE key # run.key BY <1>3, <1>4, <2>2, NotYetExcluded
    <2> QED BY <2>1, <2>2
  <1>5. DOMAIN stored' = Review BY <1>1 DEF ExclusionInv, Shape
  <1> QED BY <1>1, <1>2, <1>3, <1>4, <1>5, NotYetExcluded, EndsStep

LEMMA StoppedStep ==
  ASSUME ExclusionInv, Stopped, UNCHANGED reviewer, run.pc \notin Removing
  PROVE  ExclusionInv'
  <1>1. run' = NoRun /\ UNCHANGED profiles BY DEF Stopped, Ends
  <1>2. late \subseteq late' /\ (SavesExclusions => EntryFaces(run.entries) \subseteq late') BY DEF Stopped
  <1>3. DOMAIN stored' = Review /\ (Out' \subseteq late' \/ (Out' = Out /\ OutKey' = OutKey))
    <2>1. CASE WriteNothing BY <2>1 DEF WriteNothing, Out, OutKey, ExclusionInv, Shape
    <2>2. CASE WriteFindings(run, Plain(run))
      <3>1. Plain(run).entries = run.entries BY DEF Plain, NoPayload
      <3>2. DOMAIN stored = Review /\ run.mode \in {"immediate", "save_only"} BY DEF ExclusionInv, Shape, RunShape
      <3>3. /\ DOMAIN stored' = Review
            /\ run.kind = "outliers" /\ run.mode = "save_only" => Out' = Excluded(run.entries)
            /\ ~(run.kind = "outliers" /\ run.mode = "save_only") => Out' = Out /\ OutKey' = OutKey
        BY <2>2, <3>1, <3>2, Wrote
      <3>4. CASE run.kind = "outliers" /\ run.mode = "save_only" /\ run.auto
        <4>1. Excluded(run.entries) \subseteq EntryFaces(run.entries) BY ExcludedAreEntries
        <4> QED BY <3>3, <3>4, <4>1, <1>2 DEF SavesExclusions
      <3>5. CASE run.kind = "outliers" /\ run.mode = "save_only" /\ ~run.auto
        BY <3>3, <3>5 DEF ExclusionInv, OnlyReported
      <3> QED BY <3>3, <3>4, <3>5
    <2> QED BY <2>1, <2>2 DEF Stopped
  <1>4. \A key \in Key : key = OutKey' => Out' \cap RefsOf(profiles'[key]) \subseteq late' \cup Deciding'
    <2>1. CASE Out' \subseteq late' BY <2>1
    <2>2. CASE Out' = Out /\ OutKey' = OutKey
      <3>1. Deciding' = Deciding BY <2>2 DEF Deciding
      <3> QED BY <3>1, <2>2, <1>1, <1>2, NotYetExcluded
    <2> QED BY <1>3, <2>1, <2>2
  <1>5. reviewer.step = "rewrite" /\ reviewer.key \in Key \cap {OutKey'} => Out' \cap RefsOf(reviewer.copy) \subseteq late'
    BY <1>2, <1>3, NotYetExcluded
  <1>6. ProfilesShape' BY <1>1, StoreStays DEF ExclusionInv, Shape
  <1> QED BY <1>1, <1>3, <1>4, <1>5, <1>6, EndsStep

LEMMA BeginningSteps == ASSUME ExclusionInv, Beginning PROVE ExclusionInv'
  <1>1. UNCHANGED <<profiles, stored, reviewer>> /\ Out' = Out /\ OutKey' = OutKey /\ Deciding' = Deciding
    BY DEF Beginning, Out, OutKey, Deciding
  <1>2. RunShape /\ ProfilesShape /\ Profiled(run.built) BY DEF ExclusionInv, Shape
  <1>3. ASSUME NEW r, NEW who, NEW c, NEW a, r = run, run' = Listed(r, who, c, a), UNCHANGED late,
               run.pc = "begin", run.kind # "build"
        PROVE  ExclusionInv'
    <2> DEFINE at == [r EXCEPT !.pc = "person", !.who = who,
                        !.i = IF a THEN IndexOf(who, c) ELSE 1, !.start = IF a THEN IndexOf(who, c) ELSE 1,
                        !.pre = IF a THEN IndexOf(who, c) ELSE 1,
                        !.person = IF a THEN c.person ELSE 0, !.after = IF a THEN c.after ELSE 0,
                        !.entries = IF Continued(r) THEN Previous(r).entries ELSE <<>>,
                        !.resolved = Decided(Previous(r).entries), !.built = Own,
                        !.seen = IF Continued(r) THEN Previous(r).seen ELSE {}]
    <2>1. run' = [at EXCEPT !.over = LeftOut(at, Previous(r)),
                            !.lists = (IF Continued(r) THEN Previous(r).lists ELSE {}) \cup {List(at)}]
      BY <1>3 DEF Listed
    <2>2. /\ DOMAIN at = DOMAIN run /\ at.pc = "person" /\ at.built = Own /\ at.copy = run.copy
          /\ at.kind = run.kind /\ at.mode = run.mode /\ at.key = run.key
          /\ at.entries = IF Continued(r) THEN Previous(r).entries ELSE <<>>
      BY <1>2, <1>3 DEF RunShape
    <2> HIDE DEF at
    <2>3. /\ DOMAIN run' = DOMAIN run /\ run'.pc = "person" /\ run'.built = Own /\ run'.copy = run.copy
          /\ run'.kind = run.kind /\ run'.mode = run.mode /\ run'.key = run.key /\ run'.entries = at.entries
      BY <2>1, <2>2, <1>2 DEF RunShape
    <2>4. run'.mode = "save_only" => run'.entries = <<>> BY <2>2, <2>3, <1>3 DEF Continued
    <2>5. Profiled(Own) BY <1>2, <1>3 DEF RunShape, ProfilesShape, Own
    <2>6. RunShape' BY <2>3, <1>2, <1>3 DEF RunShape
    <2>7. ProfilesShape' BY <1>1, <1>2, StoreStays
    <2>8. Shape' BY <2>3, <2>5, <2>6, <2>7, <1>1 DEF ExclusionInv, Shape, Profiled, RefsOf
    <2>9. OnlyReported' BY <2>4, EntriesEmpty DEF OnlyReported
    <2> QED BY <2>3, <2>8, <2>9, <1>1, <1>3, BesideStep DEF BuiltWithout, BuildKnows, Beside, Removing
  <1>4. CASE BeginBuild
    <2>1. PICK rebuild \in BOOLEAN :
            LET kept == IF rebuild THEN <<>> ELSE Own
            IN  run' = [run EXCEPT !.pc = "exclusions", !.built = kept,
                          !.who = Sorted(Known \ {x.person : x \in ToSet(kept)})]
      BY <1>4 DEF BeginBuild
    <2> DEFINE kept == IF rebuild THEN <<>> ELSE Own
    <2>2. run.pc = "begin" /\ run.key \in Key /\ UNCHANGED late BY <1>2, <1>4 DEF BeginBuild, RunShape
    <2>3. /\ RunShape' /\ run'.pc = "exclusions" /\ run'.built = kept /\ run'.kind = run.kind
          /\ run'.mode = run.mode /\ run'.entries = run.entries /\ run'.auto = run.auto
          /\ run'.key = run.key /\ run'.copy = run.copy
      BY <2>1, <2>2, <1>2 DEF RunShape
    <2>4. Profiled(kept) /\ RefsOf(kept) \subseteq RefsOf(profiles[run.key])
      BY <2>2, <1>2, ProfiledEmpty DEF ProfilesShape, Own
    <2> HIDE DEF kept
    <2>5. run.key = OutKey => Out \cap RefsOf(profiles[run.key]) \subseteq late \cup Deciding
      BY <2>2, NotYetExcluded DEF Removing
    <2>6. ProfilesShape' BY <1>1, <1>2, StoreStays
    <2>7. Shape' BY <2>3, <2>4, <2>6, <1>1 DEF ExclusionInv, Shape, Profiled, RefsOf
    <2>8. OnlyReported' BY <2>3 DEF ExclusionInv, OnlyReported
    <2>9. BuiltWithout' BY <2>2, <2>3, <2>4, <2>5, <1>1 DEF BuiltWithout, RefsOf
    <2> QED BY <2>2, <2>3, <2>7, <2>8, <2>9, <1>1, BesideStep DEF BuildKnows, Beside, Removing
  <1>5. CASE ReadExclusions
    <2>1. PICK exclude_outliers \in BOOLEAN :
            /\ run' = [run EXCEPT !.pc = "person", !.excluded = IF exclude_outliers THEN Out ELSE {}]
            /\ late' = IF exclude_outliers \/ run.key # OutKey THEN late ELSE late \cup Out
      BY <1>5 DEF ReadExclusions
    <2>2. run.pc = "exclusions" BY <1>5 DEF ReadExclusions
    <2>3. /\ RunShape' /\ run'.pc = "person" /\ run'.built = run.built /\ run'.kind = run.kind
          /\ run'.mode = run.mode /\ run'.entries = run.entries /\ run'.auto = run.auto
          /\ run'.key = run.key /\ run'.copy = run.copy
          /\ run'.excluded = IF exclude_outliers THEN Out ELSE {}
      BY <2>1, <2>2, <1>2 DEF RunShape
    <2>4. late \subseteq late' /\ (run.key = OutKey => Out \subseteq run'.excluded \cup late') BY <2>1, <2>3
    <2>5. ProfilesShape' BY <1>1, <1>2, StoreStays
    <2>6. Shape' BY <2>3, <2>5, <1>1 DEF ExclusionInv, Shape, Profiled, RefsOf
    <2>7. OnlyReported' BY <2>3 DEF ExclusionInv, OnlyReported
    <2>8. BuiltWithout' BY <2>2, <2>3, <2>4, <1>1 DEF ExclusionInv, BuiltWithout, RefsOf
    <2>9. BuildKnows' BY <2>3, <2>4, <1>1 DEF BuildKnows
    <2>10. ExcludedStaysOut' /\ RequestCopies'
      BY <2>2, <2>4, <1>1, NotYetExcluded DEF ExcludedStaysOut, RequestCopies, RefsOf, Removing
    <2>11. ScanCopies' BY <2>3 DEF ScanCopies
    <2> QED BY <2>6, <2>7, <2>8, <2>9, <2>10, <2>11 DEF ExclusionInv
  <1>6. CASE BeginOutliers BY <1>6, <1>3 DEF BeginOutliers
  <1>7. CASE BeginSuggest BY <1>7, <1>3 DEF BeginSuggest
  <1>8. CASE BeginAssign BY <1>8, <1>3 DEF BeginAssign
  <1>9. CASE NeedsProfiles
    <2>1. run' = NoRun /\ run.pc = "begin" /\ UNCHANGED late BY <1>9 DEF NeedsProfiles
    <2>2. /\ \A key \in Key : key = OutKey' => Out' \cap RefsOf(profiles'[key]) \subseteq late' \cup Deciding'
          /\ reviewer.step = "rewrite" /\ reviewer.key \in Key \cap {OutKey'} => Out' \cap RefsOf(reviewer.copy) \subseteq late'
      BY <2>1, <1>1, NotYetExcluded DEF Removing
    <2>3. DOMAIN stored' = Review /\ ProfilesShape' BY <1>1, <1>2, StoreStays DEF ExclusionInv, Shape
    <2> QED BY <2>1, <2>2, <2>3, <1>1, EndsStep
  <1> QED BY <1>4, <1>5, <1>6, <1>7, <1>8, <1>9 DEF Beginning

(* The scan has applied its exclusions, or found nothing to take out.        *)
LEMMA AppliedStep ==
  ASSUME ExclusionInv, run' = NoRun, UNCHANGED <<stored, reviewer>>, late' = late \cup (Applying \cap HeldByRequest),
         ProfilesShape', run.pc \in Removing,
         \A key \in Key : key # run.key => profiles'[key] = profiles[key],
         run.key = OutKey => Out \cap RefsOf(profiles'[run.key]) \subseteq late \cup Deciding
  PROVE  ExclusionInv'
  <1>1. Out' = Out /\ OutKey' = OutKey /\ Deciding' = Deciding BY DEF Out, OutKey, Deciding
  <1>2. run.key # OutKey => Applying = {} BY DEF Applying
  <1>3. ASSUME NEW key \in Key, key = OutKey PROVE Out \cap RefsOf(profiles'[key]) \subseteq late \cup Deciding
    <2>1. CASE key = run.key BY <1>3, <2>1
    <2>2. CASE key # run.key
      <3>1. Out \cap RefsOf(profiles[key]) \subseteq late \cup Deciding
        BY <1>2, <1>3, <2>2 DEF ExclusionInv, ExcludedStaysOut
      <3> QED BY <3>1, <2>2
    <2> QED BY <2>1, <2>2
  <1>4. ASSUME reviewer.step = "rewrite", reviewer.key \in Key \cap {OutKey}
        PROVE  Out \cap RefsOf(reviewer.copy) \subseteq late'
    <2>1. Out \cap RefsOf(reviewer.copy) \subseteq late \cup Applying BY <1>4 DEF ExclusionInv, RequestCopies
    <2>2. run.key = OutKey => HeldByRequest = RefsOf(reviewer.copy) BY <1>4 DEF HeldByRequest
    <2> QED BY <2>1, <2>2, <1>2
  <1>5. DOMAIN stored' = Review BY DEF ExclusionInv, Shape
  <1> QED BY <1>1, <1>3, <1>4, <1>5, EndsStep

LEMMA ApplyingSteps ==
  ASSUME ExclusionInv, ReadToExclude \/ ApplyExclusions, UNCHANGED reviewer
  PROVE  ExclusionInv'
  <1> DEFINE left == WithoutRefs(Own, EntryFaces(run.entries))
  <1>1. RunShape /\ ProfilesShape /\ Profiled(run.copy) /\ DOMAIN stored = Review BY DEF ExclusionInv, Shape
  <1>2. run.pc \in Removing /\ run.key \in Key BY <1>1 DEF ReadToExclude, ApplyExclusions, RunShape, Removing
  <1>3. Profiled(left) /\ RefsOf(left) \subseteq RefsOf(Own) \ EntryFaces(run.entries)
    BY <1>1, <1>2, ProfiledWithout DEF ProfilesShape, Own
  <1>4. run.key = OutKey => Out \cap RefsOf(left) \subseteq late \cup Deciding
    <2>1. Applying \subseteq EntryFaces(run.entries) BY DEF Applying
    <2>2. run.key = OutKey => Out \cap RefsOf(Own) \subseteq late \cup Applying \cup Deciding
      BY <1>2 DEF ExclusionInv, ExcludedStaysOut, Own
    <2> HIDE DEF left
    <2> QED BY <2>1, <2>2, <1>3
  <1> HIDE DEF left
  <1>5. CASE ApplyExclusions
    <2>1. /\ run.pc = "rewrite" /\ run' = NoRun /\ profiles' = [profiles EXCEPT ![run.key] = run.copy]
          /\ UNCHANGED stored /\ late' = late \cup (Applying \cap HeldByRequest)
      BY <1>5 DEF ApplyExclusions, Applied, Ends
    <2>2. ProfilesShape' /\ \A key \in Key : profiles'[key] = IF key = run.key THEN run.copy ELSE profiles[key]
      <3>1. PICK k, s : k = run.key /\ s = run.copy OBVIOUS
      <3>2. Profiled(s) BY <3>1, <1>1
      <3>3. profiles' = [profiles EXCEPT ![k] = s] BY <2>1, <3>1
      <3>4. ProfilesShape' /\ \A key \in Key : profiles'[key] = IF key = k THEN s ELSE profiles[key]
        BY <3>2, <3>3, <1>1, StoreWritten, ZenonT(60)
      <3> QED BY <3>1, <3>4
    <2>3. run.key = OutKey => Out \cap RefsOf(profiles'[run.key]) \subseteq late \cup Deciding
      BY <2>1, <2>2, <1>2 DEF ExclusionInv, ScanCopies
    <2> QED BY <2>1, <2>2, <2>3, <1>2, AppliedStep
  <1>6. CASE ReadToExclude /\ left = Own /\ Applied
    <2>1. run' = NoRun /\ UNCHANGED <<stored, profiles>> /\ late' = late \cup (Applying \cap HeldByRequest)
      BY <1>6 DEF ReadToExclude, Applied, Ends
    <2>2. profiles'[run.key] = left BY <2>1, <1>6 DEF Own
    <2>3. ProfilesShape' BY <2>1, <1>1, StoreStays
    <2> QED BY <2>1, <2>2, <2>3, <1>2, <1>4, AppliedStep
  <1>7. CASE ReadToExclude /\ run' = [run EXCEPT !.pc = "rewrite", !.copy = left] /\ UNCHANGED late
    <2>1. run.pc = "exclude" /\ Beside BY <1>7 DEF ReadToExclude, Beside
    <2>2. /\ RunShape' /\ run'.pc = "rewrite" /\ run'.copy = left /\ run'.kind = run.kind /\ run'.key = run.key
          /\ run'.mode = run.mode /\ run'.auto = run.auto /\ run'.built = run.built /\ run'.excluded = run.excluded
          /\ run'.entries = run.entries
      BY <1>1, <1>2, <1>7 DEF RunShape
    <2>3. Out' = Out /\ OutKey' = OutKey /\ Deciding' = Deciding BY <2>1, BesideOut
    <2>4. Applying' = Applying BY <2>1, <2>2, <2>3 DEF Applying, SavesExclusions, EntryFaces, Removing
    <2>5. ProfilesShape' BY <2>1, <1>1, StoreStays DEF Beside
    <2>6. Shape' BY <2>1, <2>2, <2>5, <1>3 DEF ExclusionInv, Shape, Beside, Profiled, RefsOf
    <2>7. OnlyReported' BY <2>2 DEF ExclusionInv, OnlyReported
    <2>8. BuiltWithout' /\ BuildKnows' BY <2>1, <2>2, <2>3 DEF ExclusionInv, BuiltWithout, BuildKnows, Beside
    <2>9. ScanCopies' BY <2>1, <2>2, <2>3, <1>4 DEF ScanCopies, Beside, RefsOf
    <2>10. RequestCopies' /\ ExcludedStaysOut'
      BY <2>1, <2>3, <2>4 DEF ExclusionInv, RequestCopies, ExcludedStaysOut, Beside
    <2> QED BY <2>6, <2>7, <2>8, <2>9, <2>10 DEF ExclusionInv
  <1> QED BY <1>5, <1>6, <1>7 DEF ReadToExclude, left

LEMMA ListingSteps == ASSUME ExclusionInv, Listing PROVE ExclusionInv'
  <1>1. UNCHANGED reviewer BY DEF Listing
  <1>2. RunShape /\ ProfilesShape /\ Profiled(run.built) /\ DOMAIN stored = Review BY DEF ExclusionInv, Shape
  <1>3. CASE Preload
    <2>1. Beside /\ run.pc = "person" /\ run' = [run EXCEPT !.pre = PreloadNext]
      BY <1>3, <1>1 DEF Preload, AtPerson, Beside
    <2>2. SameRun /\ run'.entries = run.entries /\ run'.pc = run.pc BY <2>1, <1>2 DEF SameRun, RunShape
    <2> QED BY <2>1, <2>2, QuietStep
  <1>4. CASE NextPerson
    <2>1. /\ Beside /\ run.pc = "person"
          /\ run' = [run EXCEPT !.pc = "image", !.at = 1, !.refs = {},
                        !.items = Sorted(Behind(ImagesOf(run.who[run.i]), AfterOf(run))),
                        !.over = @ \cup PassedOver(run)]
      BY <1>4, <1>1 DEF NextPerson, OpenPerson, AtPerson, Beside
    <2>2. SameRun /\ run'.entries = run.entries /\ run'.pc = "image" BY <2>1, <1>2 DEF SameRun, RunShape
    <2> QED BY <2>1, <2>2, QuietStep
  <1>5. CASE NextProfile
    <2>1. Beside /\ run.pc = "person" BY <1>5, <1>1 DEF NextProfile, AtPerson, Beside
    <2>2. SameRun /\ run'.entries = run.entries /\ run'.pc = "entry"
      BY <1>5, <1>2, <2>1 DEF NextProfile, SameRun, RunShape
    <2> QED BY <2>1, <2>2, QuietStep
  <1>6. CASE StopAtPerson
    <2>1. run.pc = "person" BY <1>6 DEF StopAtPerson, AtPerson
    <2>2. CASE run.kind = "build" BY <2>1, <2>2, <1>1, <1>6, StoppedBuildStep DEF StopAtPerson, Removing
    <2>3. CASE run.kind # "build" BY <2>1, <2>3, <1>1, <1>6, StoppedStep DEF StopAtPerson, Removing
    <2> QED BY <2>2, <2>3
  <1>7. CASE EndBuild BY <1>7, <1>1, StoppedBuildStep DEF EndBuild, Removing
  <1>8. CASE EndScan
    <2>1. /\ run.pc = "person" /\ run.kind # "build" /\ run.pc \notin Removing
          /\ WriteFindings(run, Plain(run)) /\ UNCHANGED <<profiles, late>>
      BY <1>8 DEF EndScan, Removing
    <2>2. Plain(run).entries = run.entries /\ Plain(run).key = run.key BY DEF Plain, NoPayload
    <2>3. /\ DOMAIN stored' = Review
          /\ run.kind = "outliers" /\ run.mode = "save_only" => Out' = Excluded(run.entries) /\ OutKey' = run.key
          /\ ~(run.kind = "outliers" /\ run.mode = "save_only") => Out' = Out /\ OutKey' = OutKey
      BY <2>1, <2>2, <1>2, Wrote DEF RunShape
    <2>4. ProfilesShape' BY <2>1, <1>2, StoreStays
    <2>5. Excluded(run.entries) \subseteq EntryFaces(run.entries) BY ExcludedAreEntries
    <2>6. Out' = Out /\ OutKey' = OutKey =>
            /\ Deciding' = Deciding
            /\ \A key \in Key : key = OutKey' => Out' \cap RefsOf(profiles'[key]) \subseteq late' \cup Deciding'
            /\ reviewer.step = "rewrite" /\ reviewer.key \in Key \cap {OutKey'} => Out' \cap RefsOf(reviewer.copy) \subseteq late'
      <3>1. Out' = Out /\ OutKey' = OutKey => Deciding' = Deciding BY <1>1 DEF Deciding
      <3> QED BY <3>1, <2>1, NotYetExcluded
    <2>7. CASE run.kind = "outliers" /\ run.auto
      <3>1. run' = [run EXCEPT !.pc = "exclude"] BY <1>8, <2>7 DEF EndScan
      <3>2. SameRun /\ run'.entries = run.entries /\ run'.pc = "exclude" BY <2>1, <3>1, <1>2 DEF SameRun, RunShape
      <3>3. \/ Out' \subseteq Applying'
            \/ Out' = Out /\ OutKey' = OutKey
        <4>1. CASE run.mode = "save_only"
          <5>1. SavesExclusions' /\ EntryFaces(run.entries)' = EntryFaces(run.entries)
            BY <4>1, <2>7, <3>2 DEF SavesExclusions, SameRun, EntryFaces
          <5>2. Applying' = EntryFaces(run.entries)
            BY <4>1, <5>1, <2>3, <2>7, <3>2 DEF Applying, Removing, SameRun
          <5> QED BY <4>1, <5>2, <2>3, <2>5, <2>7
        <4>2. CASE run.mode # "save_only" BY <4>2, <2>3
        <4> QED BY <4>1, <4>2
      <3>4. ExcludedStaysOut' BY <2>6, <3>3 DEF ExcludedStaysOut, RefsOf
      <3>5. RequestCopies' BY <2>6, <3>3, <1>1 DEF RequestCopies, RefsOf
      <3>6. Shape' BY <3>2, <2>3, <2>4, <1>1 DEF ExclusionInv, Shape, SameRun, Profiled, RefsOf
      <3>7. OnlyReported' BY <3>2 DEF ExclusionInv, OnlyReported, SameRun
      <3> QED BY <3>2, <3>4, <3>5, <3>6, <3>7, <2>1
          DEF ExclusionInv, BuiltWithout, BuildKnows, ScanCopies, SameRun
    <2>8. CASE ~(run.kind = "outliers" /\ run.auto)
      <3>1. run' = NoRun BY <1>8, <2>8 DEF EndScan, Ends
      <3>2. Out' = {} \/ (Out' = Out /\ OutKey' = OutKey) BY <2>3, <2>8 DEF ExclusionInv, OnlyReported
      <3> QED BY <3>1, <3>2, <2>3, <2>4, <2>6, <1>1, EndsStep
    <2> QED BY <2>7, <2>8
  <1>9. CASE ReadToExclude \/ ApplyExclusions BY <1>9, <1>1, ApplyingSteps
  <1> QED BY <1>3, <1>4, <1>5, <1>6, <1>7, <1>8, <1>9 DEF Listing

LEMMA ReadingSteps == ASSUME ExclusionInv, Reading PROVE ExclusionInv'
  <1> DEFINE Reads == {"image", "join", "read", "launch", "result", "match", "drain"}
  <1>1. Beside BY DEF Reading, Beside
  <1>2. RunShape BY DEF ExclusionInv, Shape
  <1>3. ASSUME NEW pc, pc \notin {"exclude", "rewrite"}, run.pc \in Reads, Goto(pc) PROVE ExclusionInv'
    <2>1. SameRun /\ run'.entries = run.entries /\ run'.pc = pc BY <1>2, <1>3 DEF Goto, SameRun, RunShape
    <2> QED BY <2>1, <1>1, <1>3, QuietStep
  <1>4. ASSUME run.pc \in Reads, ToMatch PROVE ExclusionInv'
    <2>1. SameRun /\ run'.entries = run.entries /\ run'.pc = "match" BY <1>2, <1>4 DEF ToMatch, SameRun, RunShape
    <2> QED BY <2>1, <1>1, <1>4, QuietStep
  <1>5. CASE LookAtImage
    <2>1. CASE NextAt
      <3>1. SameRun /\ run'.entries = run.entries /\ run'.pc = "image"
        BY <1>2, <1>5, <2>1 DEF LookAtImage, Looking, NextAt, SameRun, RunShape
      <3> QED BY <3>1, <1>1, <1>5, QuietStep DEF LookAtImage, Looking
    <2> QED BY <2>1, <1>5, <1>3 DEF LookAtImage, Looking
  <1>6. CASE JoinPrefetch BY <1>6, <1>3 DEF JoinPrefetch, Looking
  <1>7. CASE ReadImage
    <2>1. run.pc = "read" BY <1>7 DEF ReadImage, Looking
    <2>2. CASE run' = [run EXCEPT !.pc = "launch", !.window = Candidates(run.at), !.next = "result"]
      <3>1. SameRun /\ run'.entries = run.entries /\ run'.pc = "launch" BY <1>2, <2>1, <2>2 DEF SameRun, RunShape
      <3> QED BY <3>1, <2>1, <1>1, QuietStep
    <2>3. CASE run' = [run EXCEPT !.pc = "result", !.window = Candidates(run.at), !.next = "launch"]
      <3>1. SameRun /\ run'.entries = run.entries /\ run'.pc = "result" BY <1>2, <2>1, <2>3 DEF SameRun, RunShape
      <3> QED BY <3>1, <2>1, <1>1, QuietStep
    <2>4. CASE \E pc \in {"match", "drain"} : Goto(pc) BY <2>1, <2>4, <1>3
    <2>5. CASE ToMatch BY <2>1, <2>5, <1>4
    <2> QED BY <2>2, <2>3, <2>4, <2>5, <1>7 DEF ReadImage, ReadPreview
  <1>8. CASE LaunchPrefetch BY <1>8, <1>3, <1>4 DEF LaunchPrefetch, Looking
  <1>9. CASE ReadBatch BY <1>9, <1>3, <1>4 DEF ReadBatch, Result, ReadPreview, Looking
  <1>10. CASE MatchFaces
    <2>1. run.pc = "match" BY <1>10 DEF MatchFaces, Looking
    <2>2. CASE Goto("drain") BY <2>1, <2>2, <1>3
    <2>3. CASE ~Goto("drain")
      <3>1. SameRun /\ run'.entries = run.entries /\ run'.pc = "image"
        BY <1>2, <1>10, <2>1, <2>3 DEF MatchFaces, SameRun, RunShape
      <3> QED BY <3>1, <2>1, <1>1, QuietStep
    <2> QED BY <2>2, <2>3
  <1>11. CASE Drain BY <1>11, <1>3 DEF Drain, Looking
  <1> QED BY <1>5, <1>6, <1>7, <1>8, <1>9, <1>10, <1>11 DEF Reading

LEMMA JudgingSteps == ASSUME ExclusionInv, Judging PROVE ExclusionInv'
  <1>1. UNCHANGED reviewer BY DEF Judging
  <1>2. /\ RunShape /\ ProfilesShape /\ Profiled(run.built) /\ DOMAIN stored = Review
        /\ run.mode \in {"immediate", "save_only"}
    BY DEF ExclusionInv, Shape, RunShape
  <1>3. CASE BuildProfile
    <2>1. run.pc = "judge" /\ run.kind = "build" BY <1>3 DEF BuildProfile, Looking
    <2>2. CASE StoppedBuild BY <2>1, <2>2, <1>1, StoppedBuildStep DEF Removing
    <2>3. CASE ~StoppedBuild
      <3> DEFINE refs == run.refs \ run.excluded
                 x == [person |-> run.who[run.i], refs |-> refs]
                 built == IF refs = {} THEN run.built ELSE Append(run.built, x)
      <3>1. /\ profiles' = [profiles EXCEPT ![run.key] = built] /\ UNCHANGED <<stored, late>>
            /\ run' = [run EXCEPT !.pc = "person", !.i = @ + 1, !.built = built, !.items = <<>>, !.refs = {}]
        BY <1>3, <2>3 DEF BuildProfile
      <3>2. Profiled(built) /\ RefsOf(built) = RefsOf(run.built) \cup refs
        <4>1. CASE refs = {} BY <4>1, <1>2
        <4>2. CASE refs # {} BY <4>2, <1>2, ProfiledAppend
        <4> QED BY <4>1, <4>2
      <3> HIDE DEF built
      <3>3. /\ RunShape' /\ run'.pc = "person" /\ run'.built = built /\ run'.kind = run.kind
            /\ run'.mode = run.mode /\ run'.entries = run.entries /\ run'.auto = run.auto
            /\ run'.excluded = run.excluded /\ run'.key = run.key /\ run'.copy = run.copy
        BY <3>1, <2>1, <1>2 DEF RunShape
      <3>4. Out' = Out /\ OutKey' = OutKey /\ Deciding' = Deciding BY <3>1, <1>1 DEF Out, OutKey, Deciding
      <3>5. run.key = OutKey =>
              Out \subseteq run.excluded \cup late \cup Deciding /\ Out \cap RefsOf(run.built) \subseteq late \cup Deciding
        BY <2>1 DEF ExclusionInv, BuildKnows, BuiltWithout
      <3>6. run.key = OutKey => Out \cap RefsOf(built) \subseteq late \cup Deciding BY <3>2, <3>5
      <3>7. ProfilesShape' /\ \A key \in Key : profiles'[key] = IF key = run.key THEN built ELSE profiles[key]
        <4>1. PICK k, s : k = run.key /\ s = built OBVIOUS
        <4>2. Profiled(s) BY <4>1, <3>2
        <4>3. profiles' = [profiles EXCEPT ![k] = s] BY <3>1, <4>1
        <4>4. ProfilesShape' /\ \A key \in Key : profiles'[key] = IF key = k THEN s ELSE profiles[key]
          BY <4>2, <4>3, <1>2, StoreWritten, ZenonT(60)
        <4> QED BY <4>1, <4>4
      <3>8. Shape' BY <3>1, <3>2, <3>3, <3>7, <1>1 DEF ExclusionInv, Shape, Profiled, RefsOf
      <3>9. OnlyReported' BY <3>3 DEF ExclusionInv, OnlyReported
      <3>10. BuiltWithout' BY <3>1, <3>3, <3>4, <3>6 DEF BuiltWithout, RefsOf
      <3>11. BuildKnows' BY <3>1, <3>3, <3>4, <3>5 DEF BuildKnows
      <3>12. ASSUME NEW key \in Key, key = OutKey PROVE Out \cap RefsOf(profiles'[key]) \subseteq late \cup Deciding
        <4>1. CASE key = run.key BY <3>6, <3>7, <3>12, <4>1
        <4>2. CASE key # run.key BY <3>7, <3>12, <4>2, <2>1, NotYetExcluded DEF Removing
        <4> QED BY <4>1, <4>2
      <3>13. ExcludedStaysOut' BY <3>1, <3>4, <3>12 DEF ExcludedStaysOut, RefsOf
      <3>14. RequestCopies' BY <3>1, <3>4, <2>1, <1>1, NotYetExcluded DEF RequestCopies, RefsOf, Removing
      <3>15. ScanCopies' BY <3>3 DEF ScanCopies
      <3> QED BY <3>8, <3>9, <3>10, <3>11, <3>13, <3>14, <3>15 DEF ExclusionInv
    <2> QED BY <2>2, <2>3
  <1>4. CASE FindCandidates
    <2>1. run.pc = "judge" BY <1>4 DEF FindCandidates, Looking
    <2>2. CASE Stopped BY <2>1, <2>2, <1>1, StoppedStep DEF Removing
    <2>3. CASE ~Stopped
      <3>1. Beside /\ SameRun /\ run'.entries = run.entries /\ run'.pc = "entry"
        BY <1>1, <1>2, <1>4, <2>1, <2>3 DEF FindCandidates, SameRun, RunShape, Beside
      <3> QED BY <3>1, <2>1, QuietStep
    <2> QED BY <2>2, <2>3
  <1>5. CASE EndPerson
    <2>1. run.pc = "entry" /\ Beside BY <1>1, <1>5 DEF EndPerson, Looking, Beside
    <2>2. SameRun /\ run'.entries = run.entries /\ run'.pc = "person"
      BY <1>2, <1>5, <2>1 DEF EndPerson, NextOne, SameRun, RunShape
    <2> QED BY <2>1, <2>2, QuietStep
  <1>6. CASE StopAtEntry BY <1>6, <1>1, StoppedStep DEF StopAtEntry, Looking, Removing
  <1>7. CASE AddEntry
    <2>1. /\ run.pc = "entry" /\ Beside /\ (run.mode = "save_only" \/ Selected(run.rest[1]))
          /\ run' = [run EXCEPT !.entries = Added, !.rest = Tail(@)]
      BY <1>1, <1>7 DEF AddEntry, Looking, Beside
    <2>2. SameRun /\ run'.pc = "entry" /\ run'.entries = Added BY <2>1, <1>2 DEF SameRun, RunShape
    <2>3. Out' = Out /\ OutKey' = OutKey /\ Deciding' = Deciding BY <2>1, BesideOut
    <2>4. OnlyReported'
      <3> DEFINE e == [face |-> run.rest[1], st |-> IF Selected(run.rest[1]) THEN "selected" ELSE "review"]
      <3> SUFFICES ASSUME run.mode = "save_only"
                   PROVE  /\ Added \in Seq(ToSet(Added))
                          /\ run.kind = "outliers" /\ ~run.auto => Excluded(Added) = {}
        BY <2>2 DEF OnlyReported, SameRun
      <3>1. run.entries \in Seq(ToSet(run.entries))
        BY DEF ExclusionInv, OnlyReported
      <3>2. ~run.auto => e.st = "review" BY DEF Selected
      <3>3. Added = Append(run.entries, e) BY DEF Added
      <3> HIDE DEF e
      <3>4. Added \in Seq(ToSet(Added)) /\ ToSet(Added) = ToSet(run.entries) \cup {e} BY <3>1, <3>3, AppendToSet
      <3>5. ASSUME run.kind = "outliers", ~run.auto PROVE Excluded(Added) = {}
        <4>1. Excluded(run.entries) = {} BY <3>5 DEF ExclusionInv, OnlyReported
        <4> QED BY <4>1, <3>2, <3>4, <3>5 DEF Excluded
      <3> QED BY <3>4, <3>5
    <2>5. ProfilesShape' BY <2>1, <1>2, StoreStays DEF Beside
    <2>6. Shape' BY <2>1, <2>2, <2>5, <1>1, <1>2 DEF ExclusionInv, Shape, SameRun, Beside, Profiled, RefsOf
    <2>7. BuiltWithout' /\ BuildKnows'
      BY <2>1, <2>2, <2>3 DEF ExclusionInv, BuiltWithout, BuildKnows, SameRun, Beside
    <2> QED BY <2>1, <2>2, <2>4, <2>6, <2>7, BesideStep DEF Removing
  <1>8. CASE PauseForReview
    <2>1. run.pc = "entry" /\ run' = NoRun /\ UNCHANGED <<profiles, stored, late>>
      BY <1>8 DEF PauseForReview, Looking, Ends
    <2>2. Out' = Out /\ OutKey' = OutKey /\ Deciding' = Deciding BY <2>1, <1>1 DEF Out, OutKey, Deciding
    <2>3. DOMAIN stored' = Review /\ ProfilesShape' BY <2>1, <1>2, StoreStays
    <2>4. /\ \A key \in Key : key = OutKey' => Out' \cap RefsOf(profiles'[key]) \subseteq late' \cup Deciding'
          /\ reviewer.step = "rewrite" /\ reviewer.key \in Key \cap {OutKey'} => Out' \cap RefsOf(reviewer.copy) \subseteq late'
      BY <2>1, <2>2, NotYetExcluded DEF Removing
    <2> QED BY <2>1, <2>3, <2>4, <1>1, EndsStep
  <1> QED BY <1>3, <1>4, <1>5, <1>6, <1>7, <1>8 DEF Judging
-----------------------------------------------------------------------------
(* The steps of the other threads and of requests.                           *)
LEMMA BesideSteps ==
  ASSUME ExclusionInv, Beside, UNCHANGED run
  PROVE  ExclusionInv'
  <1>1. Out' = Out /\ OutKey' = OutKey /\ Deciding' = Deciding /\ Applying' = Applying
    BY BesideOut DEF Applying, SavesExclusions, OutKey, Beside
  <1>2. ProfilesShape' BY StoreStays DEF ExclusionInv, Shape, Beside
  <1>3. Shape' BY <1>2 DEF ExclusionInv, Shape, RunShape, Profiled, RefsOf, Beside
  <1>4. OnlyReported' BY DEF ExclusionInv, OnlyReported
  <1>5. BuiltWithout' /\ BuildKnows' /\ ScanCopies'
    BY <1>1 DEF ExclusionInv, BuiltWithout, BuildKnows, ScanCopies, Beside
  <1>6. RequestCopies' /\ ExcludedStaysOut' BY <1>1 DEF ExclusionInv, RequestCopies, ExcludedStaysOut, Beside
  <1> QED BY <1>3, <1>4, <1>5, <1>6 DEF ExclusionInv

LEMMA DecidingSteps ==
  ASSUME ExclusionInv, NEW k, NEW m \in {"immediate", "save_only"}, NEW f, NEW st, Take(k, m, f, st),
         reviewer.step = "none", UNCHANGED <<profiles, stored, late>>
  PROVE  ExclusionInv'
  <1>1. RunShape BY DEF ExclusionInv, Shape
  <1>2. /\ {"step", "face", "payload", "key", "copy"} \subseteq DOMAIN reviewer' /\ reviewer'.mode = m
        /\ reviewer'.step = "write" /\ reviewer'.copy = <<>>
    BY DEF Take
  <1>3. Out' = Out /\ OutKey' = OutKey /\ Deciding = {} /\ Deciding' = {} BY <1>2 DEF Out, OutKey, Deciding, Removing
  <1>4. SameRun /\ run'.pc = run.pc /\ (run.mode = "save_only" => run'.entries = run.entries)
    <2>1. CASE run' = run BY <2>1, <1>1 DEF SameRun, RunShape
    <2>2. CASE Continued(run) /\ run' = [run EXCEPT !.entries = Marked(@, f, st)]
      <3>1. SameRun /\ run'.pc = run.pc BY <2>2, <1>1 DEF SameRun, RunShape
      <3> QED BY <3>1, <2>2 DEF Continued
    <2> QED BY <2>1, <2>2 DEF Take, Shared
  <1>5. ProfilesShape' BY StoreStays DEF ExclusionInv, Shape
  <1>6. Shape' BY <1>2, <1>4, <1>5, ProfiledEmpty DEF ExclusionInv, Shape, SameRun, Profiled
  <1>7. OnlyReported' BY <1>4 DEF ExclusionInv, OnlyReported, SameRun
  <1>8. BuiltWithout' /\ BuildKnows' /\ ScanCopies'
    BY <1>3, <1>4 DEF ExclusionInv, BuiltWithout, BuildKnows, ScanCopies, SameRun
  <1>9. Applying' = Applying
    BY <1>3, <1>4 DEF Applying, SavesExclusions, SameRun, EntryFaces
  <1>10. ExcludedStaysOut' BY <1>3, <1>9 DEF ExclusionInv, ExcludedStaysOut
  <1>11. RequestCopies' BY <1>2 DEF RequestCopies
  <1> QED BY <1>6, <1>7, <1>8, <1>10, <1>11 DEF ExclusionInv

LEMMA WriteDecisionStep == ASSUME ExclusionInv, WriteDecision PROVE ExclusionInv'
  <1> DEFINE r == [mode |-> reviewer.mode, kind |-> reviewer.kind]
             F == IF Excludes THEN {reviewer.face} ELSE {}
  <1>1. /\ reviewer.step = "write" /\ WriteFindings(r, reviewer.payload)
        /\ reviewer' = [reviewer EXCEPT !.step = IF Excludes THEN "exclude" ELSE "sync",
                                        !.key = reviewer.payload.key, !.payload = NoPayload]
        /\ late' = late \cup BroughtBack /\ UNCHANGED <<profiles, run>>
    BY DEF WriteDecision
  <1>2. /\ DOMAIN stored = Review /\ r.mode \in {"immediate", "save_only"} /\ ProfilesShape
        /\ {"step", "face", "payload", "key", "copy"} \subseteq DOMAIN reviewer
    BY DEF ExclusionInv, Shape
  <1>3. /\ DOMAIN reviewer' = DOMAIN reviewer /\ reviewer'.face = reviewer.face
        /\ reviewer'.mode = reviewer.mode /\ reviewer'.step = IF Excludes THEN "exclude" ELSE "sync"
        /\ reviewer'.key = reviewer.payload.key /\ reviewer'.copy = reviewer.copy
    BY <1>1, <1>2
  <1>4. Deciding = {} /\ (OutKey' = reviewer.payload.key => Deciding' = F) BY <1>1, <1>3 DEF Deciding, Removing
  <1> HIDE DEF F
  <1>5. /\ DOMAIN stored' = Review
        /\ r.kind = "outliers" /\ r.mode = "save_only" =>
             Out' = Excluded(reviewer.payload.entries) /\ OutKey' = reviewer.payload.key
        /\ ~(r.kind = "outliers" /\ r.mode = "save_only") => Out' = Out /\ OutKey' = OutKey
    BY <1>1, <1>2, Wrote
  <1>6. \/ OutKey' = OutKey /\ Out' \subseteq Out \cup late' \cup Deciding'
        \/ Out' \subseteq late' \cup Deciding'
    <2>1. CASE r.kind = "outliers" /\ r.mode = "save_only"
      <3>1. BroughtBack =
              Excluded(reviewer.payload.entries) \ ((IF reviewer.payload.key = OutKey THEN Out ELSE {}) \cup F)
        BY <2>1 DEF BroughtBack, F
      <3>2. Deciding' = F BY <2>1, <1>4, <1>5
      <3> QED BY <3>1, <3>2, <2>1, <1>5, <1>1
    <2>2. CASE ~(r.kind = "outliers" /\ r.mode = "save_only") BY <2>2, <1>5
    <2> QED BY <2>1, <2>2
  <1>7. late \subseteq late' BY <1>1
  <1>8. ProfilesShape' BY <1>1, <1>2, StoreStays
  <1>9. Shape'
    <2>1. reviewer'.step # "rewrite" BY <1>3
    <2>2. Profiled(reviewer.copy)
      BY <1>1 DEF ExclusionInv, Shape
    <2> QED BY <2>1, <2>2, <1>1, <1>2, <1>3, <1>5, <1>8 DEF ExclusionInv, Shape, RunShape, Profiled
  <1>10. OnlyReported' BY <1>1 DEF ExclusionInv, OnlyReported
  <1>11. BuiltWithout' /\ BuildKnows' /\ ScanCopies'
    BY <1>1, <1>4, <1>6, <1>7 DEF ExclusionInv, BuiltWithout, BuildKnows, ScanCopies, RefsOf
  <1>12. OutKey' = OutKey => Applying' = Applying BY <1>1 DEF Applying, SavesExclusions
  <1>13. ExcludedStaysOut'
    BY <1>1, <1>4, <1>6, <1>7, <1>12 DEF ExclusionInv, ExcludedStaysOut, RefsOf
  <1>14. RequestCopies' BY <1>3 DEF RequestCopies
  <1> QED BY <1>9, <1>10, <1>11, <1>13, <1>14 DEF ExclusionInv

(* The request has taken the face out, or found it in no profile.            *)
LEMMA CarriedStep ==
  ASSUME ExclusionInv, Carried, reviewer.step \in Removing, UNCHANGED <<stored, run>>, ProfilesShape',
         \A key \in Key : key # reviewer.key => profiles'[key] = profiles[key],
         reviewer.key \in Key \cap {OutKey} =>
           Out \cap RefsOf(profiles'[reviewer.key]) \subseteq (late \cup Applying) \ {reviewer.face}
  PROVE  ExclusionInv'
  <1> DEFINE f == reviewer.face
  <1>1. /\ {"step", "face", "payload", "key", "copy"} \subseteq DOMAIN reviewer
        /\ reviewer.mode \in {"immediate", "save_only"} /\ DOMAIN stored = Review
    BY DEF ExclusionInv, Shape
  <1>2. /\ DOMAIN reviewer' = DOMAIN reviewer /\ reviewer'.mode = reviewer.mode /\ reviewer'.step = "sync"
        /\ reviewer'.copy = <<>>
    BY <1>1 DEF Carried
  <1>3. Out' = Out /\ OutKey' = OutKey /\ Applying' = Applying /\ Deciding' = {}
    BY <1>2 DEF Out, OutKey, Applying, SavesExclusions, Deciding, Removing
  <1>4. /\ late \ Deciding \subseteq late' /\ \A g \in Deciding : Undone(g) => g \in late'
        /\ Deciding = IF reviewer.key = OutKey THEN {f} ELSE {}
    BY DEF Carried, Deciding
  <1> HIDE DEF f
  <1>5. Shape' BY <1>1, <1>2, ProfiledEmpty DEF ExclusionInv, Shape, RunShape, Profiled
  <1>6. OnlyReported' BY DEF ExclusionInv, OnlyReported
  <1>7. BuiltWithout'
    <2> SUFFICES ASSUME run.kind = "build", run.pc \notin {"none", "begin"}, run.key = OutKey
                 PROVE  Out \cap RefsOf(run.built) \subseteq late'
      BY <1>3 DEF BuiltWithout, RefsOf
    <2>1. Out \cap RefsOf(run.built) \subseteq late \cup Deciding BY DEF ExclusionInv, BuiltWithout
    <2>2. \A g \in Deciding : g \in RefsOf(run.built) => Undone(g) BY <1>4 DEF Undone
    <2> QED BY <2>1, <2>2, <1>4
  <1>8. BuildKnows'
    <2> SUFFICES ASSUME run.kind = "build", run.pc \notin {"none", "begin", "exclusions"}, run.key = OutKey
                 PROVE  Out \subseteq run.excluded \cup late'
      BY <1>3 DEF BuildKnows
    <2>1. Out \subseteq run.excluded \cup late \cup Deciding BY DEF ExclusionInv, BuildKnows
    <2>2. \A g \in Deciding : g \notin run.excluded => Undone(g) BY <1>4 DEF Undone
    <2> QED BY <2>1, <2>2, <1>4
  <1>9. ScanCopies'
    <2> SUFFICES ASSUME run.pc = "rewrite", run.key = OutKey PROVE Out \cap RefsOf(run.copy) \subseteq late'
      BY <1>3 DEF ScanCopies, RefsOf
    <2>1. Out \cap RefsOf(run.copy) \subseteq late \cup Deciding BY DEF ExclusionInv, ScanCopies
    <2>2. \A g \in Deciding : g \in RefsOf(run.copy) => Undone(g) BY <1>4 DEF Undone
    <2> QED BY <2>1, <2>2, <1>4
  <1>10. ASSUME NEW key \in Key, key = OutKey PROVE Out \cap RefsOf(profiles'[key]) \subseteq late' \cup Applying
    <2>1. CASE key = reviewer.key BY <2>1, <1>4, <1>10 DEF f
    <2>2. CASE key # reviewer.key
      <3>1. Deciding = {} /\ late \subseteq late' BY <2>2, <1>4, <1>10
      <3> QED BY <3>1, <2>2, <1>10 DEF ExclusionInv, ExcludedStaysOut
    <2> QED BY <2>1, <2>2
  <1>11. ExcludedStaysOut' BY <1>3, <1>10 DEF ExcludedStaysOut, RefsOf
  <1>12. RequestCopies' BY <1>2 DEF RequestCopies
  <1> QED BY <1>5, <1>6, <1>7, <1>8, <1>9, <1>11, <1>12 DEF ExclusionInv

LEMMA ReadForDecisionStep == ASSUME ExclusionInv, ReadForDecision PROVE ExclusionInv'
  <1> DEFINE left == WithoutRefs(profiles[reviewer.key], {reviewer.face})
  <1>1. reviewer.step = "exclude" /\ UNCHANGED <<profiles, stored, run>> BY DEF ReadForDecision
  <1>2. /\ {"step", "face", "payload", "key", "copy"} \subseteq DOMAIN reviewer /\ ProfilesShape
        /\ reviewer.mode \in {"immediate", "save_only"}
    BY DEF ExclusionInv, Shape
  <1>3. reviewer.key \in Key =>
          Profiled(left) /\ RefsOf(left) \subseteq RefsOf(profiles[reviewer.key]) \ {reviewer.face}
    BY <1>2, ProfiledWithout DEF ProfilesShape
  <1> HIDE DEF left
  <1>4. Deciding = IF reviewer.key = OutKey THEN {reviewer.face} ELSE {} BY <1>1 DEF Deciding, Removing
  <1>5. reviewer.key \in Key \cap {OutKey} => Out \cap RefsOf(left) \subseteq (late \cup Applying) \ {reviewer.face}
    BY <1>3, <1>4 DEF ExclusionInv, ExcludedStaysOut
  <1>6. ProfilesShape' BY <1>1, <1>2, StoreStays
  <1>7. CASE left = profiles[reviewer.key] /\ Carried
    <2>1. reviewer.key \in Key \cap {OutKey} =>
            Out \cap RefsOf(profiles'[reviewer.key]) \subseteq (late \cup Applying) \ {reviewer.face}
      BY <1>1, <1>5, <1>7
    <2> QED BY <1>1, <1>6, <1>7, <2>1, CarriedStep DEF Removing
  <1>8. CASE reviewer' = [reviewer EXCEPT !.step = "rewrite", !.copy = left] /\ UNCHANGED late
    <2>1. /\ DOMAIN reviewer' = DOMAIN reviewer /\ reviewer'.mode = reviewer.mode /\ reviewer'.step = "rewrite"
          /\ reviewer'.copy = left /\ reviewer'.key = reviewer.key /\ reviewer'.face = reviewer.face
      BY <1>2, <1>8
    <2>2. Out' = Out /\ OutKey' = OutKey /\ Applying' = Applying /\ Deciding' = Deciding
      BY <1>1, <2>1 DEF Out, OutKey, Applying, SavesExclusions, Deciding, Removing
    <2>3. Shape' BY <1>1, <1>2, <1>3, <1>6, <2>1 DEF ExclusionInv, Shape, RunShape, Profiled, RefsOf
    <2>4. OnlyReported' BY <1>1 DEF ExclusionInv, OnlyReported
    <2>5. BuiltWithout' /\ BuildKnows' /\ ScanCopies'
      BY <1>1, <1>8, <2>2 DEF ExclusionInv, BuiltWithout, BuildKnows, ScanCopies, RefsOf
    <2>6. ExcludedStaysOut' BY <1>1, <1>8, <2>2 DEF ExclusionInv, ExcludedStaysOut, RefsOf
    <2>7. RequestCopies' BY <1>5, <1>8, <2>1, <2>2 DEF RequestCopies, RefsOf
    <2> QED BY <2>3, <2>4, <2>5, <2>6, <2>7 DEF ExclusionInv
  <1> QED BY <1>7, <1>8 DEF ReadForDecision, left

LEMMA ExcludeStep == ASSUME ExclusionInv, Exclude PROVE ExclusionInv'
  <1>1. /\ reviewer.step = "rewrite" /\ profiles' = [profiles EXCEPT ![reviewer.key] = reviewer.copy]
        /\ Carried /\ UNCHANGED <<stored, run>>
    BY DEF Exclude
  <1>2. ProfilesShape' /\ \A key \in Key : profiles'[key] = IF key = reviewer.key THEN reviewer.copy ELSE profiles[key]
    <2>1. PICK k, s : k = reviewer.key /\ s = reviewer.copy OBVIOUS
    <2>2. ProfilesShape /\ (k \in Key => Profiled(s)) BY <2>1 DEF ExclusionInv, Shape
    <2>3. profiles' = [profiles EXCEPT ![k] = s] BY <1>1, <2>1
    <2>4. ProfilesShape' /\ \A key \in Key : profiles'[key] = IF key = k THEN s ELSE profiles[key]
      BY <2>2, <2>3, StoreWritten, ZenonT(60)
    <2> QED BY <2>1, <2>4
  <1>3. reviewer.key \in Key \cap {OutKey} =>
          Out \cap RefsOf(profiles'[reviewer.key]) \subseteq (late \cup Applying) \ {reviewer.face}
    BY <1>1, <1>2 DEF ExclusionInv, Shape, RequestCopies
  <1> QED BY <1>1, <1>2, <1>3, CarriedStep DEF Removing

LEMMA RequestEndsStep ==
  ASSUME ExclusionInv, reviewer' = Idle, UNCHANGED <<profiles, stored, run>>, late' = late \cup Deciding
  PROVE  ExclusionInv'
  <1>1. Out' = Out /\ OutKey' = OutKey /\ Applying' = Applying /\ Deciding' = {}
    BY DEF Out, OutKey, Applying, SavesExclusions, Deciding, Removing, Idle
  <1>2. ProfilesShape' BY StoreStays DEF ExclusionInv, Shape
  <1>3. Shape' BY <1>2, ProfiledEmpty DEF ExclusionInv, Shape, RunShape, Profiled, Idle
  <1>4. OnlyReported' BY DEF ExclusionInv, OnlyReported
  <1>5. BuiltWithout' /\ BuildKnows' /\ ScanCopies'
    BY <1>1 DEF ExclusionInv, BuiltWithout, BuildKnows, ScanCopies, RefsOf
  <1>6. ExcludedStaysOut' BY <1>1 DEF ExclusionInv, ExcludedStaysOut, RefsOf
  <1>7. RequestCopies' BY DEF RequestCopies, Idle
  <1> QED BY <1>3, <1>4, <1>5, <1>6, <1>7 DEF ExclusionInv

LEMMA ReviewingSteps == ASSUME ExclusionInv, Reviewing PROVE ExclusionInv'
  <1>1. CASE \E k \in Review, m \in {"immediate", "save_only"}, f \in Face :
               (Decide(k, m, f) \/ Apply(k, m, f)) /\ UNCHANGED <<profiles, stored, late, running>>
    BY <1>1, DecidingSteps DEF Decide, Apply
  <1>2. CASE WriteDecision BY <1>2, WriteDecisionStep
  <1>3. CASE ReadForDecision BY <1>3, ReadForDecisionStep
  <1>4. CASE Exclude BY <1>4, ExcludeStep
  <1>5. CASE DecisionFails BY <1>5, RequestEndsStep DEF DecisionFails
  <1>6. CASE Sync
    <2>1. Deciding = {} BY <1>6 DEF Sync, Deciding, Removing
    <2> QED BY <1>6, <2>1, RequestEndsStep DEF Sync
  <1> QED BY <1>1, <1>2, <1>3, <1>4, <1>5, <1>6 DEF Reviewing
-----------------------------------------------------------------------------
LEMMA ExclusionSteps == ASSUME ExclusionInv, [Next]_vars PROVE ExclusionInv'
  <1>1. CASE \E k \in Review \cup {"build"}, key \in Key, m \in {"immediate", "save_only"}, resume, auto \in BOOLEAN :
               Start(k, key, m, resume, auto)
    BY <1>1, StartSteps
  <1>2. CASE Raise BY <1>2, RaiseStep
  <1>3. CASE Scanning BY <1>3, BeginningSteps, ListingSteps, ReadingSteps, JudgingSteps DEF Scanning
  <1>4. CASE Reviewing BY <1>4, ReviewingSteps
  <1>5. CASE RequestStop \/ Prefetched \/ (\E o \in orphans : OrphanEnds(o)) \/ ResetCache
    BY <1>5, BesideSteps DEF RequestStop, Prefetched, OrphanEnds, ResetCache, Beside
  <1>6. CASE UNCHANGED vars BY <1>6, BesideSteps DEF vars, Beside
  <1> QED BY <1>1, <1>2, <1>3, <1>4, <1>5, <1>6 DEF Next

(* A face the stored list excludes is in no profile of the key that list was *)
(* found under, but for what its named exceptions name: whichever builds,    *)
(* with exclusions or without, and scans of any key run, fail or are         *)
(* stopped, and whatever one request after the other decides meanwhile.  A   *)
(* build that excludes outliers leaves out what was excluded when it looked  *)
(* (_excluded_outlier_face_ids, face_recognition_service.py); an exclusion   *)
(* that comes later is taken out of profiles read before                     *)
(* (_apply_exclusions_to_profiles) and written behind, so what others have   *)
(* read meanwhile is followed through both.                                  *)
THEOREM ExcludedFacesStayOut == Spec => []ExcludedStaysOut
  <1>1. Init => ExclusionInv BY InitStarts
  <1>2. ExclusionInv /\ [Next]_vars => ExclusionInv' BY ExclusionSteps
  <1>3. ExclusionInv => ExcludedStaysOut BY DEF ExclusionInv
  <1> QED BY <1>1, <1>2, <1>3, PTL DEF Spec
-----------------------------------------------------------------------------
(* Every set of numbers has a least one, and a bounded one a greatest.       *)
LEMMA Least ==
  ASSUME NEW T, T \subseteq Nat, T # {}
  PROVE  \E x \in T : \A y \in T : x <= y
  <1> DEFINE R == OpToRel(<, Nat)
  <1>1. IsWellFoundedOn(R, Nat) BY NatLessThanWellFounded
  <1>2. \A x, y \in Nat : y < x => <<y, x>> \in R BY DEF OpToRel
  <1> HIDE DEF R
  <1>3. PICK x \in T : \A y \in T : ~(<<y, x>> \in R) BY <1>1, WFMin
  <1>4. \A y \in T : x <= y
    <2> TAKE y \in T
    <2>1. x \in Nat /\ y \in Nat OBVIOUS
    <2>2. ~(y < x) BY <2>1, <1>2, <1>3
    <2> QED BY <2>1, <2>2
  <1> QED BY <1>4

LEMMA Greatest ==
  ASSUME NEW T, NEW n \in Nat, T \subseteq 1 .. n, T # {}
  PROVE  \E x \in T : \A y \in T : x >= y
  <1> DEFINE U == {n - y : y \in T}
  <1>1. U \subseteq Nat /\ U # {}
    <2>1. \A y \in T : y \in 1 .. n OBVIOUS
    <2>2. \A y \in T : n - y \in Nat BY <2>1
    <2> QED BY <2>2
  <1>2. PICK u \in U : \A v \in U : u <= v
    <2> HIDE DEF U
    <2> QED BY <1>1, Least
  <1>3. PICK x \in T : u = n - x OBVIOUS
  <1>4. \A y \in T : x >= y
    <2> TAKE y \in T
    <2>1. n - x <= n - y BY <1>2, <1>3
    <2> QED BY <2>1
  <1> QED BY <1>4

(* Sorted(S) holds every element of S once, in ascending order.              *)
Ascending(s) == \A a, b \in DOMAIN s : a < b => s[a] < s[b]
LEMMA SortedAscends ==
  ASSUME NEW S, IsFiniteSet(S), S \subseteq Nat
  PROVE  Sorted(S) \in Seq(S) /\ ToSet(Sorted(S)) = S /\ Ascending(Sorted(S))
  <1> DEFINE Below(x) == {y \in S : y < x}
             N == Cardinality(S)
             t == Sorted(S)
  <1>0. \A x \in S : x \in Nat OBVIOUS
  <1>1. N \in Nat BY FS_CardinalityType
  <1>2. \A x \in S : /\ IsFiniteSet(Below(x)) /\ Cardinality(Below(x)) \in Nat
                     /\ Cardinality(Below(x)) < N
    <2> TAKE x \in S
    <2>1. IsFiniteSet(Below(x)) /\ Cardinality(Below(x)) <= N /\ (N = Cardinality(Below(x)) => S = Below(x))
      BY FS_Subset
    <2>2. S # Below(x) OBVIOUS
    <2>3. Cardinality(Below(x)) \in Nat BY <2>1, FS_CardinalityType
    <2> QED BY <2>1, <2>2, <2>3, <1>1
  <1>3. \A x, y \in S : x < y => Cardinality(Below(x)) < Cardinality(Below(y))
    <2> SUFFICES ASSUME NEW x \in S, NEW y \in S, x < y
                 PROVE  Cardinality(Below(x)) < Cardinality(Below(y))
      OBVIOUS
    <2>1. Below(x) \in SUBSET Below(y)
      <3> SUFFICES ASSUME NEW z \in S, z < x PROVE z < y OBVIOUS
      <3>1. x \in Nat /\ y \in Nat /\ z \in Nat BY <1>0
      <3> QED BY <3>1
    <2>2. Below(x) # Below(y) OBVIOUS
    <2>3. /\ Cardinality(Below(x)) \in Nat /\ Cardinality(Below(y)) \in Nat /\ IsFiniteSet(Below(y))
      BY <1>2
    <2> HIDE DEF Below
    <2>4. Cardinality(Below(x)) <= Cardinality(Below(y)) /\ Cardinality(Below(x)) # Cardinality(Below(y))
      BY <2>1, <2>2, <2>3, FS_Subset
    <2> QED BY <2>3, <2>4
  <1>4. \A n \in 1 .. N : \E x \in S : Cardinality(Below(x)) = n - 1
    <2> DEFINE Bad == {n \in 1 .. N : \A x \in S : Cardinality(Below(x)) # n - 1}
    <2> SUFFICES ASSUME Bad # {} PROVE FALSE
      BY <1>1
    <2>1. Bad \subseteq Nat BY <1>1
    <2>2. PICK n \in Bad : \A k \in Bad : n <= k
      <3> HIDE DEF Bad
      <3> QED BY <2>1, Least
    <2>3. n \in 1 .. N OBVIOUS
    <2>4. CASE n = 1
      <3>1. S # {} BY <2>3, <1>1, FS_EmptySet
      <3>2. PICK x \in S : \A y \in S : x <= y BY <3>1, Least
      <3>3. Below(x) = {}
        <4> SUFFICES ASSUME NEW y \in S, y < x PROVE FALSE OBVIOUS
        <4>1. x \in Nat /\ y \in Nat /\ x <= y BY <1>0, <3>2
        <4> QED BY <4>1
      <3>4. Cardinality(Below(x)) = n - 1
        <4> HIDE DEF Below
        <4> QED BY <3>3, <2>4, FS_EmptySet
      <3> QED BY <3>4
    <2>5. CASE n # 1
      <3>1. n - 1 \in 1 .. N /\ n - 1 \notin Bad BY <2>2, <2>3, <2>5, <1>1
      <3>2. PICK x \in S : Cardinality(Below(x)) = n - 2
        <4>1. \E x \in S : Cardinality(Below(x)) = (n - 1) - 1 BY <3>1
        <4> QED BY <4>1, <2>3
      <3> DEFINE Up == {y \in S : y > x}
                 Down == Below(x) \cup {x}
      <3>3. IsFiniteSet(Down) /\ Cardinality(Down) = n - 1
        <4>1. x \notin Below(x) OBVIOUS
        <4>2. Cardinality(Below(x)) + 1 = n - 1 BY <3>2, <2>3
        <4> HIDE DEF Below
        <4> QED BY <4>1, <4>2, <1>2, FS_AddElement
      <3>4. S = Down \cup Up
        <4>1. \A y \in S : y < x \/ y = x \/ y > x BY <1>0
        <4> QED BY <4>1
      <3>5. Up # {}
        <4> SUFFICES ASSUME Up = {} PROVE FALSE OBVIOUS
        <4>1. S = Down BY <3>4
        <4>2. Cardinality(S) = n - 1 BY <4>1, <3>3
        <4> QED BY <4>2, <2>3, <1>1
      <3>6. PICK z \in Up : \A y \in Up : z <= y
        <4>1. Up \subseteq Nat OBVIOUS
        <4> HIDE DEF Up
        <4> QED BY <4>1, <3>5, Least
      <3>7. Below(z) = Down
        <4>1. z \in S /\ z > x OBVIOUS
        <4>2. \A y \in S : y < z => y = x \/ y < x
          <5> SUFFICES ASSUME NEW y \in S, y < z, ~(y = x \/ y < x) PROVE FALSE OBVIOUS
          <5>1. y \in Up BY <4>1
          <5> QED BY <5>1, <3>6, <4>1
        <4>3. \A y \in S : y = x \/ y < x => y < z BY <4>1
        <4> QED BY <4>2, <4>3
      <3>8. z \in S /\ Cardinality(Below(z)) = n - 1
        <4>1. z \in S OBVIOUS
        <4> HIDE DEF Below, Down
        <4> QED BY <4>1, <3>3, <3>7
      <3> QED BY <3>8, <2>2
    <2> QED BY <2>4, <2>5
  <1> HIDE DEF Below
  <1>5. t = [n \in 1 .. N |-> CHOOSE x \in S : Cardinality(Below(x)) = n - 1] BY DEF Sorted, Below
  <1> HIDE DEF t
  <1>6. \A n \in 1 .. N : t[n] \in S /\ Cardinality(Below(t[n])) = n - 1 BY <1>4, <1>5
  <1>7. t \in Seq(S) /\ DOMAIN t = 1 .. N
    <2>1. t \in [1 .. N -> S] BY <1>5, <1>6
    <2> QED BY <2>1, <1>1
  <1>8. S \subseteq ToSet(t)
    <2> SUFFICES ASSUME NEW x \in S PROVE \E n \in DOMAIN t : t[n] = x
      BY DEF ToSet
    <2> DEFINE n == Cardinality(Below(x)) + 1
    <2>1. n \in 1 .. N /\ n - 1 = Cardinality(Below(x)) BY <1>1, <1>2
    <2> HIDE DEF n
    <2>2. t[n] \in S /\ Cardinality(Below(t[n])) = Cardinality(Below(x)) BY <2>1, <1>6
    <2>3. Cardinality(Below(x)) \in Nat BY <1>2
    <2>4. ~(t[n] < x) /\ ~(x < t[n])
      <3> DEFINE c == Cardinality(Below(x))
                 d == Cardinality(Below(t[n]))
      <3>1. (t[n] < x => d < c) /\ (x < t[n] => c < d) BY <2>2, <1>3
      <3> HIDE DEF c, d
      <3> QED BY <3>1, <2>2, <2>3 DEF c, d
    <2>5. t[n] \in Nat /\ x \in Nat BY <2>2
    <2>6. t[n] = x BY <2>4, <2>5
    <2> QED BY <2>1, <2>6, <1>7
  <1>9. Ascending(t)
    <2> SUFFICES ASSUME NEW a \in 1 .. N, NEW b \in 1 .. N, a < b PROVE t[a] < t[b]
      BY <1>7 DEF Ascending
    <2>1. t[a] \in S /\ t[b] \in S /\ Cardinality(Below(t[a])) = a - 1 /\ Cardinality(Below(t[b])) = b - 1 BY <1>6
    <2>2. t[a] \in Nat /\ t[b] \in Nat BY <2>1
    <2>3. ~(t[b] < t[a])
      <3>1. t[b] < t[a] => Cardinality(Below(t[b])) < Cardinality(Below(t[a])) BY <2>1, <1>3
      <3> QED BY <3>1, <2>1
    <2>4. t[a] # t[b] BY <2>1
    <2> QED BY <2>2, <2>3, <2>4
  <1> QED BY <1>6, <1>7, <1>8, <1>9 DEF ToSet, t
-----------------------------------------------------------------------------
(* What a place in a list names: a reference, or an image.                   *)
Mark(k, f) == IF k = "outliers" THEN f ELSE ImageOf[f]
PersonAt(k, list, j) == IF k = "outliers" THEN list[j].person ELSE list[j]
Missing(k) == IF k = "outliers" THEN {} ELSE {f \in Face : ImageOf[f] \in Absent}
Covered == FoundSoFar \cup run.over \cup Missing(run.kind)
CoveredBy(k, c) == EntryFaces(c.entries) \cup c.over \cup Missing(k)
Entries(s) == s \in Seq([face : Face, st : State])

(* A list of findings: what its scans have passed is covered, the place to   *)
(* go on at is that of an entry, and if they all went through one list, they *)
(* have passed whoever is in front of the place or of an entry's person, and *)
(* covered whatever of that person is in front of the entry.                 *)
PayloadOK(k, c) ==
  /\ DOMAIN c = DOMAIN NoPayload
  /\ Entries(c.entries) /\ c.start \in Nat \ {0}
  /\ c.seen \subseteq CoveredBy(k, c)
  /\ c.lists = {} => EntryFaces(c.entries) = {}
  /\ \/ c.person = 0 /\ c.after = 0
     \/ \E g \in EntryFaces(c.entries) : c.person = PersonOf[g] /\ c.after = Mark(k, g)
  /\ \A list \in c.lists : c.lists = {list} =>
       \A j \in DOMAIN list :
         /\ j < c.start => Sought(k, list, j) \subseteq c.seen
         /\ \A g \in EntryFaces(c.entries) : PersonAt(k, list, j) = PersonOf[g] =>
              /\ \A n \in DOMAIN list : n < j => Sought(k, list, n) \subseteq c.seen
              /\ FrontOf(k, list, j, Mark(k, g)) \subseteq CoveredBy(k, c)

(* Profiles are of different persons and hold faces of their person.         *)
ProfilesOK(s) ==
  /\ s \in Seq([person : Nat, refs : SUBSET Face])
  /\ \A n \in DOMAIN s : \A f \in s[n].refs : PersonOf[f] = s[n].person
  /\ \A m, n \in DOMAIN s : s[m].person = s[n].person => m = n

StoreOK == DOMAIN profiles = Key /\ \A key \in Key : ProfilesOK(profiles[key])

(* The same of the scan.                                                     *)
SoughtHere == Sought(run.kind, List(run), run.i)
ListOK ==
  /\ run.who \in Seq(Nat) /\ run.i \in Nat \ {0} /\ (\A a, b \in DOMAIN run.who : run.who[a] = run.who[b] => a = b)
  /\ run.kind \in Review \cup {"build"}
  /\ ProfilesOK(run.built) /\ ProfilesOK(run.copy) /\ (run.pc # "none" => run.key \in Key)
  /\ run.kind = "outliers" =>
       /\ DOMAIN run.built = DOMAIN run.who /\ \A j \in DOMAIN run.who : run.who[j] = run.built[j].person
       /\ run.after # 0 => run.after \in Face /\ run.person = PersonOf[run.after]
  /\ run.kind = "build" =>
       /\ run.after = 0
       /\ \A n \in DOMAIN run.built, j \in DOMAIN run.who : j >= run.i => run.built[n].person # run.who[j]
  /\ run.pc = "exclusions" => run.kind = "build"
  /\ run.pc \in {"begin", "exclusions"} => run.i = 1 /\ run.seen = {} /\ run.after = 0
  /\ run.kind # "build" /\ run.pc \notin {"none", "begin"} => List(run) \in run.lists
CoverOK ==
  /\ Entries(run.entries)
  /\ Seen(run) \subseteq Covered
  /\ \A j \in DOMAIN run.who : run.who[j] = run.person => FrontOf(run.kind, List(run), j, run.after) \subseteq Covered
  /\ run.kind # "build" /\ run.lists = {List(run)} =>
       \A g \in EntryFaces(run.entries), j \in DOMAIN run.who : run.who[j] = PersonOf[g] =>
         /\ j <= run.i \/ \A n \in DOMAIN run.who : n < j => Sought(run.kind, List(run), n) \subseteq run.seen
         /\ FrontOf(run.kind, List(run), j, Mark(run.kind, g)) \subseteq Covered

(* The images of a person: those behind the present one are still to come.   *)
Reads == {"image", "join", "read", "launch", "result", "match", "drain", "judge"}
AtHand == cache[Here] = "read" \/ Here \in unread \/ Stopping
ReadBase ==
  /\ run.kind # "outliers" /\ run.i \in DOMAIN run.who
  /\ run.at \in Nat \ {0} /\ run.items \in Seq(Image) /\ Ascending(run.items)
  /\ \A f \in SoughtHere : f \in Covered \cup run.refs \/ \E n \in DOMAIN run.items : n >= run.at /\ run.items[n] = ImageOf[f]
  /\ \A f \in run.refs : /\ f \in Face /\ PersonOf[f] = run.who[run.i]
                         /\ \E n \in DOMAIN run.items : n < run.at /\ run.items[n] = ImageOf[f]
ReadOK ==
  run.pc \in Reads =>
    /\ ReadBase
    /\ run.pc \in {"join", "read", "launch", "result", "match"} => run.at \in DOMAIN run.items /\ Here \notin Absent
    /\ run.pc = "result" \/ (run.pc = "launch" /\ run.next = "result") => Here \in run.window
    /\ run.pc = "match" \/ (run.pc = "launch" /\ run.next # "result") => AtHand
    /\ run.pc \in {"drain", "judge"} => run.at > Len(run.items) \/ LimitReached \/ Stopping
(* What is left to judge.                                                    *)
JudgeOK ==
  run.pc = "entry" =>
    /\ run.kind # "build" /\ run.i \in DOMAIN run.who
    /\ run.rest \in Seq(Face) /\ Ascending(run.rest)
    /\ \A f \in ToSet(run.rest) : PersonOf[f] = run.who[run.i]
    /\ SoughtHere \subseteq Covered \cup ToSet(run.rest)
CacheOK ==
  /\ cache \in [Image -> {"none", "read", "empty"}]
  /\ \A m \in Image : cache[m] = "empty" => m \in unread
StoredOK ==
  /\ DOMAIN active = Review /\ DOMAIN stored = Review
  /\ \A k \in Review : PayloadOK(k, active[k]) /\ PayloadOK(k, stored[k])
  /\ DOMAIN reviewer = DOMAIN Idle /\ reviewer.kind \in Review /\ PayloadOK(reviewer.kind, reviewer.payload)
  /\ reviewer.step = "rewrite" /\ reviewer.key \in Key => ProfilesOK(reviewer.copy)
  /\ StoreOK
RunOK == DOMAIN run = DOMAIN NoRun /\ ListOK /\ CoverOK /\ ReadOK /\ JudgeOK
SkipInv == StoredOK /\ RunOK /\ CacheOK
-----------------------------------------------------------------------------
LEMMA Photos ==
  /\ \A p : FacesOf(p) \subseteq Face /\ IsFiniteSet(FacesOf(p)) /\ FacesOf(p) \subseteq Nat
  /\ \A p : IsFiniteSet(ImagesOf(p)) /\ ImagesOf(p) \subseteq Nat /\ ImagesOf(p) \subseteq Image
  /\ \A S \in SUBSET Person : IsFiniteSet(S) /\ S \subseteq Nat
  /\ \A S \in SUBSET Known : IsFiniteSet(S) /\ S \subseteq Nat
  /\ \A f \in Face : PersonOf[f] \in Nat \ {0} /\ ImageOf[f] \in Nat \ {0} /\ f \in Nat \ {0}
  <1>1. \A f \in Face : PersonOf[f] \in Nat \ {0} /\ ImageOf[f] \in Nat \ {0} /\ f \in Nat \ {0}
    BY PhotosAssumption
  <1>2. \A p : FacesOf(p) \subseteq Face /\ IsFiniteSet(FacesOf(p)) /\ FacesOf(p) \subseteq Nat
    <2> TAKE p
    <2>1. FacesOf(p) \in SUBSET Face BY DEF FacesOf
    <2>2. IsFiniteSet(FacesOf(p)) BY <2>1, PhotosAssumption, FS_Subset
    <2> QED BY <2>1, <2>2, <1>1
  <1>3. \A p : IsFiniteSet(ImagesOf(p)) /\ ImagesOf(p) \subseteq Nat /\ ImagesOf(p) \subseteq Image
    <2> TAKE p
    <2> DEFINE S == FacesOf(p)
               T == ImagesOf(p)
               h == [f \in S |-> ImageOf[f]]
    <2>1. h \in Surjection(S, T) BY DEF Surjection, ImagesOf
    <2>2. IsFiniteSet(S) BY <1>2
    <2>3. T \subseteq Nat /\ T \subseteq Image BY <1>1, <1>2 DEF ImagesOf, Image
    <2> HIDE DEF S, T, h
    <2>4. IsFiniteSet(T) BY <2>1, <2>2, FS_Surjection
    <2> QED BY <2>3, <2>4 DEF T
  <1>4. IsFiniteSet(Person) /\ Person \subseteq Nat
    <2> DEFINE h == [f \in Face |-> PersonOf[f]]
    <2>1. h \in Surjection(Face, Person) BY DEF Surjection, Person
    <2>2. Person \subseteq Nat BY <1>1 DEF Person
    <2> HIDE DEF h
    <2> QED BY <2>1, <2>2, PhotosAssumption, FS_Surjection
  <1>5. \A S \in SUBSET Person : IsFiniteSet(S) /\ S \subseteq Nat BY <1>4, FS_Subset
  <1>6. \A S \in SUBSET Known : IsFiniteSet(S) /\ S \subseteq Nat BY PhotosAssumption, FS_Subset
  <1> QED BY <1>1, <1>2, <1>3, <1>5, <1>6

LEMMA Elements ==
  ASSUME NEW R, NEW s \in Seq(R)
  PROVE  Len(s) \in Nat /\ DOMAIN s = 1 .. Len(s) /\ \A n \in DOMAIN s : s[n] \in R /\ n \in Nat /\ s[n] \in ToSet(s)
  BY DEF ToSet

LEMMA SortedOf ==
  ASSUME NEW R, NEW S \in SUBSET R, IsFiniteSet(S), S \subseteq Nat
  PROVE  Sorted(S) \in Seq(R) /\ ToSet(Sorted(S)) = S /\ Ascending(Sorted(S))
  <1> DEFINE t == Sorted(S)
  <1>1. t \in Seq(S) /\ ToSet(t) = S /\ Ascending(t) BY SortedAscends
  <1> HIDE DEF t
  <1>2. Len(t) \in Nat /\ DOMAIN t = 1 .. Len(t) /\ t = [n \in DOMAIN t |-> t[n]] BY <1>1
  <1>3. \A n \in DOMAIN t : t[n] \in R BY <1>1, Elements
  <1>4. t \in [1 .. Len(t) -> R] BY <1>2, <1>3
  <1>5. t \in Seq(R) BY <1>2, <1>4
  <1> QED BY <1>1, <1>5 DEF t

LEMMA EntryOf ==
  ASSUME NEW s, Entries(s), NEW n \in DOMAIN s
  PROVE  s[n].face \in EntryFaces(s) /\ s[n].face \in Face /\ s[n].st \in State /\ n \in Nat
  <1>1. s[n] \in [face : Face, st : State] /\ n \in Nat /\ s[n] \in ToSet(s) BY Elements DEF Entries
  <1> QED BY <1>1 DEF EntryFaces

LEMMA EntryFacesAreFaces == ASSUME NEW s, Entries(s) PROVE EntryFaces(s) \subseteq Face
  <1> SUFFICES ASSUME NEW e \in ToSet(s) PROVE e.face \in Face BY DEF EntryFaces
  <1>1. PICK n \in DOMAIN s : e = s[n] BY DEF ToSet
  <1> QED BY <1>1, EntryOf

LEMMA MarkedFaces ==
  ASSUME NEW s, Entries(s), NEW f, NEW st \in State
  PROVE  Entries(Marked(s, f, st)) /\ EntryFaces(Marked(s, f, st)) = EntryFaces(s)
  <1> DEFINE t == Marked(s, f, st)
  <1>1. Len(s) \in Nat /\ DOMAIN s = 1 .. Len(s) BY DEF Entries
  <1>2. DOMAIN t = DOMAIN s /\ t = [n \in 1 .. Len(s) |-> t[n]] BY <1>1 DEF Marked
  <1>3. \A n \in DOMAIN s : t[n] \in [face : Face, st : State] /\ t[n].face = s[n].face
    <2> TAKE n \in DOMAIN s
    <2>1. s[n] \in [face : Face, st : State] BY Elements DEF Entries
    <2>2. t[n] = IF s[n].face = f THEN [s[n] EXCEPT !.st = st] ELSE s[n] BY DEF Marked
    <2> HIDE DEF t
    <2>3. CASE s[n].face = f
      <3>1. t[n] = [s[n] EXCEPT !.st = st] BY <2>2, <2>3
      <3> QED BY <3>1, <2>1
    <2> QED BY <2>1, <2>2, <2>3
  <1> HIDE DEF t
  <1>4. t \in Seq([face : Face, st : State]) BY <1>1, <1>2, <1>3
  <1>5. EntryFaces(t) = EntryFaces(s)
    <2>1. \A g : g \in EntryFaces(t) <=> \E n \in DOMAIN t : g = t[n].face BY DEF EntryFaces, ToSet
    <2>2. \A g : g \in EntryFaces(s) <=> \E n \in DOMAIN s : g = s[n].face BY DEF EntryFaces, ToSet
    <2>3. DOMAIN t = DOMAIN s /\ \A n \in DOMAIN s : t[n].face = s[n].face BY <1>2, <1>3
    <2>4. \A g : (\E n \in DOMAIN t : g = t[n].face) <=> (\E n \in DOMAIN s : g = s[n].face) BY <2>3, Zenon
    <2>5. \A g : g \in EntryFaces(t) <=> g \in EntryFaces(s) BY <2>1, <2>2, <2>4
    <2> QED BY <2>5
  <1> QED BY <1>4, <1>5 DEF Entries, t

LEMMA EntriesNone == Entries(<<>>) /\ EntryFaces(<<>>) = {}
  BY DEF Entries, EntryFaces, ToSet

LEMMA NothingYet == \A k : PayloadOK(k, NoPayload)
  BY EntriesNone DEF PayloadOK, NoPayload

(* Once a face is given to somebody else there is less to look for.          *)
LEMMA SoughtShrinks ==
  ASSUME moved \subseteq moved', NEW k \in Review \cup {"build"}, NEW list, NEW j
  PROVE  /\ Sought(k, list, j)' \subseteq Sought(k, list, j)
         /\ \A a : FrontOf(k, list, j, a)' \subseteq FrontOf(k, list, j, a)
  <1>1. \A p : FacesOf(p)' \subseteq FacesOf(p) BY DEF FacesOf
  <1>2. Sought(k, list, j)' \subseteq Sought(k, list, j)
    <2>1. CASE k = "build" BY <1>1, <2>1 DEF Sought, WithinLimit
    <2>2. CASE k = "outliers" BY <2>2 DEF Sought
    <2>3. CASE k = "suggest" BY <1>1, <2>3 DEF Sought
    <2>4. CASE k = "assign" BY <1>1, <2>4 DEF Sought
    <2> QED BY <2>1, <2>2, <2>3, <2>4 DEF Review
  <1> QED BY <1>2 DEF FrontOf

LEMMA PayloadKeeps ==
  ASSUME NEW k \in Review, NEW c, PayloadOK(k, c), moved \subseteq moved'
  PROVE  PayloadOK(k, c)'
  <1>1. \A list, j : Sought(k, list, j)' \subseteq Sought(k, list, j) BY SoughtShrinks
  <1>2. \A list, j, a : FrontOf(k, list, j, a)' \subseteq FrontOf(k, list, j, a) BY SoughtShrinks
  <1>3. CoveredBy(k, c)' = CoveredBy(k, c) BY DEF CoveredBy, Missing, EntryFaces
  <1>4. /\ DOMAIN c = DOMAIN NoPayload /\ Entries(c.entries) /\ c.start \in Nat \ {0}
        /\ c.seen \subseteq CoveredBy(k, c)' /\ (c.lists = {} => EntryFaces(c.entries) = {})
        /\ \/ c.person = 0 /\ c.after = 0
           \/ \E g \in EntryFaces(c.entries) : c.person = PersonOf[g] /\ c.after = Mark(k, g)
    BY <1>3 DEF PayloadOK
  <1>5. ASSUME NEW list \in c.lists, c.lists = {list}, NEW j \in DOMAIN list
        PROVE  /\ j < c.start => Sought(k, list, j)' \subseteq c.seen
               /\ \A g \in EntryFaces(c.entries) : PersonAt(k, list, j) = PersonOf[g] =>
                    /\ \A n \in DOMAIN list : n < j => Sought(k, list, n)' \subseteq c.seen
                    /\ FrontOf(k, list, j, Mark(k, g))' \subseteq CoveredBy(k, c)'
    BY <1>1, <1>2, <1>3, <1>5 DEF PayloadOK
  <1> QED BY <1>4, <1>5 DEF PayloadOK, Entries, EntryFaces, Mark, PersonAt, NoPayload

(* Entries that are marked name the same faces.                              *)
LEMMA MarkedPayload ==
  ASSUME NEW k \in Review, NEW c, PayloadOK(k, c), NEW f, NEW st \in State
  PROVE  PayloadOK(k, [c EXCEPT !.entries = Marked(@, f, st)])
  <1> DEFINE d == [c EXCEPT !.entries = Marked(@, f, st)]
  <1>1. DOMAIN c = DOMAIN NoPayload /\ Entries(c.entries) BY DEF PayloadOK
  <1>2. {"entries", "start", "person", "after", "over", "lists", "seen"} \subseteq DOMAIN c BY <1>1 DEF NoPayload
  <1>3. /\ DOMAIN d = DOMAIN c /\ d.start = c.start /\ d.person = c.person /\ d.after = c.after
        /\ d.over = c.over /\ d.lists = c.lists /\ d.seen = c.seen
        /\ d.entries = Marked(c.entries, f, st)
    BY <1>2
  <1> HIDE DEF d
  <1>4. Entries(d.entries) /\ EntryFaces(d.entries) = EntryFaces(c.entries) BY <1>1, <1>3, MarkedFaces
  <1>5. CoveredBy(k, d) = CoveredBy(k, c) BY <1>3, <1>4 DEF CoveredBy
  <1>6. PayloadOK(k, d) BY <1>1, <1>3, <1>4, <1>5 DEF PayloadOK
  <1> QED BY <1>6 DEF d
-----------------------------------------------------------------------------
(* The scan works on the same list, and may have passed over more.           *)
SameScan ==
  /\ DOMAIN run' = DOMAIN run /\ run'.kind = run.kind /\ run'.who = run.who /\ run'.i = run.i
  /\ run'.key = run.key /\ run'.copy = run.copy
  /\ run'.built = run.built /\ run'.person = run.person /\ run'.after = run.after
  /\ run'.lists = run.lists /\ run'.seen = run.seen /\ run'.excluded = run.excluded
  /\ Entries(run'.entries) /\ EntryFaces(run'.entries) = EntryFaces(run.entries)
  /\ run.over \subseteq run'.over

LEMMA SoughtOfList ==
  ASSUME SameScan, moved \subseteq moved', run.kind \in Review \cup {"build"}
  PROVE  /\ List(run)' = List(run)
         /\ \A j : Sought(run.kind, List(run), j)' \subseteq Sought(run.kind, List(run), j)
         /\ \A j, a : FrontOf(run.kind, List(run), j, a)' \subseteq FrontOf(run.kind, List(run), j, a)
         /\ Seen(run)' \subseteq Seen(run) /\ Covered \subseteq Covered' /\ SoughtHere' \subseteq SoughtHere
  <1> DEFINE k == run.kind
             list == List(run)
  <1>1. List(run)' = List(run) BY DEF SameScan, List
  <1>2. ASSUME NEW j PROVE Sought(run.kind, List(run), j)' \subseteq Sought(run.kind, List(run), j)
    <2>1. \A p : FacesOf(p)' \subseteq FacesOf(p) BY DEF FacesOf
    <2> QED BY <1>1, <2>1 DEF Sought, SameScan, WithinLimit, Review
  <1>3. Seen(run)' \subseteq Seen(run) BY <1>1, <1>2 DEF Seen, Passed, SameScan
  <1>4. Covered \subseteq Covered' BY DEF Covered, FoundSoFar, SameScan, Missing, RefsOf
  <1> QED BY <1>1, <1>2, <1>3, <1>4 DEF FrontOf, SoughtHere, SameScan

LEMMA ListStays ==
  ASSUME ListOK, SameScan, run.pc \notin {"none", "begin"}, run'.pc \notin {"none", "begin", "exclusions"}
  PROVE  ListOK'
  <1>1. List(run)' = List(run) BY DEF SameScan, List
  <1> QED BY <1>1 DEF ListOK, SameScan, ProfilesOK

LEMMA CoverStays ==
  ASSUME ListOK, CoverOK, SameScan, moved \subseteq moved'
  PROVE  CoverOK'
  <1>1. run.kind \in Review \cup {"build"} BY DEF ListOK
  <1>2. List(run)' = List(run) /\ Seen(run)' \subseteq Seen(run) /\ Covered \subseteq Covered' BY <1>1, SoughtOfList
  <1>3. /\ \A j : Sought(run.kind, List(run), j)' \subseteq Sought(run.kind, List(run), j)
        /\ \A j, a : FrontOf(run.kind, List(run), j, a)' \subseteq FrontOf(run.kind, List(run), j, a)
    BY <1>1, SoughtOfList
  <1>4. Seen(run)' \subseteq Covered' BY <1>2 DEF CoverOK
  <1>5. ASSUME NEW j \in DOMAIN run.who, run.who[j] = run.person
        PROVE  FrontOf(run.kind, List(run), j, run.after)' \subseteq Covered'
    <2>1. FrontOf(run.kind, List(run), j, run.after) \subseteq Covered BY <1>5 DEF CoverOK
    <2>2. FrontOf(run.kind, List(run), j, run.after)' \subseteq FrontOf(run.kind, List(run), j, run.after)
      BY <1>2, <1>3 DEF FrontOf, SameScan
    <2> QED BY <2>1, <2>2, <1>2
  <1>6. ASSUME run.kind # "build", run.lists = {List(run)}, NEW g \in EntryFaces(run.entries),
               NEW j \in DOMAIN run.who, run.who[j] = PersonOf[g]
        PROVE  /\ j <= run.i \/ \A n \in DOMAIN run.who : n < j => Sought(run.kind, List(run), n)' \subseteq run.seen
               /\ FrontOf(run.kind, List(run), j, Mark(run.kind, g))' \subseteq Covered'
    <2>1. /\ j <= run.i \/ \A n \in DOMAIN run.who : n < j => Sought(run.kind, List(run), n) \subseteq run.seen
          /\ FrontOf(run.kind, List(run), j, Mark(run.kind, g)) \subseteq Covered
      BY <1>6 DEF CoverOK
    <2>2. FrontOf(run.kind, List(run), j, Mark(run.kind, g))' \subseteq FrontOf(run.kind, List(run), j, Mark(run.kind, g))
      BY <1>2, <1>3 DEF FrontOf, SameScan, Mark
    <2> QED BY <2>1, <2>2, <1>2, <1>3
  <1> QED BY <1>2, <1>4, <1>5, <1>6 DEF CoverOK, SameScan, Entries, EntryFaces

LEMMA StoredFrom ==
  ASSUME DOMAIN active' = Review, DOMAIN stored' = Review,
         \A k \in Review : PayloadOK(k, active'[k]) /\ PayloadOK(k, stored'[k]),
         DOMAIN reviewer' = DOMAIN Idle, reviewer'.kind \in Review, PayloadOK(reviewer'.kind, reviewer'.payload),
         reviewer'.step = "rewrite" /\ reviewer'.key \in Key => ProfilesOK(reviewer'.copy),
         StoreOK', moved \subseteq moved'
  PROVE  StoredOK'
  <1>1. \A k \in Review : PayloadOK(k, active[k])' /\ PayloadOK(k, stored[k])'
    <2> TAKE k \in Review
    <2>1. PICK a, s : a = active'[k] /\ s = stored'[k] OBVIOUS
    <2>2. PayloadOK(k, a)' /\ PayloadOK(k, s)' BY <2>1, PayloadKeeps
    <2> QED BY <2>1, <2>2
  <1>2. PayloadOK(reviewer.kind, reviewer.payload)'
    <2>1. PICK k, c : k = reviewer'.kind /\ c = reviewer'.payload OBVIOUS
    <2>2. PayloadOK(k, c)' BY <2>1, PayloadKeeps
    <2> QED BY <2>1, <2>2
  <1>3. (reviewer.step = "rewrite" /\ reviewer.key \in Key => ProfilesOK(reviewer.copy))' BY DEF ProfilesOK
  <1> QED BY <1>1, <1>2, <1>3 DEF StoredOK, Idle

(* Profiles that are written are those of one key.                           *)
LEMMA StoreKept ==
  ASSUME StoreOK, NEW k, NEW s, k \in Key => ProfilesOK(s), profiles' \in {profiles, [profiles EXCEPT ![k] = s]}
  PROVE  StoreOK'
  <1>1. DOMAIN profiles' = Key BY DEF StoreOK
  <1>2. \A key \in Key : profiles'[key] = profiles[key] \/ (key = k /\ profiles'[key] = s) BY DEF StoreOK
  <1>3. \A key \in Key : ProfilesOK(profiles'[key]) BY <1>2 DEF StoreOK
  <1> QED BY <1>1, <1>3 DEF StoreOK, ProfilesOK

LEMMA StoredStays ==
  ASSUME StoredOK, UNCHANGED <<active, stored, reviewer, profiles>>, moved \subseteq moved'
  PROVE  StoredOK'
  <1>1. StoreOK' BY DEF StoredOK, StoreOK, ProfilesOK
  <1> QED BY <1>1, StoredFrom DEF StoredOK

(* The cache and the images whose faces were lost: nothing that is at hand   *)
(* is taken away silently.                                                   *)
Looked(m) == cache[m] = "read" \/ m \in unread
CacheGoesOn == CacheOK' /\ \A m \in Image : Looked(m) => Looked(m)'

LEMMA CacheDetected ==
  ASSUME CacheOK, NEW W, NEW X, cache' = Detected(W, X), unread' = unread \cup X
  PROVE  CacheGoesOn /\ \A m \in W \cap Image : Looked(m)'
  BY DEF CacheOK, CacheGoesOn, Looked, Detected

LEMMA CacheSteps ==
  ASSUME CacheOK
  PROVE  /\ UNCHANGED <<cache, unread>> => CacheGoesOn
         /\ \A W : BatchRead(W) => CacheGoesOn /\ \A m \in W \cap Image : Looked(m)'
         /\ \A W, k : ReadAhead(W, k) => CacheGoesOn
         /\ ResetCache => CacheGoesOn
  <1>1. UNCHANGED <<cache, unread>> => CacheGoesOn BY DEF CacheOK, CacheGoesOn, Looked
  <1>2. ASSUME NEW W, BatchRead(W) PROVE CacheGoesOn /\ \A m \in W \cap Image : Looked(m)'
    <2>1. CASE cache' = Detected(W, {}) /\ UNCHANGED unread
      <3>1. unread' = unread \cup {} BY <2>1
      <3> QED BY <2>1, <3>1, CacheDetected
    <2>2. CASE \E m \in W : cache' = Detected(W, {m}) /\ unread' = unread \cup {m} BY <2>2, CacheDetected
    <2> QED BY <2>1, <2>2, <1>2 DEF BatchRead
  <1>3. ASSUME NEW W, NEW k, ReadAhead(W, k) PROVE CacheGoesOn
    BY <1>1, <1>2, <1>3 DEF ReadAhead, Unchanged
  <1>4. ResetCache => CacheGoesOn BY DEF ResetCache, CacheOK, CacheGoesOn, Looked, Empty
  <1> QED BY <1>1, <1>2, <1>3, <1>4

(* What a person's images are is clear; the place among them may be another. *)
LEMMA ReadBaseStays ==
  ASSUME ListOK, ReadBase, SameScan, moved \subseteq moved', UNCHANGED <<run.at, run.items, run.refs>>
  PROVE  ReadBase'
  <1>1. Covered \subseteq Covered' /\ SoughtHere' \subseteq SoughtHere BY SoughtOfList DEF ListOK
  <1> QED BY <1>1 DEF ReadBase, SameScan, Ascending

LEMMA AtHandStays ==
  ASSUME CacheGoesOn, run'.items = run.items, run'.at = run.at, run'.kind = run.kind, stop \subseteq stop',
         Here \in Image, AtHand
  PROVE  AtHand'
  <1>1. Here' = Here BY DEF Here
  <1>2. Looked(Here)' \/ Stopping' BY <1>1 DEF AtHand, CacheGoesOn, Looked, Stopping
  <1> QED BY <1>1, <1>2 DEF AtHand, Looked

(* Somebody else takes a step, or the entries are marked.                    *)
LEMMA BesideScan ==
  ASSUME SkipInv, StoredOK', CacheGoesOn, SameScan, moved \subseteq moved', stop \subseteq stop',
         UNCHANGED <<run.pc, run.at, run.items, run.refs, run.rest, run.window, run.next>>
  PROVE  SkipInv'
  <1>1. ListOK /\ CoverOK /\ ReadOK /\ JudgeOK /\ run.kind \in Review \cup {"build"} BY DEF SkipInv, RunOK, ListOK
  <1>2. List(run)' = List(run) /\ Covered \subseteq Covered' /\ SoughtHere' \subseteq SoughtHere BY <1>1, SoughtOfList
  <1>3. ListOK' BY <1>1, <1>2 DEF ListOK, SameScan, ProfilesOK
  <1>4. CoverOK' BY <1>1, CoverStays
  <1>5. ReadOK'
    <2> SUFFICES ASSUME run.pc \in Reads PROVE ReadOK' BY DEF ReadOK
    <2>1. ReadBase /\ ReadBase' BY <1>1, ReadBaseStays DEF ReadOK
    <2>2. Here' = Here /\ (LimitReached => LimitReached') /\ (Stopping => Stopping')
      BY DEF Here, LimitReached, Stopping, SameScan
    <2>3. run.at \in DOMAIN run.items => Here \in Image BY <2>1, Elements DEF ReadBase, Here
    <2>4. run.at \in DOMAIN run.items /\ AtHand => AtHand' BY <2>3, AtHandStays DEF SameScan
    <2>5. run.pc \in {"join", "read", "launch", "result", "match"} => run.at \in DOMAIN run.items /\ Here \notin Absent
      BY <1>1 DEF ReadOK, Reads
    <2>6. run.pc = "match" \/ (run.pc = "launch" /\ run.next # "result") => AtHand'
      BY <2>4, <2>5, <1>1 DEF ReadOK, Reads
    <2> QED BY <2>1, <2>2, <2>5, <2>6, <1>1 DEF ReadOK
  <1>6. JudgeOK' BY <1>1, <1>2 DEF JudgeOK, SameScan, Ascending
  <1> QED BY <1>3, <1>4, <1>5, <1>6 DEF SkipInv, RunOK, CacheGoesOn, SameScan
-----------------------------------------------------------------------------
(* Reading the images of a person.                                           *)
LEMMA SoughtAreFaces ==
  ASSUME ListOK
  PROVE  /\ \A j : run.kind # "outliers" => Sought(run.kind, List(run), j) \subseteq FacesOf(run.who[j])
         /\ \A j \in DOMAIN run.who : \A f \in Sought(run.kind, List(run), j) : f \in Face /\ PersonOf[f] = run.who[j]
  <1>1. \A p : FacesOf(p) \subseteq Face /\ \A f \in FacesOf(p) : PersonOf[f] = p BY DEF FacesOf
  <1>2. run.kind \in {"build", "outliers", "suggest", "assign"} BY DEF ListOK, Review
  <1>3. CASE run.kind = "outliers"
    <2>1. List(run) = run.built BY <1>3 DEF List
    <2> SUFFICES ASSUME NEW j \in DOMAIN run.who, NEW f \in Sought(run.kind, List(run), j)
                 PROVE  f \in Face /\ PersonOf[f] = run.who[j]
      BY <1>3
    <2>2. f \in run.built[j].refs BY <1>3, <2>1 DEF Sought
    <2>3. j \in DOMAIN run.built /\ run.who[j] = run.built[j].person BY <1>3 DEF ListOK
    <2>4. run.built \in Seq([person : Nat, refs : SUBSET Face]) BY DEF ListOK, ProfilesOK
    <2>5. run.built[j] \in [person : Nat, refs : SUBSET Face] BY <2>3, <2>4, Elements
    <2> QED BY <2>2, <2>3, <2>5 DEF ListOK, ProfilesOK
  <1>4. CASE run.kind # "outliers"
    <2>1. List(run) = run.who BY <1>4 DEF List
    <2>2. \A j : Sought(run.kind, List(run), j) \subseteq FacesOf(run.who[j]) BY <1>2, <1>4, <2>1 DEF Sought
    <2> QED BY <2>2, <1>1
  <1> QED BY <1>3, <1>4

LEMMA ReadStep ==
  ASSUME SkipInv, run.pc \in Reads, run'.pc \in Reads, SameScan, CacheGoesOn, ReadOK',
         UNCHANGED <<active, stored, reviewer, profiles, moved>>
  PROVE  SkipInv'
  <1>1. ListOK /\ CoverOK /\ StoredOK BY DEF SkipInv, RunOK
  <1>2. StoredOK' BY <1>1, StoredStays
  <1>3. ListOK' BY <1>1, ListStays DEF Reads
  <1>4. CoverOK' BY <1>1, CoverStays
  <1>5. JudgeOK' BY DEF JudgeOK, Reads
  <1>6. DOMAIN run' = DOMAIN NoRun BY DEF SkipInv, RunOK, SameScan
  <1> QED BY <1>2, <1>3, <1>4, <1>5, <1>6 DEF SkipInv, RunOK, CacheGoesOn, NoRun

(* The place is left where it is.                                            *)
SamePlace ==
  /\ SameScan /\ run'.at = run.at /\ run'.items = run.items /\ run'.refs = run.refs /\ UNCHANGED stop
LEMMA PlaceStep ==
  ASSUME SkipInv, run.pc \in Reads, run'.pc \in Reads, SamePlace, CacheGoesOn,
         UNCHANGED <<active, stored, reviewer, profiles, moved>>,
         run'.pc \in {"join", "read", "launch", "result", "match"} => run.at \in DOMAIN run.items /\ Here \notin Absent,
         run'.pc = "result" \/ (run'.pc = "launch" /\ run'.next = "result") => Here \in run'.window,
         run'.pc = "match" \/ (run'.pc = "launch" /\ run'.next # "result") => Looked(Here)' \/ Stopping,
         run'.pc \in {"drain", "judge"} => run.at > Len(run.items) \/ LimitReached \/ Stopping
  PROVE  SkipInv'
  <1>1. Here' = Here /\ LimitReached' = LimitReached /\ Stopping' = Stopping
    BY DEF Here, LimitReached, Stopping, SamePlace, SameScan
  <1>2. ReadBase /\ ListOK BY DEF SkipInv, RunOK, ReadOK
  <1>3. ReadBase' BY <1>2, ReadBaseStays DEF SamePlace
  <1>4. ReadOK' BY <1>1, <1>3 DEF ReadOK, AtHand, Looked, SamePlace
  <1> QED BY <1>4, ReadStep DEF SamePlace

LEMMA Fields ==
  ASSUME DOMAIN run = DOMAIN NoRun
  PROVE  {"pc", "kind", "key", "copy", "mode", "resume", "auto", "who", "i", "items", "at", "window", "next", "refs", "rest",
          "entries", "resolved", "excluded", "built", "start", "person", "after", "pre", "over", "lists",
          "seen"} \subseteq DOMAIN run
  BY DEF NoRun

LEMMA PlaceOnly ==
  ASSUME SkipInv, UNCHANGED stop, NEW pc, NEW W, NEW next,
         run' = [run EXCEPT !.pc = pc, !.window = W, !.next = next]
  PROVE  SamePlace /\ run'.pc = pc /\ run'.window = W /\ run'.next = next
  <1>1. /\ {"pc", "window", "next"} \subseteq DOMAIN run /\ Entries(run.entries)
    BY Fields DEF SkipInv, RunOK, CoverOK
  <1> QED BY <1>1 DEF SamePlace, SameScan

LEMMA GotoOnly ==
  ASSUME SkipInv, UNCHANGED stop, NEW pc, Goto(pc)
  PROVE  SamePlace /\ run'.pc = pc /\ run'.window = run.window /\ run'.next = run.next
  <1>1. /\ {"pc", "window", "next"} \subseteq DOMAIN run /\ Entries(run.entries)
    BY Fields DEF SkipInv, RunOK, CoverOK
  <1> QED BY <1>1 DEF SamePlace, SameScan, Goto

LEMMA ReadFacts ==
  ASSUME SkipInv, run.pc \in Reads
  PROVE  /\ ListOK /\ CoverOK /\ ReadBase /\ CacheOK
         /\ Len(run.items) \in Nat /\ DOMAIN run.items = 1 .. Len(run.items) /\ run.at \in Nat \ {0}
         /\ run.at \in DOMAIN run.items => Here \in Image
  <1>1. ListOK /\ CoverOK /\ ReadBase /\ CacheOK BY DEF SkipInv, RunOK, ReadOK
  <1>2. run.at \in Nat \ {0} /\ run.items \in Seq(Image) BY <1>1 DEF ReadBase
  <1>3. Len(run.items) \in Nat /\ DOMAIN run.items = 1 .. Len(run.items) BY <1>2, Elements
  <1>4. run.at \in DOMAIN run.items => Here \in Image BY <1>2, Elements DEF Here
  <1> QED BY <1>1, <1>2, <1>3, <1>4

(* The next image: the present one is missing, or what it shows is found or  *)
(* passed over.                                                              *)
LEMMA NextImage ==
  ASSUME SkipInv, run.pc \in Reads, run'.pc = "image", SameScan, CacheGoesOn, UNCHANGED <<active, stored, reviewer, profiles, moved>>,
         run.at \in DOMAIN run.items, run'.at = run.at + 1, run'.items = run.items,
         run.refs \subseteq run'.refs, run'.refs \subseteq run.refs \cup {f \in FacesOf(run.who[run.i]) : ImageOf[f] = Here},
         \A f \in SoughtHere : ImageOf[f] = Here => f \in Covered' \cup run'.refs
  PROVE  SkipInv'
  <1>1. ListOK /\ CoverOK /\ ReadBase BY ReadFacts
  <1>2. Covered \subseteq Covered' /\ SoughtHere' \subseteq SoughtHere
    <2>1. run.kind \in Review \cup {"build"} BY <1>1 DEF ListOK
    <2>2. moved \subseteq moved' OBVIOUS
    <2> QED BY <2>1, <2>2, SoughtOfList
  <1>3. run.at \in Nat /\ DOMAIN run.items \subseteq Nat BY <1>1, Elements DEF ReadBase
  <1>4. ASSUME NEW f \in SoughtHere'
        PROVE  f \in Covered' \cup run'.refs \/ \E n \in DOMAIN run'.items : n >= run'.at /\ run'.items[n] = ImageOf[f]
    <2>1. f \in SoughtHere BY <1>2, <1>4
    <2>2. CASE f \in Covered \cup run.refs BY <2>2, <1>2
    <2>3. CASE f \notin Covered \cup run.refs
      <3>1. PICK n \in DOMAIN run.items : n >= run.at /\ run.items[n] = ImageOf[f] BY <2>1, <2>3, <1>1 DEF ReadBase
      <3>2. CASE n = run.at BY <3>1, <3>2, <2>1 DEF Here
      <3>3. CASE n # run.at
        <4>1. n >= run.at + 1 BY <3>1, <3>3, <1>3
        <4> QED BY <4>1, <3>1
      <3> QED BY <3>2, <3>3
    <2> QED BY <2>2, <2>3
  <1>5. ASSUME NEW f \in run'.refs
        PROVE  /\ f \in Face /\ PersonOf[f] = run.who[run.i]
               /\ \E n \in DOMAIN run.items : n < run'.at /\ run.items[n] = ImageOf[f]
    <2>1. CASE f \in run.refs
      <3>1. PICK n \in DOMAIN run.items : n < run.at /\ run.items[n] = ImageOf[f] BY <2>1, <1>1 DEF ReadBase
      <3>2. n < run.at + 1 BY <3>1, <1>3
      <3> QED BY <2>1, <3>1, <3>2, <1>1 DEF ReadBase
    <2>2. CASE f \in FacesOf(run.who[run.i]) /\ ImageOf[f] = Here
      <3>1. run.at < run.at + 1 BY <1>3
      <3> QED BY <2>2, <3>1 DEF FacesOf, Here
    <2> QED BY <2>1, <2>2, <1>5
  <1>6. ReadBase'
    <2>1. run'.at \in Nat \ {0} BY <1>3
    <2> QED BY <2>1, <1>1, <1>4, <1>5 DEF ReadBase, SameScan, Ascending
  <1>7. ReadOK' BY <1>6 DEF ReadOK
  <1> QED BY <1>7, ReadStep DEF Reads

LEMMA LookSkips == ASSUME SkipInv, LookAtImage, UNCHANGED <<active, stored, reviewer, profiles, moved, stop>> PROVE SkipInv'
  <1>1. run.pc = "image" /\ run.pc \in Reads BY DEF LookAtImage, Looking, Reads
  <1>2. ReadBase /\ ListOK /\ Len(run.items) \in Nat /\ DOMAIN run.items = 1 .. Len(run.items) /\ run.at \in Nat \ {0}
    BY <1>1, ReadFacts
  <1>3. CacheGoesOn BY CacheSteps DEF LookAtImage, Unchanged, SkipInv
  <1>4. CASE Goto("drain") /\ (run.at > Len(run.items) \/ LimitReached \/ Stopping)
    <2>1. SamePlace /\ run'.pc = "drain" BY <1>4, GotoOnly
    <2> QED BY <1>1, <1>3, <1>4, <2>1, PlaceStep DEF Reads
  <1>5. CASE run.at <= Len(run.items) /\ Here \notin Absent /\ \E pc \in {"join", "read"} : Goto(pc)
    <2>1. PICK pc \in {"join", "read"} : Goto(pc) BY <1>5
    <2>2. SamePlace /\ run'.pc \in {"join", "read"} BY <2>1, GotoOnly
    <2>3. run.at \in DOMAIN run.items BY <1>2, <1>5
    <2> QED BY <1>1, <1>3, <1>5, <2>2, <2>3, PlaceStep DEF Reads
  <1>6. CASE run.at <= Len(run.items) /\ Here \in Absent /\ NextAt
    <2>1. {"pc", "at"} \subseteq DOMAIN run /\ Entries(run.entries) BY Fields DEF SkipInv, RunOK, CoverOK
    <2>2. SameScan /\ run'.pc = "image" /\ run'.at = run.at + 1 /\ run'.items = run.items /\ run'.refs = run.refs
      BY <1>6, <2>1 DEF SameScan, NextAt
    <2>3. run.at \in DOMAIN run.items BY <1>2, <1>6
    <2>4. \A f \in SoughtHere : ImageOf[f] = Here => f \in Covered'
      <3>1. \A f \in SoughtHere : f \in Face BY <1>2, SoughtAreFaces DEF SoughtHere, ReadBase
      <3>2. run.kind # "outliers" /\ run'.kind = run.kind BY <1>2, <2>2 DEF ReadBase, SameScan
      <3> QED BY <3>1, <3>2, <1>6 DEF Covered, Missing
    <2> QED BY <1>1, <1>3, <2>2, <2>3, <2>4, NextImage
  <1>7. run.at > Len(run.items) \/ run.at <= Len(run.items) BY <1>2
  <1> QED BY <1>4, <1>5, <1>6, <1>7 DEF LookAtImage

LEMMA JoinSkips == ASSUME SkipInv, JoinPrefetch, UNCHANGED <<active, stored, reviewer, profiles, moved, stop>> PROVE SkipInv'
  <1>1. run.pc = "join" /\ run.pc \in Reads BY DEF JoinPrefetch, Looking, Reads
  <1>2. run.at \in DOMAIN run.items /\ Here \notin Absent BY <1>1 DEF SkipInv, RunOK, ReadOK, Reads
  <1>3. CacheGoesOn BY CacheSteps DEF JoinPrefetch, Unchanged, SkipInv
  <1>4. CASE Stopping /\ Goto("drain")
    <2>1. SamePlace /\ run'.pc = "drain" BY <1>4, GotoOnly
    <2> QED BY <1>1, <1>3, <1>4, <2>1, PlaceStep DEF Reads
  <1>5. CASE Goto("read")
    <2>1. SamePlace /\ run'.pc = "read" BY <1>5, GotoOnly
    <2> QED BY <1>1, <1>2, <1>3, <2>1, PlaceStep DEF Reads
  <1> QED BY <1>4, <1>5 DEF JoinPrefetch

LEMMA PreviewSkips ==
  ASSUME SkipInv, run.pc \in {"read", "result"}, ReadPreview(Here), UNCHANGED <<active, stored, reviewer, profiles, moved, stop>>
  PROVE  SkipInv'
  <1>1. run.pc \in Reads BY DEF Reads
  <1>2. run.at \in DOMAIN run.items /\ Here \notin Absent BY <1>1 DEF SkipInv, RunOK, ReadOK, Reads
  <1>3. Here \in Image BY <1>1, <1>2, ReadFacts
  <1>4. CacheGoesOn /\ Looked(Here)'
    <2>1. PICK h : h = Here OBVIOUS
    <2>2. CASE cache' = Detected({h}, {}) /\ UNCHANGED unread
      <3>1. unread' = unread \cup {} BY <2>2
      <3>2. CacheGoesOn /\ \A m \in {h} \cap Image : Looked(m)' BY <2>2, <3>1, CacheDetected DEF SkipInv
      <3>3. Looked(h)' BY <3>2, <1>3, <2>1
      <3>4. Here' = Here BY DEF ReadPreview, ToMatch, Here
      <3> QED BY <3>2, <3>3, <3>4, <2>1
    <2>3. CASE cache' = Detected({h}, {h}) /\ unread' = unread \cup {h}
      <3>2. CacheGoesOn /\ \A m \in {h} \cap Image : Looked(m)' BY <2>3, CacheDetected DEF SkipInv
      <3>3. Looked(h)' BY <3>2, <1>3, <2>1
      <3>4. Here' = Here BY DEF ReadPreview, ToMatch, Here
      <3> QED BY <3>2, <3>3, <3>4, <2>1
    <2> QED BY <2>1, <2>2, <2>3 DEF ReadPreview
  <1>5. SamePlace /\ run'.pc = "match" BY PlaceOnly DEF ReadPreview, ToMatch
  <1> QED BY <1>1, <1>2, <1>4, <1>5, PlaceStep DEF Reads

LEMMA ReadSkips == ASSUME SkipInv, ReadImage, UNCHANGED <<active, stored, reviewer, profiles, moved, stop>> PROVE SkipInv'
  <1>1. run.pc = "read" /\ run.pc \in Reads BY DEF ReadImage, Looking, Reads
  <1>2. run.at \in DOMAIN run.items /\ Here \notin Absent BY <1>1 DEF SkipInv, RunOK, ReadOK, Reads
  <1>3. Here \in Image /\ run.at \in Nat /\ run.at <= Len(run.items) BY <1>1, <1>2, ReadFacts
  <1>4. cache \in [Image -> {"none", "read", "empty"}] /\ \A m \in Image : cache[m] = "empty" => m \in unread
    BY DEF SkipInv, CacheOK
  <1> DEFINE W == Candidates(run.at)
  <1>5. CASE cache[Here] # "none" /\ Goto("match") /\ Unchanged
    <2>1. SamePlace /\ run'.pc = "match" BY <1>5, GotoOnly
    <2>2. CacheGoesOn BY <1>5, CacheSteps DEF Unchanged, SkipInv
    <2>3. Looked(Here) BY <1>3, <1>4, <1>5 DEF Looked
    <2>4. Looked(Here)'
      <3>1. Here' = Here BY <2>1 DEF Here, SamePlace
      <3>2. unread' = unread /\ cache' = cache BY <1>5 DEF Unchanged
      <3> QED BY <3>1, <3>2, <2>3 DEF Looked
    <2> QED BY <1>1, <1>2, <2>1, <2>2, <2>4, PlaceStep DEF Reads
  <1>6. CASE Stopping /\ Goto("drain") /\ Unchanged
    <2>1. SamePlace /\ run'.pc = "drain" BY <1>6, GotoOnly
    <2>2. CacheGoesOn BY <1>6, CacheSteps DEF Unchanged, SkipInv
    <2> QED BY <1>1, <1>6, <2>1, <2>2, PlaceStep DEF Reads
  <1>7. CASE /\ cache[Here] = "none" /\ Cardinality(W) > 1 /\ Unchanged
             /\ \E pc \in {"launch", "result"}, next \in {"launch", "result"} :
                  pc # next /\ run' = [run EXCEPT !.pc = pc, !.window = W, !.next = next]
    <2>1. PICK pc \in {"launch", "result"}, next \in {"launch", "result"} :
                  pc # next /\ run' = [run EXCEPT !.pc = pc, !.window = W, !.next = next]
      BY <1>7
    <2>2. SamePlace /\ run'.pc = pc /\ run'.window = W /\ run'.next = next
      <3> HIDE DEF W
      <3> QED BY <2>1, PlaceOnly
    <2>3. CacheGoesOn BY <1>7, CacheSteps DEF Unchanged, SkipInv
    <2>4. Here \in W
      <3>1. Batch \in Nat BY OptionsAssumption
      <3>2. Batch # 0
        <4> SUFFICES ASSUME Batch = 0 PROVE FALSE OBVIOUS
        <4>1. run.at .. (run.at + Batch - 1) = {} BY <1>3
        <4>2. W = {} BY <4>1 DEF Candidates
        <4>3. Cardinality(W) = 0
          <5> HIDE DEF W
          <5> QED BY <4>2, FS_EmptySet
        <4> QED BY <4>3, <1>7
      <3>3. run.at \in run.at .. (run.at + Batch - 1) BY <3>1, <3>2, <1>3
      <3> QED BY <3>3, <1>2, <1>3, <1>7 DEF Candidates, Here
    <2> QED BY <1>1, <1>2, <2>1, <2>2, <2>3, <2>4, PlaceStep DEF Reads
  <1>8. CASE cache' = Detected({Here}, {}) /\ Goto("match") /\ UNCHANGED unread
    <2>1. SamePlace /\ run'.pc = "match" BY <1>8, GotoOnly
    <2>2. PICK h : h = Here OBVIOUS
    <2>3. unread' = unread \cup {} BY <1>8
    <2>4. CacheGoesOn /\ \A m \in {h} \cap Image : Looked(m)' BY <1>8, <2>2, <2>3, CacheDetected DEF SkipInv
    <2>5. Looked(Here)'
      <3>1. Looked(h)' BY <2>4, <1>3, <2>2
      <3>2. Here' = h BY <2>1, <2>2 DEF Here, SamePlace
      <3> QED BY <3>1, <3>2
    <2> QED BY <1>1, <1>2, <2>1, <2>4, <2>5, PlaceStep DEF Reads
  <1>9. CASE ReadPreview(Here) BY <1>1, <1>9, PreviewSkips
  <1> HIDE DEF W
  <1> QED BY <1>5, <1>6, <1>7, <1>8, <1>9 DEF ReadImage, W

LEMMA LaunchSkips == ASSUME SkipInv, LaunchPrefetch, UNCHANGED <<active, stored, reviewer, profiles, moved, stop>> PROVE SkipInv'
  <1>1. run.pc = "launch" /\ run.pc \in Reads BY DEF LaunchPrefetch, Looking, Reads
  <1>2. run.at \in DOMAIN run.items /\ Here \notin Absent BY <1>1 DEF SkipInv, RunOK, ReadOK, Reads
  <1>3. CacheGoesOn /\ cache' = cache /\ unread' = unread BY CacheSteps DEF LaunchPrefetch, Unchanged, SkipInv
  <1>4. CASE run.next = "result" /\ Goto("result")
    <2>1. SamePlace /\ run'.pc = "result" /\ run'.window = run.window BY <1>4, GotoOnly
    <2>2. Here \in run.window BY <1>1, <1>4 DEF SkipInv, RunOK, ReadOK
    <2> QED BY <1>1, <1>2, <1>3, <2>1, <2>2, PlaceStep DEF Reads
  <1>5. CASE run.next # "result" /\ ToMatch
    <2>1. SamePlace /\ run'.pc = "match" BY <1>5, PlaceOnly DEF ToMatch
    <2>2. AtHand BY <1>1, <1>5 DEF SkipInv, RunOK, ReadOK
    <2>3. Looked(Here)' \/ Stopping
      <3>1. Here' = Here BY <2>1 DEF Here, SamePlace
      <3> QED BY <3>1, <2>2, <1>3 DEF Looked, AtHand
    <2> QED BY <1>1, <1>2, <1>3, <2>1, <2>3, PlaceStep DEF Reads
  <1> QED BY <1>4, <1>5 DEF LaunchPrefetch

LEMMA BatchSkips == ASSUME SkipInv, ReadBatch, UNCHANGED <<active, stored, reviewer, profiles, moved, stop>> PROVE SkipInv'
  <1>1. run.pc = "result" /\ run.pc \in Reads BY DEF ReadBatch, Looking, Reads
  <1>2. run.at \in DOMAIN run.items /\ Here \notin Absent /\ Here \in run.window
    BY <1>1 DEF SkipInv, RunOK, ReadOK, Reads
  <1>3. Here \in Image BY <1>1, <1>2, ReadFacts
  <1>4. ASSUME Result, CacheGoesOn, Looked(Here)' \/ Stopping PROVE SkipInv'
    <2>1. CASE run.next = "launch" /\ Goto("launch")
      <3>1. SamePlace /\ run'.pc = "launch" /\ run'.next = run.next BY <2>1, GotoOnly
      <3> QED BY <1>1, <1>2, <1>4, <2>1, <3>1, PlaceStep DEF Reads
    <2>2. CASE ToMatch
      <3>1. SamePlace /\ run'.pc = "match" BY <2>2, PlaceOnly DEF ToMatch
      <3> QED BY <1>1, <1>2, <1>4, <3>1, PlaceStep DEF Reads
    <2> QED BY <2>1, <2>2, <1>4 DEF Result
  <1>5. CASE Stopping /\ Result /\ Unchanged
    <2>1. CacheGoesOn BY <1>5, CacheSteps DEF Unchanged, SkipInv
    <2> QED BY <1>4, <1>5, <2>1
  <1>6. CASE BatchRead(run.window) /\ Result
    <2>1. PICK W, h : W = run.window /\ h = Here OBVIOUS
    <2>2. BatchRead(W) BY <1>6, <2>1
    <2>3. CacheGoesOn /\ \A m \in W \cap Image : Looked(m)' BY <2>2, CacheSteps DEF SkipInv
    <2>4. Looked(h)' BY <2>1, <2>3, <1>2, <1>3
    <2>5. Here' = Here
      <3>1. CASE Goto("launch") BY <3>1, GotoOnly DEF SamePlace, Here
      <3>2. CASE ToMatch
        <4>1. SamePlace BY <3>2, PlaceOnly DEF ToMatch
        <4> QED BY <4>1 DEF SamePlace, Here
      <3> QED BY <3>1, <3>2, <1>6 DEF Result
    <2>6. Looked(Here)' BY <2>1, <2>4, <2>5
    <2> QED BY <1>4, <1>6, <2>3, <2>6
  <1>7. CASE ReadPreview(Here) BY <1>1, <1>7, PreviewSkips
  <1> QED BY <1>5, <1>6, <1>7 DEF ReadBatch

LEMMA MatchSkips == ASSUME SkipInv, MatchFaces, UNCHANGED <<active, stored, reviewer, profiles, moved, stop>> PROVE SkipInv'
  <1>1. run.pc = "match" /\ run.pc \in Reads BY DEF MatchFaces, Looking, Reads
  <1>2. run.at \in DOMAIN run.items /\ Here \notin Absent /\ AtHand
    BY <1>1 DEF SkipInv, RunOK, ReadOK, Reads
  <1>3. ListOK /\ ReadBase BY <1>1, ReadFacts
  <1>4. CacheGoesOn /\ cache' = cache /\ unread' = unread BY CacheSteps DEF MatchFaces, Unchanged, SkipInv
  <1>5. CASE Stopping /\ Goto("drain")
    <2>1. SamePlace /\ run'.pc = "drain" BY <1>5, GotoOnly
    <2> QED BY <1>1, <1>4, <1>5, <2>1, PlaceStep DEF Reads
  <1>6. CASE ~Stopping
    <2> DEFINE refs == IF cache[Here] = "read" THEN run.refs \cup FacesHere ELSE run.refs
               over == IF cache[Here] # "read" /\ Here \in unread THEN run.over \cup FacesHere ELSE run.over
    <2>0. run' = [run EXCEPT !.pc = "image", !.at = run.at + 1, !.refs = refs, !.over = over]
      BY <1>6 DEF MatchFaces
    <2>1. run.refs \subseteq refs /\ run.over \subseteq over /\ refs \subseteq run.refs \cup FacesHere
          /\ FacesHere \subseteq refs \cup over
      BY <1>2, <1>6 DEF AtHand
    <2> HIDE DEF refs, over
    <2>2. {"pc", "at", "refs", "over"} \subseteq DOMAIN run /\ Entries(run.entries)
      BY Fields DEF SkipInv, RunOK, CoverOK
    <2>3. SameScan /\ run'.pc = "image" /\ run'.at = run.at + 1 /\ run'.items = run.items /\ run'.refs = refs /\ run'.over = over
      BY <2>0, <2>1, <2>2 DEF SameScan
    <2>4. refs \subseteq run.refs \cup {f \in FacesOf(run.who[run.i]) : ImageOf[f] = Here} BY <2>1 DEF FacesHere
    <2>5. \A f \in SoughtHere : ImageOf[f] = Here => f \in Covered' \cup run'.refs
      <3>1. SoughtHere \subseteq FacesOf(run.who[run.i]) BY <1>3, SoughtAreFaces DEF SoughtHere, ReadBase
      <3>2. \A f \in SoughtHere : ImageOf[f] = Here => f \in FacesHere BY <3>1 DEF FacesHere
      <3>3. over \subseteq Covered' BY <2>3 DEF Covered
      <3> QED BY <3>2, <3>3, <2>1, <2>3
    <2> QED BY <1>1, <1>2, <1>4, <2>1, <2>3, <2>4, <2>5, NextImage
  <1> QED BY <1>5, <1>6 DEF MatchFaces

LEMMA DrainSkips == ASSUME SkipInv, Drain, UNCHANGED <<active, stored, reviewer, profiles, moved, stop>> PROVE SkipInv'
  <1>1. run.pc = "drain" /\ run.pc \in Reads /\ Goto("judge") BY DEF Drain, Looking, Reads
  <1>2. run.at > Len(run.items) \/ LimitReached \/ Stopping BY <1>1 DEF SkipInv, RunOK, ReadOK, Reads
  <1>3. CacheGoesOn BY CacheSteps DEF Drain, Unchanged, SkipInv
  <1>4. SamePlace /\ run'.pc = "judge" BY <1>1, GotoOnly
  <1> QED BY <1>1, <1>2, <1>3, <1>4, PlaceStep DEF Reads

LEMMA ReadingSkips == ASSUME SkipInv, Reading PROVE SkipInv'
  <1>1. UNCHANGED <<active, stored, reviewer, profiles, moved, stop>> BY DEF Reading
  <1> QED BY <1>1, LookSkips, JoinSkips, ReadSkips, LaunchSkips, BatchSkips, MatchSkips, DrainSkips DEF Reading
-----------------------------------------------------------------------------
(* The scan is over, or a list is written.                                   *)
LEMMA Over ==
  ASSUME run' = NoRun, cache' = Empty, unread' = {}, StoredOK'
  PROVE  SkipInv'
  <1>1. /\ run'.pc = "none" /\ run'.kind = "build" /\ run'.who = <<>> /\ run'.i = 1 /\ run'.built = <<>>
        /\ run'.entries = <<>> /\ run'.after = 0 /\ run'.seen = {} /\ DOMAIN run' = DOMAIN NoRun
        /\ run'.lists = {} /\ run'.excluded = {} /\ run'.copy = <<>>
    BY DEF NoRun
  <1>2. ListOK' BY <1>1 DEF ListOK, ProfilesOK
  <1>3. Passed(run)' = {} BY <1>1 DEF Passed
  <1>4. CoverOK' BY <1>1, <1>3, EntriesNone DEF CoverOK, Seen, Entries
  <1>5. CacheOK' BY DEF CacheOK, Empty
  <1> QED BY <1>1, <1>2, <1>4, <1>5 DEF SkipInv, RunOK, ReadOK, JudgeOK, Reads

LEMMA Writes ==
  ASSUME StoredOK, NEW r, r.kind \in Review, NEW c, PayloadOK(r.kind, c), WriteFindings(r, c)
  PROVE  /\ DOMAIN active' = Review /\ DOMAIN stored' = Review
         /\ \A k \in Review : PayloadOK(k, active'[k]) /\ PayloadOK(k, stored'[k])
  <1>1. DOMAIN active' = Review /\ DOMAIN stored' = Review BY DEF StoredOK, WriteFindings
  <1>2. ASSUME NEW k \in Review
        PROVE  /\ active'[k] = active[k] \/ (k = r.kind /\ active'[k] = c)
               /\ stored'[k] = stored[k] \/ (k = r.kind /\ stored'[k] = c)
    BY DEF StoredOK, WriteFindings
  <1>3. \A k \in Review : PayloadOK(k, active'[k]) /\ PayloadOK(k, stored'[k])
    <2> TAKE k \in Review
    <2>1. PayloadOK(k, active[k]) /\ PayloadOK(k, stored[k]) BY DEF StoredOK
    <2> QED BY <1>2, <2>1
  <1> QED BY <1>1, <1>3

LEMMA Written ==
  ASSUME StoredOK, NEW r, r.kind \in Review, NEW c, PayloadOK(r.kind, c), WriteFindings(r, c),
         UNCHANGED <<moved, reviewer>>, StoreOK'
  PROVE  StoredOK'
  <1>1. /\ DOMAIN active' = Review /\ DOMAIN stored' = Review
        /\ \A k \in Review : PayloadOK(k, active'[k]) /\ PayloadOK(k, stored'[k])
    BY Writes
  <1> QED BY <1>1, StoredFrom DEF StoredOK

LEMMA PlainOK ==
  ASSUME RunOK, run.kind # "build", run.pc \notin {"none", "begin"}
  PROVE  PayloadOK(run.kind, Plain(run))
  <1> DEFINE c == Plain(run)
             k == run.kind
  <1>1. /\ DOMAIN c = DOMAIN NoPayload /\ c.entries = run.entries /\ c.start = 1 /\ c.person = 0 /\ c.after = 0
        /\ c.over = run.over /\ c.lists = run.lists /\ c.seen = Seen(run)
    BY DEF Plain, NoPayload
  <1>2. ListOK /\ CoverOK BY DEF RunOK
  <1> HIDE DEF c
  <1>3. CoveredBy(k, c) = Covered BY <1>1 DEF CoveredBy, Covered, FoundSoFar
  <1>4. ASSUME NEW list \in c.lists, c.lists = {list}, NEW j \in DOMAIN list
        PROVE  /\ ~(j < c.start)
               /\ \A g \in EntryFaces(c.entries) : PersonAt(k, list, j) = PersonOf[g] =>
                   /\ \A n \in DOMAIN list : n < j => Sought(k, list, n) \subseteq c.seen
                   /\ FrontOf(k, list, j, Mark(k, g)) \subseteq CoveredBy(k, c)
    <2>1. list = List(run) /\ run.lists = {List(run)} BY <1>1, <1>2, <1>4 DEF ListOK
    <2>2. DOMAIN list = DOMAIN run.who /\ \A n \in DOMAIN list : PersonAt(k, list, n) = run.who[n]
      BY <1>2, <2>1 DEF ListOK, List, PersonAt
    <2>3. \A n \in DOMAIN list : n \in Nat \ {0} BY <1>2, <2>2, Elements DEF ListOK
    <2>4. ASSUME NEW g \in EntryFaces(c.entries), PersonAt(k, list, j) = PersonOf[g]
          PROVE  /\ \A n \in DOMAIN list : n < j => Sought(k, list, n) \subseteq c.seen
                 /\ FrontOf(k, list, j, Mark(k, g)) \subseteq CoveredBy(k, c)
      <3>1. /\ j <= run.i \/ \A n \in DOMAIN run.who : n < j => Sought(run.kind, List(run), n) \subseteq run.seen
            /\ FrontOf(run.kind, List(run), j, Mark(run.kind, g)) \subseteq Covered
        BY <1>1, <1>2, <2>1, <2>2, <2>4 DEF CoverOK
      <3>2. ASSUME NEW n \in DOMAIN list, n < j PROVE Sought(k, list, n) \subseteq c.seen
        <4>1. CASE j <= run.i
          <5>1. n < run.i BY <4>1, <3>2, <2>3, <1>2 DEF ListOK
          <5>2. Sought(run.kind, List(run), n) \subseteq Passed(run) BY <5>1, <2>2 DEF Passed
          <5> QED BY <5>2, <1>1, <2>1 DEF Seen
        <4>2. CASE \A l \in DOMAIN run.who : l < j => Sought(run.kind, List(run), l) \subseteq run.seen
          BY <4>2, <1>1, <2>1, <2>2, <3>2 DEF Seen
        <4> QED BY <3>1, <4>1, <4>2
      <3> QED BY <3>1, <3>2, <1>3, <2>1
    <2>5. ~(j < c.start) BY <2>3, <1>1
    <2> QED BY <2>4, <2>5
  <1>5. c.lists # {} BY <1>1, <1>2 DEF ListOK
  <1>6. PayloadOK(k, c) BY <1>1, <1>2, <1>3, <1>4, <1>5 DEF PayloadOK, CoverOK
  <1> QED BY <1>6 DEF c

LEMMA ProfilesWithout == ASSUME NEW s, ProfilesOK(s), NEW F PROVE ProfilesOK(WithoutRefs(s, F))
  <1> DEFINE t == WithoutRefs(s, F)
  <1>1. Len(s) \in Nat /\ DOMAIN s = 1 .. Len(s)
        /\ \A n \in DOMAIN s : s[n] \in [person : Nat, refs : SUBSET Face]
    BY Elements DEF ProfilesOK
  <1>2. DOMAIN t = DOMAIN s /\ t = [n \in 1 .. Len(s) |-> t[n]] BY <1>1 DEF WithoutRefs
  <1>3. \A n \in DOMAIN s : /\ t[n] \in [person : Nat, refs : SUBSET Face]
                                   /\ t[n].person = s[n].person /\ t[n].refs \subseteq s[n].refs
    <2> TAKE n \in DOMAIN s
    <2>1. t[n] = [s[n] EXCEPT !.refs = s[n].refs \ F] BY DEF WithoutRefs
    <2> HIDE DEF t
    <2> QED BY <1>1, <2>1
  <1> HIDE DEF t
  <1>4. t \in Seq([person : Nat, refs : SUBSET Face]) BY <1>1, <1>2, <1>3
  <1>5. ProfilesOK(t) BY <1>2, <1>3, <1>4 DEF ProfilesOK
  <1> QED BY <1>5 DEF t

LEMMA StopsOK ==
  ASSUME SkipInv, run.pc \notin {"none", "begin"}, UNCHANGED <<moved, reviewer>>,
         (run.kind = "build" /\ StoppedBuild) \/ (run.kind # "build" /\ Stopped)
  PROVE  SkipInv'
  <1>1. StoredOK /\ RunOK /\ ListOK BY DEF SkipInv, RunOK
  <1>2. StoreOK'
    <2>1. PICK k, s : k = run.key /\ s = run.built OBVIOUS
    <2>2. profiles' \in {profiles, [profiles EXCEPT ![k] = s]} BY <2>1 DEF StoppedBuild, Stopped
    <2>3. StoreOK /\ ProfilesOK(s) BY <1>1, <2>1 DEF StoredOK, ListOK
    <2> QED BY <2>2, <2>3, StoreKept
  <1>3. StoredOK'
    <2>1. CASE UNCHANGED <<active, stored>> BY <2>1, <1>1, <1>2, StoredFrom DEF StoredOK
    <2>2. CASE run.kind # "build" /\ WriteFindings(run, Plain(run))
      <3>1. PICK r, c : r = run /\ c = Plain(run) OBVIOUS
      <3>2. r.kind \in Review /\ PayloadOK(r.kind, c) BY <2>2, <3>1, <1>1, PlainOK DEF ListOK
      <3>3. WriteFindings(r, c) BY <2>2, <3>1
      <3> QED BY <3>2, <3>3, <1>1, <1>2, Written
    <2> QED BY <2>1, <2>2 DEF StoppedBuild, Stopped, WriteNothing
  <1> QED BY <1>3, Over DEF StoppedBuild, Stopped, Ends
-----------------------------------------------------------------------------
(* Going through the list.                                                   *)
LEMMA PreloadSkips == ASSUME SkipInv, Preload, UNCHANGED <<stop, reviewer, moved>> PROVE SkipInv'
  <1>1. {"pre"} \subseteq DOMAIN run /\ Entries(run.entries) BY Fields DEF SkipInv, RunOK, CoverOK
  <1>2. PICK n : run' = [run EXCEPT !.pre = n] BY DEF Preload
  <1>3. SameScan /\ UNCHANGED <<run.pc, run.at, run.items, run.refs, run.rest, run.window, run.next>>
    BY <1>1, <1>2 DEF SameScan
  <1>4. CacheGoesOn
    <2>1. PICK W : W = {a[2] : a \in PreloadItems} OBVIOUS
    <2>2. BatchRead(W) \/ Unchanged BY <2>1 DEF Preload
    <2> QED BY <2>2, CacheSteps DEF Unchanged, SkipInv
  <1>5. UNCHANGED <<active, stored, reviewer, profiles, moved>> BY DEF Preload
  <1>6. StoredOK' BY <1>5, StoredStays DEF SkipInv
  <1> QED BY <1>3, <1>4, <1>5, <1>6, BesideScan

LEMMA PersonSkips == ASSUME SkipInv, NextPerson, UNCHANGED <<stop, reviewer, moved>> PROVE SkipInv'
  <1> DEFINE p == run.who[run.i]
             images == ImagesOf(p)
             m == AfterOf(run)
             items == Sorted(Behind(images, m))
  <1>1. /\ run.pc = "person" /\ run.kind # "outliers" /\ run.i <= Len(run.who)
        /\ run' = [run EXCEPT !.pc = "image", !.at = 1, !.refs = {}, !.items = items, !.over = run.over \cup PassedOver(run)]
        /\ UNCHANGED <<active, stored, reviewer, profiles, moved, cache, unread>>
    BY DEF NextPerson, AtPerson, OpenPerson
  <1>2. ListOK /\ CoverOK /\ StoredOK /\ CacheOK /\ DOMAIN run = DOMAIN NoRun BY DEF SkipInv, RunOK
  <1>3. run.i \in DOMAIN run.who /\ run.kind \in Review \cup {"build"} BY <1>1, <1>2, Elements DEF ListOK
  <1>4. IsFiniteSet(images) /\ images \subseteq Nat /\ images \subseteq Image BY Photos
  <1>5. IsFiniteSet(Behind(images, m)) /\ Behind(images, m) \subseteq images
    <2>1. Behind(images, m) \in SUBSET images BY DEF Behind
    <2> HIDE DEF images, m
    <2> QED BY <2>1, <1>4, FS_Subset
  <1>6. items \in Seq(Image) /\ ToSet(items) = Behind(images, m) /\ Ascending(items)
    <2>1. PICK S : S = Behind(images, m) OBVIOUS
    <2>2. IsFiniteSet(S) /\ S \subseteq Nat /\ S \subseteq Image BY <2>1, <1>4, <1>5
    <2> QED BY <2>1, <2>2, SortedOf
  <1>7. /\ {"pc", "at", "refs", "items", "over"} \subseteq DOMAIN run /\ Entries(run.entries)
    BY <1>2, Fields DEF CoverOK
  <1> HIDE DEF items, m, images
  <1>8. /\ SameScan /\ run'.pc = "image" /\ run'.at = 1 /\ run'.refs = {} /\ run'.items = items
        /\ run'.over = run.over \cup PassedOver(run)
    BY <1>1, <1>7 DEF SameScan
  <1>9. Covered \subseteq Covered' /\ SoughtHere' \subseteq SoughtHere BY <1>1, <1>3, <1>8, SoughtOfList
  <1>10. ASSUME NEW f \in SoughtHere
         PROVE  f \in Covered' \/ \E n \in DOMAIN items : n >= 1 /\ items[n] = ImageOf[f]
    <2>1. f \in FacesOf(p) /\ f \in Face BY <1>1, <1>2, <1>3, SoughtAreFaces DEF SoughtHere
    <2>2. ImageOf[f] \in images /\ ImageOf[f] \in Nat BY <2>1, Photos DEF images, ImagesOf
    <2>3. CASE ImageOf[f] \in Behind(images, m)
      <3>1. PICK n \in DOMAIN items : items[n] = ImageOf[f] BY <2>3, <1>6 DEF ToSet
      <3>2. n >= 1 BY <1>6, Elements
      <3> QED BY <3>1, <3>2
    <2>4. CASE ImageOf[f] \notin Behind(images, m) /\ f \in PassedOver(run)
      <3>1. f \in run'.over BY <1>8, <2>4
      <3> QED BY <3>1 DEF Covered
    <2>5. CASE ImageOf[f] \notin Behind(images, m) /\ f \notin PassedOver(run)
      <3>1. m \in images /\ p = run.person /\ ImageOf[f] # m BY <2>1, <2>5 DEF PassedOver, m, images
      <3>2. m # 0 /\ ~(ImageOf[f] > m) BY <2>2, <2>5, <3>1 DEF Behind
      <3>3. m = run.after BY <3>2 DEF m, AfterOf
      <3>4. m \in Nat BY <3>1, <1>4
      <3>5. ImageOf[f] < run.after BY <3>1, <3>2, <3>3, <3>4, <2>2
      <3>6. f \in FrontOf(run.kind, List(run), run.i, run.after) BY <3>5, <1>1 DEF FrontOf, SoughtHere
      <3>7. FrontOf(run.kind, List(run), run.i, run.after) \subseteq Covered BY <3>1, <1>2, <1>3 DEF CoverOK
      <3> QED BY <3>6, <3>7, <1>9
    <2> QED BY <2>3, <2>4, <2>5
  <1>11. ReadBase'
    <2>1. \A f \in SoughtHere' : f \in Covered' \/ \E n \in DOMAIN items : n >= 1 /\ items[n] = ImageOf[f]
      BY <1>9, <1>10
    <2> QED BY <2>1, <1>1, <1>3, <1>6, <1>8 DEF ReadBase, SameScan
  <1>12. ReadOK' BY <1>8, <1>11 DEF ReadOK
  <1>13. StoredOK' BY <1>1, <1>2, StoredStays
  <1>14. ListOK' BY <1>1, <1>2, <1>8, ListStays
  <1>15. CoverOK' BY <1>1, <1>2, <1>8, CoverStays
  <1>16. JudgeOK' BY <1>8 DEF JudgeOK
  <1>17. CacheOK' BY <1>1, <1>2 DEF CacheOK
  <1>18. DOMAIN run' = DOMAIN NoRun BY <1>2, <1>8 DEF SameScan
  <1> QED BY <1>12, <1>13, <1>14, <1>15, <1>16, <1>17, <1>18 DEF SkipInv, RunOK, NoRun

LEMMA ProfileSkips == ASSUME SkipInv, NextProfile, UNCHANGED <<stop, reviewer, moved>> PROVE SkipInv'
  <1> DEFINE refs == run.built[run.i].refs
             m == AfterOf(run)
             left == Behind(refs, m)
             due == (left \cap Notable) \ run.resolved
             over == run.over \cup (left \cap run.resolved) \cup (IF m \in refs \cup {0} THEN {} ELSE refs)
  <1>1. /\ run.pc = "person" /\ run.kind = "outliers" /\ run.i <= Len(run.who)
        /\ run' = [run EXCEPT !.pc = "entry", !.rest = Sorted(due), !.over = over]
        /\ UNCHANGED <<active, stored, reviewer, profiles, moved, cache, unread>>
    BY DEF NextProfile, AtPerson
  <1>2. ListOK /\ CoverOK /\ StoredOK /\ CacheOK /\ DOMAIN run = DOMAIN NoRun BY DEF SkipInv, RunOK
  <1>3. run.i \in DOMAIN run.who /\ run.kind \in Review \cup {"build"} BY <1>1, <1>2, Elements DEF ListOK
  <1>4. /\ refs \in SUBSET Face /\ run.built[run.i].person = run.who[run.i]
        /\ \A f \in refs : PersonOf[f] = run.who[run.i]
    <2>1. run.i \in DOMAIN run.built /\ run.who[run.i] = run.built[run.i].person BY <1>1, <1>2, <1>3 DEF ListOK
    <2>2. run.built[run.i] \in [person : Nat, refs : SUBSET Face] BY <2>1, <1>2, Elements DEF ListOK, ProfilesOK
    <2> QED BY <2>1, <2>2, <1>2 DEF ListOK, ProfilesOK
  <1>5. left \subseteq refs BY DEF Behind
  <1>6. Sorted(due) \in Seq(Face) /\ ToSet(Sorted(due)) = due /\ Ascending(Sorted(due))
    <2>1. PICK S : S = due OBVIOUS
    <2>2. S \in SUBSET Face BY <2>1, <1>4, <1>5
    <2>3. IsFiniteSet(S) /\ S \subseteq Nat BY <2>2, PhotosAssumption, FS_Subset
    <2> QED BY <2>1, <2>2, <2>3, SortedOf
  <1>7. {"pc", "rest", "over"} \subseteq DOMAIN run /\ Entries(run.entries) BY <1>2, Fields DEF CoverOK
  <1>8. run.over \subseteq over OBVIOUS
  <1>9. \A f \in SoughtHere : f \in Covered \cup over \cup due
    <2> TAKE f \in SoughtHere
    <2>1. f \in refs /\ f \in Notable BY <1>1 DEF SoughtHere, Sought, List
    <2>2. CASE f \in left BY <2>1, <2>2
    <2>3. CASE f \notin left /\ m \in refs
      <3>1. f \in Nat /\ m \in Nat /\ m # 0 BY <2>1, <2>3, <1>4, Photos DEF Behind
      <3>2. m = run.after BY <3>1 DEF AfterOf
      <3>3. f <= run.after BY <2>1, <2>3, <3>1, <3>2 DEF Behind
      <3>4. run.person = run.who[run.i] BY <2>3, <3>1, <3>2, <1>1, <1>2, <1>4 DEF ListOK
      <3>5. f \in FrontOf(run.kind, List(run), run.i, run.after) BY <3>3, <1>1 DEF FrontOf, SoughtHere
      <3>6. FrontOf(run.kind, List(run), run.i, run.after) \subseteq Covered BY <3>4, <1>2, <1>3 DEF CoverOK
      <3> QED BY <3>5, <3>6
    <2>4. CASE f \notin left /\ m \notin refs
      <3>1. m # 0 BY <2>1, <2>4 DEF Behind
      <3> QED BY <3>1, <2>1, <2>4
    <2> QED BY <2>2, <2>3, <2>4
  <1> HIDE DEF due, over, refs, left, m
  <1>10. SameScan /\ run'.pc = "entry" /\ run'.rest = Sorted(due) /\ run'.over = over
    BY <1>1, <1>7, <1>8 DEF SameScan
  <1>11. Covered \subseteq Covered' /\ SoughtHere' \subseteq SoughtHere BY <1>1, <1>3, <1>10, SoughtOfList
  <1>12. JudgeOK'
    <2>1. over \subseteq Covered' BY <1>10 DEF Covered
    <2>2. SoughtHere' \subseteq Covered' \cup ToSet(run'.rest) BY <2>1, <1>6, <1>9, <1>10, <1>11
    <2>3. \A f \in ToSet(run'.rest) : PersonOf[f] = run.who[run.i] BY <1>4, <1>5, <1>6, <1>10 DEF due
    <2> QED BY <2>2, <2>3, <1>1, <1>3, <1>6, <1>10 DEF JudgeOK, SameScan
  <1>13. StoredOK' BY <1>1, <1>2, StoredStays
  <1>14. ListOK' BY <1>1, <1>2, <1>10, ListStays
  <1>15. CoverOK' BY <1>1, <1>2, <1>10, CoverStays
  <1>16. ReadOK' BY <1>10 DEF ReadOK, Reads
  <1>17. CacheOK' BY <1>1, <1>2 DEF CacheOK
  <1>18. DOMAIN run' = DOMAIN NoRun BY <1>2, <1>10 DEF SameScan
  <1> QED BY <1>12, <1>13, <1>14, <1>15, <1>16, <1>17, <1>18 DEF SkipInv, RunOK, NoRun

LEMMA ListEndSkips == ASSUME SkipInv, EndScan, UNCHANGED <<stop, reviewer, moved>> PROVE SkipInv'
  <1>1. run.pc = "person" /\ run.kind # "build" /\ UNCHANGED profiles BY DEF EndScan
  <1>2. ListOK /\ CoverOK /\ StoredOK /\ CacheOK /\ RunOK BY DEF SkipInv, RunOK
  <1>3. StoreOK' BY <1>1, <1>2 DEF StoredOK, StoreOK, ProfilesOK
  <1>4. StoredOK'
    <2>1. PICK r, c : r = run /\ c = Plain(run) OBVIOUS
    <2>2. r.kind \in Review /\ PayloadOK(r.kind, c) BY <1>1, <1>2, <2>1, PlainOK DEF ListOK
    <2>3. WriteFindings(r, c) BY <2>1 DEF EndScan
    <2> QED BY <2>2, <2>3, <1>2, <1>3, Written
  <1>5. CASE run' = [run EXCEPT !.pc = "exclude"] /\ UNCHANGED <<cache, unread>>
    <2>1. SameScan /\ run'.pc = "exclude"
      <3>1. {"pc"} \subseteq DOMAIN run /\ Entries(run.entries) BY <1>2, Fields DEF RunOK, CoverOK
      <3> QED BY <1>5, <3>1 DEF SameScan
    <2>2. ListOK' BY <1>1, <1>2, <2>1, ListStays
    <2>3. CoverOK' BY <1>2, <2>1, CoverStays
    <2>4. DOMAIN run' = DOMAIN NoRun BY <1>2, <2>1 DEF SameScan, RunOK
    <2> QED BY <1>2, <1>4, <1>5, <2>1, <2>2, <2>3, <2>4 DEF SkipInv, RunOK, ReadOK, JudgeOK, Reads, CacheOK, NoRun
  <1>6. CASE Ends BY <1>4, <1>6, Over DEF Ends
  <1> QED BY <1>5, <1>6 DEF EndScan

LEMMA ApplyingSkips ==
  ASSUME SkipInv, ReadToExclude \/ ApplyExclusions, UNCHANGED <<stop, reviewer, moved>>
  PROVE  SkipInv'
  <1> DEFINE left == WithoutRefs(Own, EntryFaces(run.entries))
  <1>1. ListOK /\ CoverOK /\ StoredOK /\ CacheOK /\ DOMAIN run = DOMAIN NoRun BY DEF SkipInv, RunOK
  <1>2. run.pc \in {"exclude", "rewrite"} /\ run.key \in Key BY <1>1 DEF ReadToExclude, ApplyExclusions, ListOK
  <1>3. StoreOK'
    <2>1. PICK k, s : k = run.key /\ s = run.copy OBVIOUS
    <2>2. profiles' \in {profiles, [profiles EXCEPT ![k] = s]} BY <2>1 DEF ReadToExclude, ApplyExclusions
    <2>3. StoreOK /\ ProfilesOK(s) BY <1>1, <2>1 DEF StoredOK, ListOK
    <2> QED BY <2>2, <2>3, StoreKept
  <1>4. StoredOK'
    <2>1. UNCHANGED <<active, stored, moved, reviewer>> BY DEF ReadToExclude, ApplyExclusions
    <2> QED BY <1>1, <1>3, <2>1, StoredFrom DEF StoredOK
  <1>5. CASE Applied BY <1>4, <1>5, Over DEF Applied, Ends
  <1>6. CASE run' = [run EXCEPT !.pc = "rewrite", !.copy = left] /\ UNCHANGED <<cache, unread>>
    <2>1. ProfilesOK(left)
      <3>1. PICK s, F : s = Own /\ F = EntryFaces(run.entries) OBVIOUS
      <3>2. ProfilesOK(s) BY <1>1, <1>2, <3>1 DEF StoredOK, StoreOK, Own
      <3> QED BY <3>1, <3>2, ProfilesWithout
    <2> HIDE DEF left
    <2>2. {"pc", "copy"} \subseteq DOMAIN run /\ Entries(run.entries) BY <1>1, Fields DEF CoverOK
    <2>3. /\ run'.pc = "rewrite" /\ run'.copy = left /\ run'.key = run.key /\ run'.i = run.i /\ run'.built = run.built
          /\ run'.kind = run.kind /\ run'.who = run.who /\ run'.person = run.person /\ run'.after = run.after
          /\ run'.lists = run.lists /\ run'.seen = run.seen /\ run'.entries = run.entries /\ run'.over = run.over
          /\ run'.excluded = run.excluded /\ DOMAIN run' = DOMAIN NoRun
      BY <1>1, <1>6, <2>2
    <2>4. List(run)' = List(run) BY <2>3 DEF List
    <2>5. ListOK'
      <3>1. ProfilesOK(run.built)' /\ ProfilesOK(run.copy)' BY <1>1, <2>1, <2>3 DEF ProfilesOK, ListOK
      <3> QED BY <3>1, <2>3, <2>4, <1>1, <1>2 DEF ListOK
    <2>6. CoverOK'
      <3>1. /\ \A j : Sought(run.kind, List(run), j)' = Sought(run.kind, List(run), j)
            /\ \A j, m : FrontOf(run.kind, List(run), j, m)' = FrontOf(run.kind, List(run), j, m)
        BY <2>3, <2>4 DEF Sought, FrontOf, FacesOf, WithinLimit
      <3>2. Seen(run)' = Seen(run) /\ Covered' = Covered
        BY <2>3, <2>4, <3>1 DEF Seen, Passed, Covered, FoundSoFar, Missing, RefsOf, EntryFaces
      <3>3. /\ \A j : FrontOf(run.kind, List(run), j, run.after)' = FrontOf(run.kind, List(run), j, run.after)
            /\ \A j, g : FrontOf(run.kind, List(run), j, Mark(run.kind, g))' = FrontOf(run.kind, List(run), j, Mark(run.kind, g))
        BY <2>3, <2>4, <3>1 DEF FrontOf, Mark
      <3> QED BY <1>1, <2>3, <2>4, <3>1, <3>2, <3>3 DEF CoverOK, Entries, EntryFaces
    <2> QED BY <1>1, <1>4, <1>6, <2>3, <2>5, <2>6 DEF SkipInv, RunOK, ReadOK, JudgeOK, Reads, CacheOK, NoRun
  <1> QED BY <1>5, <1>6 DEF ReadToExclude, ApplyExclusions, left

LEMMA ListingSkips == ASSUME SkipInv, Listing PROVE SkipInv'
  <1>1. UNCHANGED <<stop, reviewer, moved>> BY DEF Listing
  <1>2. ASSUME StopAtPerson \/ EndBuild PROVE SkipInv'
    <2>1. run.pc = "person" /\ ((run.kind = "build" /\ StoppedBuild) \/ (run.kind # "build" /\ Stopped))
      BY <1>2 DEF StopAtPerson, EndBuild, AtPerson
    <2> QED BY <1>1, <2>1, StopsOK
  <1>3. ASSUME ReadToExclude \/ ApplyExclusions PROVE SkipInv' BY <1>1, <1>3, ApplyingSkips
  <1> QED BY <1>1, <1>2, <1>3, PreloadSkips, PersonSkips, ProfileSkips, ListEndSkips DEF Listing
-----------------------------------------------------------------------------
(* Judging what the images of a person give.                                 *)
LEMMA NextCovers ==
  ASSUME ListOK, CoverOK, UNCHANGED moved, DOMAIN run' = DOMAIN run,
         run'.kind = run.kind, run'.who = run.who, run'.i = run.i + 1, run'.person = run.person,
         run'.after = run.after, run'.lists = run.lists, run'.seen = run.seen, run'.entries = run.entries,
         List(run)' = List(run), Covered \subseteq Covered', SoughtHere \subseteq Covered'
  PROVE  CoverOK'
  <1>1. \A j : Sought(run.kind, List(run), j)' = Sought(run.kind, List(run), j)
    BY DEF Sought, FacesOf, WithinLimit
  <1>2. \A j, a : FrontOf(run.kind, List(run), j, a)' = FrontOf(run.kind, List(run), j, a) BY <1>1 DEF FrontOf
  <1>3. run.i \in Nat /\ \A n \in DOMAIN run.who : n \in Nat BY Elements DEF ListOK
  <1>4. Seen(run)' \subseteq Seen(run) \cup SoughtHere
    <2>1. \A n \in DOMAIN run.who : n < run.i + 1 => n < run.i \/ n = run.i BY <1>3
    <2>2. Passed(run)' \subseteq Passed(run) \cup SoughtHere
      <3> SUFFICES ASSUME NEW n \in DOMAIN run.who, n < run.i + 1, NEW f \in Sought(run.kind, List(run), n)
                   PROVE  f \in Passed(run) \cup SoughtHere
        BY <1>1 DEF Passed
      <3> QED BY <2>1 DEF Passed, SoughtHere
    <2> QED BY <2>2 DEF Seen
  <1>5. Seen(run)' \subseteq Covered' BY <1>4 DEF CoverOK
  <1>6. ASSUME NEW j \in DOMAIN run.who, run.who[j] = run.person
        PROVE  FrontOf(run.kind, List(run), j, run.after)' \subseteq Covered'
    <2>1. FrontOf(run.kind, List(run), j, run.after) \subseteq Covered BY <1>6 DEF CoverOK
    <2>2. FrontOf(run.kind, List(run), j, run.after)' = FrontOf(run.kind, List(run), j, run.after) BY <1>1 DEF FrontOf
    <2> QED BY <2>1, <2>2
  <1>7. ASSUME run.kind # "build", run.lists = {List(run)}, NEW g \in EntryFaces(run.entries),
               NEW j \in DOMAIN run.who, run.who[j] = PersonOf[g]
        PROVE  /\ j <= run.i + 1 \/ \A n \in DOMAIN run.who : n < j => Sought(run.kind, List(run), n)' \subseteq run.seen
               /\ FrontOf(run.kind, List(run), j, Mark(run.kind, g))' \subseteq Covered'
    <2>1. /\ j <= run.i \/ \A n \in DOMAIN run.who : n < j => Sought(run.kind, List(run), n) \subseteq run.seen
          /\ FrontOf(run.kind, List(run), j, Mark(run.kind, g)) \subseteq Covered
      BY <1>7 DEF CoverOK
    <2>2. FrontOf(run.kind, List(run), j, Mark(run.kind, g))' = FrontOf(run.kind, List(run), j, Mark(run.kind, g))
      BY <1>1 DEF FrontOf, Mark
    <2>3. j <= run.i => j <= run.i + 1 BY <1>3
    <2> QED BY <2>1, <2>2, <2>3, <1>1
  <1> QED BY <1>5, <1>6, <1>7 DEF CoverOK, Entries, EntryFaces

(* At the end of its images everything looked for at a person is found.      *)
LEMMA AllFound ==
  ASSUME SkipInv, run.pc = "judge", ~Stopping
  PROVE  SoughtHere \subseteq Covered \cup run.refs
  <1>1. ReadBase /\ ListOK /\ run.at \in Nat /\ DOMAIN run.items = 1 .. Len(run.items) BY ReadFacts DEF Reads
  <1>2. run.at > Len(run.items) \/ LimitReached BY DEF SkipInv, RunOK, ReadOK, Reads
  <1> SUFFICES ASSUME NEW f \in SoughtHere, f \notin Covered \cup run.refs PROVE FALSE OBVIOUS
  <1>3. PICK n \in DOMAIN run.items : n >= run.at /\ run.items[n] = ImageOf[f] BY <1>1 DEF ReadBase
  <1>4. n \in Nat /\ n <= Len(run.items) /\ Len(run.items) \in Nat BY <1>1, Elements DEF ReadBase
  <1>5. LimitReached BY <1>1, <1>2, <1>3, <1>4
  <1>6. run.kind = "build" /\ Limit > 0 /\ Limit \in Nat /\ Cardinality(run.refs) >= Limit
    BY <1>5, OptionsAssumption DEF LimitReached
  <1>7. f \in Face /\ PersonOf[f] = run.who[run.i] /\ WithinLimit(f)
    <2>1. f \in FacesOf(run.who[run.i]) /\ WithinLimit(f) BY <1>6 DEF SoughtHere, Sought, List
    <2> QED BY <2>1 DEF FacesOf
  <1> DEFINE G == {g \in Face : PersonOf[g] = PersonOf[f] /\ ImageOf[g] < ImageOf[f]}
  <1>8. Cardinality(G) < Limit BY <1>6, <1>7 DEF WithinLimit
  <1>9. \A g \in run.refs : g \in G
    <2> TAKE g \in run.refs
    <2>1. g \in Face /\ PersonOf[g] = run.who[run.i] BY <1>1 DEF ReadBase
    <2>2. PICK l \in DOMAIN run.items : l < run.at /\ run.items[l] = ImageOf[g] BY <1>1 DEF ReadBase
    <2>3. l \in Nat /\ l < n BY <2>2, <1>1, <1>3, <1>4
    <2>4. ImageOf[g] < ImageOf[f] BY <2>2, <2>3, <1>1, <1>3 DEF ReadBase, Ascending
    <2> QED BY <2>1, <2>4, <1>7
  <1>10. G \in SUBSET Face OBVIOUS
  <1> HIDE DEF G
  <1>11. IsFiniteSet(G) BY <1>10, PhotosAssumption, FS_Subset
  <1>12. run.refs \in SUBSET G BY <1>9
  <1>13. Cardinality(run.refs) <= Cardinality(G) /\ IsFiniteSet(run.refs) BY <1>11, <1>12, FS_Subset
  <1>14. Cardinality(run.refs) \in Nat /\ Cardinality(G) \in Nat BY <1>11, <1>13, FS_CardinalityType
  <1> QED BY <1>6, <1>8, <1>13, <1>14

LEMMA ProfileAdded ==
  ASSUME ListOK, run.kind = "build", run.i \in DOMAIN run.who, NEW refs \in SUBSET Face,
         \A f \in refs : PersonOf[f] = run.who[run.i]
  PROVE  LET b == Append(run.built, [person |-> run.who[run.i], refs |-> refs])
         IN  /\ ProfilesOK(b) /\ RefsOf(b) = RefsOf(run.built) \cup refs
             /\ \A n \in DOMAIN b, j \in DOMAIN run.who : j >= run.i + 1 => b[n].person # run.who[j]
  <1> DEFINE x == [person |-> run.who[run.i], refs |-> refs]
             b == Append(run.built, x)
             l == Len(run.built)
  <1>1. run.built \in Seq([person : Nat, refs : SUBSET Face]) /\ run.who \in Seq(Nat) /\ run.i \in Nat
    BY DEF ListOK, ProfilesOK
  <1>2. x \in [person : Nat, refs : SUBSET Face] BY <1>1, Elements
  <1>3. /\ b \in Seq([person : Nat, refs : SUBSET Face]) /\ l \in Nat /\ DOMAIN run.built = 1 .. l /\ DOMAIN b = 1 .. (l + 1)
        /\ \A n \in DOMAIN run.built : b[n] = run.built[n]
        /\ b[l + 1] = x
    <2> HIDE DEF x
    <2> QED BY <1>1, <1>2
  <1>0. /\ \A n \in DOMAIN run.built : \A j \in DOMAIN run.who : j >= run.i => run.built[n].person # run.who[j]
        /\ \A n \in DOMAIN run.built : \A f \in run.built[n].refs : PersonOf[f] = run.built[n].person
        /\ \A m, n \in DOMAIN run.built : run.built[m].person = run.built[n].person => m = n
        /\ \A m, n \in DOMAIN run.who : run.who[m] = run.who[n] => m = n
    BY DEF ListOK, ProfilesOK
  <1>4. \A n \in DOMAIN run.built : run.built[n].person # run.who[run.i]
    <2>1. run.i >= run.i BY <1>1
    <2> QED BY <2>1, <1>0
  <1>5. \A n \in DOMAIN b : n \in DOMAIN run.built \/ n = l + 1 BY <1>3
  <1>6. x.person = run.who[run.i] /\ x.refs = refs OBVIOUS
  <1> HIDE DEF x, b, l
  <1>7. \A n \in DOMAIN b : \A f \in b[n].refs : PersonOf[f] = b[n].person
    <2> SUFFICES ASSUME NEW n \in DOMAIN b, NEW f \in b[n].refs PROVE PersonOf[f] = b[n].person OBVIOUS
    <2>1. CASE n \in DOMAIN run.built BY <2>1, <1>0, <1>3
    <2>2. CASE n = l + 1 BY <2>2, <1>3, <1>6
    <2> QED BY <2>1, <2>2, <1>5
  <1>8. \A m, n \in DOMAIN b : b[m].person = b[n].person => m = n
    <2> SUFFICES ASSUME NEW m \in DOMAIN b, NEW n \in DOMAIN b, b[m].person = b[n].person PROVE m = n OBVIOUS
    <2>1. CASE m \in DOMAIN run.built /\ n \in DOMAIN run.built BY <2>1, <1>0, <1>3
    <2>2. CASE m \in DOMAIN run.built /\ n = l + 1 BY <2>2, <1>3, <1>4, <1>6
    <2>3. CASE m = l + 1 /\ n \in DOMAIN run.built BY <2>3, <1>3, <1>4, <1>6
    <2> QED BY <2>1, <2>2, <2>3, <1>5
  <1>9. RefsOf(b) = RefsOf(run.built) \cup refs
    <2>1. ToSet(b) = ToSet(run.built) \cup {x}
      <3>1. \A y : y \in ToSet(b) <=> \E n \in DOMAIN b : y = b[n] BY DEF ToSet
      <3>2. \A y : y \in ToSet(run.built) <=> \E n \in DOMAIN run.built : y = run.built[n] BY DEF ToSet
      <3>3. DOMAIN run.built \subseteq DOMAIN b /\ l + 1 \in DOMAIN b BY <1>3
      <3>4. \A y : y \in ToSet(b) <=> y \in ToSet(run.built) \cup {x} BY <3>1, <3>2, <3>3, <1>3, <1>5
      <3> QED BY <3>4
    <2> QED BY <2>1, <1>6 DEF RefsOf
  <1>10. \A n \in DOMAIN b, j \in DOMAIN run.who : j >= run.i + 1 => b[n].person # run.who[j]
    <2> SUFFICES ASSUME NEW n \in DOMAIN b, NEW j \in DOMAIN run.who, j >= run.i + 1 PROVE b[n].person # run.who[j]
      OBVIOUS
    <2>1. j \in Nat /\ j >= run.i /\ j # run.i
      <3>1. j \in Nat BY <1>1, Elements
      <3> QED BY <3>1, <1>1
    <2>2. CASE n \in DOMAIN run.built BY <2>1, <2>2, <1>0, <1>3
    <2>3. CASE n = l + 1 BY <2>1, <2>3, <1>0, <1>3, <1>6
    <2> QED BY <2>2, <2>3, <1>5
  <1>11. ProfilesOK(b) BY <1>3, <1>7, <1>8 DEF ProfilesOK
  <1> QED BY <1>9, <1>10, <1>11 DEF b, x

LEMMA BuildSkips == ASSUME SkipInv, BuildProfile, ~Stopping, UNCHANGED <<stop, reviewer, moved>> PROVE SkipInv'
  <1> DEFINE refs == run.refs \ run.excluded
             built == IF refs = {} THEN run.built ELSE Append(run.built, [person |-> run.who[run.i], refs |-> refs])
  <1>1. /\ run.pc = "judge" /\ run.kind = "build"
        /\ run' = [run EXCEPT !.pc = "person", !.i = run.i + 1, !.built = built, !.items = <<>>, !.refs = {}]
        /\ profiles' = [profiles EXCEPT ![run.key] = built] /\ UNCHANGED <<active, stored, reviewer, moved, cache, unread>>
    BY DEF BuildProfile, Looking
  <1>2. ListOK /\ CoverOK /\ StoredOK /\ CacheOK /\ DOMAIN run = DOMAIN NoRun /\ ReadBase
    BY <1>1, ReadFacts DEF SkipInv, RunOK, Reads
  <1>3. refs \in SUBSET Face /\ \A f \in refs : PersonOf[f] = run.who[run.i] BY <1>2 DEF ReadBase
  <1>4. /\ ProfilesOK(built) /\ RefsOf(run.built) \cup refs \subseteq RefsOf(built)
        /\ \A n \in DOMAIN built, j \in DOMAIN run.who : j >= run.i + 1 => built[n].person # run.who[j]
    <2>1. CASE refs = {}
      <3>1. built = run.built BY <2>1
      <3>2. \A j \in DOMAIN run.who : j >= run.i + 1 => j >= run.i
        <4>1. run.i \in Nat /\ \A j \in DOMAIN run.who : j \in Nat BY <1>2, Elements DEF ListOK
        <4> QED BY <4>1
      <3> QED BY <2>1, <3>1, <3>2, <1>1, <1>2 DEF ListOK
    <2>2. CASE refs # {}
      <3>1. built = Append(run.built, [person |-> run.who[run.i], refs |-> refs]) BY <2>2
      <3>2. run.i \in DOMAIN run.who BY <1>2 DEF ReadBase
      <3> HIDE DEF built, refs
      <3> QED BY <3>1, <3>2, <1>1, <1>2, <1>3, ProfileAdded
    <2> QED BY <2>1, <2>2
  <1>5. /\ {"pc", "i", "built", "items", "refs"} \subseteq DOMAIN run /\ Entries(run.entries)
    BY <1>2, Fields DEF CoverOK
  <1> HIDE DEF built
  <1>6. /\ run'.pc = "person" /\ run'.i = run.i + 1 /\ run'.built = built /\ run'.kind = run.kind
        /\ run'.who = run.who /\ run'.person = run.person /\ run'.after = run.after /\ run'.lists = run.lists
        /\ run'.seen = run.seen /\ run'.entries = run.entries /\ run'.over = run.over
        /\ run'.excluded = run.excluded /\ DOMAIN run' = DOMAIN run /\ run'.key = run.key /\ run'.copy = run.copy
    BY <1>1, <1>5
  <1>7. Covered \subseteq Covered' /\ refs \cup run.excluded \subseteq Covered'
    BY <1>1, <1>4, <1>6 DEF Covered, FoundSoFar, Missing
  <1>8. SoughtHere \subseteq Covered'
    <2>1. SoughtHere \subseteq Covered \cup run.refs BY <1>1, AllFound
    <2> QED BY <2>1, <1>7
  <1>9. List(run)' = List(run) BY <1>1, <1>6 DEF List
  <1>10. CoverOK' BY <1>2, <1>6, <1>7, <1>8, <1>9, NextCovers
  <1>11. ListOK'
    <2>1. run.i + 1 \in Nat \ {0} BY <1>2 DEF ListOK
    <2>2. ProfilesOK(run.built)' /\ ProfilesOK(run.copy)' BY <1>2, <1>4, <1>6 DEF ProfilesOK, ListOK
    <2> QED BY <2>1, <2>2, <1>1, <1>2, <1>4, <1>6 DEF ListOK
  <1>12. StoredOK'
    <2>1. PICK k, s : k = run.key /\ s = built OBVIOUS
    <2>2. profiles' \in {profiles, [profiles EXCEPT ![k] = s]} BY <1>1, <2>1
    <2>3. StoreOK /\ ProfilesOK(s) BY <1>2, <1>4, <2>1 DEF StoredOK
    <2>4. StoreOK' BY <2>2, <2>3, StoreKept
    <2> QED BY <1>1, <1>2, <2>4, StoredFrom DEF StoredOK
  <1>13. CacheOK' BY <1>1, <1>2 DEF CacheOK
  <1>14. DOMAIN run' = DOMAIN NoRun BY <1>2, <1>6
  <1> QED BY <1>6, <1>10, <1>11, <1>12, <1>13, <1>14 DEF SkipInv, RunOK, ReadOK, JudgeOK, Reads, NoRun

LEMMA FindSkips == ASSUME SkipInv, FindCandidates, ~Stopping, UNCHANGED <<stop, reviewer, moved>> PROVE SkipInv'
  <1> DEFINE left == run.refs \ run.resolved
             due == IF run.kind = "assign" THEN left \cap Notable ELSE left
             over == run.over \cup (run.refs \cap run.resolved)
  <1>1. /\ run.pc = "judge" /\ run.kind # "build"
        /\ run' = [run EXCEPT !.pc = "entry", !.items = <<>>, !.refs = {}, !.rest = Sorted(due), !.over = over]
        /\ UNCHANGED <<active, stored, reviewer, profiles, moved, cache, unread>>
    BY DEF FindCandidates, Looking
  <1>2. ListOK /\ CoverOK /\ StoredOK /\ CacheOK /\ DOMAIN run = DOMAIN NoRun /\ ReadBase
    BY <1>1, ReadFacts DEF SkipInv, RunOK, Reads
  <1>3. run.i \in DOMAIN run.who /\ run.kind \in {"suggest", "assign"} BY <1>1, <1>2 DEF ReadBase, ListOK, Review
  <1>4. run.refs \in SUBSET Face /\ \A f \in run.refs : PersonOf[f] = run.who[run.i] BY <1>2 DEF ReadBase
  <1>5. Sorted(due) \in Seq(Face) /\ ToSet(Sorted(due)) = due /\ Ascending(Sorted(due))
    <2>1. PICK S : S = due OBVIOUS
    <2>2. S \in SUBSET Face BY <2>1, <1>4
    <2>3. IsFiniteSet(S) /\ S \subseteq Nat BY <2>2, PhotosAssumption, FS_Subset
    <2> QED BY <2>1, <2>2, <2>3, SortedOf
  <1>6. {"pc", "items", "refs", "rest", "over"} \subseteq DOMAIN run /\ Entries(run.entries)
    BY <1>2, Fields DEF CoverOK
  <1>7. run.over \subseteq over /\ due \subseteq run.refs OBVIOUS
  <1>8. SoughtHere \subseteq Covered \cup over \cup due
    <2>1. SoughtHere \subseteq Covered \cup run.refs BY <1>1, AllFound
    <2>2. run.kind = "assign" => SoughtHere \subseteq Notable BY DEF SoughtHere, Sought
    <2> QED BY <2>1, <2>2
  <1> HIDE DEF due, over
  <1>9. SameScan /\ run'.pc = "entry" /\ run'.rest = Sorted(due) /\ run'.over = over
    BY <1>1, <1>6, <1>7 DEF SameScan
  <1>10. Covered \subseteq Covered' /\ SoughtHere' \subseteq SoughtHere BY <1>1, <1>3, <1>9, SoughtOfList DEF Review
  <1>11. JudgeOK'
    <2>1. over \subseteq Covered' BY <1>9 DEF Covered
    <2>2. SoughtHere' \subseteq Covered' \cup ToSet(run'.rest) BY <2>1, <1>5, <1>8, <1>9, <1>10
    <2>3. \A f \in ToSet(run'.rest) : PersonOf[f] = run.who[run.i] BY <1>4, <1>5, <1>7, <1>9
    <2> QED BY <2>2, <2>3, <1>1, <1>3, <1>5, <1>9 DEF JudgeOK, SameScan
  <1>12. StoredOK' BY <1>1, <1>2, StoredStays
  <1>13. ListOK' BY <1>1, <1>2, <1>9, ListStays
  <1>14. CoverOK' BY <1>1, <1>2, <1>9, CoverStays
  <1>15. ReadOK' BY <1>9 DEF ReadOK, Reads
  <1>16. CacheOK' BY <1>1, <1>2 DEF CacheOK
  <1>17. DOMAIN run' = DOMAIN NoRun BY <1>2, <1>9 DEF SameScan
  <1> QED BY <1>11, <1>12, <1>13, <1>14, <1>15, <1>16, <1>17 DEF SkipInv, RunOK, NoRun

LEMMA PersonEndSkips == ASSUME SkipInv, EndPerson, UNCHANGED <<stop, reviewer, moved>> PROVE SkipInv'
  <1>1. /\ run.pc = "entry" /\ run.rest = <<>> /\ run' = [run EXCEPT !.pc = "person", !.i = run.i + 1]
        /\ UNCHANGED <<active, stored, reviewer, profiles, moved, cache, unread>>
    BY DEF EndPerson, NextOne, Looking
  <1>2. ListOK /\ CoverOK /\ StoredOK /\ CacheOK /\ DOMAIN run = DOMAIN NoRun /\ JudgeOK BY DEF SkipInv, RunOK
  <1>3. {"pc", "i"} \subseteq DOMAIN run BY <1>2, Fields
  <1>4. /\ run'.pc = "person" /\ run'.i = run.i + 1 /\ run'.built = run.built /\ run'.kind = run.kind
        /\ run'.who = run.who /\ run'.person = run.person /\ run'.after = run.after /\ run'.lists = run.lists
        /\ run'.seen = run.seen /\ run'.entries = run.entries /\ run'.over = run.over
        /\ run'.excluded = run.excluded /\ DOMAIN run' = DOMAIN run /\ run'.key = run.key /\ run'.copy = run.copy
    BY <1>1, <1>3
  <1>5. List(run)' = List(run) /\ Covered' = Covered
    BY <1>4 DEF List, Covered, FoundSoFar, RefsOf, EntryFaces, Missing
  <1>6. SoughtHere \subseteq Covered'
    <2>1. ToSet(run.rest) = {} BY <1>1 DEF ToSet
    <2> QED BY <2>1, <1>1, <1>2, <1>5 DEF JudgeOK
  <1>7. CoverOK' BY <1>1, <1>2, <1>4, <1>5, <1>6, NextCovers
  <1>8. ListOK'
    <2>1. run.i + 1 \in Nat \ {0} BY <1>2 DEF ListOK
    <2>2. ProfilesOK(run.built)' /\ ProfilesOK(run.copy)' BY <1>2, <1>4 DEF ProfilesOK, ListOK
    <2>3. run.kind # "build" BY <1>1, <1>2 DEF JudgeOK
    <2> QED BY <2>1, <2>2, <2>3, <1>1, <1>2, <1>4, <1>5 DEF ListOK
  <1>9. StoredOK' BY <1>1, <1>2, StoredStays
  <1>10. CacheOK' BY <1>1, <1>2 DEF CacheOK
  <1>11. DOMAIN run' = DOMAIN NoRun BY <1>2, <1>4
  <1> QED BY <1>4, <1>7, <1>8, <1>9, <1>10, <1>11 DEF SkipInv, RunOK, ReadOK, JudgeOK, Reads, NoRun

(* A finding is the first face still to be judged: all of its person in      *)
(* front of it has been found.                                               *)
LEMMA EntryAdded ==
  ASSUME RunOK, run.pc = "entry", run.rest # <<>>
  PROVE  LET f == run.rest[1]
         IN  /\ Entries(Added) /\ EntryFaces(Added) = EntryFaces(run.entries) \cup {f}
             /\ f \in Face /\ PersonOf[f] = run.who[run.i]
             /\ FrontOf(run.kind, List(run), run.i, Mark(run.kind, f)) \subseteq Covered \cup {f}
             /\ Tail(run.rest) \in Seq(Face) /\ Ascending(Tail(run.rest))
             /\ ToSet(run.rest) = {f} \cup ToSet(Tail(run.rest))
  <1> DEFINE f == run.rest[1]
             x == [face |-> f, st |-> IF Selected(f) THEN "selected" ELSE "review"]
             l == Len(run.entries)
             rest == run.rest
             t == Tail(rest)
  <1>1. ListOK /\ CoverOK /\ JudgeOK BY DEF RunOK
  <1>2. /\ rest \in Seq(Face) /\ Len(rest) \in Nat /\ DOMAIN rest = 1 .. Len(rest) /\ 1 \in DOMAIN rest
        /\ \A n \in DOMAIN rest : rest[n] \in Face
    BY <1>1 DEF JudgeOK
  <1>3. /\ t \in Seq(Face) /\ DOMAIN t = 1 .. (Len(rest) - 1) /\ \A n \in DOMAIN t : t[n] = rest[n + 1]
    <2> HIDE DEF rest
    <2> QED BY <1>2
  <1>4. Ascending(t)
    <2> SUFFICES ASSUME NEW a \in DOMAIN t, NEW b \in DOMAIN t, a < b PROVE t[a] < t[b] BY DEF Ascending
    <2>1. a + 1 \in DOMAIN rest /\ b + 1 \in DOMAIN rest /\ a + 1 < b + 1 BY <1>2, <1>3
    <2>2. rest[a + 1] < rest[b + 1] BY <2>1, <1>1 DEF JudgeOK, Ascending
    <2> QED BY <2>2, <1>3
  <1>5. ToSet(rest) = {f} \cup ToSet(t)
    <2>1. \A y : y \in ToSet(rest) <=> \E n \in DOMAIN rest : y = rest[n] BY DEF ToSet
    <2>2. \A y : y \in ToSet(t) <=> \E n \in DOMAIN t : y = t[n] BY DEF ToSet
    <2>3. \A y : y \in ToSet(rest) => y = f \/ y \in ToSet(t)
      <3> SUFFICES ASSUME NEW n \in DOMAIN rest, n # 1 PROVE \E m \in DOMAIN t : rest[n] = t[m] BY <2>1, <2>2
      <3>1. n - 1 \in DOMAIN t /\ (n - 1) + 1 = n BY <1>2, <1>3
      <3> QED BY <3>1, <1>3
    <2>4. \A y : y = f \/ y \in ToSet(t) => y \in ToSet(rest)
      <3>1. \A m \in DOMAIN t : m + 1 \in DOMAIN rest BY <1>2, <1>3
      <3> QED BY <3>1, <2>1, <2>2, <1>2, <1>3
    <2> HIDE DEF f, t
    <2> QED BY <2>3, <2>4
  <1>6. f \in Face /\ PersonOf[f] = run.who[run.i]
    <2>1. f \in ToSet(rest) BY <1>2 DEF ToSet
    <2> QED BY <2>1, <1>1, <1>2 DEF JudgeOK
  <1>7. FrontOf(run.kind, List(run), run.i, Mark(run.kind, f)) \subseteq Covered \cup {f}
    <2> SUFFICES ASSUME NEW g \in SoughtHere, g # f, g \notin Covered,
                        IF run.kind = "outliers" THEN g <= f ELSE ImageOf[g] < ImageOf[f]
                 PROVE  FALSE
      BY DEF FrontOf, SoughtHere, Mark
    <2>1. g \in ToSet(rest) BY <1>1 DEF JudgeOK
    <2>2. PICK n \in DOMAIN rest : g = rest[n] BY <2>1 DEF ToSet
    <2>3. 1 < n BY <2>2, <1>2
    <2>4. f < g BY <2>2, <2>3, <1>1, <1>2 DEF JudgeOK, Ascending
    <2>5. g \in Face /\ PersonOf[g] = run.who[run.i] BY <2>1, <2>2, <1>1, <1>2 DEF JudgeOK
    <2>6. f \in Nat /\ g \in Nat /\ ImageOf[f] \in Nat /\ ImageOf[g] \in Nat BY <1>6, <2>5, Photos
    <2>7. ImageOf[f] <= ImageOf[g] BY <2>4, <2>5, <1>6, PhotosAssumption
    <2> QED BY <2>4, <2>6, <2>7
  <1>8. Entries(Added) /\ EntryFaces(Added) = EntryFaces(run.entries) \cup {f}
    <2>1. x \in [face : Face, st : State] BY <1>6 DEF State
    <2>2. run.entries \in Seq([face : Face, st : State]) BY <1>1 DEF CoverOK, Entries
    <2>3. Added = Append(run.entries, x) BY DEF Added
    <2>4. x.face = f OBVIOUS
    <2> HIDE DEF x, f
    <2> DEFINE b == Append(run.entries, x)
    <2>5. /\ b \in Seq([face : Face, st : State]) /\ l \in Nat /\ DOMAIN run.entries = 1 .. l /\ DOMAIN b = 1 .. (l + 1)
          /\ \A n \in DOMAIN run.entries : b[n] = run.entries[n]
          /\ b[l + 1] = x
      BY <2>1, <2>2
    <2> HIDE DEF b, l
    <2>6. ToSet(b) = ToSet(run.entries) \cup {x}
      <3>1. \A y : y \in ToSet(b) <=> \E n \in DOMAIN b : y = b[n] BY DEF ToSet
      <3>2. \A y : y \in ToSet(run.entries) <=> \E n \in DOMAIN run.entries : y = run.entries[n] BY DEF ToSet
      <3>3. DOMAIN run.entries \subseteq DOMAIN b /\ l + 1 \in DOMAIN b BY <2>5
      <3>4. \A n \in DOMAIN b : n \in DOMAIN run.entries \/ n = l + 1 BY <2>5
      <3>5. \A y : y \in ToSet(b) <=> y \in ToSet(run.entries) \cup {x} BY <3>1, <3>2, <3>3, <3>4, <2>5
      <3> QED BY <3>5
    <2>7. EntryFaces(b) = EntryFaces(run.entries) \cup {f} BY <2>4, <2>6 DEF EntryFaces
    <2> QED BY <2>3, <2>5, <2>7 DEF b, Entries
  <1> HIDE DEF f, t
  <1> QED BY <1>3, <1>4, <1>5, <1>6, <1>7, <1>8 DEF f, t

LEMMA AddSkips == ASSUME SkipInv, AddEntry, UNCHANGED <<stop, reviewer, moved>> PROVE SkipInv'
  <1> DEFINE f == run.rest[1]
  <1>1. /\ run.pc = "entry" /\ run.rest # <<>> /\ run' = [run EXCEPT !.entries = Added, !.rest = Tail(run.rest)]
        /\ UNCHANGED <<active, stored, reviewer, profiles, moved, cache, unread>>
    BY DEF AddEntry, Looking
  <1>2. ListOK /\ CoverOK /\ StoredOK /\ CacheOK /\ DOMAIN run = DOMAIN NoRun /\ JudgeOK /\ RunOK
    BY DEF SkipInv, RunOK
  <1>3. /\ Entries(Added) /\ EntryFaces(Added) = EntryFaces(run.entries) \cup {f}
        /\ f \in Face /\ PersonOf[f] = run.who[run.i]
        /\ FrontOf(run.kind, List(run), run.i, Mark(run.kind, f)) \subseteq Covered \cup {f}
        /\ Tail(run.rest) \in Seq(Face) /\ Ascending(Tail(run.rest))
        /\ ToSet(run.rest) = {f} \cup ToSet(Tail(run.rest))
    BY <1>1, <1>2, EntryAdded
  <1>4. {"entries", "rest"} \subseteq DOMAIN run BY <1>2, Fields
  <1> HIDE DEF f
  <1>5. /\ run'.pc = "entry" /\ run'.i = run.i /\ run'.built = run.built /\ run'.kind = run.kind
        /\ run'.who = run.who /\ run'.person = run.person /\ run'.after = run.after /\ run'.lists = run.lists
        /\ run'.seen = run.seen /\ run'.entries = Added /\ run'.rest = Tail(run.rest) /\ run'.over = run.over
        /\ run'.excluded = run.excluded /\ DOMAIN run' = DOMAIN run /\ run'.key = run.key /\ run'.copy = run.copy
    BY <1>1, <1>4
  <1>6. run.kind # "build" /\ run.i \in DOMAIN run.who BY <1>1, <1>2 DEF JudgeOK
  <1>7. List(run)' = List(run) /\ Covered' = Covered \cup {f}
    <2>1. EntryFaces(run.entries)' = EntryFaces(run.entries) \cup {f} BY <1>3, <1>5
    <2> QED BY <2>1, <1>5, <1>6 DEF List, Covered, FoundSoFar, Missing
  <1>8. \A j : Sought(run.kind, List(run), j)' = Sought(run.kind, List(run), j)
    BY <1>1, <1>5, <1>7 DEF Sought, FacesOf, WithinLimit
  <1>9. Seen(run)' = Seen(run) /\ SoughtHere' = SoughtHere BY <1>5, <1>7, <1>8 DEF Seen, Passed, SoughtHere
  <1>10. ASSUME NEW j, NEW a PROVE FrontOf(run.kind, List(run), j, a)' = FrontOf(run.kind, List(run), j, a)
    BY <1>5, <1>7, <1>8 DEF FrontOf
  <1>11. CoverOK'
    <2>1. Seen(run)' \subseteq Covered' BY <1>2, <1>7, <1>9 DEF CoverOK
    <2>2. ASSUME NEW j \in DOMAIN run.who, run.who[j] = run.person
          PROVE  FrontOf(run.kind, List(run), j, run.after)' \subseteq Covered'
      <3>1. FrontOf(run.kind, List(run), j, run.after) \subseteq Covered BY <2>2, <1>2 DEF CoverOK
      <3>2. FrontOf(run.kind, List(run), j, run.after)' = FrontOf(run.kind, List(run), j, run.after)
        BY <1>5, <1>7, <1>8 DEF FrontOf
      <3> QED BY <3>1, <3>2, <1>7
    <2>3. ASSUME run.lists = {List(run)}, NEW g \in EntryFaces(Added), NEW j \in DOMAIN run.who, run.who[j] = PersonOf[g]
          PROVE  /\ j <= run.i \/ \A n \in DOMAIN run.who : n < j => Sought(run.kind, List(run), n)' \subseteq run.seen
                 /\ FrontOf(run.kind, List(run), j, Mark(run.kind, g))' \subseteq Covered'
      <3>1. FrontOf(run.kind, List(run), j, Mark(run.kind, g))' = FrontOf(run.kind, List(run), j, Mark(run.kind, g))
        BY <1>5, <1>7, <1>8 DEF FrontOf, Mark
      <3>2. CASE g \in EntryFaces(run.entries)
        <4>1. /\ j <= run.i \/ \A n \in DOMAIN run.who : n < j => Sought(run.kind, List(run), n) \subseteq run.seen
              /\ FrontOf(run.kind, List(run), j, Mark(run.kind, g)) \subseteq Covered
          BY <2>3, <3>2, <1>2, <1>6 DEF CoverOK
        <4> QED BY <4>1, <3>1, <1>7, <1>8
      <3>3. CASE g = f
        <4>1. j = run.i BY <2>3, <3>3, <1>2, <1>3, <1>6 DEF ListOK
        <4>2. j <= run.i BY <4>1, <1>2 DEF ListOK
        <4> QED BY <4>1, <4>2, <3>1, <3>3, <1>3, <1>7
      <3> QED BY <2>3, <3>2, <3>3, <1>3
    <2> QED BY <2>1, <2>2, <2>3, <1>3, <1>5, <1>7 DEF CoverOK, Entries, EntryFaces
  <1>12. JudgeOK'
    <2>1. SoughtHere' \subseteq Covered' \cup ToSet(run'.rest) BY <1>1, <1>2, <1>3, <1>5, <1>7, <1>9 DEF JudgeOK
    <2>2. \A g \in ToSet(run'.rest) : PersonOf[g] = run.who[run.i] BY <1>1, <1>2, <1>3, <1>5 DEF JudgeOK
    <2> QED BY <2>1, <2>2, <1>3, <1>5, <1>6 DEF JudgeOK
  <1>13. ListOK'
    <2>1. ProfilesOK(run.built)' /\ ProfilesOK(run.copy)' BY <1>2, <1>5 DEF ProfilesOK, ListOK
    <2> QED BY <2>1, <1>1, <1>2, <1>5, <1>6, <1>7 DEF ListOK
  <1>14. StoredOK' BY <1>1, <1>2, StoredStays
  <1>15. CacheOK' BY <1>1, <1>2 DEF CacheOK
  <1>16. DOMAIN run' = DOMAIN NoRun BY <1>2, <1>5
  <1> QED BY <1>5, <1>11, <1>12, <1>13, <1>14, <1>15, <1>16 DEF SkipInv, RunOK, ReadOK, Reads, NoRun

LEMMA PauseSkips == ASSUME SkipInv, PauseForReview, UNCHANGED <<stop, reviewer, moved>> PROVE SkipInv'
  <1> DEFINE f == run.rest[1]
             k == run.kind
             c == [Plain(run) EXCEPT !.entries = Added, !.start = run.i, !.person = run.who[run.i],
                     !.after = IF run.kind = "outliers" THEN f ELSE ImageOf[f]]
  <1>1. /\ run.pc = "entry" /\ run.rest # <<>> /\ run.mode = "immediate" /\ Ends
        /\ active' = [active EXCEPT ![run.kind] = c]
        /\ UNCHANGED <<stored, reviewer, profiles, moved>>
    BY DEF PauseForReview, Looking
  <1>2. ListOK /\ CoverOK /\ StoredOK /\ RunOK /\ JudgeOK BY DEF SkipInv, RunOK
  <1>3. /\ Entries(Added) /\ EntryFaces(Added) = EntryFaces(run.entries) \cup {f}
        /\ f \in Face /\ PersonOf[f] = run.who[run.i]
        /\ FrontOf(run.kind, List(run), run.i, Mark(run.kind, f)) \subseteq Covered \cup {f}
    BY <1>1, <1>2, EntryAdded
  <1>4. run.kind \in Review /\ run.i \in DOMAIN run.who /\ run.kind # "build" BY <1>1, <1>2 DEF JudgeOK, ListOK
  <1>5. /\ DOMAIN c = DOMAIN NoPayload /\ c.entries = Added /\ c.start = run.i /\ c.person = run.who[run.i]
        /\ c.after = Mark(k, f) /\ c.over = run.over /\ c.lists = run.lists /\ c.seen = Seen(run)
    BY DEF Plain, NoPayload, Mark
  <1> HIDE DEF c, f
  <1>6. CoveredBy(k, c) = Covered \cup {f} BY <1>3, <1>4, <1>5 DEF CoveredBy, Covered, FoundSoFar
  <1>7. ASSUME NEW list \in c.lists, c.lists = {list}, NEW j \in DOMAIN list
        PROVE  /\ j < c.start => Sought(k, list, j) \subseteq c.seen
               /\ \A g \in EntryFaces(c.entries) : PersonAt(k, list, j) = PersonOf[g] =>
                   /\ \A n \in DOMAIN list : n < j => Sought(k, list, n) \subseteq c.seen
                   /\ FrontOf(k, list, j, Mark(k, g)) \subseteq CoveredBy(k, c)
    <2>1. list = List(run) /\ run.lists = {List(run)} BY <1>1, <1>2, <1>4, <1>5, <1>7 DEF ListOK
    <2>2. DOMAIN list = DOMAIN run.who /\ \A n \in DOMAIN list : PersonAt(k, list, n) = run.who[n]
      BY <1>2, <2>1 DEF ListOK, List, PersonAt
    <2>3. \A n \in DOMAIN list : n \in Nat \ {0} BY <1>2, <2>2, Elements DEF ListOK
    <2>4. \A n \in DOMAIN list : n < run.i => Sought(k, list, n) \subseteq c.seen
      <3>1. \A n \in DOMAIN list : n < run.i => Sought(k, list, n) \subseteq Passed(run) BY <2>1, <2>2 DEF Passed
      <3> QED BY <3>1, <1>5 DEF Seen
    <2>5. ASSUME NEW g \in EntryFaces(c.entries), PersonAt(k, list, j) = PersonOf[g]
          PROVE  /\ \A n \in DOMAIN list : n < j => Sought(k, list, n) \subseteq c.seen
                 /\ FrontOf(k, list, j, Mark(k, g)) \subseteq CoveredBy(k, c)
      <3>0. run.i \in Nat /\ j \in DOMAIN run.who /\ run.who[j] = PersonOf[g] BY <1>2, <2>2, <2>5 DEF ListOK
      <3>1. CASE g \in EntryFaces(run.entries)
        <4>1. /\ j <= run.i \/ \A n \in DOMAIN run.who : n < j => Sought(run.kind, List(run), n) \subseteq run.seen
              /\ FrontOf(run.kind, List(run), j, Mark(run.kind, g)) \subseteq Covered
          BY <1>2, <1>4, <2>1, <3>0, <3>1 DEF CoverOK
        <4>2. ASSUME NEW n \in DOMAIN list, n < j PROVE Sought(k, list, n) \subseteq c.seen
          <5>1. CASE j <= run.i
            <6>1. n < run.i BY <5>1, <4>2, <2>3, <3>0
            <6> QED BY <6>1, <2>4
          <5>2. CASE \A m \in DOMAIN run.who : m < j => Sought(run.kind, List(run), m) \subseteq run.seen
            BY <5>2, <1>5, <2>1, <2>2, <4>2 DEF Seen
          <5> QED BY <4>1, <5>1, <5>2
        <4> QED BY <4>1, <4>2, <1>6, <2>1
      <3>2. CASE g = f
        <4>1. j = run.i BY <3>0, <3>2, <1>2, <1>3, <1>4 DEF ListOK
        <4> QED BY <4>1, <3>2, <1>3, <1>6, <2>1, <2>4
      <3> QED BY <3>1, <3>2, <1>3, <1>5, <2>5
    <2> QED BY <2>4, <2>5, <1>5
  <1>8. PayloadOK(k, c)
    <2>1. \E g \in EntryFaces(c.entries) : c.person = PersonOf[g] /\ c.after = Mark(k, g) BY <1>3, <1>5
    <2>2. c.seen \subseteq CoveredBy(k, c) BY <1>2, <1>5, <1>6 DEF CoverOK
    <2>3. c.start \in Nat \ {0} BY <1>2, <1>5 DEF ListOK
    <2>4. c.lists # {} BY <1>1, <1>2, <1>4, <1>5 DEF ListOK
    <2> QED BY <1>3, <1>5, <1>7, <2>1, <2>2, <2>3, <2>4 DEF PayloadOK
  <1>9. StoredOK'
    <2>1. PICK r, d : r = run /\ d = c OBVIOUS
    <2>2. r.kind \in Review /\ PayloadOK(r.kind, d) BY <1>4, <1>8, <2>1
    <2>3. WriteFindings(r, d) BY <1>1, <2>1 DEF WriteFindings
    <2>4. StoreOK' BY <1>1, <1>2 DEF StoredOK, StoreOK, ProfilesOK
    <2> QED BY <1>1, <1>2, <2>2, <2>3, <2>4, Written
  <1> QED BY <1>1, <1>9, Over DEF Ends

LEMMA JudgingSkips == ASSUME SkipInv, Judging PROVE SkipInv'
  <1>1. UNCHANGED <<stop, reviewer, moved>> BY DEF Judging
  <1>2. ASSUME StopAtEntry PROVE SkipInv'
    <2>1. run.pc = "entry" /\ Stopped BY <1>2 DEF StopAtEntry, Looking
    <2>2. run.kind # "build" BY <2>1 DEF SkipInv, RunOK, JudgeOK
    <2> QED BY <1>1, <2>1, <2>2, StopsOK
  <1>3. ASSUME BuildProfile PROVE SkipInv'
    <2>1. CASE ~Stopping BY <1>1, <1>3, <2>1, BuildSkips
    <2>2. CASE Stopping
      <3>1. run.pc = "judge" /\ run.kind = "build" /\ StoppedBuild BY <1>3, <2>2 DEF BuildProfile, Looking
      <3> QED BY <1>1, <3>1, StopsOK
    <2> QED BY <2>1, <2>2
  <1>4. ASSUME FindCandidates PROVE SkipInv'
    <2>1. CASE ~Stopping BY <1>1, <1>4, <2>1, FindSkips
    <2>2. CASE Stopping
      <3>1. run.pc = "judge" /\ run.kind # "build" /\ Stopped BY <1>4, <2>2 DEF FindCandidates, Looking
      <3> QED BY <1>1, <3>1, StopsOK
    <2> QED BY <2>1, <2>2
  <1> QED BY <1>1, <1>2, <1>3, <1>4, PersonEndSkips, AddSkips, PauseSkips DEF Judging
-----------------------------------------------------------------------------
(* A scan begins.                                                            *)
LEMMA OneOfEach ==
  ASSUME NEW s \in Seq(Nat), Ascending(s)
  PROVE  \A a, b \in DOMAIN s : s[a] = s[b] => a = b
  <1> SUFFICES ASSUME NEW a \in DOMAIN s, NEW b \in DOMAIN s, s[a] = s[b] PROVE a = b OBVIOUS
  <1>1. a \in Nat /\ b \in Nat /\ s[a] \in Nat /\ s[b] \in Nat BY Elements
  <1>2. ~(a < b) /\ ~(b < a) BY <1>1 DEF Ascending
  <1> QED BY <1>1, <1>2

LEMMA BuildBegins ==
  ASSUME SkipInv, BeginBuild, UNCHANGED <<active, stored, reviewer, profiles, moved>>
  PROVE  SkipInv'
  <1>1. PICK kept \in {<<>>, Own} :
          run' = [run EXCEPT !.pc = "exclusions", !.built = kept, !.who = Sorted(Known \ {x.person : x \in ToSet(kept)})]
    BY DEF BeginBuild
  <1> DEFINE who == Sorted(Known \ {x.person : x \in ToSet(kept)})
  <1>2. run.pc = "begin" /\ run.kind = "build" /\ cache' = Empty /\ unread' = {} BY DEF BeginBuild
  <1>3. ListOK /\ CoverOK /\ StoredOK /\ DOMAIN run = DOMAIN NoRun BY DEF SkipInv, RunOK
  <1>4. who \in Seq(Nat) /\ ToSet(who) = Known \ {x.person : x \in ToSet(kept)} /\ Ascending(who)
    <2>1. PICK S : S = Known \ {x.person : x \in ToSet(kept)} OBVIOUS
    <2>2. S \in SUBSET Known BY <2>1
    <2>3. S \in SUBSET Nat /\ IsFiniteSet(S) /\ S \subseteq Nat BY <2>2, Photos
    <2>4. Sorted(S) \in Seq(Nat) /\ ToSet(Sorted(S)) = S /\ Ascending(Sorted(S)) BY <2>3, SortedOf
    <2> QED BY <2>1, <2>4
  <1> HIDE DEF who
  <1>5. {"pc", "built", "who"} \subseteq DOMAIN run BY <1>3, Fields
  <1>6. /\ run'.pc = "exclusions" /\ run'.built = kept /\ run'.who = who /\ run'.kind = "build" /\ run'.i = run.i
        /\ run'.person = run.person /\ run'.after = run.after /\ run'.seen = run.seen /\ run'.entries = run.entries
        /\ DOMAIN run' = DOMAIN NoRun /\ run'.key = run.key /\ run'.copy = run.copy
    BY <1>1, <1>2, <1>3, <1>5 DEF who
  <1>7. run.i = 1 /\ run.seen = {} /\ run.after = 0 BY <1>2, <1>3 DEF ListOK
  <1>8. ProfilesOK(kept)
    <2>1. ProfilesOK(<<>>) BY DEF ProfilesOK
    <2> QED BY <2>1, <1>2, <1>3 DEF StoredOK, StoreOK, ListOK, Own
  <1>9. \A n \in DOMAIN kept, j \in DOMAIN who : kept[n].person # who[j]
    <2> TAKE n \in DOMAIN kept, j \in DOMAIN who
    <2>1. who[j] \in ToSet(who) BY DEF ToSet
    <2>2. kept[n] \in ToSet(kept) BY DEF ToSet
    <2> QED BY <2>1, <2>2, <1>4
  <1>10. ListOK'
    <2>1. ProfilesOK(run.built)' /\ ProfilesOK(run.copy)' BY <1>3, <1>6, <1>8 DEF ProfilesOK, ListOK
    <2>2. \A a, b \in DOMAIN who : who[a] = who[b] => a = b BY <1>4, OneOfEach
    <2>3. run.key \in Key BY <1>2, <1>3 DEF ListOK
    <2> QED BY <2>1, <2>2, <2>3, <1>4, <1>6, <1>7, <1>9 DEF ListOK
  <1>11. CoverOK'
    <2>1. \A n \in DOMAIN who : ~(n < 1) BY <1>4, Elements
    <2>2. Seen(run)' = {} BY <2>1, <1>6, <1>7 DEF Seen, Passed
    <2>3. ASSUME NEW j \in DOMAIN who PROVE FrontOf(run.kind, List(run), j, run.after)' = {}
      <3>1. \A f \in Sought(run.kind, List(run), j)' : f \in Face BY <1>6 DEF Sought, FacesOf
      <3>2. FrontOf(run.kind, List(run), j, run.after)' = {f \in Sought(run.kind, List(run), j)' : ImageOf[f] < 0}
        BY <1>6, <1>7 DEF FrontOf
      <3>3. \A f \in Face : ~(ImageOf[f] < 0) BY Photos
      <3> QED BY <3>1, <3>2, <3>3
    <2> QED BY <2>2, <2>3, <1>3, <1>6 DEF CoverOK, Entries
  <1>12. StoredOK' BY <1>3, StoredStays
  <1>13. CacheOK' BY <1>2 DEF CacheOK, Empty
  <1> QED BY <1>6, <1>10, <1>11, <1>12, <1>13 DEF SkipInv, RunOK, ReadOK, JudgeOK, Reads, NoRun

LEMMA BuildReadsExclusions ==
  ASSUME SkipInv, ReadExclusions, UNCHANGED <<active, stored, reviewer, profiles, moved>>
  PROVE  SkipInv'
  <1>1. PICK x : run' = [run EXCEPT !.pc = "person", !.excluded = x] BY DEF ReadExclusions
  <1>2. run.pc = "exclusions" /\ UNCHANGED <<cache, unread>> BY DEF ReadExclusions
  <1>3. ListOK /\ CoverOK /\ StoredOK /\ CacheOK /\ DOMAIN run = DOMAIN NoRun BY DEF SkipInv, RunOK
  <1>4. {"pc", "excluded"} \subseteq DOMAIN run BY <1>3, Fields
  <1>5. /\ run'.pc = "person" /\ run'.built = run.built /\ run'.who = run.who /\ run'.kind = run.kind /\ run'.i = run.i
        /\ run'.person = run.person /\ run'.after = run.after /\ run'.seen = run.seen /\ run'.entries = run.entries
        /\ DOMAIN run' = DOMAIN NoRun /\ run'.key = run.key /\ run'.copy = run.copy
    BY <1>1, <1>3, <1>4
  <1>6. run.i = 1 /\ run.seen = {} /\ run.after = 0 /\ run.kind = "build" BY <1>2, <1>3 DEF ListOK
  <1>7. ListOK'
    <2>1. ProfilesOK(run.built)' /\ ProfilesOK(run.copy)' BY <1>3, <1>5 DEF ProfilesOK, ListOK
    <2> QED BY <2>1, <1>2, <1>3, <1>5, <1>6 DEF ListOK
  <1>8. CoverOK'
    <2>1. \A n \in DOMAIN run.who : ~(n < 1) BY <1>3, Elements DEF ListOK
    <2>2. Seen(run)' = {} BY <2>1, <1>5, <1>6 DEF Seen, Passed
    <2>3. ASSUME NEW j \in DOMAIN run.who PROVE FrontOf(run.kind, List(run), j, run.after)' = {}
      <3>1. \A f \in Sought(run.kind, List(run), j)' : f \in Face BY <1>5, <1>6 DEF Sought, FacesOf
      <3>2. FrontOf(run.kind, List(run), j, run.after)' = {f \in Sought(run.kind, List(run), j)' : ImageOf[f] < 0}
        BY <1>5, <1>6 DEF FrontOf
      <3>3. \A f \in Face : ~(ImageOf[f] < 0) BY Photos
      <3> QED BY <3>1, <3>2, <3>3
    <2> QED BY <2>2, <2>3, <1>3, <1>5, <1>6 DEF CoverOK, Entries
  <1>9. StoredOK' BY <1>3, StoredStays
  <1>10. CacheOK' BY <1>2, <1>3 DEF CacheOK
  <1> QED BY <1>5, <1>7, <1>8, <1>9, <1>10 DEF SkipInv, RunOK, ReadOK, JudgeOK, Reads, NoRun

(* The place a scan goes on at is that of an entry of the list.              *)
CursorOK(k, c, previous) ==
  /\ c.start = previous.start
  /\ \/ c.person = 0 /\ c.after = 0
     \/ \E g \in EntryFaces(previous.entries) : c.person = PersonOf[g] /\ c.after = Mark(k, g)

LEMMA IndexFound ==
  ASSUME NEW who \in Seq(Nat), NEW c, c.start \in Nat \ {0}
  PROVE  /\ IndexOf(who, c) \in Nat \ {0}
         /\ (IndexOf(who, c) \in DOMAIN who /\ who[IndexOf(who, c)] = c.person /\ c.person # 0) \/
            (IndexOf(who, c) = c.start /\ (c.person = 0 \/ \A n \in DOMAIN who : who[n] # c.person))
  <1>1. CASE c.person # 0 /\ \E n \in DOMAIN who : who[n] = c.person
    <2>1. IndexOf(who, c) = CHOOSE n \in DOMAIN who : who[n] = c.person BY <1>1 DEF IndexOf
    <2>2. IndexOf(who, c) \in DOMAIN who /\ who[IndexOf(who, c)] = c.person BY <1>1, <2>1
    <2> QED BY <1>1, <2>2, Elements
  <1>2. CASE ~(c.person # 0 /\ \E n \in DOMAIN who : who[n] = c.person)
    <2>1. IndexOf(who, c) = c.start BY <1>2 DEF IndexOf
    <2> QED BY <2>1, <1>2
  <1> QED BY <1>1, <1>2

LEMMA PreviousOK ==
  ASSUME StoredOK, run.kind \in Review
  PROVE  PayloadOK(run.kind, Previous(run))
  <1>1. PayloadOK(run.kind, active[run.kind]) /\ PayloadOK(run.kind, stored[run.kind]) BY DEF StoredOK
  <1>2. Previous(run) \in {active[run.kind], stored[run.kind]} BY DEF Previous
  <1> QED BY <1>1, <1>2

LEMMA SoughtFixed ==
  ASSUME UNCHANGED moved, NEW k, NEW list
  PROVE  /\ \A j : Sought(k, list, j)' = Sought(k, list, j)
         /\ \A j, m : FrontOf(k, list, j, m)' = FrontOf(k, list, j, m)
  <1>1. \A j : Sought(k, list, j)' = Sought(k, list, j) BY DEF Sought, FacesOf, WithinLimit
  <1> QED BY <1>1 DEF FrontOf

LEMMA NothingInFront ==
  ASSUME NEW k, NEW list, NEW j, \A f \in Sought(k, list, j) : f \in Face
  PROVE  FrontOf(k, list, j, 0) = {}
  <1> SUFFICES ASSUME NEW f \in FrontOf(k, list, j, 0) PROVE FALSE OBVIOUS
  <1>1. f \in Face /\ IF k = "outliers" THEN f <= 0 ELSE ImageOf[f] < 0 BY DEF FrontOf
  <1>2. f \in Nat \ {0} /\ ImageOf[f] \in Nat BY <1>1, Photos
  <1> QED BY <1>1, <1>2

LEMMA ListedOK ==
  ASSUME SkipInv, run.pc = "begin", run.kind \in Review, CacheOK',
         NEW who \in Seq(Nat), \A x, y \in DOMAIN who : who[x] = who[y] => x = y,
         run.kind = "outliers" => DOMAIN Own = DOMAIN who /\ \A j \in DOMAIN who : who[j] = Own[j].person,
         NEW c, NEW a \in BOOLEAN, Continued(run) => a, CursorOK(run.kind, c, Previous(run)),
         run' = Listed(run, who, c, a), UNCHANGED <<active, stored, reviewer, profiles, moved>>
  PROVE  SkipInv'
  <1>0. PICK k, L, n, person, after, previous :
          /\ k = run.kind /\ L = (IF run.kind = "outliers" THEN Own ELSE who) /\ previous = Previous(run)
          /\ n = (IF a THEN IndexOf(who, c) ELSE 1)
          /\ person = (IF a THEN c.person ELSE 0) /\ after = (IF a THEN c.after ELSE 0)
    OBVIOUS
  <1> DEFINE entries == IF Continued(run) THEN previous.entries ELSE <<>>
             seen == IF Continued(run) THEN previous.seen ELSE {}
             at == [run EXCEPT !.pc = "person", !.who = who, !.i = n, !.start = n, !.pre = n,
                      !.person = person, !.after = after, !.entries = entries,
                      !.resolved = Decided(previous.entries), !.built = Own, !.seen = seen]
             P == UNION {Sought(k, L, j) : j \in {m \in DOMAIN who : m < n}}
             F == IF n \in DOMAIN who /\ who[n] = person THEN FrontOf(k, L, n, after) ELSE {}
             lists == (IF Continued(run) THEN previous.lists ELSE {}) \cup {L}
             over == IF ~Continued(run) THEN P \cup F
                     ELSE previous.over \cup (IF previous.lists = {L} THEN {} ELSE (P \cup F) \ previous.seen)
  <1>1. ListOK /\ CoverOK /\ StoredOK /\ DOMAIN run = DOMAIN NoRun /\ run.key \in Key /\ ProfilesOK(Own)
    <2>1. ListOK /\ CoverOK /\ StoredOK /\ DOMAIN run = DOMAIN NoRun /\ run.key \in Key BY DEF SkipInv, RunOK, ListOK
    <2> QED BY <2>1 DEF StoredOK, StoreOK, Own
  <1>2. PayloadOK(k, previous)
    <2>1. PayloadOK(run.kind, Previous(run)) BY <1>1, PreviousOK
    <2> QED BY <2>1, <1>0
  <1>3. /\ {"pc", "kind", "mode", "resume", "who", "i", "start", "pre", "person", "after", "entries", "resolved",
            "built", "seen", "over", "lists", "key", "copy"} \subseteq DOMAIN run
    BY <1>1, Fields
  <1>4. run' = [at EXCEPT !.over = LeftOut(at, previous),
                          !.lists = (IF Continued(run) THEN previous.lists ELSE {}) \cup {List(at)}]
    BY <1>0 DEF Listed
  <1> HIDE DEF entries, seen
  <1>5. /\ at.pc = "person" /\ at.kind = k /\ at.who = who /\ at.i = n /\ at.person = person /\ at.after = after
        /\ at.entries = entries /\ at.built = Own /\ at.seen = seen /\ at.mode = run.mode /\ at.resume = run.resume
        /\ DOMAIN at = DOMAIN run /\ at.key = run.key /\ at.copy = run.copy
    BY <1>0, <1>3
  <1> HIDE DEF at
  <1>6. List(at) = L /\ (Continued(at) <=> Continued(run)) BY <1>0, <1>5 DEF List, Continued
  <1>7. InFront(at) = P \cup F BY <1>5, <1>6 DEF InFront, Passed
  <1>8. LeftOut(at, previous) = over BY <1>5, <1>6, <1>7 DEF LeftOut
  <1> HIDE DEF over, lists, P, F
  <1>9. /\ run'.pc = "person" /\ run'.kind = k /\ run'.who = who /\ run'.i = n /\ run'.person = person /\ run'.after = after
        /\ run'.entries = entries /\ run'.built = Own /\ run'.seen = seen /\ run'.over = over /\ run'.lists = lists
        /\ DOMAIN run' = DOMAIN NoRun /\ run'.key = run.key /\ run'.copy = run.copy
    <2>1. {"over", "lists"} \subseteq DOMAIN at BY <1>3, <1>5
    <2> QED BY <1>1, <1>4, <1>5, <1>6, <1>8, <2>1 DEF lists
  <1>10. List(run)' = L BY <1>0, <1>9 DEF List
  <1>11. k \in {"outliers", "suggest", "assign"} BY <1>0 DEF Review
  <1>12. /\ \A j : Sought(k, L, j)' = Sought(k, L, j)
         /\ \A j, m : FrontOf(k, L, j, m)' = FrontOf(k, L, j, m)
    BY SoughtFixed
  <1>13. /\ \A j : Sought(run.kind, List(run), j)' = Sought(k, L, j)
         /\ \A j : FrontOf(run.kind, List(run), j, run.after)' = FrontOf(k, L, j, after)
         /\ \A j, g : FrontOf(run.kind, List(run), j, Mark(run.kind, g))' = FrontOf(k, L, j, Mark(k, g))
    BY <1>9, <1>10, <1>12 DEF Mark
  <1>14. Seen(run)' = seen \cup P
    <2>1. Passed(run)' = P BY <1>9, <1>10, <1>12 DEF Passed, P
    <2> QED BY <2>1, <1>9 DEF Seen
  <1>15. Covered' = EntryFaces(entries) \cup over \cup Missing(k)
    <2>1. EntryFaces(run.entries)' = EntryFaces(entries) BY <1>9 DEF EntryFaces
    <2> QED BY <2>1, <1>9, <1>11 DEF Covered, FoundSoFar, Missing
  <1>16. DOMAIN L = DOMAIN who /\ \A j \in DOMAIN who : PersonAt(k, L, j) = who[j] BY <1>0 DEF PersonAt
  <1>17. \A j \in DOMAIN who : \A f \in Sought(k, L, j) : f \in Face
    <2> SUFFICES ASSUME NEW j \in DOMAIN who, NEW f \in Sought(k, L, j) PROVE f \in Face OBVIOUS
    <2>1. CASE k = "outliers"
      <3>1. j \in DOMAIN Own /\ f \in Own[j].refs BY <2>1, <1>0 DEF Sought
      <3>2. Own[j] \in [person : Nat, refs : SUBSET Face] BY <3>1, <1>1, Elements DEF ProfilesOK
      <3> QED BY <3>1, <3>2
    <2>2. CASE k # "outliers"
      <3>1. f \in FacesOf(L[j]) BY <2>2, <1>11 DEF Sought
      <3> QED BY <3>1 DEF FacesOf
    <2> QED BY <2>1, <2>2
  <1>18. c.start \in Nat \ {0} /\ c.start = previous.start
    BY <1>0, <1>2 DEF CursorOK, PayloadOK
  <1>19. n \in Nat \ {0} BY <1>0, <1>18, IndexFound
  <1>20. \/ person = 0 /\ after = 0
         \/ a /\ \E g \in EntryFaces(previous.entries) : person = PersonOf[g] /\ after = Mark(k, g)
    BY <1>0 DEF CursorOK
  <1>21. a => \/ n \in DOMAIN who /\ who[n] = person /\ person # 0
              \/ n = previous.start /\ (person = 0 \/ \A j \in DOMAIN who : who[j] # person)
    BY <1>0, <1>18, IndexFound
  <1>22. \A g \in EntryFaces(previous.entries) : g \in Face /\ PersonOf[g] \in Nat \ {0}
    <2>1. EntryFaces(previous.entries) \subseteq Face BY <1>2, EntryFacesAreFaces DEF PayloadOK
    <2> QED BY <2>1, Photos
  <1>23. ASSUME NEW j \in DOMAIN who, who[j] = person
         PROVE  \/ FrontOf(k, L, j, after) = {}
                \/ /\ a /\ j = n /\ n \in DOMAIN who
                   /\ \E g \in EntryFaces(previous.entries) : person = PersonOf[g] /\ after = Mark(k, g)
    <2>1. CASE person = 0 /\ after = 0
      <3>1. FrontOf(k, L, j, 0) = {} BY <1>0, <1>17, NothingInFront
      <3> QED BY <2>1, <3>1
    <2>2. CASE a /\ \E g \in EntryFaces(previous.entries) : person = PersonOf[g] /\ after = Mark(k, g)
      <3>1. person # 0 BY <2>2, <1>22
      <3>2. n \in DOMAIN who /\ who[n] = person BY <2>2, <3>1, <1>21, <1>23
      <3> QED BY <2>2, <3>2, <1>23
    <2> QED BY <2>1, <2>2, <1>20
  <1>24. ASSUME ~Continued(run) PROVE CoverOK'
    <2>1. entries = <<>> /\ seen = {} /\ over = P \cup F BY <1>24 DEF entries, seen, over
    <2>2. Seen(run)' \subseteq Covered' BY <2>1, <1>14, <1>15
    <2>3. ASSUME NEW j \in DOMAIN who, who[j] = person PROVE FrontOf(k, L, j, after) \subseteq Covered'
      <3>1. CASE j = n BY <2>1, <2>3, <3>1, <1>15 DEF F
      <3>2. CASE FrontOf(k, L, j, after) = {} BY <3>2
      <3> QED BY <3>1, <3>2, <2>3, <1>23
    <2>4. Entries(run.entries)' /\ EntryFaces(run.entries)' = {}
      <3>1. Entries(run'.entries) /\ EntryFaces(run'.entries) = {} BY <2>1, <1>9, EntriesNone
      <3> QED BY <3>1 DEF Entries, EntryFaces
    <2> QED BY <2>2, <2>3, <2>4, <1>9, <1>13 DEF CoverOK
  <1>25. ASSUME Continued(run) PROVE CoverOK'
    <2>1. /\ a /\ entries = previous.entries /\ seen = previous.seen /\ lists = previous.lists \cup {L}
          /\ over = previous.over \cup (IF previous.lists = {L} THEN {} ELSE (P \cup F) \ previous.seen)
      BY <1>25 DEF entries, seen, over, lists
    <2>2. /\ Entries(previous.entries) /\ previous.seen \subseteq CoveredBy(k, previous)
          /\ (previous.lists = {} => EntryFaces(previous.entries) = {})
      BY <1>2 DEF PayloadOK
    <2>3. CoveredBy(k, previous) \subseteq Covered' BY <2>1, <1>15 DEF CoveredBy
    <2>4. ASSUME previous.lists = {L}
          PROVE  \A j \in DOMAIN who :
                   /\ j < previous.start => Sought(k, L, j) \subseteq previous.seen
                   /\ \A g \in EntryFaces(previous.entries) : who[j] = PersonOf[g] =>
                        /\ \A m \in DOMAIN who : m < j => Sought(k, L, m) \subseteq previous.seen
                        /\ FrontOf(k, L, j, Mark(k, g)) \subseteq Covered'
      <3> TAKE j \in DOMAIN who
      <3>1. L \in previous.lists BY <2>4
      <3>2. j \in DOMAIN L /\ PersonAt(k, L, j) = who[j] /\ DOMAIN L = DOMAIN who BY <1>16
      <3>3. /\ j < previous.start => Sought(k, L, j) \subseteq previous.seen
            /\ \A g \in EntryFaces(previous.entries) : PersonAt(k, L, j) = PersonOf[g] =>
                 /\ \A m \in DOMAIN L : m < j => Sought(k, L, m) \subseteq previous.seen
                 /\ FrontOf(k, L, j, Mark(k, g)) \subseteq CoveredBy(k, previous)
        BY <2>4, <3>1, <3>2, <1>2 DEF PayloadOK
      <3> QED BY <3>2, <3>3, <2>3
    <2>5. ASSUME previous.lists # {L} PROVE P \cup F \subseteq Covered'
      <3>1. (P \cup F) \ previous.seen \subseteq over BY <2>1, <2>5
      <3> QED BY <3>1, <2>2, <2>3, <1>15
    <2>6. P \subseteq Covered'
      <3>1. CASE previous.lists = {L}
        <4> SUFFICES ASSUME NEW m \in DOMAIN who, m < n PROVE Sought(k, L, m) \subseteq previous.seen
          BY <2>2, <2>3 DEF P
        <4>1. CASE n = previous.start BY <3>1, <4>1, <2>4
        <4>2. CASE n \in DOMAIN who /\ who[n] = person /\ person # 0
          <5>1. PICK g \in EntryFaces(previous.entries) : person = PersonOf[g] BY <4>2, <1>20
          <5> QED BY <3>1, <4>2, <5>1, <2>4
        <4> QED BY <4>1, <4>2, <2>1, <1>21
      <3> QED BY <3>1, <2>5
    <2>7. Seen(run)' \subseteq Covered' BY <2>1, <2>2, <2>3, <2>6, <1>14
    <2>8. ASSUME NEW j \in DOMAIN who, who[j] = person PROVE FrontOf(k, L, j, after) \subseteq Covered'
      <3>1. CASE FrontOf(k, L, j, after) = {} BY <3>1
      <3>2. CASE j = n /\ n \in DOMAIN who /\ \E g \in EntryFaces(previous.entries) : person = PersonOf[g] /\ after = Mark(k, g)
        <4>1. PICK g \in EntryFaces(previous.entries) : person = PersonOf[g] /\ after = Mark(k, g) BY <3>2
        <4>2. CASE previous.lists = {L} BY <4>1, <4>2, <2>4, <2>8
        <4>3. CASE previous.lists # {L}
          <5>1. F = FrontOf(k, L, j, after) BY <3>2, <2>8 DEF F
          <5> QED BY <4>3, <5>1, <2>5
        <4> QED BY <4>2, <4>3
      <3> QED BY <3>1, <3>2, <2>8, <1>23
    <2>9. ASSUME lists = {L}, NEW g \in EntryFaces(entries), NEW j \in DOMAIN who, who[j] = PersonOf[g]
          PROVE  /\ \A m \in DOMAIN who : m < j => Sought(k, L, m) \subseteq seen
                 /\ FrontOf(k, L, j, Mark(k, g)) \subseteq Covered'
      <3>1. previous.lists = {} \/ previous.lists = {L} BY <2>1, <2>9
      <3>2. previous.lists = {L} BY <3>1, <2>1, <2>2, <2>9
      <3> QED BY <3>2, <2>1, <2>4, <2>9
    <2>10. Entries(entries) BY <2>1, <2>2
    <2>11. EntryFaces(run.entries)' = EntryFaces(entries) BY <1>9 DEF EntryFaces
    <2>12. ASSUME (run.lists = {List(run)})', NEW g \in EntryFaces(run.entries)', NEW j \in DOMAIN who, who[j] = PersonOf[g]
           PROVE  /\ \A m \in DOMAIN who : m < j => Sought(run.kind, List(run), m)' \subseteq run'.seen
                  /\ FrontOf(run.kind, List(run), j, Mark(run.kind, g))' \subseteq Covered'
      <3>1. lists = {L} /\ g \in EntryFaces(entries) BY <2>11, <2>12, <1>9, <1>10
      <3>2. FrontOf(run.kind, List(run), j, Mark(run.kind, g))' = FrontOf(k, L, j, Mark(k, g)) BY <1>13
      <3> QED BY <3>1, <3>2, <2>9, <2>12, <1>9, <1>13
    <2> QED BY <2>7, <2>8, <2>10, <2>12, <1>9, <1>13 DEF CoverOK, Entries
  <1>26. CoverOK' BY <1>24, <1>25
  <1>27. ListOK'
    <2>1. /\ run'.who \in Seq(Nat) /\ run'.i \in Nat \ {0} /\ \A x, y \in DOMAIN run'.who : run'.who[x] = run'.who[y] => x = y
          /\ run'.kind \in Review /\ run'.kind # "build"
      BY <1>0, <1>9, <1>19 DEF Review
    <2>2. ProfilesOK(run.built)' /\ ProfilesOK(run.copy)' /\ run'.key \in Key BY <1>1, <1>9 DEF ListOK, ProfilesOK
    <2>3. run'.kind = "outliers" =>
            /\ DOMAIN run'.built = DOMAIN run'.who /\ \A j \in DOMAIN run'.who : run'.who[j] = run'.built[j].person
            /\ run'.after # 0 => run'.after \in Face /\ run'.person = PersonOf[run'.after]
      <3>1. k = "outliers" /\ after # 0 => after \in Face /\ person = PersonOf[after] BY <1>20, <1>22 DEF Mark
      <3> QED BY <3>1, <1>0, <1>9
    <2>4. List(run)' \in run'.lists BY <1>9, <1>10 DEF lists
    <2>5. run'.pc = "person" BY <1>9
    <2> QED BY <2>1, <2>2, <2>3, <2>4, <2>5 DEF ListOK
  <1>28. StoredOK' BY <1>1, StoredStays
  <1> QED BY <1>9, <1>26, <1>27, <1>28 DEF SkipInv, RunOK, ReadOK, JudgeOK, Reads

LEMMA LastIsOne ==
  ASSUME NEW s, Entries(s)
  PROVE  LastDecided(s) = 0 \/ LastDecided(s) \in DOMAIN s
  <1> DEFINE T == {i \in 1 .. Len(s) : s[i].st # "review"}
  <1>1. Len(s) \in Nat /\ DOMAIN s = 1 .. Len(s) BY Elements DEF Entries
  <1>2. LastDecided(s) = IF T # {} THEN Max(T) ELSE 0 BY DEF LastDecided, SelectLastInSeq
  <1>3. CASE T # {}
    <2>1. T \subseteq 1 .. Len(s) OBVIOUS
    <2> HIDE DEF T
    <2>2. \E x \in T : \A y \in T : x >= y BY <1>1, <1>3, <2>1, Greatest
    <2>3. Max(T) \in T BY <2>2 DEF Max
    <2> QED BY <1>1, <1>2, <1>3, <2>1, <2>3
  <1> QED BY <1>2, <1>3

LEMMA CursorsOK ==
  ASSUME NEW c, NEW k \in Review, PayloadOK(k, c)
  PROVE  /\ CursorOK(k, c, c)
         /\ k = "outliers" => CursorOK(k, ResumeOutliers(c), c)
         /\ k = "suggest" => CursorOK(k, ResumeSuggest(c), c)
         /\ k = "assign" => CursorOK(k, ResumeAssign(c), c)
  <1>1. CursorOK(k, c, c) BY DEF CursorOK, PayloadOK
  <1>2. Entries(c.entries) /\ DOMAIN c = DOMAIN NoPayload BY DEF PayloadOK
  <1>3. {"start", "person", "after"} \subseteq DOMAIN c BY <1>2 DEF NoPayload
  <1>4. ASSUME NEW n \in DOMAIN c.entries
        PROVE  LET f == c.entries[n].face
               IN  CursorOK(k, [c EXCEPT !.person = PersonOf[f], !.after = Mark(k, f)], c)
    <2> DEFINE f == c.entries[n].face
               d == [c EXCEPT !.person = PersonOf[f], !.after = Mark(k, f)]
    <2>1. f \in EntryFaces(c.entries) BY <1>2, EntryOf
    <2> HIDE DEF f
    <2>2. d.start = c.start /\ d.person = PersonOf[f] /\ d.after = Mark(k, f) BY <1>3
    <2> HIDE DEF d
    <2>3. CursorOK(k, d, c) BY <2>1, <2>2 DEF CursorOK
    <2> QED BY <2>3 DEF d, f
  <1>5. LastDecided(c.entries) = 0 \/ LastDecided(c.entries) \in DOMAIN c.entries BY <1>2, LastIsOne
  <1>6. Len(c.entries) = 0 \/ Len(c.entries) \in DOMAIN c.entries
    <2>1. Len(c.entries) \in Nat /\ DOMAIN c.entries = 1 .. Len(c.entries) BY <1>2, Elements DEF Entries
    <2> QED BY <2>1
  <1>7. k = "outliers" => CursorOK(k, ResumeOutliers(c), c)
    BY <1>1, <1>4, <1>5 DEF ResumeOutliers, CursorAt, FaceItself, Mark
  <1>8. k = "suggest" => CursorOK(k, ResumeSuggest(c), c)
    BY <1>1, <1>4, <1>5 DEF ResumeSuggest, CursorAt, Mark
  <1>9. k = "assign" => CursorOK(k, ResumeAssign(c), c)
    BY <1>1, <1>4, <1>6 DEF ResumeAssign, CursorAt, Mark
  <1> QED BY <1>1, <1>7, <1>8, <1>9

LEMMA ListsBegin ==
  ASSUME SkipInv, BeginOutliers \/ BeginSuggest \/ BeginAssign, UNCHANGED <<active, stored, reviewer, profiles, moved>>
  PROVE  SkipInv'
  <1>1. run.pc = "begin" /\ run.kind \in Review BY DEF BeginOutliers, BeginSuggest, BeginAssign, Review
  <1>2. StoredOK /\ CacheOK BY DEF SkipInv
  <1>3. CacheOK' BY <1>2 DEF CacheOK, Empty, BeginOutliers, BeginSuggest, BeginAssign
  <1>4. PICK previous, k : previous = Previous(run) /\ k = run.kind OBVIOUS
  <1>5. PayloadOK(k, previous) BY <1>1, <1>2, <1>4, PreviousOK
  <1>6. /\ CursorOK(k, previous, previous)
        /\ k = "outliers" => CursorOK(k, ResumeOutliers(previous), previous)
        /\ k = "suggest" => CursorOK(k, ResumeSuggest(previous), previous)
        /\ k = "assign" => CursorOK(k, ResumeAssign(previous), previous)
    BY <1>1, <1>4, <1>5, CursorsOK
  <1>7. CASE BeginOutliers
    <2>1. PICK who : who = [n \in DOMAIN Own |-> Own[n].person] OBVIOUS
    <2>2. PICK c : c = IF Continued(run) THEN ResumeOutliers(previous) ELSE previous OBVIOUS
    <2>3. PICK a \in BOOLEAN : a = Continued(run) BY DEF Continued
    <2>4. run.kind = "outliers" /\ run' = Listed(run, who, c, a) BY <1>4, <1>7, <2>1, <2>2, <2>3 DEF BeginOutliers
    <2>5. CursorOK(run.kind, c, Previous(run)) BY <1>4, <1>6, <2>2, <2>4
    <2>11. ProfilesOK(Own) BY <1>1, <1>2 DEF SkipInv, RunOK, ListOK, StoredOK, StoreOK, Own
    <2>6. Own \in Seq([person : Nat, refs : SUBSET Face]) BY <2>11 DEF ProfilesOK
    <2>7. DOMAIN who = DOMAIN Own /\ \A n \in DOMAIN who : who[n] = Own[n].person BY <2>1
    <2>8. who \in Seq(Nat)
      <3>1. Len(Own) \in Nat /\ DOMAIN Own = 1 .. Len(Own)
            /\ \A n \in DOMAIN Own : Own[n] \in [person : Nat, refs : SUBSET Face]
        BY <2>6, Elements
      <3>2. \A n \in 1 .. Len(Own) : Own[n].person \in Nat BY <3>1
      <3>3. who = [n \in 1 .. Len(Own) |-> Own[n].person] BY <2>1, <3>1
      <3>4. who \in [1 .. Len(Own) -> Nat] BY <3>2, <3>3
      <3> QED BY <3>1, <3>4
    <2>9. \A x, y \in DOMAIN who : who[x] = who[y] => x = y BY <2>7, <2>11 DEF ProfilesOK
    <2>10. Continued(run) => a BY <2>3
    <2> QED BY <1>1, <1>3, <2>4, <2>5, <2>7, <2>8, <2>9, <2>10, ListedOK
  <1>8. CASE BeginSuggest
    <2>1. PICK S : S = {p \in Person \ Known : FacesOf(p) # {}} OBVIOUS
    <2>2. PICK c : c = IF Continued(run) THEN ResumeSuggest(previous) ELSE previous OBVIOUS
    <2>3. PICK a \in BOOLEAN : a = Continued(run) BY DEF Continued
    <2>4. run.kind = "suggest" /\ run' = Listed(run, Sorted(S), c, a)
      BY <1>4, <1>8, <2>1, <2>2, <2>3 DEF BeginSuggest
    <2>5. CursorOK(run.kind, c, Previous(run)) BY <1>4, <1>6, <2>2, <2>4
    <2>6. S \in SUBSET Person BY <2>1
    <2>7. S \in SUBSET Nat /\ IsFiniteSet(S) /\ S \subseteq Nat BY <2>6, Photos
    <2>8. Sorted(S) \in Seq(Nat) /\ Ascending(Sorted(S)) BY <2>7, SortedOf
    <2>9. \A x, y \in DOMAIN Sorted(S) : Sorted(S)[x] = Sorted(S)[y] => x = y BY <2>8, OneOfEach
    <2>10. Continued(run) => a BY <2>3
    <2> QED BY <1>1, <1>3, <2>4, <2>5, <2>8, <2>9, <2>10, ListedOK
  <1>9. CASE BeginAssign
    <2>2. PICK c : c = IF Continued(run) THEN ResumeAssign(previous) ELSE previous OBVIOUS
    <2>3. PICK a \in BOOLEAN : a = TRUE OBVIOUS
    <2>4. run.kind = "assign" /\ run' = Listed(run, Sorted(Known), c, a) BY <1>4, <1>9, <2>2, <2>3 DEF BeginAssign
    <2>5. CursorOK(run.kind, c, Previous(run)) BY <1>4, <1>6, <2>2, <2>4
    <2>7. Known \in SUBSET Nat /\ IsFiniteSet(Known) /\ Known \subseteq Nat BY Photos
    <2>8. Sorted(Known) \in Seq(Nat) /\ Ascending(Sorted(Known)) BY <2>7, SortedOf
    <2>9. \A x, y \in DOMAIN Sorted(Known) : Sorted(Known)[x] = Sorted(Known)[y] => x = y BY <2>8, OneOfEach
    <2>10. Continued(run) => a BY <2>3
    <2> QED BY <1>1, <1>3, <2>4, <2>5, <2>8, <2>9, <2>10, ListedOK
  <1> QED BY <1>7, <1>8, <1>9

LEMMA BeginningSkips == ASSUME SkipInv, Beginning PROVE SkipInv'
  <1>1. UNCHANGED <<active, stored, reviewer, profiles, moved>> BY DEF Beginning
  <1>2. ASSUME NeedsProfiles PROVE SkipInv'
    <2>1. run' = NoRun /\ cache' = Empty /\ unread' = {} BY <1>2 DEF NeedsProfiles
    <2>2. StoredOK' BY <1>1, StoredStays DEF SkipInv
    <2> QED BY <2>1, <2>2, Over
  <1> QED BY <1>1, <1>2, BuildBegins, BuildReadsExclusions, ListsBegin DEF Beginning
-----------------------------------------------------------------------------
(* Everything beside the scan, and its start.                                *)
LEMMA RunUnchanged == ASSUME SkipInv, UNCHANGED run PROVE SameScan
  BY DEF SameScan, SkipInv, RunOK, CoverOK

LEMMA StartSkips ==
  ASSUME SkipInv, NEW k \in Review \cup {"build"}, NEW key \in Key, NEW m, NEW resume, NEW auto,
         Start(k, key, m, resume, auto)
  PROVE  SkipInv'
  <1>1. StoredOK /\ CacheOK BY DEF SkipInv
  <1>2. UNCHANGED <<profiles, stored, cache, reviewer, moved, unread>> BY DEF Start
  <1>3. active' = active \/ (k \in Review /\ active' = [active EXCEPT ![k] = NoPayload]) BY DEF Start
  <1>4. DOMAIN active' = Review /\ \A q \in Review : PayloadOK(q, active'[q])
    <2>1. \A q \in Review : active'[q] \in {active[q], NoPayload} BY <1>1, <1>3 DEF StoredOK
    <2>2. \A q \in Review : PayloadOK(q, active[q]) /\ PayloadOK(q, NoPayload) BY <1>1, NothingYet DEF StoredOK
    <2>3. DOMAIN active' = Review BY <1>1, <1>3 DEF StoredOK
    <2>4. \A q \in Review : PayloadOK(q, active'[q])
      <3> TAKE q \in Review
      <3> QED BY <2>1, <2>2
    <2> QED BY <2>3, <2>4
  <1>5. StoredOK'
    <2>1. StoreOK' BY <1>1, <1>2 DEF StoredOK, StoreOK, ProfilesOK
    <2> QED BY <1>1, <1>2, <1>4, <2>1, StoredFrom DEF StoredOK
  <1>6. run' = [NoRun EXCEPT !.pc = "begin", !.kind = k, !.key = key, !.mode = m, !.resume = resume, !.auto = auto]
    BY DEF Start
  <1>7. /\ run'.pc = "begin" /\ run'.kind = k /\ run'.who = <<>> /\ run'.i = 1 /\ run'.built = <<>>
        /\ run'.entries = <<>> /\ run'.after = 0 /\ run'.seen = {} /\ DOMAIN run' = DOMAIN NoRun
        /\ run'.key = key /\ run'.copy = <<>>
    BY <1>6 DEF NoRun
  <1>8. ListOK' BY <1>7 DEF ListOK, ProfilesOK
  <1>9. Passed(run)' = {} BY <1>7 DEF Passed
  <1>10. Entries(run.entries)' /\ EntryFaces(run.entries)' = {} BY <1>7, EntriesNone DEF Entries, EntryFaces
  <1>11. CoverOK' BY <1>7, <1>9, <1>10 DEF CoverOK, Seen
  <1>12. CacheOK' BY <1>1, <1>2 DEF CacheOK
  <1> QED BY <1>5, <1>7, <1>8, <1>11, <1>12 DEF SkipInv, RunOK, ReadOK, JudgeOK, Reads

LEMMA OthersSkip ==
  ASSUME SkipInv, RequestStop \/ Prefetched \/ ResetCache \/ \E o \in orphans : OrphanEnds(o)
  PROVE  SkipInv'
  <1>1. UNCHANGED <<run, profiles, active, stored, reviewer, moved>> /\ stop \subseteq stop'
    BY DEF RequestStop, Prefetched, ResetCache, OrphanEnds
  <1>2. CacheGoesOn
    <2>1. CacheOK BY DEF SkipInv
    <2>2. CASE RequestStop BY <2>1, <2>2, CacheSteps DEF RequestStop
    <2>3. CASE Prefetched
      <3>1. PICK W, k : ReadAhead(W, k) BY <2>3 DEF Prefetched
      <3> QED BY <2>1, <3>1, CacheSteps
    <2>4. CASE \E o \in orphans : OrphanEnds(o)
      <3>1. PICK W, k : ReadAhead(W, k) BY <2>4 DEF OrphanEnds
      <3> QED BY <2>1, <3>1, CacheSteps
    <2>5. CASE ResetCache BY <2>1, <2>5, CacheSteps
    <2> QED BY <2>2, <2>3, <2>4, <2>5
  <1>3. StoredOK' BY <1>1, StoredStays DEF SkipInv
  <1> QED BY <1>1, <1>2, <1>3, RunUnchanged, BesideScan

LEMMA RaiseSkips == ASSUME SkipInv, Raise PROVE SkipInv'
  <1>1. StoredOK' BY StoredStays DEF SkipInv, Raise
  <1> QED BY <1>1, Over DEF Raise, Ends

LEMMA TakeSkips ==
  ASSUME SkipInv, NEW k \in Review, NEW m, NEW f, NEW st \in State, Take(k, m, f, st), moved \subseteq moved',
         UNCHANGED <<profiles, stored, cache, stop, unread>>
  PROVE  SkipInv'
  <1>1. StoredOK /\ RunOK /\ CoverOK /\ CacheOK BY DEF SkipInv, RunOK
  <1>2. PayloadOK(k, active[k]) /\ PayloadOK(k, stored[k]) BY <1>1 DEF StoredOK
  <1>3. DOMAIN active' = Review /\ \A q \in Review : PayloadOK(q, active'[q])
    <2>1. CASE active' = active BY <2>1, <1>1 DEF StoredOK
    <2>2. CASE active' = [active EXCEPT ![k].entries = Marked(@, f, st)]
      <3>1. DOMAIN active' = Review BY <2>2, <1>1 DEF StoredOK
      <3>2. active'[k] = [active[k] EXCEPT !.entries = Marked(@, f, st)] BY <2>2, <1>1 DEF StoredOK
      <3>3. PayloadOK(k, active'[k]) BY <3>2, <1>2, MarkedPayload
      <3>4. \A q \in Review : q # k => active'[q] = active[q] BY <2>2, <1>1 DEF StoredOK
      <3>5. \A q \in Review : PayloadOK(q, active[q]) BY <1>1 DEF StoredOK
      <3>6. \A q \in Review : PayloadOK(q, active'[q])
        <4> TAKE q \in Review
        <4> QED BY <3>3, <3>4, <3>5
      <3> QED BY <3>1, <3>6
    <2> QED BY <2>1, <2>2 DEF Take, Shared
  <1>4. /\ DOMAIN reviewer' = DOMAIN Idle /\ reviewer'.kind = k /\ reviewer'.step = "write"
        /\ reviewer'.payload = [ListOf(k, m) EXCEPT !.entries = Marked(@, f, st)]
    BY DEF Take, Idle
  <1>5. PayloadOK(k, reviewer'.payload)
    <2>1. PICK c : c = ListOf(k, m) OBVIOUS
    <2>2. PayloadOK(k, c) BY <2>1, <1>2 DEF ListOf
    <2> QED BY <1>4, <2>1, <2>2, MarkedPayload
  <1>6. StoredOK'
    <2>1. StoreOK' BY <1>1 DEF StoredOK, StoreOK, ProfilesOK
    <2> QED BY <1>1, <1>3, <1>4, <1>5, <2>1, StoredFrom DEF StoredOK
  <1>7. SameScan /\ UNCHANGED <<run.pc, run.at, run.items, run.refs, run.rest, run.window, run.next>>
    <2>1. CASE UNCHANGED run BY <2>1, RunUnchanged
    <2>2. CASE run' = [run EXCEPT !.entries = Marked(@, f, st)]
      <3>1. Entries(run.entries) /\ "entries" \in DOMAIN run BY <1>1, Fields DEF CoverOK, RunOK
      <3>2. Entries(Marked(run.entries, f, st)) /\ EntryFaces(Marked(run.entries, f, st)) = EntryFaces(run.entries)
        BY <3>1, MarkedFaces
      <3>3. run'.entries = Marked(run.entries, f, st) BY <2>2, <3>1
      <3>4. /\ DOMAIN run' = DOMAIN run /\ run'.kind = run.kind /\ run'.who = run.who /\ run'.i = run.i
            /\ run'.key = run.key /\ run'.copy = run.copy
            /\ run'.built = run.built /\ run'.person = run.person /\ run'.after = run.after
            /\ run'.lists = run.lists /\ run'.seen = run.seen /\ run'.excluded = run.excluded /\ run'.over = run.over
            /\ UNCHANGED <<run.pc, run.at, run.items, run.refs, run.rest, run.window, run.next>>
        BY <2>2
      <3> QED BY <3>2, <3>3, <3>4 DEF SameScan
    <2> QED BY <2>1, <2>2 DEF Take, Shared
  <1>8. CacheGoesOn BY <1>1, CacheSteps
  <1> QED BY <1>6, <1>7, <1>8, BesideScan

LEMMA ReviewingSkips == ASSUME SkipInv, Reviewing PROVE SkipInv'
  <1>1. UNCHANGED <<cache, stop, unread>> BY DEF Reviewing
  <1>2. StoredOK /\ CacheOK BY DEF SkipInv
  <1>3. CASE \E k \in Review, m \in {"immediate", "save_only"}, f \in Face :
               (Decide(k, m, f) \/ Apply(k, m, f)) /\ UNCHANGED <<profiles, stored, late, running>>
    <2>1. PICK k \in Review, m \in {"immediate", "save_only"}, f \in Face :
               (Decide(k, m, f) \/ Apply(k, m, f)) /\ UNCHANGED <<profiles, stored>>
      BY <1>3
    <2>2. \E st \in State : Take(k, m, f, st) BY <2>1 DEF Decide, Apply, State
    <2>3. moved \subseteq moved' BY <2>1 DEF Decide, Apply
    <2> QED BY <1>1, <2>1, <2>2, <2>3, TakeSkips
  <1>4. ASSUME UNCHANGED <<run, moved>>, StoredOK' PROVE SkipInv'
    <2>1. CacheGoesOn BY <1>1, <1>2, CacheSteps
    <2> QED BY <1>1, <1>4, <2>1, RunUnchanged, BesideScan
  <1>5. CASE WriteDecision
    <2>1. /\ WriteFindings([mode |-> reviewer.mode, kind |-> reviewer.kind], reviewer.payload)
          /\ DOMAIN reviewer' = DOMAIN reviewer /\ reviewer'.kind = reviewer.kind /\ reviewer'.payload = NoPayload
          /\ reviewer'.step # "rewrite" /\ UNCHANGED <<profiles, run, moved>>
      <3>1. {"step", "key", "payload"} \subseteq DOMAIN reviewer BY <1>2 DEF StoredOK, Idle
      <3> QED BY <3>1, <1>5 DEF WriteDecision
    <2>2. PICK r, c : r = [mode |-> reviewer.mode, kind |-> reviewer.kind] /\ c = reviewer.payload OBVIOUS
    <2>3. r.kind = reviewer.kind /\ r.kind \in Review /\ PayloadOK(r.kind, c) BY <1>2, <2>2 DEF StoredOK
    <2>4. WriteFindings(r, c) BY <2>1, <2>2
    <2>5. /\ DOMAIN active' = Review /\ DOMAIN stored' = Review
          /\ \A k \in Review : PayloadOK(k, active'[k]) /\ PayloadOK(k, stored'[k])
      BY <1>2, <2>3, <2>4, Writes
    <2>6. PayloadOK(reviewer'.kind, reviewer'.payload) BY <2>1, NothingYet
    <2>7. StoreOK' BY <1>2, <2>1 DEF StoredOK, StoreOK, ProfilesOK
    <2>8. StoredOK' BY <1>2, <2>1, <2>5, <2>6, <2>7, StoredFrom DEF StoredOK
    <2> QED BY <1>4, <2>1, <2>8
  <1>6. ASSUME Carried, UNCHANGED <<active, stored, run, moved>>, StoreOK' PROVE SkipInv'
    <2>1. {"step", "copy"} \subseteq DOMAIN reviewer BY <1>2 DEF StoredOK, Idle
    <2>2. /\ DOMAIN reviewer' = DOMAIN reviewer /\ reviewer'.kind = reviewer.kind /\ reviewer'.payload = reviewer.payload
          /\ reviewer'.step = "sync"
      BY <1>6, <2>1 DEF Carried
    <2>3. StoredOK' BY <1>2, <1>6, <2>2, StoredFrom DEF StoredOK
    <2> QED BY <1>4, <1>6, <2>3
  <1>7. CASE ReadForDecision
    <2> DEFINE left == WithoutRefs(profiles[reviewer.key], {reviewer.face})
    <2>1. UNCHANGED <<profiles, active, stored, run, moved>> BY <1>7 DEF ReadForDecision
    <2>2. StoreOK' BY <1>2, <2>1 DEF StoredOK, StoreOK, ProfilesOK
    <2>3. reviewer.key \in Key => ProfilesOK(left)
      <3>1. PICK s, F : s = profiles[reviewer.key] /\ F = {reviewer.face} OBVIOUS
      <3>2. reviewer.key \in Key => ProfilesOK(s) BY <1>2, <3>1 DEF StoredOK, StoreOK
      <3> QED BY <3>1, <3>2, ProfilesWithout
    <2> HIDE DEF left
    <2>4. CASE Carried BY <1>6, <2>1, <2>2, <2>4
    <2>5. CASE reviewer' = [reviewer EXCEPT !.step = "rewrite", !.copy = left]
      <3>1. {"step", "copy"} \subseteq DOMAIN reviewer BY <1>2 DEF StoredOK, Idle
      <3>2. /\ DOMAIN reviewer' = DOMAIN reviewer /\ reviewer'.kind = reviewer.kind
            /\ reviewer'.payload = reviewer.payload /\ reviewer'.key = reviewer.key /\ reviewer'.copy = left
        BY <2>5, <3>1
      <3>3. StoredOK' BY <1>2, <2>1, <2>2, <2>3, <3>2, StoredFrom DEF StoredOK
      <3> QED BY <1>4, <2>1, <3>3
    <2> QED BY <1>7, <2>4, <2>5 DEF ReadForDecision, left
  <1>8. CASE Exclude
    <2>1. PICK k, s : k = reviewer.key /\ s = reviewer.copy OBVIOUS
    <2>2. profiles' \in {profiles, [profiles EXCEPT ![k] = s]} /\ reviewer.step = "rewrite" BY <1>8, <2>1 DEF Exclude
    <2>3. StoreOK /\ (k \in Key => ProfilesOK(s)) BY <1>2, <2>1, <2>2 DEF StoredOK
    <2>4. StoreOK' BY <2>2, <2>3, StoreKept
    <2> QED BY <1>6, <1>8, <2>4 DEF Exclude
  <1>9. CASE DecisionFails \/ Sync
    <2>1. reviewer' = Idle /\ UNCHANGED <<profiles, active, stored, run, moved>> BY <1>9 DEF DecisionFails, Sync
    <2>2. DOMAIN reviewer' = DOMAIN Idle /\ reviewer'.kind \in Review /\ reviewer'.payload = NoPayload
          /\ reviewer'.step = "none"
      BY <2>1 DEF Idle, Review
    <2>3. PayloadOK(reviewer'.kind, reviewer'.payload) BY <2>2, NothingYet
    <2>4. StoreOK' BY <1>2, <2>1 DEF StoredOK, StoreOK, ProfilesOK
    <2>5. StoredOK' BY <1>2, <2>1, <2>2, <2>3, <2>4, StoredFrom DEF StoredOK
    <2> QED BY <1>4, <2>1, <2>5
  <1> QED BY <1>3, <1>5, <1>7, <1>8, <1>9 DEF Reviewing

LEMMA ProfilesFrom ==
  ASSUME NEW R, \A p \in Known : R[p] \in SUBSET Face /\ \A f \in R[p] : PersonOf[f] = p,
         NEW w \in Seq(Nat), ToSet(w) \subseteq Known, Ascending(w)
  PROVE  ProfilesOK([n \in DOMAIN w |-> [person |-> w[n], refs |-> R[w[n]]]])
  <1> DEFINE b == [n \in DOMAIN w |-> [person |-> w[n], refs |-> R[w[n]]]]
             x == [n \in DOMAIN w |-> R[w[n]]]
  <1>1. Len(w) \in Nat /\ DOMAIN w = 1 .. Len(w) /\ \A n \in DOMAIN w : w[n] \in Nat /\ w[n] \in ToSet(w) BY Elements
  <1>2. \A n \in DOMAIN w : x[n] \in SUBSET Face /\ \A f \in x[n] : PersonOf[f] = w[n] BY <1>1
  <1>3. \A n \in DOMAIN w : b[n] = [person |-> w[n], refs |-> x[n]] OBVIOUS
  <1>4. b = [n \in 1 .. Len(w) |-> b[n]] /\ DOMAIN b = DOMAIN w BY <1>1
  <1> HIDE DEF b, x
  <1>5. \A n \in DOMAIN w : b[n] \in [person : Nat, refs : SUBSET Face] /\ b[n].person = w[n] /\ b[n].refs = x[n]
    <2> TAKE n \in DOMAIN w
    <2>1. w[n] \in Nat /\ x[n] \in SUBSET Face BY <1>1, <1>2
    <2>2. b[n] = [person |-> w[n], refs |-> x[n]] BY <1>3
    <2> QED BY <2>1, <2>2
  <1>6. b \in Seq([person : Nat, refs : SUBSET Face])
    <2>1. \A n \in 1 .. Len(w) : b[n] \in [person : Nat, refs : SUBSET Face] BY <1>1, <1>5
    <2> QED BY <2>1, <1>1, <1>4
  <1>7. \A n \in DOMAIN b : \A f \in b[n].refs : PersonOf[f] = b[n].person BY <1>2, <1>4, <1>5
  <1>8. \A l, n \in DOMAIN b : b[l].person = b[n].person => l = n
    <2> SUFFICES ASSUME NEW l \in DOMAIN w, NEW n \in DOMAIN w, b[l].person = b[n].person PROVE l = n BY <1>4
    <2>1. w[l] = w[n] BY <1>5
    <2> QED BY <2>1, OneOfEach
  <1>9. ProfilesOK(b) BY <1>6, <1>7, <1>8 DEF ProfilesOK
  <1> QED BY <1>9 DEF b

LEMMA BuiltBeforeOK == ProfilesOK(BuiltBefore)
  <1> DEFINE refs == [p \in Known |-> {f \in Face : PersonOf[f] = p /\ WithinLimit(f) /\ ImageOf[f] \notin Absent}]
  <1>1. \A p \in Known : refs[p] \in SUBSET Face /\ \A f \in refs[p] : PersonOf[f] = p OBVIOUS
  <1>2. BuiltBefore = LET w == Sorted({p \in Known : refs[p] # {}})
                      IN  [n \in DOMAIN w |-> [person |-> w[n], refs |-> refs[w[n]]]]
    BY DEF BuiltBefore
  <1>3. PICK R, S : R = refs /\ S = {p \in Known : refs[p] # {}} OBVIOUS
  <1> HIDE DEF refs
  <1>4. S \in SUBSET Known BY <1>3
  <1>5. S \in SUBSET Nat /\ IsFiniteSet(S) /\ S \subseteq Nat BY <1>4, Photos
  <1>6. Sorted(S) \in Seq(Nat) /\ ToSet(Sorted(S)) = S /\ Ascending(Sorted(S)) BY <1>5, SortedOf
  <1>7. PICK w : w = Sorted(S) OBVIOUS
  <1>8. ProfilesOK([n \in DOMAIN w |-> [person |-> w[n], refs |-> R[w[n]]]])
    <2>1. \A p \in Known : R[p] \in SUBSET Face /\ \A f \in R[p] : PersonOf[f] = p BY <1>1, <1>3
    <2>2. w \in Seq(Nat) /\ ToSet(w) \subseteq Known /\ Ascending(w) BY <1>4, <1>6, <1>7
    <2> QED BY <2>1, <2>2, ProfilesFrom
  <1> QED BY <1>2, <1>3, <1>7, <1>8

LEMMA SkipInit == Init => SkipInv
  <1> SUFFICES ASSUME Init PROVE SkipInv OBVIOUS
  <1>1. StoreOK
    <2>1. ProfilesOK(<<>>) BY DEF ProfilesOK
    <2>2. profiles \in [Key -> {<<>>, BuiltBefore}] BY DEF Init
    <2> QED BY <2>1, <2>2, BuiltBeforeOK DEF StoreOK
  <1>2. StoredOK
    <2>1. reviewer = Idle /\ active = [k \in Review |-> NoPayload] /\ stored = [k \in Review |-> NoPayload]
      BY DEF Init
    <2>2. reviewer.kind \in Review /\ reviewer.payload = NoPayload /\ reviewer.step = "none" BY <2>1 DEF Idle, Review
    <2>3. \A k \in Review : active[k] = NoPayload /\ stored[k] = NoPayload BY <2>1
    <2>4. DOMAIN active = Review /\ DOMAIN stored = Review BY <2>1
    <2>5. \A k : PayloadOK(k, NoPayload) BY NothingYet
    <2> QED BY <1>1, <2>1, <2>2, <2>3, <2>4, <2>5 DEF StoredOK
  <1>3. /\ run.pc = "none" /\ run.kind = "build" /\ run.who = <<>> /\ run.i = 1 /\ run.built = <<>>
        /\ run.entries = <<>> /\ run.after = 0 /\ run.seen = {} /\ DOMAIN run = DOMAIN NoRun
        /\ run.lists = {} /\ run.excluded = {} /\ run.copy = <<>>
    BY DEF Init, NoRun
  <1>4. ListOK BY <1>3 DEF ListOK, ProfilesOK
  <1>5. Passed(run) = {} BY <1>3 DEF Passed
  <1>6. CoverOK BY <1>3, <1>5, EntriesNone DEF CoverOK, Seen
  <1>7. CacheOK BY DEF CacheOK, Empty, Init
  <1> QED BY <1>2, <1>3, <1>4, <1>6, <1>7 DEF SkipInv, RunOK, ReadOK, JudgeOK, Reads

LEMMA SkipStep == SkipInv /\ [Next]_vars => SkipInv'
  <1> SUFFICES ASSUME SkipInv, [Next]_vars PROVE SkipInv' OBVIOUS
  <1>1. CASE UNCHANGED vars
    <2>1. UNCHANGED <<run, profiles, active, stored, reviewer, moved, stop, cache, unread>> BY <1>1 DEF vars
    <2>2. CacheGoesOn BY <2>1, CacheSteps DEF SkipInv
    <2>3. StoredOK' BY <2>1, StoredStays DEF SkipInv
    <2> QED BY <2>1, <2>2, <2>3, RunUnchanged, BesideScan
  <1>2. CASE \E k \in Review \cup {"build"}, key \in Key, m \in {"immediate", "save_only"}, resume, auto \in BOOLEAN :
               Start(k, key, m, resume, auto)
    BY <1>2, StartSkips
  <1>3. CASE RequestStop \/ Prefetched \/ ResetCache \/ \E o \in orphans : OrphanEnds(o) BY <1>3, OthersSkip
  <1>4. CASE Scanning BY <1>4, BeginningSkips, ListingSkips, ReadingSkips, JudgingSkips DEF Scanning
  <1> QED BY <1>1, <1>2, <1>3, <1>4, RaiseSkips, ReviewingSkips DEF Next

LEMMA SkipInvSuffices == SkipInv => NothingSkipped
  <1> SUFFICES ASSUME SkipInv, NEW f \in Seen(run)
               PROVE  f \in FoundSoFar \cup run.over \/ (run.kind # "outliers" /\ ImageOf[f] \in Absent)
    BY DEF NothingSkipped
  <1>1. f \in Covered BY DEF SkipInv, RunOK, CoverOK
  <1> QED BY <1>1 DEF Covered, Missing

(* A scan that has passed a person has found every face it looks for there,  *)
(* but for those passed over for one of the reasons the model names,         *)
(* whatever is read ahead, lost, decided on or stopped in between and        *)
(* however often the scan is paused and resumed.                             *)
THEOREM ScansSkipNothing == Spec => []NothingSkipped
  <1>1. Spec => []SkipInv BY SkipInit, SkipStep, PTL DEF Spec
  <1> QED BY <1>1, SkipInvSuffices, PTL
-----------------------------------------------------------------------------
(* The rest of what the lists, the threads and the flags are made of.       *)
OfKnown(s) == \A n \in DOMAIN s : s[n].person \in Known
RunTypes ==
  /\ run.at \in Nat /\ run.refs \subseteq Face /\ ToSet(run.rest) \subseteq Face /\ run.over \subseteq Face
  /\ run.window \subseteq Image
  /\ run.pc \in {"launch", "result"} => run.window # {} /\ run.window \subseteq ToSet(run.items)
  /\ OfKnown(run.built) /\ OfKnown(run.copy) /\ run.key \in Key \cup {NoKey}
  /\ (run.kind = "build" => ToSet(run.who) \subseteq Known)
(* Look-ahead reads images that are there.                                   *)
FetchTypes ==
  /\ DOMAIN fetch = DOMAIN NoFetch /\ fetch.items \subseteq Image \ Absent
  /\ \A o \in orphans : o.items \subseteq Image \ Absent
(* What was passed over, decided on or built into a profile is known.        *)
ListTypes ==
  /\ \A k \in Review : active[k].over \subseteq Face /\ stored[k].over \subseteq Face
  /\ reviewer.payload.over \subseteq Face /\ (reviewer.step # "none" => reviewer.face \in Face)
  /\ \A key \in Key : OfKnown(profiles[key])
  /\ reviewer.step = "rewrite" /\ reviewer.key \in Key => OfKnown(reviewer.copy)
(* The flags and the histories.                                              *)
FlagTypes ==
  /\ running \in BOOLEAN /\ stop \subseteq Review \cup {"build"}
  /\ moved \subseteq Face /\ late \subseteq Face /\ unread \subseteq Image
TypeInv == RunTypes /\ FetchTypes /\ ListTypes /\ FlagTypes

LEMMA TypesSuffice == ASSUME SkipInv, TypeInv PROVE TypeOK
  <1>1. /\ StoreOK /\ CacheOK /\ ListOK
        /\ \A k \in Review : Entries(active[k].entries) /\ Entries(stored[k].entries)
    BY DEF SkipInv, RunOK, StoredOK, PayloadOK
  <1>2. ASSUME NEW key \in Key PROVE ToSet(profiles[key]) \subseteq [person : Known, refs : SUBSET Face]
    <2>3. PICK s : s = profiles[key] OBVIOUS
    <2>4. ProfilesOK(s) /\ OfKnown(s) BY <2>3, <1>1 DEF StoreOK, TypeInv, ListTypes
    <2>5. ASSUME NEW n \in DOMAIN s PROVE s[n] \in [person : Known, refs : SUBSET Face]
      <3>1. s[n] \in [person : Nat, refs : SUBSET Face] BY <2>4, Elements DEF ProfilesOK
      <3>2. s[n].person \in Known BY <2>4 DEF OfKnown
      <3> QED BY <3>1, <3>2
    <2> QED BY <2>3, <2>5 DEF ToSet
  <1>3. \A s : Entries(s) => ToSet(s) \subseteq [face : Face, st : State]
    <2> SUFFICES ASSUME NEW s, Entries(s), NEW n \in DOMAIN s PROVE s[n] \in [face : Face, st : State] BY DEF ToSet
    <2> QED BY Elements DEF Entries
  <1> QED BY <1>1, <1>2, <1>3 DEF TypeOK, TypeInv, RunTypes, FetchTypes, ListTypes, FlagTypes, CacheOK, ListOK

LEMMA NoRunTyped == ASSUME run' = NoRun PROVE RunTypes'
  <1>1. /\ run'.pc = "none" /\ run'.at = 1 /\ run'.refs = {} /\ run'.rest = <<>> /\ run'.over = {} /\ run'.window = {}
        /\ run'.built = <<>> /\ run'.copy = <<>> /\ run'.key = NoKey /\ run'.who = <<>>
    BY DEF NoRun
  <1> QED BY <1>1 DEF RunTypes, OfKnown, ToSet

LEMMA EndsTyped == ASSUME FetchTypes, Ends PROVE RunTypes' /\ FetchTypes' /\ running' \in BOOLEAN /\ unread' \subseteq Image
  <1>1. RunTypes' BY NoRunTyped DEF Ends
  <1>2. FetchTypes' BY DEF FetchTypes, Ends, NoFetch
  <1> QED BY <1>1, <1>2 DEF Ends

(* A step of the scan that changes nothing but where it is.                  *)
LEMMA RunTyped ==
  ASSUME RunTypes, run'.at \in Nat, run'.refs \subseteq Face, ToSet(run'.rest) \subseteq Face, run'.over \subseteq Face,
         run'.window \subseteq Image,
         \/ run'.pc \notin {"launch", "result"}
         \/ run'.window # {} /\ run'.window \subseteq ToSet(run'.items),
         run'.built = run.built /\ run'.copy = run.copy /\ run'.key = run.key, run'.kind = run.kind, run'.who = run.who
  PROVE  RunTypes'
  BY DEF RunTypes, OfKnown, ToSet

LEMMA ListsTyped == ASSUME ListTypes, UNCHANGED <<active, stored, reviewer, profiles>> PROVE ListTypes'
  BY DEF ListTypes, OfKnown

LEMMA FacesTyped == (\A p : FacesOf(p) \subseteq Face) /\ \A f \in Face : ImageOf[f] \in Image
  BY DEF FacesOf, Image

LEMMA BatchTyped ==
  ASSUME unread \subseteq Image, NEW W \in SUBSET Image,
         BatchRead(W) \/ Unchanged \/ \E m \in W : ReadPreview(m)
  PROVE  unread' \subseteq Image
  BY DEF BatchRead, Unchanged, ReadPreview

LEMMA InitTyped == Init => TypeInv
  <1> SUFFICES ASSUME Init PROVE TypeInv OBVIOUS
  <1>1. RunTypes
    <2>1. /\ run.pc = "none" /\ run.at = 1 /\ run.refs = {} /\ run.rest = <<>> /\ run.over = {} /\ run.window = {}
          /\ run.built = <<>> /\ run.copy = <<>> /\ run.key = NoKey /\ run.who = <<>>
      BY DEF Init, NoRun
    <2> QED BY <2>1 DEF RunTypes, OfKnown, ToSet
  <1>2. FetchTypes BY DEF Init, FetchTypes, NoFetch
  <1>3. \A key \in Key : OfKnown(profiles[key])
    <2> DEFINE S == {p \in Known : {f \in Face : PersonOf[f] = p /\ WithinLimit(f) /\ ImageOf[f] \notin Absent} # {}}
    <2>1. S \in SUBSET Known OBVIOUS
    <2>2. IsFiniteSet(S) /\ S \subseteq Nat BY <2>1, Photos
    <2> HIDE DEF S
    <2>3. Sorted(S) \in Seq(Known) BY <2>1, <2>2, SortedOf
    <2>4. \A n \in DOMAIN Sorted(S) : Sorted(S)[n] \in Known BY <2>3, Elements
    <2>5. OfKnown(BuiltBefore)
      <3>1. DOMAIN BuiltBefore = DOMAIN Sorted(S) /\ \A n \in DOMAIN BuiltBefore : BuiltBefore[n].person = Sorted(S)[n]
        BY DEF BuiltBefore, S
      <3> QED BY <3>1, <2>4 DEF OfKnown
    <2>6. OfKnown(<<>>) BY DEF OfKnown
    <2> QED BY <2>5, <2>6 DEF Init
  <1>4. ListTypes
    <2>1. \A k \in Review : active[k] = NoPayload /\ stored[k] = NoPayload BY DEF Init
    <2> QED BY <2>1, <1>3 DEF Init, ListTypes, NoPayload, Idle
  <1> QED BY <1>1, <1>2, <1>4 DEF TypeInv, FlagTypes, Init

LEMMA ReadingTyped == ASSUME SkipInv, TypeInv, Reading PROVE TypeInv'
  <1>1. /\ DOMAIN run = DOMAIN NoRun /\ ListOK /\ RunTypes /\ FetchTypes /\ ListTypes /\ FlagTypes
    BY DEF SkipInv, RunOK, TypeInv
  <1>2. ListTypes' BY <1>1, ListsTyped DEF Reading
  <1>3. {"pc", "at", "refs", "rest", "over", "window", "next", "built", "copy", "key", "kind", "who"} \subseteq DOMAIN run
    BY <1>1, Fields
  <1>4. stop' \subseteq Review \cup {"build"} /\ moved' \subseteq Face /\ late' \subseteq Face
    BY <1>1 DEF Reading, FlagTypes
  <1>5. ASSUME RunTypes', FetchTypes', running' \in BOOLEAN, unread' \subseteq Image PROVE TypeInv'
    BY <1>2, <1>4, <1>5 DEF TypeInv, FlagTypes
  <1>6. run.pc \in Reads /\ run.items \in Seq(Image)
    BY ReadFacts DEF Reading, LookAtImage, JoinPrefetch, ReadImage, LaunchPrefetch, ReadBatch, MatchFaces, Drain,
        Looking, Reads, ReadBase
  <1>7. \A n \in DOMAIN run.items : run.items[n] \in Image BY <1>6, Elements
  <1>8. ASSUME NEW at \in Nat \ {0} PROVE Candidates(at) \subseteq (Image \ Absent) \cap ToSet(run.items)
    <2>1. DOMAIN run.items = 1 .. Len(run.items) /\ Len(run.items) \in Nat BY <1>6, Elements
    <2> SUFFICES ASSUME NEW k \in at .. (at + Batch - 1), k <= Len(run.items), run.items[k] \notin Absent
                 PROVE  run.items[k] \in (Image \ Absent) \cap ToSet(run.items)
      BY DEF Candidates
    <2>2. at + Batch - 1 \in Int BY OptionsAssumption
    <2>3. k \in DOMAIN run.items BY <2>1, <2>2
    <2> QED BY <2>3, <1>7 DEF ToSet
  <1>9. \A pc : Goto(pc) /\ (pc \in {"launch", "result"} => run.pc \in {"launch", "result"}) => RunTypes'
    BY <1>1, <1>3, RunTyped DEF Goto, RunTypes
  <1>10. ToMatch => RunTypes' BY <1>1, <1>3, RunTyped DEF ToMatch, RunTypes
  <1>11. Abandon => FetchTypes' BY <1>1 DEF Abandon, FetchTypes, NoFetch
  <1>12. fetch' = NoFetch /\ UNCHANGED orphans => FetchTypes' BY <1>1 DEF FetchTypes, NoFetch
  <1>13. UNCHANGED <<fetch, orphans>> => FetchTypes' BY <1>1 DEF FetchTypes
  <1>14. unread \subseteq Image /\ running \in BOOLEAN BY <1>1 DEF FlagTypes
  <1>15. Unchanged => unread' \subseteq Image BY <1>14 DEF Unchanged
  <1>16. CASE LookAtImage
    <2>1. NextAt => RunTypes' BY <1>1, <1>3, RunTyped DEF NextAt, RunTypes
    <2> QED BY <2>1, <1>5, <1>9, <1>13, <1>14, <1>15, <1>16 DEF LookAtImage
  <1>17. CASE JoinPrefetch BY <1>5, <1>9, <1>11, <1>12, <1>14, <1>15, <1>17 DEF JoinPrefetch
  <1>18. CASE ReadImage
    <2>1. Here \in Image BY <1>6, <1>18, ReadFacts DEF SkipInv, RunOK, ReadOK, ReadImage, Looking, Reads
    <2>2. unread' \subseteq Image BY <2>1, <1>14, <1>15, <1>18 DEF ReadImage, ReadPreview
    <2>3. RunTypes'
      <3>1. ASSUME NEW pc, NEW next, Cardinality(Candidates(run.at)) > 1,
                   run' = [run EXCEPT !.pc = pc, !.window = Candidates(run.at), !.next = next]
            PROVE  RunTypes'
        <4>1. PICK W : W = Candidates(run.at) OBVIOUS
        <4>2. run.at \in Nat \ {0} BY <1>6, ReadFacts
        <4>3. W \subseteq Image /\ W \subseteq ToSet(run.items) BY <4>1, <4>2, <1>8
        <4>4. W # {}
          <5>1. Cardinality({}) = 0 BY FS_EmptySet
          <5> QED BY <5>1, <4>1, <3>1
        <4>5. run'.window = W /\ run'.items = run.items BY <4>1, <3>1, <1>3
        <4> QED BY <4>3, <4>4, <4>5, <3>1, <1>1, <1>3, RunTyped DEF RunTypes
      <3> QED BY <3>1, <1>9, <1>10, <1>18 DEF ReadImage, ReadPreview
    <2> QED BY <2>2, <2>3, <1>5, <1>13, <1>14, <1>18 DEF ReadImage
  <1>19. CASE LaunchPrefetch
    <2>1. FetchTypes'
      <3>1. PICK ahead : ahead = Candidates(BehindWindow) OBVIOUS
      <3>4. BehindWindow \in Nat \ {0}
        <4> DEFINE T == {n \in DOMAIN run.items : run.items[n] \in run.window}
        <4>1. /\ DOMAIN run.items = 1 .. Len(run.items) /\ Len(run.items) \in Nat /\ Ascending(run.items)
              /\ \A n \in DOMAIN run.items : run.items[n] \in Nat
          BY <1>6, <1>7, Elements, ReadFacts, Photos DEF ReadBase, Image
        <4>2. T # {} /\ T \subseteq 1 .. Len(run.items) /\ \A m \in run.window : \E n \in T : m = run.items[n]
          BY <4>1, <1>1, <1>19 DEF RunTypes, LaunchPrefetch, Looking, ToSet
        <4>3. PICK n \in T : \A l \in T : n >= l
          <5> HIDE DEF T
          <5> QED BY <4>1, <4>2, Greatest
        <4>4. n \in DOMAIN run.items /\ run.items[n] \in run.window OBVIOUS
        <4>5. \A m \in run.window : m <= run.items[n]
          <5> TAKE m \in run.window
          <5>1. PICK l \in T : m = run.items[l] BY <4>2
          <5>6. l \in DOMAIN run.items /\ n >= l /\ n \in DOMAIN run.items BY <4>3
          <5>2. l \in DOMAIN run.items /\ n >= l /\ n \in Nat /\ l \in Nat BY <5>6, <4>1
          <5>3. l < n => run.items[l] < run.items[n] BY <5>2, <4>1, <4>4 DEF Ascending
          <5>4. run.items[l] \in Nat /\ run.items[n] \in Nat BY <5>2, <4>1, <4>4
          <5>5. l = n \/ l < n BY <5>2
          <5> QED BY <5>1, <5>3, <5>4, <5>5
        <4>6. BehindWindow \in {1 + x : x \in DOMAIN run.items} BY <4>4, <4>5 DEF BehindWindow
        <4> QED BY <4>1, <4>6
      <3>2. ahead \subseteq Image \ Absent BY <3>1, <3>4, <1>8
      <3>3. fetch' \in {fetch, NoFetch, [busy |-> TRUE, items |-> ahead]} /\ UNCHANGED orphans
        BY <3>1, <1>19 DEF LaunchPrefetch
      <3> QED BY <3>2, <3>3, <1>1 DEF FetchTypes, NoFetch
    <2>2. run.pc = "launch" BY <1>19 DEF LaunchPrefetch, Looking
    <2>3. RunTypes' BY <2>2, <1>9, <1>10, <1>19 DEF LaunchPrefetch
    <2>4. running' = running /\ Unchanged BY <1>19 DEF LaunchPrefetch
    <2> QED BY <2>1, <2>3, <2>4, <1>5, <1>14, <1>15
  <1>20. CASE ReadBatch
    <2>1. Here \in Image BY <1>6, <1>20, ReadFacts DEF SkipInv, RunOK, ReadOK, ReadBatch, Looking, Reads
    <2>2. unread' \subseteq Image
      <3>1. BatchRead(run.window) => unread' \subseteq Image BY <1>1, <1>14, BatchTyped DEF RunTypes
      <3> QED BY <2>1, <3>1, <1>14, <1>15, <1>20 DEF ReadBatch, ReadPreview
    <2>4. run.pc = "result" BY <1>20 DEF ReadBatch, Looking
    <2>3. RunTypes' BY <2>4, <1>9, <1>10, <1>20 DEF ReadBatch, Result, ReadPreview
    <2> QED BY <2>2, <2>3, <1>5, <1>13, <1>14, <1>20 DEF ReadBatch
  <1>21. CASE MatchFaces
    <2>1. CASE Stopping BY <2>1, <1>5, <1>9, <1>13, <1>14, <1>15, <1>21 DEF MatchFaces
    <2>2. CASE ~Stopping
      <3>1. PICK refs \in {run.refs, run.refs \cup FacesHere}, over \in {run.over, run.over \cup FacesHere} :
              run' = [run EXCEPT !.pc = "image", !.at = run.at + 1, !.refs = refs, !.over = over]
        BY <2>2, <1>21 DEF MatchFaces
      <3>2. FacesHere \subseteq Face BY DEF FacesHere, FacesOf
      <3>3. refs \subseteq Face /\ over \subseteq Face BY <3>2, <1>1 DEF RunTypes
      <3>4. RunTypes' BY <3>1, <3>3, <1>1, <1>3, RunTyped DEF RunTypes
      <3> QED BY <3>4, <1>5, <1>13, <1>14, <1>15, <1>21 DEF MatchFaces
    <2> QED BY <2>1, <2>2
  <1>22. CASE Drain BY <1>5, <1>9, <1>11, <1>12, <1>13, <1>14, <1>15, <1>22 DEF Drain
  <1> QED BY <1>16, <1>17, <1>18, <1>19, <1>20, <1>21, <1>22 DEF Reading

LEMMA OverTyped ==
  ASSUME NEW r, NEW c, c.over \subseteq Face, \A j \in DOMAIN r.who : Sought(r.kind, List(r), j) \subseteq Face
  PROVE  LeftOut(r, c) \subseteq Face
  <1>1. Passed(r) \subseteq Face BY DEF Passed
  <1>2. InFront(r) \subseteq Face BY <1>1 DEF InFront, FrontOf
  <1> QED BY <1>1, <1>2 DEF LeftOut

LEMMA OwnTyped == ASSUME ListTypes, run.key \in Key PROVE OfKnown(Own)
  BY DEF ListTypes, Own

(* Profiles that are written for one key.                                    *)
LEMMA WrittenKnown ==
  ASSUME StoredOK, ListTypes, NEW k, NEW s, k \in Key => OfKnown(s), profiles' \in {profiles, [profiles EXCEPT ![k] = s]}
  PROVE  \A key \in Key : OfKnown(profiles[key])'
  <1>1. DOMAIN profiles = Key BY DEF StoredOK, StoreOK
  <1>2. \A key \in Key : profiles'[key] = profiles[key] \/ (k \in Key /\ profiles'[key] = s) BY <1>1
  <1>3. \A key \in Key : OfKnown(profiles'[key]) BY <1>2 DEF ListTypes
  <1> QED BY <1>3 DEF OfKnown

LEMMA ListedTyped ==
  ASSUME SkipInv, TypeInv, run.pc = "begin", run.kind \in Review, NEW who, NEW c, NEW a,
         run.kind = "outliers" => DOMAIN who = DOMAIN Own,
         run' = Listed(run, who, c, a)
  PROVE  RunTypes'
  <1>1. /\ DOMAIN run = DOMAIN NoRun /\ RunTypes /\ ListTypes /\ StoredOK BY DEF SkipInv, RunOK, TypeInv
  <1>0. ProfilesOK(Own) /\ OfKnown(Own)
    <2>1. run.key \in Key BY DEF SkipInv, RunOK, ListOK
    <2> QED BY <2>1, <1>1, OwnTyped DEF StoredOK, StoreOK, Own
  <1>2. PICK n, person, after, previous :
          /\ n = (IF a THEN IndexOf(who, c) ELSE 1) /\ previous = Previous(run)
          /\ person = (IF a THEN c.person ELSE 0) /\ after = (IF a THEN c.after ELSE 0)
    OBVIOUS
  <1> DEFINE at == [run EXCEPT !.pc = "person", !.who = who, !.i = n, !.start = n, !.pre = n,
                      !.person = person, !.after = after,
                      !.entries = IF Continued(run) THEN previous.entries ELSE <<>>,
                      !.resolved = Decided(previous.entries), !.built = Own,
                      !.seen = IF Continued(run) THEN previous.seen ELSE {}]
  <1>3. run' = [at EXCEPT !.over = LeftOut(at, previous),
                          !.lists = (IF Continued(run) THEN previous.lists ELSE {}) \cup {List(at)}]
    BY <1>2 DEF Listed
  <1>4. {"pc", "kind", "key", "copy", "who", "built", "at", "refs", "rest", "window", "over", "lists"} \subseteq DOMAIN run
    BY <1>1, Fields
  <1>5. /\ at.pc = "person" /\ at.kind = run.kind /\ at.who = who /\ at.built = Own /\ at.copy = run.copy /\ at.key = run.key /\ at.at = run.at
        /\ at.refs = run.refs /\ at.rest = run.rest /\ at.window = run.window /\ DOMAIN at = DOMAIN run
    BY <1>4
  <1> HIDE DEF at
  <1>6. /\ run'.pc = "person" /\ run'.kind = run.kind /\ run'.built = Own /\ run'.copy = run.copy /\ run'.key = run.key /\ run'.at = run.at
        /\ run'.refs = run.refs /\ run'.rest = run.rest /\ run'.window = run.window
        /\ run'.over = LeftOut(at, previous)
    BY <1>3, <1>4, <1>5
  <1>7. previous.over \subseteq Face BY <1>1, <1>2 DEF ListTypes, Previous
  <1>8. \A j \in DOMAIN who : Sought(run.kind, List(at), j) \subseteq Face
    <2>1. CASE run.kind = "outliers"
      <3>1. \A j \in DOMAIN Own : Own[j].refs \subseteq Face
        <4>0. PICK s : s = Own OBVIOUS
        <4>1. \A j \in DOMAIN s : s[j] \in [person : Nat, refs : SUBSET Face]
          BY <1>0, <4>0, Elements DEF ProfilesOK
        <4> QED BY <4>0, <4>1
      <3>2. List(at) = Own BY <2>1, <1>5 DEF List
      <3> QED BY <3>1, <3>2, <2>1 DEF Sought
    <2>2. CASE run.kind # "outliers"
      <3>1. \A p : FacesOf(p) \subseteq Face BY FacesTyped
      <3> QED BY <3>1, <2>2 DEF Sought, Review
    <2> QED BY <2>1, <2>2
  <1>9. LeftOut(at, previous) \subseteq Face BY <1>5, <1>7, <1>8, OverTyped
  <1>10. run.kind # "build" BY DEF Review
  <1>11. OfKnown(run.built)' /\ OfKnown(run.copy)' BY <1>0, <1>1, <1>6 DEF RunTypes, OfKnown
  <1> QED BY <1>1, <1>6, <1>9, <1>10, <1>11 DEF RunTypes, ToSet

LEMMA OutTyped == ASSUME StoredOK PROVE Out \subseteq Face
  <1>1. Entries(stored["outliers"].entries) BY DEF StoredOK, PayloadOK, Review
  <1>2. EntryFaces(stored["outliers"].entries) \subseteq Face BY <1>1, EntryFacesAreFaces
  <1> QED BY <1>2, ExcludedAreEntries DEF Out

LEMMA BeginningTyped == ASSUME SkipInv, TypeInv, Beginning PROVE TypeInv'
  <1>1. /\ DOMAIN run = DOMAIN NoRun /\ ListOK /\ RunTypes /\ FetchTypes /\ ListTypes /\ FlagTypes /\ StoredOK
    BY DEF SkipInv, RunOK, TypeInv
  <1>2. UNCHANGED <<profiles, active, stored, reviewer, fetch, orphans, moved, stop>>
    BY DEF Beginning, BeginBuild, ReadExclusions, BeginOutliers, BeginSuggest, BeginAssign, NeedsProfiles
  <1>3. ListTypes' BY <1>1, <1>2, ListsTyped
  <1>4. FetchTypes' BY <1>1, <1>2 DEF FetchTypes
  <1>5. FlagTypes'
    <2>1. unread' \in {unread, {}} /\ running' \in {running, FALSE} /\ late' \in {late, late \cup Out}
      BY DEF Beginning, BeginBuild, ReadExclusions, BeginOutliers, BeginSuggest, BeginAssign, NeedsProfiles
    <2>2. Out \subseteq Face BY <1>1, OutTyped
    <2> QED BY <2>1, <2>2, <1>1, <1>2 DEF FlagTypes
  <1>6. ASSUME RunTypes' PROVE TypeInv' BY <1>3, <1>4, <1>5, <1>6 DEF TypeInv
  <1>7. CASE BeginBuild
    <2>0. OfKnown(Own)
      <3>1. run.key \in Key BY <1>1, <1>7 DEF ListOK, BeginBuild
      <3> QED BY <3>1, <1>1, OwnTyped
    <2>1. PICK kept \in {<<>>, Own} :
            run' = [run EXCEPT !.pc = "exclusions", !.built = kept,
                      !.who = Sorted(Known \ {x.person : x \in ToSet(kept)})]
      BY <1>7 DEF BeginBuild
    <2>2. PICK S : S = Known \ {x.person : x \in ToSet(kept)} OBVIOUS
    <2>3. S \in SUBSET Known BY <2>2
    <2>4. ToSet(Sorted(S)) = S BY <2>3, Photos, SortedOf
    <2>5. {"pc", "built", "copy", "key", "who"} \subseteq DOMAIN run BY <1>1, Fields
    <2>6. /\ run'.pc = "exclusions" /\ run'.built = kept /\ run'.who = Sorted(S) /\ run'.at = run.at
          /\ run'.refs = run.refs /\ run'.rest = run.rest /\ run'.over = run.over /\ run'.window = run.window
          /\ run'.copy = run.copy /\ run'.key = run.key
      BY <2>1, <2>2, <2>5
    <2>7. OfKnown(kept) BY <2>0 DEF OfKnown
    <2>8. OfKnown(run.built)' /\ OfKnown(run.copy)' BY <1>1, <2>6, <2>7 DEF RunTypes, OfKnown
    <2>9. ToSet(run.who)' \subseteq Known BY <2>3, <2>4, <2>6 DEF ToSet
    <2>10. ToSet(run.rest)' \subseteq Face BY <2>6, <1>1 DEF RunTypes, ToSet
    <2> QED BY <2>6, <2>8, <2>9, <2>10, <1>1, <1>6 DEF RunTypes
  <1>8. CASE ReadExclusions
    <2>1. {"pc", "excluded", "copy", "key"} \subseteq DOMAIN run BY <1>1, Fields
    <2>2. /\ run'.pc = "person" /\ run'.built = run.built /\ run'.copy = run.copy /\ run'.key = run.key
          /\ run'.who = run.who /\ run'.at = run.at /\ run'.kind = run.kind
          /\ run'.refs = run.refs /\ run'.rest = run.rest /\ run'.over = run.over /\ run'.window = run.window
      BY <2>1, <1>8 DEF ReadExclusions
    <2> QED BY <2>2, <1>1, <1>6, RunTyped DEF RunTypes
  <1>9. CASE BeginOutliers
    <2>1. \E who, c, a : run' = Listed(run, who, c, a) /\ DOMAIN who = DOMAIN Own BY <1>9 DEF BeginOutliers
    <2>2. run.pc = "begin" /\ run.kind \in Review BY <1>9 DEF BeginOutliers, Review
    <2> QED BY <2>1, <2>2, <1>6, ListedTyped
  <1>10. CASE BeginSuggest \/ BeginAssign
    <2>1. \E who, c, a : run' = Listed(run, who, c, a) BY <1>10 DEF BeginSuggest, BeginAssign
    <2>2. run.pc = "begin" /\ run.kind \in Review /\ run.kind # "outliers"
      BY <1>10 DEF BeginSuggest, BeginAssign, Review
    <2> QED BY <2>1, <2>2, <1>6, ListedTyped
  <1>11. CASE NeedsProfiles BY <1>11, <1>6, NoRunTyped DEF NeedsProfiles
  <1> QED BY <1>7, <1>8, <1>9, <1>10, <1>11 DEF Beginning

LEMMA WrittenTyped ==
  ASSUME StoredOK, ListTypes, NEW r, NEW c, c.over \subseteq Face, WriteFindings(r, c)
  PROVE  \A k \in Review : active'[k].over \subseteq Face /\ stored'[k].over \subseteq Face
  <1> TAKE k \in Review
  <1>1. active[k].over \subseteq Face /\ stored[k].over \subseteq Face BY DEF ListTypes
  <1>2. active'[k] \in {active[k], c} /\ stored'[k] \in {stored[k], c} BY DEF WriteFindings, StoredOK
  <1> QED BY <1>1, <1>2

LEMMA PlainTyped == ASSUME RunTypes PROVE Plain(run).over \subseteq Face
  BY DEF Plain, NoPayload, RunTypes

LEMMA StopsTyped ==
  ASSUME SkipInv, TypeInv, StoppedBuild \/ Stopped, UNCHANGED <<reviewer, moved, stop>>
  PROVE  TypeInv'
  <1>1. RunTypes /\ FetchTypes /\ ListTypes /\ FlagTypes /\ StoredOK /\ Entries(run.entries)
    BY DEF SkipInv, RunOK, CoverOK, TypeInv
  <1>2. RunTypes' /\ FetchTypes' /\ running' \in BOOLEAN /\ unread' \subseteq Image
    BY <1>1, EndsTyped DEF StoppedBuild, Stopped
  <1>3. late' \subseteq Face
    <2>1. EntryFaces(run.entries) \subseteq Face BY <1>1, EntryFacesAreFaces
    <2> QED BY <2>1, <1>1 DEF FlagTypes, StoppedBuild, Stopped
  <1>4. \A k \in Review : active'[k].over \subseteq Face /\ stored'[k].over \subseteq Face
    <2>1. CASE UNCHANGED <<active, stored>> BY <2>1, <1>1 DEF ListTypes
    <2>2. CASE WriteFindings(run, Plain(run))
      <3>1. PICK r, c : r = run /\ c = Plain(run) OBVIOUS
      <3>2. c.over \subseteq Face /\ WriteFindings(r, c) BY <3>1, <2>2, <1>1, PlainTyped
      <3> QED BY <3>2, <1>1, WrittenTyped
    <2> QED BY <2>1, <2>2 DEF StoppedBuild, Stopped, WriteNothing
  <1>5. \A key \in Key : OfKnown(profiles[key])'
    <2>1. PICK k, s : k = run.key /\ s = run.built OBVIOUS
    <2>2. OfKnown(s) /\ profiles' \in {profiles, [profiles EXCEPT ![k] = s]}
      BY <2>1, <1>1 DEF RunTypes, StoppedBuild, Stopped
    <2> QED BY <2>2, <1>1, WrittenKnown
  <1>6. ListTypes' BY <1>1, <1>4, <1>5 DEF ListTypes
  <1>7. FlagTypes' BY <1>1, <1>2, <1>3 DEF FlagTypes
  <1> QED BY <1>2, <1>6, <1>7 DEF TypeInv

LEMMA WithoutTyped == ASSUME NEW s, ProfilesOK(s), OfKnown(s), NEW F PROVE OfKnown(WithoutRefs(s, F))
  <1> DEFINE t == WithoutRefs(s, F)
  <1>1. \A n \in DOMAIN s : s[n] \in [person : Nat, refs : SUBSET Face] BY Elements DEF ProfilesOK
  <1>2. DOMAIN t = DOMAIN s BY DEF WithoutRefs
  <1>3. \A n \in DOMAIN s : t[n].person = s[n].person
    <2> TAKE n \in DOMAIN s
    <2>1. t[n] = [s[n] EXCEPT !.refs = s[n].refs \ F] BY DEF WithoutRefs
    <2> QED BY <2>1, <1>1
  <1> HIDE DEF t
  <1>4. OfKnown(t) BY <1>2, <1>3 DEF OfKnown
  <1> QED BY <1>4 DEF t

LEMMA ListingTyped == ASSUME SkipInv, TypeInv, Listing PROVE TypeInv'
  <1>1. /\ DOMAIN run = DOMAIN NoRun /\ ListOK /\ RunTypes /\ FetchTypes /\ ListTypes /\ FlagTypes /\ StoredOK
        /\ Entries(run.entries)
    BY DEF SkipInv, RunOK, CoverOK, TypeInv
  <1>2. UNCHANGED <<stop, reviewer, moved>> BY DEF Listing
  <1>3. {"pc", "at", "refs", "rest", "over", "window", "next", "built", "copy", "key", "kind", "who", "pre", "items"} \subseteq DOMAIN run
    BY <1>1, Fields
  <1>4. CASE Preload
    <2>1. run' = [run EXCEPT !.pre = PreloadNext] /\ run.pc = "person" BY <1>4 DEF Preload, AtPerson
    <2>2. RunTypes' BY <2>1, <1>1, <1>3, RunTyped DEF RunTypes
    <2>3. {a[2] : a \in PreloadItems} \in SUBSET Image BY DEF PreloadItems, Ahead
    <2>4. unread' \subseteq Image BY <2>3, <1>1, <1>4, BatchTyped DEF Preload, FlagTypes
    <2>5. UNCHANGED <<profiles, active, stored, running, fetch, orphans, late>> BY <1>4 DEF Preload
    <2>6. ListTypes' BY <2>5, <1>1, <1>2, ListsTyped
    <2> QED BY <2>2, <2>4, <2>5, <2>6, <1>1, <1>2 DEF TypeInv, FetchTypes, FlagTypes
  <1>5. CASE NextPerson
    <2>1. PICK items : run' = [run EXCEPT !.pc = "image", !.at = 1, !.refs = {}, !.items = items,
                                 !.over = run.over \cup PassedOver(run)]
      BY <1>5 DEF NextPerson, OpenPerson
    <2>2. PassedOver(run) \subseteq Face BY DEF PassedOver, FacesOf
    <2>3. /\ run'.pc = "image" /\ run'.at = 1 /\ run'.refs = {} /\ run'.rest = run.rest
          /\ run'.over = run.over \cup PassedOver(run) /\ run'.window = run.window
          /\ run'.built = run.built /\ run'.copy = run.copy /\ run'.key = run.key /\ run'.kind = run.kind /\ run'.who = run.who
      BY <2>1, <1>3
    <2>4. RunTypes' BY <2>2, <2>3, <1>1, RunTyped DEF RunTypes
    <2>5. UNCHANGED <<profiles, active, stored, fetch, orphans, late, unread>> /\ running' = TRUE
      BY <1>5 DEF NextPerson, OpenPerson
    <2>6. ListTypes' BY <2>5, <1>1, <1>2, ListsTyped
    <2> QED BY <2>4, <2>5, <2>6, <1>1, <1>2 DEF TypeInv, FetchTypes, FlagTypes
  <1>6. CASE NextProfile
    <2>1. PICK refs, left : refs = run.built[run.i].refs /\ left = Behind(refs, AfterOf(run)) OBVIOUS
    <2>2. PICK S, over : /\ S = (left \cap Notable) \ run.resolved
                        /\ over = run.over \cup (left \cap run.resolved)
                                     \cup (IF AfterOf(run) \in refs \cup {0} THEN {} ELSE refs)
      OBVIOUS
    <2>3. run' = [run EXCEPT !.pc = "entry", !.rest = Sorted(S), !.over = over]
      BY <1>6, <2>1, <2>2 DEF NextProfile
    <2>4. refs \subseteq Face
      <3>1. run.i \in DOMAIN run.built
        <4>1. run.kind = "outliers" /\ run.i <= Len(run.who) BY <1>6 DEF NextProfile, AtPerson
        <4>2. DOMAIN run.who = 1 .. Len(run.who) /\ Len(run.who) \in Nat /\ run.i \in Nat \ {0}
          BY <1>1, Elements DEF ListOK
        <4> QED BY <4>1, <4>2, <1>1 DEF ListOK
      <3>2. run.built[run.i] \in [person : Nat, refs : SUBSET Face] BY <3>1, <1>1, Elements DEF ListOK, ProfilesOK
      <3> QED BY <3>2, <2>1
    <2>5. left \subseteq Face BY <2>1, <2>4 DEF Behind
    <2>6. S \subseteq Face /\ over \subseteq Face BY <2>2, <2>4, <2>5, <1>1 DEF RunTypes
    <2>7. IsFiniteSet(S) /\ S \subseteq Nat BY <2>6, PhotosAssumption, FS_Subset
    <2>8. ToSet(Sorted(S)) \subseteq Face BY <2>6, <2>7, SortedOf
    <2>9. /\ run'.pc = "entry" /\ run'.at = run.at /\ run'.refs = run.refs /\ run'.rest = Sorted(S)
          /\ run'.over = over /\ run'.window = run.window
          /\ run'.built = run.built /\ run'.copy = run.copy /\ run'.key = run.key /\ run'.kind = run.kind /\ run'.who = run.who
      BY <2>3, <1>3
    <2>10. RunTypes' BY <2>6, <2>8, <2>9, <1>1, RunTyped DEF RunTypes
    <2>11. UNCHANGED <<profiles, active, stored, running, fetch, orphans, late, unread>> BY <1>6 DEF NextProfile
    <2>12. ListTypes' BY <2>11, <1>1, <1>2, ListsTyped
    <2> QED BY <2>10, <2>11, <2>12, <1>1, <1>2 DEF TypeInv, FetchTypes, FlagTypes
  <1>7. CASE StopAtPerson \/ EndBuild BY <1>2, <1>7, StopsTyped DEF StopAtPerson, EndBuild
  <1>8. CASE EndScan
    <2>1. UNCHANGED <<profiles, late>> /\ WriteFindings(run, Plain(run)) BY <1>8 DEF EndScan
    <2>2. \A k \in Review : active'[k].over \subseteq Face /\ stored'[k].over \subseteq Face
      <3>1. PICK r, c : r = run /\ c = Plain(run) OBVIOUS
      <3>2. c.over \subseteq Face /\ WriteFindings(r, c) BY <3>1, <2>1, <1>1, PlainTyped
      <3> QED BY <3>2, <1>1, WrittenTyped
    <2>3. ListTypes' BY <2>1, <2>2, <1>1, <1>2 DEF ListTypes, OfKnown
    <2>4. RunTypes' /\ FetchTypes' /\ running' \in BOOLEAN /\ unread' \subseteq Image
      <3>1. CASE run' = [run EXCEPT !.pc = "exclude"] /\ UNCHANGED <<running, fetch, orphans, cache, unread>>
        <4>1. RunTypes' BY <3>1, <1>1, <1>3, RunTyped DEF RunTypes
        <4> QED BY <4>1, <3>1, <1>1 DEF FetchTypes, FlagTypes
      <3>2. CASE Ends BY <3>2, <1>1, EndsTyped
      <3> QED BY <3>1, <3>2, <1>8 DEF EndScan
    <2> QED BY <2>1, <2>3, <2>4, <1>1, <1>2 DEF TypeInv, FlagTypes
  <1>10. Applying \subseteq Face
    <2>1. EntryFaces(run.entries) \subseteq Face BY <1>1, EntryFacesAreFaces
    <2> QED BY <2>1 DEF Applying
  <1>9. ASSUME Applied, UNCHANGED <<active, stored>>, \A key \in Key : OfKnown(profiles[key])' PROVE TypeInv'
    <2>1. Ends /\ late' \subseteq Face BY <1>1, <1>9, <1>10 DEF Applied, FlagTypes
    <2>2. ListTypes' BY <1>9, <1>1, <1>2 DEF ListTypes, OfKnown
    <2> QED BY <2>1, <2>2, <1>1, <1>2, EndsTyped DEF TypeInv, FlagTypes
  <1>11. CASE ReadToExclude
    <2> DEFINE left == WithoutRefs(Own, EntryFaces(run.entries))
    <2>1. UNCHANGED <<profiles, active, stored>> BY <1>11 DEF ReadToExclude
    <2>2. OfKnown(left)
      <3>1. run.key \in Key BY <1>1, <1>11 DEF ListOK, ReadToExclude
      <3>2. PICK s, F : s = Own /\ F = EntryFaces(run.entries) OBVIOUS
      <3>3. ProfilesOK(s) /\ OfKnown(s) BY <3>1, <3>2, <1>1, OwnTyped DEF StoredOK, StoreOK, Own
      <3>4. OfKnown(WithoutRefs(s, F)) BY <3>3, WithoutTyped
      <3> QED BY <3>2, <3>4
    <2>3. \A key \in Key : OfKnown(profiles[key])' BY <2>1, <1>1 DEF ListTypes, OfKnown
    <2>4. CASE left = Own /\ Applied BY <2>1, <2>3, <2>4, <1>9
    <2> HIDE DEF left
    <2>5. CASE run' = [run EXCEPT !.pc = "rewrite", !.copy = left] /\ UNCHANGED <<running, fetch, orphans, cache, unread, late>>
      <3>1. /\ run'.pc = "rewrite" /\ run'.copy = left /\ run'.at = run.at /\ run'.refs = run.refs /\ run'.rest = run.rest
            /\ run'.over = run.over /\ run'.window = run.window /\ run'.built = run.built /\ run'.kind = run.kind
            /\ run'.who = run.who /\ run'.key = run.key
        BY <2>5, <1>3
      <3>2. OfKnown(run.copy)' /\ OfKnown(run.built)' BY <3>1, <2>2, <1>1 DEF RunTypes, OfKnown
      <3>3. RunTypes' BY <3>1, <3>2, <1>1 DEF RunTypes, ToSet
      <3>4. ListTypes' BY <2>1, <1>1, <1>2, ListsTyped
      <3> QED BY <3>3, <3>4, <2>5, <1>1, <1>2 DEF TypeInv, FetchTypes, FlagTypes
    <2> QED BY <2>4, <2>5, <1>11 DEF ReadToExclude, left
  <1>12. CASE ApplyExclusions
    <2>1. PICK k, s : k = run.key /\ s = run.copy OBVIOUS
    <2>2. OfKnown(s) /\ profiles' = [profiles EXCEPT ![k] = s] BY <2>1, <1>1, <1>12 DEF RunTypes, ApplyExclusions
    <2>3. \A key \in Key : OfKnown(profiles[key])' BY <2>2, <1>1, WrittenKnown
    <2> QED BY <2>3, <1>9, <1>12 DEF ApplyExclusions
  <1> QED BY <1>4, <1>5, <1>6, <1>7, <1>8, <1>11, <1>12 DEF Listing

LEMMA JudgingTyped == ASSUME SkipInv, TypeInv, Judging PROVE TypeInv'
  <1>1. /\ DOMAIN run = DOMAIN NoRun /\ ListOK /\ RunTypes /\ FetchTypes /\ ListTypes /\ FlagTypes /\ StoredOK
    BY DEF SkipInv, RunOK, TypeInv
  <1>2. UNCHANGED <<stop, reviewer, moved>> BY DEF Judging
  <1>3. {"pc", "at", "refs", "rest", "over", "window", "next", "built", "copy", "key", "kind", "who", "i", "items", "entries"} \subseteq DOMAIN run
    BY <1>1, Fields
  <1>4. ASSUME RunTypes', UNCHANGED <<profiles, active, stored, running, fetch, orphans, late, unread>> PROVE TypeInv'
    <2>1. ListTypes' BY <1>1, <1>2, <1>4, ListsTyped
    <2> QED BY <2>1, <1>1, <1>2, <1>4 DEF TypeInv, FetchTypes, FlagTypes
  <1>5. CASE BuildProfile
    <2>1. CASE Stopping BY <2>1, <1>2, <1>5, StopsTyped DEF BuildProfile
    <2>2. CASE ~Stopping
      <3>1. PICK refs, b : /\ refs = run.refs \ run.excluded
                          /\ b = IF refs = {} THEN run.built ELSE Append(run.built, [person |-> run.who[run.i], refs |-> refs])
        OBVIOUS
      <3>2. /\ profiles' = [profiles EXCEPT ![run.key] = b] /\ running' = TRUE
            /\ run' = [run EXCEPT !.pc = "person", !.i = run.i + 1, !.built = b, !.items = <<>>, !.refs = {}]
            /\ UNCHANGED <<active, stored, cache, unread, fetch, orphans, late>>
        BY <2>2, <3>1, <1>5 DEF BuildProfile
      <3>3. OfKnown(b)
        <4>1. run.kind = "build" /\ run.pc = "judge" BY <1>5 DEF BuildProfile, Looking
        <4>2. run.i \in DOMAIN run.who BY <4>1, ReadFacts DEF Reads, ReadBase
        <4>3. run.who[run.i] \in Known BY <4>1, <4>2, <1>1 DEF RunTypes, ToSet
        <4>4. PICK x : x = [person |-> run.who[run.i], refs |-> refs] OBVIOUS
        <4>5. x.person \in Known BY <4>3, <4>4
        <4>6. run.built \in Seq([person : Nat, refs : SUBSET Face]) BY <1>1 DEF ListOK, ProfilesOK
        <4>7. OfKnown(Append(run.built, x))
          <5>1. /\ Len(run.built) \in Nat /\ DOMAIN run.built = 1 .. Len(run.built) BY <4>6, Elements
          <5>2. DOMAIN Append(run.built, x) = 1 .. (Len(run.built) + 1)
                /\ \A n \in DOMAIN run.built : Append(run.built, x)[n] = run.built[n]
                /\ Append(run.built, x)[Len(run.built) + 1] = x
            BY <4>6
          <5>3. \A n \in 1 .. (Len(run.built) + 1) : n \in DOMAIN run.built \/ n = Len(run.built) + 1 BY <5>1
          <5> QED BY <5>2, <5>3, <4>5, <1>1 DEF RunTypes, OfKnown
        <4> QED BY <4>4, <4>7, <3>1, <1>1 DEF RunTypes
      <3>4. /\ run'.pc = "person" /\ run'.at = run.at /\ run'.refs = {} /\ run'.rest = run.rest /\ run'.over = run.over
            /\ run'.window = run.window /\ run'.built = b /\ run'.copy = run.copy /\ run'.key = run.key /\ run'.kind = run.kind /\ run'.who = run.who
        BY <3>2, <1>3
      <3>8. OfKnown(run.built)' /\ OfKnown(run.copy)' BY <3>3, <3>4, <1>1 DEF RunTypes, OfKnown
      <3>9. \A key \in Key : OfKnown(profiles[key])'
        <4>1. PICK k : k = run.key OBVIOUS
        <4>2. profiles' = [profiles EXCEPT ![k] = b] BY <3>2, <4>1
        <4> QED BY <3>3, <4>2, <1>1, WrittenKnown
      <3>6. RunTypes' BY <3>4, <3>8, <1>1 DEF RunTypes, ToSet
      <3>7. ListTypes' BY <3>2, <3>9, <1>1, <1>2 DEF ListTypes, OfKnown
      <3> QED BY <3>2, <3>6, <3>7, <1>1, <1>2 DEF TypeInv, FetchTypes, FlagTypes
    <2> QED BY <2>1, <2>2
  <1>6. CASE FindCandidates
    <2>1. CASE Stopping BY <2>1, <1>2, <1>6, StopsTyped DEF FindCandidates
    <2>2. CASE ~Stopping
      <3>1. PICK S \in SUBSET run.refs :
              run' = [run EXCEPT !.pc = "entry", !.items = <<>>, !.refs = {}, !.rest = Sorted(S),
                                 !.over = run.over \cup (run.refs \cap run.resolved)]
        <4>1. PICK left : left = run.refs \ run.resolved OBVIOUS
        <4>2. PICK S : S = IF run.kind = "assign" THEN left \cap Notable ELSE left OBVIOUS
        <4>3. S \in SUBSET run.refs BY <4>1, <4>2
        <4> QED BY <4>1, <4>2, <4>3, <2>2, <1>6 DEF FindCandidates
      <3>2. S \subseteq Face /\ run.over \cup (run.refs \cap run.resolved) \subseteq Face BY <1>1 DEF RunTypes
      <3>3. IsFiniteSet(S) /\ S \subseteq Nat BY <3>2, PhotosAssumption, FS_Subset
      <3>4. ToSet(Sorted(S)) \subseteq Face BY <3>2, <3>3, SortedOf
      <3>5. /\ run'.pc = "entry" /\ run'.at = run.at /\ run'.refs = {} /\ run'.rest = Sorted(S)
            /\ run'.over = run.over \cup (run.refs \cap run.resolved)
            /\ run'.window = run.window /\ run'.built = run.built /\ run'.copy = run.copy /\ run'.key = run.key /\ run'.kind = run.kind /\ run'.who = run.who
        BY <3>1, <1>3
      <3>6. RunTypes' BY <3>2, <3>4, <3>5, <1>1, RunTyped DEF RunTypes
      <3> QED BY <3>6, <2>2, <1>4, <1>6 DEF FindCandidates
    <2> QED BY <2>1, <2>2
  <1>7. CASE EndPerson
    <2>1. /\ run'.pc = "person" /\ run'.at = run.at /\ run'.refs = run.refs /\ run'.rest = run.rest /\ run'.over = run.over
          /\ run'.window = run.window /\ run'.built = run.built /\ run'.copy = run.copy /\ run'.key = run.key /\ run'.kind = run.kind /\ run'.who = run.who
      BY <1>3, <1>7 DEF EndPerson, NextOne
    <2>2. RunTypes' BY <2>1, <1>1, RunTyped DEF RunTypes
    <2> QED BY <2>2, <1>4, <1>7 DEF EndPerson
  <1>8. CASE StopAtEntry BY <1>2, <1>8, StopsTyped DEF StopAtEntry
  <1>9. CASE AddEntry
    <2>1. /\ run'.pc = run.pc /\ run'.at = run.at /\ run'.refs = run.refs /\ run'.rest = Tail(run.rest) /\ run'.over = run.over
          /\ run'.window = run.window /\ run'.built = run.built /\ run'.copy = run.copy /\ run'.key = run.key /\ run'.kind = run.kind /\ run'.who = run.who
      BY <1>3, <1>9 DEF AddEntry
    <2>2. ToSet(Tail(run.rest)) \subseteq Face
      <3>1. run.pc = "entry" /\ run.rest # <<>> BY <1>9 DEF AddEntry, Looking
      <3>2. run.rest \in Seq(Face) BY <3>1 DEF SkipInv, RunOK, JudgeOK
      <3>3. Tail(run.rest) \in Seq(Face) BY <3>1, <3>2
      <3>4. \A n \in DOMAIN Tail(run.rest) : Tail(run.rest)[n] \in Face BY <3>3, Elements
      <3> QED BY <3>4 DEF ToSet
    <2>3. run.pc = "entry" BY <1>9 DEF AddEntry, Looking
    <2>4. RunTypes' BY <2>1, <2>2, <2>3, <1>1, RunTyped DEF RunTypes
    <2> QED BY <2>4, <1>4, <1>9 DEF AddEntry
  <1>10. CASE PauseForReview
    <2>1. Ends /\ UNCHANGED <<profiles, stored, late>> BY <1>10 DEF PauseForReview
    <2>2. PICK c : c = [Plain(run) EXCEPT !.entries = Added, !.start = run.i, !.person = run.who[run.i],
                          !.after = IF run.kind = "outliers" THEN run.rest[1] ELSE ImageOf[run.rest[1]]]
      OBVIOUS
    <2>3. active' = [active EXCEPT ![run.kind] = c] BY <2>2, <1>10 DEF PauseForReview
    <2>4. c.over = Plain(run).over BY <2>2 DEF Plain, NoPayload
    <2>5. c.over \subseteq Face BY <2>4, <1>1, PlainTyped
    <2>6. \A k \in Review : active'[k] \in {active[k], c} BY <2>3, <1>1 DEF StoredOK
    <2>7. \A k \in Review : active'[k].over \subseteq Face BY <2>5, <2>6, <1>1 DEF ListTypes
    <2>8. ListTypes' BY <2>1, <2>7, <1>1, <1>2 DEF ListTypes, OfKnown
    <2> QED BY <2>1, <2>8, <1>1, <1>2, EndsTyped DEF TypeInv, FlagTypes
  <1> QED BY <1>5, <1>6, <1>7, <1>8, <1>9, <1>10 DEF Judging

LEMMA RunStays == ASSUME RunTypes, UNCHANGED run PROVE RunTypes'
  BY DEF RunTypes, OfKnown, ToSet

LEMMA BesideTyped ==
  ASSUME SkipInv, TypeInv,
         \/ \E k \in Review \cup {"build"}, key \in Key, m \in {"immediate", "save_only"}, resume, auto \in BOOLEAN :
              Start(k, key, m, resume, auto)
         \/ RequestStop \/ Raise \/ Prefetched \/ ResetCache \/ \E o \in orphans : OrphanEnds(o)
  PROVE  TypeInv'
  <1>1. /\ DOMAIN run = DOMAIN NoRun /\ ListOK /\ RunTypes /\ FetchTypes /\ ListTypes /\ FlagTypes /\ StoredOK
        /\ Entries(run.entries)
    BY DEF SkipInv, RunOK, CoverOK, TypeInv
  <1>2. ASSUME NEW k \in Review \cup {"build"}, NEW key \in Key, NEW m, NEW resume, NEW auto,
               Start(k, key, m, resume, auto)
        PROVE  TypeInv'
    <2>1. /\ run'.pc = "begin" /\ run'.at = 1 /\ run'.refs = {} /\ run'.rest = <<>> /\ run'.over = {}
          /\ run'.window = {} /\ run'.built = <<>> /\ run'.copy = <<>> /\ run'.key = key /\ run'.who = <<>>
      BY <1>2 DEF Start, NoRun
    <2>2. RunTypes' BY <2>1 DEF RunTypes, OfKnown, ToSet
    <2>3. UNCHANGED <<profiles, stored, fetch, orphans, reviewer, moved, unread, late>> /\ running' = TRUE /\ stop' = stop \ {k}
      BY <1>2 DEF Start
    <2>4. \A q \in Review : active'[q].over \subseteq Face
      <3>1. \A q \in Review : active'[q] \in {active[q], NoPayload} BY <1>1, <1>2 DEF Start, StoredOK
      <3>2. NoPayload.over = {} BY DEF NoPayload
      <3> QED BY <3>1, <3>2, <1>1 DEF ListTypes
    <2>5. ListTypes' BY <2>3, <2>4, <1>1 DEF ListTypes, OfKnown
    <2> QED BY <2>2, <2>3, <2>5, <1>1 DEF TypeInv, FetchTypes, FlagTypes
  <1>3. CASE RequestStop
    <2>1. /\ stop' = stop \cup {run.kind} /\ run.kind \in Review \cup {"build"}
          /\ UNCHANGED <<profiles, active, stored, run, running, fetch, orphans, reviewer, moved, unread, late>>
      BY <1>1, <1>3 DEF RequestStop, ListOK
    <2>2. RunTypes' /\ ListTypes' BY <2>1, <1>1, RunStays, ListsTyped
    <2> QED BY <2>1, <2>2, <1>1 DEF TypeInv, FetchTypes, FlagTypes
  <1>4. CASE Raise
    <2>1. Ends /\ UNCHANGED <<profiles, active, stored, stop, reviewer, moved>> BY <1>4 DEF Raise
    <2>2. ListTypes' BY <2>1, <1>1, ListsTyped
    <2>3. late' \subseteq Face
      <3>1. EntryFaces(run.entries) \subseteq Face BY <1>1, EntryFacesAreFaces
      <3> QED BY <3>1, <1>1, <1>4 DEF FlagTypes, Raise, Applying
    <2> QED BY <2>1, <2>2, <2>3, <1>1, EndsTyped DEF TypeInv, FlagTypes
  <1>5. ASSUME UNCHANGED <<profiles, active, stored, run, running, stop, reviewer, moved, late>>,
               unread' \subseteq Image, FetchTypes'
        PROVE  TypeInv'
    <2>1. RunTypes' /\ ListTypes' BY <1>1, <1>5, RunStays, ListsTyped
    <2> QED BY <2>1, <1>1, <1>5 DEF TypeInv, FlagTypes
  <1>6. ASSUME NEW W \in SUBSET Image, NEW k, ReadAhead(W, k) PROVE unread' \subseteq Image
    <2>1. unread \subseteq Image BY <1>1 DEF FlagTypes
    <2> QED BY <2>1, <1>6, BatchTyped DEF ReadAhead
  <1>7. CASE Prefetched
    <2>1. /\ fetch' = [fetch EXCEPT !.busy = FALSE] /\ ReadAhead(fetch.items, run.kind)
          /\ UNCHANGED <<profiles, active, stored, run, running, stop, orphans, reviewer, moved, late>>
      BY <1>7 DEF Prefetched
    <2>2. unread' \subseteq Image BY <2>1, <1>1, <1>6 DEF FetchTypes
    <2>3. DOMAIN fetch' = DOMAIN NoFetch /\ fetch'.items = fetch.items BY <2>1, <1>1 DEF FetchTypes, NoFetch
    <2>4. FetchTypes' BY <2>1, <2>3, <1>1 DEF FetchTypes, NoFetch
    <2> QED BY <2>1, <2>2, <2>4, <1>5
  <1>8. CASE \E o \in orphans : OrphanEnds(o)
    <2>1. PICK o \in orphans : /\ orphans' = orphans \ {o} /\ ReadAhead(o.items, o.kind)
                               /\ UNCHANGED <<profiles, active, stored, run, running, stop, fetch, reviewer, moved, late>>
      BY <1>8 DEF OrphanEnds
    <2>2. unread' \subseteq Image BY <2>1, <1>1, <1>6 DEF FetchTypes
    <2>3. FetchTypes' BY <2>1, <1>1 DEF FetchTypes, NoFetch
    <2> QED BY <2>1, <2>2, <2>3, <1>5
  <1>9. CASE ResetCache
    <2>1. /\ unread' \subseteq unread \cup Image
          /\ UNCHANGED <<profiles, active, stored, run, running, stop, fetch, orphans, reviewer, moved, late>>
      BY <1>9 DEF ResetCache
    <2>2. FetchTypes' BY <2>1, <1>1 DEF FetchTypes, NoFetch
    <2> QED BY <2>1, <2>2, <1>1, <1>5 DEF FlagTypes
  <1> QED BY <1>2, <1>3, <1>4, <1>7, <1>8, <1>9

LEMMA ReviewingTyped == ASSUME SkipInv, TypeInv, Reviewing PROVE TypeInv'
  <1>1. /\ DOMAIN run = DOMAIN NoRun /\ RunTypes /\ FetchTypes /\ ListTypes /\ FlagTypes /\ StoredOK
    BY DEF SkipInv, RunOK, TypeInv
  <1>2. FetchTypes' /\ UNCHANGED <<stop, unread>> BY <1>1 DEF Reviewing, FetchTypes, NoFetch
  <1>3. CASE \E k \in Review, m \in {"immediate", "save_only"}, f \in Face :
               (Decide(k, m, f) \/ Apply(k, m, f)) /\ UNCHANGED <<profiles, stored, late, running>>
    <2>0. PICK k \in Review, m \in {"immediate", "save_only"}, f \in Face :
               (Decide(k, m, f) \/ Apply(k, m, f)) /\ UNCHANGED <<profiles, stored, late, running>>
      BY <1>3
    <2>9. PICK st : Take(k, m, f, st) BY <2>0 DEF Decide, Apply
    <2>10. moved' \subseteq moved \cup {f} BY <2>0 DEF Decide, Apply
    <2>1. /\ Take(k, m, f, st) /\ moved' \subseteq moved \cup {f}
          /\ UNCHANGED <<profiles, stored, late, running>>
      BY <2>0, <2>9, <2>10
    <2>2. \A q \in Review : active'[q].over = active[q].over
      <3> TAKE q \in Review
      <3>1. DOMAIN active = Review /\ "entries" \in DOMAIN active[q] BY <1>1 DEF StoredOK, PayloadOK, NoPayload
      <3>2. \/ active' = active
            \/ active' = [active EXCEPT ![k].entries = Marked(@, f, st)]
        BY <2>1 DEF Take, Shared
      <3>3. PICK s : s = Marked(active[k].entries, f, st) OBVIOUS
      <3>4. active' = active \/ active' = [active EXCEPT ![k] = [active[k] EXCEPT !.entries = s]] BY <3>2, <3>3
      <3>5. active'[q] \in {active[q], [active[q] EXCEPT !.entries = s]} BY <3>1, <3>4
      <3>6. [active[q] EXCEPT !.entries = s].over = active[q].over
        <4>1. "over" \in DOMAIN active[q] BY <1>1 DEF StoredOK, PayloadOK, NoPayload
        <4> QED BY <4>1
      <3> QED BY <3>5, <3>6
    <2>3. PICK c : c = ListOf(k, m) OBVIOUS
    <2>4. c \in {active[k], stored[k]} /\ c.over \subseteq Face BY <2>3, <1>1 DEF ListOf, ListTypes
    <2>5. /\ reviewer'.step = "write" /\ reviewer'.face = f
          /\ reviewer'.payload = [c EXCEPT !.entries = Marked(@, f, st)]
      BY <2>1, <2>3 DEF Take
    <2>6. reviewer'.payload.over = c.over BY <2>5
    <2>7. ListTypes' BY <2>1, <2>2, <2>4, <2>5, <2>6, <1>1 DEF ListTypes, OfKnown
    <2>8. RunTypes'
      <3>1. {"entries", "pc", "at", "refs", "rest", "over", "window", "built", "copy", "key", "kind", "who", "items"} \subseteq DOMAIN run
        BY <1>1, Fields
      <3>2. /\ run'.pc = run.pc /\ run'.at = run.at /\ run'.refs = run.refs /\ run'.rest = run.rest
            /\ run'.over = run.over /\ run'.window = run.window /\ run'.built = run.built /\ run'.copy = run.copy /\ run'.key = run.key
            /\ run'.kind = run.kind /\ run'.who = run.who /\ run'.items = run.items
        <4>1. PICK s : run' \in {run, [run EXCEPT !.entries = s]}
          <5>1. PICK s : s = Marked(run.entries, f, st) OBVIOUS
          <5> QED BY <2>1, <5>1 DEF Take, Shared
        <4>2. CASE run' = run BY <4>2
        <4>3. CASE run' = [run EXCEPT !.entries = s] BY <3>1, <4>3
        <4> QED BY <4>1, <4>2, <4>3
      <3> QED BY <3>2, <1>1, RunTyped DEF RunTypes
    <2> QED BY <2>1, <2>7, <2>8, <1>1, <1>2 DEF TypeInv, FlagTypes
  <1>4. CASE WriteDecision
    <2>1. PICK r, c : r = [mode |-> reviewer.mode, kind |-> reviewer.kind] /\ c = reviewer.payload OBVIOUS
    <2>2. WriteFindings(r, c) /\ UNCHANGED <<profiles, run, running, moved>> BY <1>4, <2>1 DEF WriteDecision
    <2>3. \A k \in Review : active'[k].over \subseteq Face /\ stored'[k].over \subseteq Face
      BY <2>1, <2>2, <1>1, WrittenTyped DEF ListTypes
    <2>4. reviewer.step = "write" /\ {"step", "payload", "face"} \subseteq DOMAIN reviewer
      BY <1>1, <1>4 DEF WriteDecision, StoredOK, Idle
    <2>5. reviewer'.face = reviewer.face /\ reviewer'.payload.over = {} /\ reviewer'.step \in {"exclude", "sync"}
      BY <2>4, <1>4 DEF WriteDecision, NoPayload
    <2>6. ListTypes' BY <2>2, <2>3, <2>4, <2>5, <1>1 DEF ListTypes, OfKnown
    <2>7. late' \subseteq Face
      <3>1. Entries(reviewer.payload.entries) BY <1>1 DEF StoredOK, PayloadOK
      <3>2. EntryFaces(reviewer.payload.entries) \subseteq Face BY <3>1, EntryFacesAreFaces
      <3>3. BroughtBack \subseteq Face BY <3>2, ExcludedAreEntries DEF BroughtBack
      <3> QED BY <3>3, <1>1, <1>4 DEF WriteDecision, FlagTypes
    <2>8. RunTypes' BY <2>2, <1>1, RunStays
    <2> QED BY <2>2, <2>6, <2>7, <2>8, <1>1, <1>2 DEF TypeInv, FlagTypes
  <1>7. Deciding \subseteq Face
    <2>1. reviewer.step \in Removing => reviewer.step # "none" BY DEF Removing
    <2> QED BY <2>1, <1>1 DEF Deciding, ListTypes
  <1>8. ASSUME Carried, reviewer.step # "none", UNCHANGED <<active, stored, run, running, moved>>,
               \A key \in Key : OfKnown(profiles[key])'
        PROVE  TypeInv'
    <2>1. {"step", "copy", "face", "payload"} \subseteq DOMAIN reviewer BY <1>1 DEF StoredOK, Idle
    <2>2. /\ reviewer'.step = "sync" /\ reviewer'.face = reviewer.face /\ reviewer'.payload = reviewer.payload
          /\ late' \subseteq late \cup Deciding
      BY <2>1, <1>8 DEF Carried
    <2>3. ListTypes' BY <2>2, <1>1, <1>8 DEF ListTypes
    <2>4. RunTypes' BY <1>1, <1>8, RunStays
    <2> QED BY <2>2, <2>3, <2>4, <1>1, <1>2, <1>7, <1>8 DEF TypeInv, FlagTypes
  <1>9. CASE ReadForDecision
    <2> DEFINE left == WithoutRefs(profiles[reviewer.key], {reviewer.face})
    <2>1. reviewer.step = "exclude" /\ UNCHANGED <<profiles, active, stored, run, running, moved>>
      BY <1>9 DEF ReadForDecision
    <2>2. reviewer.key \in Key => OfKnown(left)
      <3>1. PICK s, F : s = profiles[reviewer.key] /\ F = {reviewer.face} OBVIOUS
      <3>2. reviewer.key \in Key => ProfilesOK(s) /\ OfKnown(s) BY <3>1, <1>1 DEF StoredOK, StoreOK, ListTypes
      <3>3. reviewer.key \in Key => OfKnown(WithoutRefs(s, F)) BY <3>2, WithoutTyped
      <3> QED BY <3>1, <3>3
    <2>3. \A key \in Key : OfKnown(profiles[key])' BY <2>1, <1>1 DEF ListTypes, OfKnown
    <2> HIDE DEF left
    <2>4. CASE Carried BY <2>1, <2>3, <2>4, <1>8
    <2>5. CASE reviewer' = [reviewer EXCEPT !.step = "rewrite", !.copy = left] /\ UNCHANGED late
      <3>1. {"step", "copy", "face", "payload", "key"} \subseteq DOMAIN reviewer BY <1>1 DEF StoredOK, Idle
      <3>2. /\ reviewer'.step = "rewrite" /\ reviewer'.face = reviewer.face /\ reviewer'.payload = reviewer.payload
            /\ reviewer'.key = reviewer.key /\ reviewer'.copy = left
        BY <3>1, <2>5
      <3>3. reviewer'.key \in Key => OfKnown(reviewer'.copy) BY <3>2, <2>2
      <3>4. ListTypes' BY <3>2, <3>3, <2>1, <2>3, <1>1 DEF ListTypes, OfKnown
      <3>5. RunTypes' BY <2>1, <1>1, RunStays
      <3> QED BY <3>4, <3>5, <2>1, <2>5, <1>1, <1>2 DEF TypeInv, FlagTypes
    <2> QED BY <2>4, <2>5, <1>9 DEF ReadForDecision, left
  <1>5. CASE Exclude
    <2>1. /\ reviewer.step = "rewrite" /\ Carried /\ UNCHANGED <<active, stored, run, running, moved>>
      BY <1>5 DEF Exclude
    <2>2. PICK k, s : k = reviewer.key /\ s = reviewer.copy OBVIOUS
    <2>3. (k \in Key => OfKnown(s)) /\ profiles' = [profiles EXCEPT ![k] = s]
      BY <2>1, <2>2, <1>1, <1>5 DEF Exclude, ListTypes
    <2>4. \A key \in Key : OfKnown(profiles[key])' BY <2>3, <1>1, WrittenKnown
    <2> QED BY <2>1, <2>4, <1>8
  <1>10. CASE DecisionFails
    <2>1. reviewer' = Idle /\ late' = late \cup Deciding /\ UNCHANGED <<profiles, active, stored, run, running, moved>>
      BY <1>10 DEF DecisionFails
    <2>2. reviewer'.step = "none" /\ reviewer'.payload.over = {} BY <2>1 DEF Idle, NoPayload
    <2>3. ListTypes' BY <2>1, <2>2, <1>1 DEF ListTypes, OfKnown
    <2>4. RunTypes' BY <2>1, <1>1, RunStays
    <2> QED BY <2>1, <2>3, <2>4, <1>1, <1>2, <1>7 DEF TypeInv, FlagTypes
  <1>6. CASE Sync
    <2>1. reviewer' = Idle /\ running' = FALSE /\ UNCHANGED <<profiles, late, active, stored, run, moved>>
      BY <1>6 DEF Sync
    <2>2. reviewer'.step = "none" /\ reviewer'.payload.over = {} BY <2>1 DEF Idle, NoPayload
    <2>3. ListTypes' BY <2>1, <2>2, <1>1 DEF ListTypes, OfKnown
    <2>4. RunTypes' BY <2>1, <1>1, RunStays
    <2> QED BY <2>1, <2>3, <2>4, <1>1, <1>2 DEF TypeInv, FlagTypes
  <1> QED BY <1>3, <1>4, <1>5, <1>6, <1>9, <1>10 DEF Reviewing

LEMMA StepTyped == SkipInv /\ TypeInv /\ [Next]_vars => TypeInv'
  <1> SUFFICES ASSUME SkipInv, TypeInv, [Next]_vars PROVE TypeInv' OBVIOUS
  <1>1. CASE UNCHANGED vars
    <2>1. UNCHANGED <<run, profiles, active, stored, reviewer, moved, stop, running, fetch, orphans, unread, late>>
      BY <1>1 DEF vars
    <2>2. RunTypes' /\ ListTypes' BY <2>1, RunStays, ListsTyped DEF TypeInv
    <2> QED BY <2>1, <2>2 DEF TypeInv, FetchTypes, FlagTypes
  <1>2. CASE Scanning BY <1>2, BeginningTyped, ListingTyped, ReadingTyped, JudgingTyped DEF Scanning
  <1>3. CASE Reviewing BY <1>3, ReviewingTyped
  <1> QED BY <1>1, <1>2, <1>3, BesideTyped DEF Next

(* Lists, cache, threads, profiles and histories are well formed, whatever   *)
(* the constants.                                                            *)
THEOREM TypeCorrect == Spec => []TypeOK
  <1>1. Init => SkipInv /\ TypeInv BY SkipInit, InitTyped
  <1>2. SkipInv /\ TypeInv /\ [Next]_vars => SkipInv' /\ TypeInv' BY SkipStep, StepTyped
  <1>3. SkipInv /\ TypeInv => TypeOK BY TypesSuffice
  <1> QED BY <1>1, <1>2, <1>3, PTL DEF Spec
=============================================================================
