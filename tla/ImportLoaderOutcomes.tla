------------------------ MODULE ImportLoaderOutcomes ------------------------
(***************************************************************************)
(* Proofs about how compile_source ends, for every set of projects and     *)
(* every bound: what a crash, an overflow and a report of a circular       *)
(* import need, that no circle of files is merged, and that the merged     *)
(* program is the import closure of the start files.                       *)
(***************************************************************************)
EXTENDS ImportLoaderProofs

(* The full table gets a unit more: only then it moves.                    *)
Outgrown == units # <<>> /\ Len(units) = cap /\ Len(units) < Len(units')

(* The active calls fs are those of before, the innermost one having gone  *)
(* on to its next file.                                                    *)
Advanced(fs) ==
  /\ fs \in Seq(FrameType)
  /\ Len(fs) = Len(frames)
  /\ DOMAIN fs = DOMAIN frames
  /\ \A i \in DOMAIN frames :
       /\ fs[i].u = frames[i].u
       /\ fs[i].stack = frames[i].stack
       /\ fs[i].imp = frames[i].imp
       /\ fs[i].file = IF i = Len(frames) THEN frames[i].file + 1
                       ELSE frames[i].file
       /\ fs[i].stale => frames[i].stale \/ Outgrown

NewFrame(u, stack, us) == Frame(u, WithPackage(stack, proj.pkg[us[u].path]))

(* The three ways the visit of unit u can go: done before, an error, or a  *)
(* call that begins.                                                       *)
NextWay(u, fs) ==
  \/ frames' = fs /\ status' = status /\ units'[u].loaded
  \/ /\ frames' = fs
     /\ status' \in {"failed", "too deep", "overflow"}
     /\ status' = "overflow" => Len(Top.stack) < MaxStack
                                /\ Len(frames) >= MaxCalls
  \/ /\ frames' = Append(fs, NewFrame(u, Top.stack, units'))
     /\ NewFrame(u, Top.stack, units') \in FrameType
     /\ status' = status

(* What a visit of unit u does to the table and the calls.                 *)
VisitOf(u, fs) ==
  /\ Advanced(fs)
  /\ u \in DOMAIN units'
  /\ units'[u].path = Files[Top.file]
  /\ status' \notin Errors => units'[u].included
  /\ \A v \in DOMAIN units' : v # u => v \in DOMAIN units /\ units'[v] = units[v]
  /\ units'[u].loaded => u \in DOMAIN units /\ units[u].loaded
  /\ NextWay(u, fs)

(* Going on to the next file, while the table may have moved.              *)
LEMMA NextFileAdvances ==
  ASSUME TypeOK, frames # <<>>, NEW moved \in BOOLEAN,
         moved => Outgrown
  PROVE  /\ Advanced(NextFile(frames))
         /\ Advanced(Moved(NextFile(frames), moved))
<1> DEFINE fs == NextFile(frames)
           gs == Moved(fs, moved)
<1>1. frames \in Seq(FrameType)
  BY DEF TypeOK, FrameType
<1>2. /\ fs \in Seq(FrameType) /\ Len(fs) = Len(frames)
      /\ DOMAIN fs = DOMAIN frames
      /\ \A i \in DOMAIN frames :
           /\ fs[i].u = frames[i].u
           /\ fs[i].imp = frames[i].imp
           /\ fs[i].file = IF i = Len(frames) THEN frames[i].file + 1
                           ELSE frames[i].file
  BY <1>1, NextFileType
<1>3. \A i \in DOMAIN frames : /\ fs[i].stack = frames[i].stack
                               /\ fs[i].stale = frames[i].stale
  <2>1. TAKE i \in DOMAIN frames
  <2>2. frames[i] \in FrameType /\ Len(frames) \in DOMAIN frames
        /\ frames[Len(frames)] \in FrameType
    BY <1>1, ElementOfSeq, PopFacts
  <2>3. DOMAIN frames = 1 .. Len(frames)
    BY <1>1, LenProperties
  <2>4. QED
    BY <2>2, <2>3 DEF NextFile, FrameType
<1> HIDE DEF fs
<1>4. /\ gs \in Seq(FrameType) /\ Len(gs) = Len(fs) /\ DOMAIN gs = DOMAIN fs
      /\ \A i \in DOMAIN fs : /\ gs[i].u = fs[i].u
                              /\ gs[i].imp = fs[i].imp
                              /\ gs[i].file = fs[i].file
  BY <1>2, MovedType
<1>5. \A i \in DOMAIN fs : /\ gs[i].stack = fs[i].stack
                           /\ gs[i].stale = (fs[i].stale \/ moved)
  <2>1. TAKE i \in DOMAIN fs
  <2>2. fs[i] \in FrameType
    BY <1>2, ElementOfSeq, LenProperties
  <2>3. gs[i] = [fs[i] EXCEPT !.stale = @ \/ moved]
    BY DEF Moved
  <2>4. QED
    BY <2>2, <2>3 DEF FrameType
<1> HIDE DEF gs
<1>6. Advanced(fs)
  BY <1>2, <1>3, Zenon DEF Advanced
<1>7. Advanced(gs)
  <2>1. \A i \in DOMAIN frames :
          /\ gs[i].u = frames[i].u
          /\ gs[i].stack = frames[i].stack
          /\ gs[i].imp = frames[i].imp
          /\ gs[i].file = fs[i].file
          /\ gs[i].stale => frames[i].stale \/ Outgrown
    BY <1>2, <1>3, <1>4, <1>5, Zenon
  <2>2. QED
    BY <1>2, <1>4, <2>1, Zenon DEF Advanced
<1>8. QED
  BY <1>6, <1>7 DEF fs, gs

(* What a call of load_imports_recursive leaves, with its conditions.      *)
LEMMA CallWays ==
  ASSUME NEW us, NEW u, NEW stack, NEW fs, Call(u, stack, us, fs)
  PROVE  \/ frames' = fs /\ status' = status /\ us[u].loaded
         \/ frames' = fs /\ status' = "too deep"
         \/ /\ frames' = fs /\ status' = "overflow"
            /\ ~(Len(stack) >= MaxStack) /\ Len(fs) >= MaxCalls
         \/ /\ frames' = Append(fs, NewFrame(u, stack, us))
            /\ status' = status /\ ~us[u].loaded
BY DEF Call, NewFrame

(* The same for a call made from the innermost one.                        *)
LEMMA CallWay ==
  ASSUME NEW u, NEW fs, Call(u, Top.stack, units', fs), Len(fs) = Len(frames),
         MaxStack \in Nat, Len(Top.stack) \in Nat,
         NewFrame(u, Top.stack, units') \in FrameType
  PROVE  NextWay(u, fs)
<1>1. Len(Top.stack) < MaxStack <=> ~(Len(Top.stack) >= MaxStack)
  OBVIOUS
<1>2. QED
  BY <1>1, CallWays DEF NextWay

(* The frame of a call has its type.                                       *)
LEMMA NewFrameType ==
  ASSUME IsProject(proj), NEW us \in Seq(UnitType), NEW u \in DOMAIN us,
         NEW stack \in Seq(Names(proj))
  PROVE  /\ NewFrame(u, stack, us) \in FrameType
         /\ NewFrame(u, stack, us).u = u
         /\ NewFrame(u, stack, us).stack
              = WithPackage(stack, proj.pkg[us[u].path])
         /\ NewFrame(u, stack, us).imp = 1
         /\ NewFrame(u, stack, us).file = 1
         /\ NewFrame(u, stack, us).stale = FALSE
<1>1. us[u] \in UnitType /\ u \in Nat \ {0}
  BY LenProperties, ElementOfSeq
<1>2. proj.pkg[us[u].path] \in Names(proj) \cup {NoPackage}
  BY <1>1, ProjectFacts, Zenon DEF UnitType
<1>3. WithPackage(stack, proj.pkg[us[u].path]) \in Seq(Names(proj))
  BY <1>2 DEF WithPackage
<1>4. QED
  BY <1>1, <1>3 DEF NewFrame, Frame, FrameType

(* VisitFile and LoadFile both visit a unit of the table for the next file *)
(* of the innermost call.                                                  *)
LEMMA VisitWays ==
  ASSUME TypeOK, TypeOK', VisitFile \/ LoadFile
  PROVE  \E u, fs : VisitOf(u, fs)
<1>1. /\ status = "imports" /\ frames # <<>> /\ proj' = proj
      /\ Top.imp <= Len(Imports(Top.u)) /\ Top.file <= Len(Files)
  BY DEF VisitFile, LoadFile, InCall
<1>2. /\ IsProject(proj) /\ Top.stack \in Seq(Names(proj))
      /\ units' \in Seq(UnitType) /\ Files[Top.file] \in Paths(proj)
      /\ frames \in Seq(FrameType) /\ units \in Seq(UnitType)
      /\ Top.u \in DOMAIN units /\ MaxStack \in Nat
      /\ Len(Top.stack) \in Nat
  <2>1. Top.stack \in Seq(Names(proj))
    BY <1>1, TopFacts DEF FrameType
  <2>2. units' \in Seq(UnitType)
    BY <1>1, TypeParts, TypeStep DEF TypeOK, UnitType
  <2>3. Len(Top.stack) \in Nat
    BY <2>1, LenProperties
  <2>4. QED
    BY <1>1, <2>1, <2>2, <2>3, ImportFacts, TopFacts, LoaderAssumption
       DEF TypeOK, UnitType, FrameType
<1>3. CASE VisitFile
  <2>1. PICK u \in DOMAIN units :
          /\ units[u].path = Files[Top.file]
          /\ units' = [units EXCEPT ![u].included = TRUE]
          /\ Call(u, Top.stack, units', NextFile(frames))
    BY <1>3, Zenon DEF VisitFile, Find
  <2>2. /\ DOMAIN units' = DOMAIN units
        /\ units'[u].path = units[u].path /\ units'[u].included
        /\ units'[u].loaded = units[u].loaded
        /\ \A v \in DOMAIN units : v # u => units'[v] = units[v]
    <3>1. units[u] \in UnitType
      BY UnitFacts
    <3>2. QED
      BY <2>1, <3>1 DEF UnitType
  <2>3. Advanced(NextFile(frames))
    BY <1>1, NextFileAdvances
  <2>4. Len(NextFile(frames)) = Len(frames)
    BY <2>3 DEF Advanced
  <2>5. NewFrame(u, Top.stack, units') \in FrameType
    BY <1>2, <2>2, NewFrameType
  <2>6. VisitOf(u, NextFile(frames))
    <3>1. NextWay(u, NextFile(frames))
      BY <1>2, <2>1, <2>4, <2>5, CallWay
    <3>2. /\ units'[u].included
          /\ units'[u].path = Files[Top.file]
          /\ u \in DOMAIN units'
          /\ \A v \in DOMAIN units' :
               v # u => v \in DOMAIN units /\ units'[v] = units[v]
          /\ units'[u].loaded => u \in DOMAIN units /\ units[u].loaded
      BY <2>1, <2>2
    <3>3. QED
      BY <2>3, <3>1, <3>2, Zenon DEF VisitOf
  <2>7. QED
    BY <2>6, Zenon
<1>4. CASE LoadFile
  <2> DEFINE path == Files[Top.file]
             u == Len(units) + 1
  <2>1. PICK moved \in BOOLEAN :
          /\ moved => Len(units) = cap
          /\ units' = Append(units, Unit(path, path \in proj.readable))
          /\ IF path \in proj.readable
             THEN Call(u, Top.stack, units', Moved(NextFile(frames), moved))
             ELSE frames' = Moved(NextFile(frames), moved) /\ status' = "failed"
    BY <1>4, Zenon DEF LoadFile, MayMove
  <2>2. units # <<>>
    BY <1>2, LenProperties
  <2> DEFINE fs == Moved(NextFile(frames), moved)
  <2>3. Advanced(fs)
    <3>1. Len(units') = Len(units) + 1 /\ Len(units) \in Nat
      BY <1>2, <2>1, LenProperties
    <3>2. moved => Outgrown
      BY <2>1, <2>2, <3>1 DEF Outgrown
    <3>3. QED
      BY <1>1, <3>2, NextFileAdvances
  <2> HIDE DEF fs
  <2>4. (path \in proj.readable) \in BOOLEAN
    OBVIOUS
  <2> HIDE DEF path
  <2>5. /\ Len(units) \in Nat
        /\ DOMAIN units = 1 .. Len(units)
        /\ DOMAIN units' = 1 .. Len(units) + 1
        /\ \A v \in DOMAIN units : units'[v] = units[v]
        /\ units'[Len(units) + 1] = Unit(path, path \in proj.readable)
    BY <1>2, <2>1, <2>4, UnitsPush DEF path
  <2>6. /\ u \in DOMAIN units' /\ units'[u].path = path
        /\ units'[u].included = (path \in proj.readable)
        /\ units'[u].loaded = FALSE
        /\ \A v \in DOMAIN units' :
             v # u => v \in DOMAIN units /\ units'[v] = units[v]
    BY <2>5 DEF Unit
  <2> HIDE DEF u
  <2>7. NewFrame(u, Top.stack, units') \in FrameType
    BY <1>2, <2>6, NewFrameType
  <2>8. Len(fs) = Len(frames)
    BY <2>3 DEF Advanced
  <2>9. VisitOf(u, fs)
    <3>1. CASE path \in proj.readable
      <4>1. Call(u, Top.stack, units', fs)
        BY <2>1, <3>1 DEF fs
      <4>2. NextWay(u, fs)
        BY <1>2, <2>6, <2>7, <2>8, <4>1, CallWay
      <4>3. units'[u].included /\ ~units'[u].loaded
        BY <2>6, <3>1
      <4>4. QED
        BY <2>3, <2>6, <4>2, <4>3, Zenon DEF VisitOf, path
    <3>2. CASE path \notin proj.readable
      <4>1. frames' = fs /\ status' = "failed"
        BY <2>1, <3>2 DEF fs
      <4>2. NextWay(u, fs) /\ status' \in Errors
        BY <4>1 DEF NextWay, Errors
      <4>3. ~units'[u].loaded
        BY <2>6
      <4>4. QED
        BY <2>3, <2>6, <4>2, <4>3, Zenon DEF VisitOf, path
    <3>3. QED
      BY <3>1, <3>2
  <2>10. QED
    BY <2>9, Zenon
<1>5. QED
  BY <1>3, <1>4

(* compile_source calls load_imports_recursive for the next unit: the C    *)
(* stack holds at least this one call.                                     *)
LEMMA RootWays ==
  ASSUME TypeOK, VisitRoot
  PROVE  /\ status = "imports" /\ frames = <<>> /\ root \in DOMAIN units
         /\ root' = root + 1 /\ units' = units /\ proj' = proj /\ cap' = cap
         /\ \/ /\ frames' = <<>> /\ status' = status
               /\ units[root].included => units[root].loaded
            \/ frames' = <<>> /\ status' = "too deep"
            \/ /\ frames' = <<NewFrame(root, <<>>, units)>>
               /\ NewFrame(root, <<>>, units) \in FrameType
               /\ NewFrame(root, <<>>, units).u = root
               /\ units[root].included
               /\ status' = status
<1>1. /\ status = "imports" /\ frames = <<>> /\ root' = root + 1
      /\ units' = units /\ proj' = proj /\ cap' = cap /\ root <= Len(units)
      /\ IF units[root].included THEN Call(root, <<>>, units, <<>>)
         ELSE frames' = frames /\ status' = status
  BY DEF VisitRoot
<1>2. /\ IsProject(proj) /\ units \in Seq(UnitType) /\ root \in Nat \ {0}
      /\ MaxCalls \in Nat \ {0}
  BY LoaderAssumption DEF TypeOK, UnitType
<1>3. root \in DOMAIN units
  BY <1>1, <1>2, LenProperties
<1>4. /\ NewFrame(root, <<>>, units) \in FrameType
      /\ NewFrame(root, <<>>, units).u = root
  <2>1. <<>> \in Seq(Names(proj))
    BY EmptySeq
  <2>2. QED
    BY <1>2, <1>3, <2>1, NewFrameType
<1> DEFINE g == NewFrame(root, <<>>, units)
<1>5. Append(<<>>, g) = <<g>>
  BY <1>4
<1> HIDE DEF g
<1>6. ~(Len(<<>>) >= MaxCalls)
  BY <1>2, EmptySeq
<1>7. CASE units[root].included
  <2>1. \/ frames' = <<>> /\ status' = status /\ units[root].loaded
        \/ frames' = <<>> /\ status' = "too deep"
        \/ frames' = Append(<<>>, g) /\ status' = status
    BY <1>1, <1>6, <1>7, CallWays, Zenon DEF g
  <2>2. QED
    BY <1>1, <1>3, <1>4, <1>5, <1>7, <2>1 DEF g
<1>8. CASE ~units[root].included
  BY <1>1, <1>3, <1>8
<1>9. QED
  BY <1>7, <1>8

-----------------------------------------------------------------------------
(* A crash needs growth.                                                   *)

(* The table has room for its units, a call works with a freed table only  *)
(* after the first capacity was outgrown, and so does a crash.             *)
TableFits ==
  /\ units # <<>> => cap >= FirstCap
  /\ units = <<>> => cap = 0
  /\ Len(units) <= cap
  /\ \A i \in DOMAIN frames : frames[i].stale => Len(units) > FirstCap
  /\ CrashNeedsGrowth

(* push_source_unit makes room before it writes.                           *)
LEMMA TablePush ==
  ASSUME TypeOK, TableFits, NEW path \in Paths(proj), NEW included \in BOOLEAN,
         NEW us, us = Append(units, Unit(path, included))
  PROVE  /\ us # <<>>
         /\ CapAfterPush >= FirstCap
         /\ Len(us) <= CapAfterPush
         /\ Len(us) = Len(units) + 1
         /\ Len(units) \in Nat
<1>1. us \in Seq(UnitType) /\ Len(units) \in Nat
      /\ DOMAIN us = 1 .. Len(units) + 1
  BY UnitsPush
<1>2. Len(us) = Len(units) + 1 /\ us # <<>>
  <2>1. Len(us) \in Nat /\ DOMAIN us = 1 .. Len(us)
    BY <1>1, LenProperties
  <2>2. Len(us) = Len(units) + 1
    BY <1>1, <2>1
  <2>3. QED
    BY <1>1, <2>2, EmptySeq
<1>3. /\ FirstCap \in Nat \ {0} /\ cap \in Nat /\ Len(units) <= cap
      /\ cap = 0 \/ cap >= FirstCap
  BY LoaderAssumption DEF TypeOK, TableFits
<1>4. QED
  BY <1>1, <1>2, <1>3 DEF CapAfterPush

(* No step of the loader reads a freed table before it has grown.          *)
LEMMA TableStep ==
  ASSUME TypeOK, TypeOK', Stages, TableFits, [Next]_vars
  PROVE  TableFits'
<1>1. /\ FirstCap \in Nat \ {0} /\ cap \in Nat /\ Len(units) \in Nat
      /\ units \in Seq(UnitType) /\ frames \in Seq(FrameType)
  BY LoaderAssumption, LenProperties DEF TypeOK, UnitType, FrameType
<1>2. CASE /\ units' = units /\ cap' = cap /\ frames' = frames
           /\ status' = "crash" => status = "crash" \/ (Top.stale /\ frames # <<>>)
  <2>1. status' = "crash" => Len(units) > FirstCap
    <3>1. CASE status = "crash"
      BY <3>1 DEF TableFits, CrashNeedsGrowth
    <3>2. CASE Top.stale /\ frames # <<>>
      <4>1. Top = frames[Len(frames)] /\ Len(frames) \in DOMAIN frames
        BY <1>1, <3>2, PopFacts DEF Top
      <4>2. QED
        BY <3>2, <4>1 DEF TableFits
    <3>3. QED
      BY <1>2, <3>1, <3>2
  <2>2. QED
    BY <1>2, <2>1 DEF TableFits, CrashNeedsGrowth
<1>3. CASE LoadEntry \/ LoadSibling
  <2>1. CASE units' = units
    <3>1. cap' = cap /\ frames' = frames /\ status' # "crash"
      <4>1. CASE LoadEntry
        <5>1. Len(Append(units, Unit(Entry, TRUE))) = Len(units) + 1
          BY <1>1, ProjectFacts, UnitsPush DEF TypeOK, UnitType, Unit
        <5>2. QED
          BY <1>1, <2>1, <4>1, <5>1 DEF LoadEntry
      <4>2. CASE LoadSibling
        <5>1. Len(Append(units, Unit(proj.dir[sib], FALSE))) = Len(units) + 1
          BY <1>1
        <5>2. QED
          BY <1>1, <2>1, <4>2 DEF LoadSibling
      <4>3. QED
        BY <1>3, <4>1, <4>2
    <3>2. QED
      BY <1>2, <2>1, <3>1
  <2>2. CASE units' # units
    <3>1. PICK path \in Paths(proj), included \in BOOLEAN :
            units' = Append(units, Unit(path, included))
      BY <1>3, <2>2, PushSteps
    <3>2. cap' = CapAfterPush /\ frames' = <<>> /\ status' # "crash"
      BY <1>3, <2>2 DEF LoadEntry, LoadSibling, Stages
    <3>3. /\ units' # <<>> /\ CapAfterPush >= FirstCap
          /\ Len(units') <= CapAfterPush
      BY <3>1, TablePush
    <3>4. QED
      BY <3>2, <3>3 DEF TableFits, CrashNeedsGrowth
  <2>3. QED
    BY <2>1, <2>2
<1>4. CASE VisitFile \/ LoadFile
  <2>1. PICK u, fs : VisitOf(u, fs)
    BY <1>4, VisitWays
  <2>2. /\ units' # <<>> /\ cap' >= FirstCap /\ Len(units') <= cap'
        /\ Len(units') >= Len(units) /\ Len(units') \in Nat
        /\ cap >= FirstCap
    <3>1. CASE VisitFile
      <4>1. PICK v \in DOMAIN units : units' = [units EXCEPT ![v].included = TRUE]
        BY <3>1, Zenon DEF VisitFile, Find
      <4>2. units' \in Seq(UnitType) /\ DOMAIN units' = DOMAIN units
        BY <4>1, UnitsSet
      <4>3. Len(units') = Len(units) /\ Len(units) > 0
        BY <1>1, <4>1, <4>2, LenProperties
      <4>4. units # <<>> /\ units' # <<>>
        BY <1>1, <4>2, <4>3, EmptySeq
      <4>5. cap >= FirstCap /\ Len(units) <= cap
        BY <4>4 DEF TableFits
      <4>6. cap' = cap
        BY <3>1 DEF VisitFile
      <4>7. QED
        BY <1>1, <4>3, <4>4, <4>5, <4>6
    <3>2. CASE LoadFile
      <4>1. PICK path \in Paths(proj), included \in BOOLEAN :
              units' = Append(units, Unit(path, included))
        <5>1. Files[Top.file] \in Paths(proj)
          BY <3>2, ImportFacts DEF LoadFile, InCall
        <5>2. \E included \in BOOLEAN :
                units' = Append(units, Unit(Files[Top.file], included))
          <6>1. units' = Append(units, Unit(Files[Top.file],
                                            Files[Top.file] \in proj.readable))
            BY <3>2, Zenon DEF LoadFile
          <6>2. (Files[Top.file] \in proj.readable) \in BOOLEAN
            OBVIOUS
          <6>3. QED
            BY <6>1, <6>2, Zenon
        <5>3. QED
          BY <5>1, <5>2, Zenon
      <4>2. /\ units' # <<>> /\ CapAfterPush >= FirstCap
            /\ Len(units') <= CapAfterPush /\ Len(units') = Len(units) + 1
        BY <4>1, TablePush
      <4>3. cap' = CapAfterPush
        BY <3>2 DEF LoadFile
      <4>4. cap >= FirstCap
        <5>1. Top.u \in DOMAIN units
          BY <3>2, TopFacts DEF LoadFile, InCall
        <5>2. units # <<>>
          BY <1>1, <5>1, LenProperties
        <5>3. QED
          BY <5>2 DEF TableFits
      <4>5. QED
        BY <1>1, <4>2, <4>3, <4>4
    <3>3. QED
      BY <1>4, <3>1, <3>2
  <2>3. \A i \in DOMAIN fs : fs[i].stale => Len(units') > FirstCap
    <3>1. TAKE i \in DOMAIN fs
    <3>2. HAVE fs[i].stale
    <3>3. i \in DOMAIN frames /\ (frames[i].stale \/ Outgrown)
      BY <2>1, <3>2 DEF VisitOf, Advanced
    <3>4. CASE frames[i].stale
      <4>1. Len(units) > FirstCap
        BY <3>3, <3>4 DEF TableFits
      <4>2. QED
        BY <1>1, <2>2, <4>1
    <3>5. CASE Outgrown
      BY <1>1, <2>2, <3>5 DEF Outgrown
    <3>6. QED
      BY <3>3, <3>4, <3>5
  <2>4. \A i \in DOMAIN frames' : frames'[i].stale => Len(units') > FirstCap
    <3>1. CASE frames' = fs
      BY <2>3, <3>1
    <3>2. CASE /\ frames' = Append(fs, NewFrame(u, Top.stack, units'))
               /\ NewFrame(u, Top.stack, units') \in FrameType
      <4>1. fs \in Seq(FrameType)
            /\ NewFrame(u, Top.stack, units') \in FrameType
        BY <2>1, <3>2 DEF VisitOf, Advanced
      <4>2. NewFrame(u, Top.stack, units').stale = FALSE
        BY DEF NewFrame, Frame
      <4> DEFINE g == NewFrame(u, Top.stack, units')
      <4> HIDE DEF g
      <4>3. \A i \in DOMAIN Append(fs, g) :
               \/ i \in DOMAIN fs /\ Append(fs, g)[i] = fs[i]
               \/ Append(fs, g)[i] = g
        BY <4>1, AppendAt DEF g
      <4>4. QED
        BY <2>3, <3>2, <4>2, <4>3 DEF g
    <3>3. QED
      BY <2>1, <3>1, <3>2 DEF VisitOf, NextWay
  <2>5. status' # "crash"
    BY <1>4, VisitStatus
  <2>6. QED
    BY <2>2, <2>4, <2>5 DEF TableFits, CrashNeedsGrowth
<1>5. CASE VisitRoot
  <2>1. /\ units' = units /\ cap' = cap /\ status' # "crash" /\ frames = <<>>
    BY <1>5, RootWays, VisitStatus
  <2>2. \A i \in DOMAIN frames' : ~frames'[i].stale
    <3>1. CASE frames' = <<>>
      BY <3>1
    <3>2. CASE frames' = <<NewFrame(root, <<>>, units)>>
      BY <3>2 DEF NewFrame, Frame
    <3>3. QED
      BY <1>5, <3>1, <3>2, RootWays
  <2>3. QED
    BY <2>1, <2>2 DEF TableFits, CrashNeedsGrowth
<1>6. CASE NextImport \/ EndCall
  <2>1. /\ cap' = cap /\ frames # <<>> /\ status' = status
        /\ status = "imports"
    BY <1>6 DEF NextImport, EndCall, InCall
  <2>2. Len(units') = Len(units) /\ (units' = <<>> <=> units = <<>>)
    <3>1. CASE units' = units
      BY <3>1
    <3>2. CASE units' = [units EXCEPT ![Top.u].loaded = TRUE]
      <4>1. units' \in Seq(UnitType) /\ DOMAIN units' = DOMAIN units
        BY <2>1, <3>2, UnitsSet, TopFacts
      <4>2. Len(units') = Len(units)
        BY <1>1, <4>1, LenProperties
      <4>3. QED
        BY <1>1, <4>1, <4>2, EmptySeq
    <3>3. QED
      BY <1>6, <3>1, <3>2 DEF NextImport, EndCall
  <2>3. /\ Base \in Seq(FrameType) /\ Top \in FrameType
        /\ Top = frames[Len(frames)] /\ Len(frames) \in DOMAIN frames
        /\ \A i \in DOMAIN Base : i \in DOMAIN frames /\ Base[i] = frames[i]
    BY <2>1, TopFacts
  <2>4. \A i \in DOMAIN frames' : frames'[i].stale => Len(units) > FirstCap
    <3>1. CASE frames' = Base
      BY <2>3, <3>1 DEF TableFits
    <3>2. CASE frames' = Append(Base, [Top EXCEPT !.imp = @ + 1, !.file = 1])
      <4> DEFINE g == [Top EXCEPT !.imp = @ + 1, !.file = 1]
      <4>1. g \in FrameType /\ g.stale = Top.stale
        <5>1. Top.imp + 1 \in Nat \ {0} /\ 1 \in Nat \ {0}
          BY <2>3 DEF FrameType
        <5>2. ASSUME NEW n \in Nat \ {0}, NEW m \in Nat \ {0}
              PROVE  /\ [Top EXCEPT !.imp = n, !.file = m] \in FrameType
                     /\ [Top EXCEPT !.imp = n, !.file = m].stale = Top.stale
          BY <2>3 DEF FrameType
        <5>3. QED
          BY <5>1, <5>2, Zenon
      <4> HIDE DEF g
      <4>2. \A i \in DOMAIN Append(Base, g) :
               \/ i \in DOMAIN Base /\ Append(Base, g)[i] = Base[i]
               \/ Append(Base, g)[i] = g
        BY <2>3, <4>1, AppendAt
      <4>3. QED
        BY <2>3, <3>2, <4>1, <4>2 DEF TableFits, g
    <3>3. QED
      BY <1>6, <3>1, <3>2 DEF NextImport, EndCall
  <2>5. /\ units' # <<>> => cap' >= FirstCap
        /\ units' = <<>> => cap' = 0
        /\ Len(units') <= cap'
    BY <2>1, <2>2 DEF TableFits
  <2>6. status' # "crash"
    BY <2>1
  <2>7. \A i \in DOMAIN frames' : frames'[i].stale => Len(units') > FirstCap
    BY <2>2, <2>4
  <2>8. QED
    BY <2>5, <2>6, <2>7 DEF TableFits, CrashNeedsGrowth
<1>7. CASE SiblingsDone \/ Crash \/ Circular \/ MergeAndCheck \/ UNCHANGED vars
  <2>1. /\ units' = units /\ cap' = cap /\ frames' = frames
        /\ status' = "crash" => status = "crash" \/ (Top.stale /\ frames # <<>>)
    BY <1>7 DEF SiblingsDone, Crash, Circular, MergeAndCheck, vars, InCall,
                ReadsFreed
  <2>2. QED
    BY <1>2, <2>1
<1>8. QED
  BY <1>3, <1>4, <1>5, <1>6, <1>7 DEF Next

(* Without growth beyond the first capacity no freed table is ever read.   *)
THEOREM CrashOnlyAfterGrowth == Spec => []CrashNeedsGrowth
<1>1. Init => TableFits
  <2> SUFFICES ASSUME Init PROVE TableFits
    OBVIOUS
  <2>2. units = <<>> /\ cap = 0 /\ frames = <<>> /\ status = "entry"
    BY DEF Init
  <2>3. Len(units) = 0 /\ DOMAIN frames = {}
    BY <2>2, EmptySeq
  <2>4. QED
    BY <2>2, <2>3 DEF TableFits, CrashNeedsGrowth
<1>2. TypeOK /\ TypeOK' /\ Inv /\ TableFits /\ [Next]_vars => TableFits'
  BY TableStep DEF Inv
<1>3. TableFits => CrashNeedsGrowth
  BY DEF TableFits
<1>4. QED
  BY <1>1, <1>2, <1>3, TypeCorrect, Invariant, PTL DEF Spec

-----------------------------------------------------------------------------
(* The stack of calls.  The predicates take the project, the table and the *)
(* calls as arguments, so that a step only changes the arguments.          *)

PackageIn(p, us, f) == p.pkg[us[f.u].path]
ImportsIn(p, us, f) == p.imports[us[f.u].path]
FilesIn(p, us, f) == p.resolve[ImportsIn(p, us, f)[f.imp]]

(* Every name on a call's stack is the package of a call up to it.         *)
NamesHeld(p, us, fs) ==
  \A i \in DOMAIN fs : \A n \in ToSet(fs[i].stack) :
    \E j \in 1 .. i : PackageIn(p, us, fs[j]) = n

(* Where every call up to it has a package, its stack holds a name of each.*)
NamesCounted(p, us, fs) ==
  \A i \in DOMAIN fs :
    (\A j \in 1 .. i : PackageIn(p, us, fs[j]) # NoPackage)
      => Len(fs[i].stack) = i

(* Call f has called call g for the file before the one f goes on with.    *)
WaitsFor(p, us, f, g) ==
  /\ f.imp \in DOMAIN ImportsIn(p, us, f)
  /\ f.file - 1 \in DOMAIN FilesIn(p, us, f)
  /\ FilesIn(p, us, f)[f.file - 1] = us[g.u].path

Chained(p, us, fs) ==
  \A i \in DOMAIN fs : i - 1 \in DOMAIN fs => WaitsFor(p, us, fs[i - 1], fs[i])

CallsFit(p, us, fs) ==
  NamesHeld(p, us, fs) /\ NamesCounted(p, us, fs) /\ Chained(p, us, fs)

(* The active calls of before, the innermost one perhaps further on.       *)
Carried(fs) ==
  /\ fs \in Seq(FrameType)
  /\ Len(fs) = Len(frames)
  /\ DOMAIN fs = DOMAIN frames
  /\ \A i \in DOMAIN frames :
       /\ fs[i].u = frames[i].u
       /\ fs[i].stack = frames[i].stack
       /\ i # Len(frames) => fs[i].imp = frames[i].imp
                             /\ fs[i].file = frames[i].file

(* A call begins for an included unit u, below the calls fs.               *)
Begun(u, fs) ==
  /\ frames # <<>>
  /\ Carried(fs)
  /\ u \in DOMAIN units' /\ units'[u].included
  /\ WaitsFor(proj, units', fs[Len(fs)], NewFrame(u, Top.stack, units'))
  /\ NewFrame(u, Top.stack, units') \in FrameType
  /\ frames' = Append(fs, NewFrame(u, Top.stack, units'))

(* A first call begins, for an included unit.                              *)
BegunFirst(u) ==
  /\ frames = <<>>
  /\ u \in DOMAIN units' /\ units'[u].included
  /\ NewFrame(u, <<>>, units') \in FrameType
  /\ frames' = <<NewFrame(u, <<>>, units')>>

(* What can become of the active calls in a step.                          *)
CallsStep ==
  \/ Carried(frames')
  \/ frames # <<>> /\ frames' = Base
  \/ \E u, fs : Begun(u, fs)
  \/ \E u : BegunFirst(u)

(* A step that leaves the calls alone carries them over.                   *)
LEMMA SameCarried ==
  ASSUME TypeOK
  PROVE  Carried(frames)
<1>1. frames \in Seq(FrameType)
  BY DEF TypeOK, FrameType
<1>2. QED
  BY <1>1, Zenon DEF Carried

(* A visit carries the calls over, and perhaps adds one that its caller    *)
(* waits for.                                                              *)
LEMMA VisitCalls ==
  ASSUME TypeOK, TypeOK', Grown, VisitFile \/ LoadFile
  PROVE  Carried(frames') \/ \E u, fs : Begun(u, fs)
<1>1. PICK u, fs : VisitOf(u, fs)
  BY VisitWays
<1>2. /\ frames # <<>> /\ Top.imp <= Len(Imports(Top.u))
      /\ Top.file <= Len(Files)
  BY DEF VisitFile, LoadFile, InCall
<1>3. /\ Top = frames[Len(frames)] /\ Len(frames) \in DOMAIN frames
      /\ Top.u \in DOMAIN units /\ Top.imp \in DOMAIN Imports(Top.u)
      /\ Top.file \in DOMAIN Files /\ Top.file \in Nat
  BY <1>2, TopFacts, ImportFacts DEF FrameType
<1>4. Carried(fs)
  BY <1>1 DEF VisitOf, Advanced, Carried
<1>5. CASE frames' = fs
  BY <1>4, <1>5
<1>6. CASE /\ frames' = Append(fs, NewFrame(u, Top.stack, units'))
           /\ NewFrame(u, Top.stack, units') \in FrameType
           /\ status' = status
  <2> DEFINE f == fs[Len(fs)]
             g == NewFrame(u, Top.stack, units')
  <2>1. f.u = Top.u /\ f.imp = Top.imp /\ f.file = Top.file + 1
    BY <1>1, <1>3, Zenon DEF VisitOf, Advanced
  <2>2. f.file - 1 = Top.file
    BY <1>3, <2>1
  <2>3. g.u = u
    BY DEF NewFrame, Frame
  <2> HIDE DEF f, g
  <2>4. units'[f.u].path = units[Top.u].path
    BY <1>3, <2>1 DEF Grown
  <2>5. ImportsIn(proj, units', f) = Imports(Top.u)
    BY <2>4, Zenon DEF ImportsIn, Imports
  <2>6. FilesIn(proj, units', f) = Files
    BY <2>1, <2>5, Zenon DEF FilesIn, Files, Import
  <2>7. /\ units'[u].path = Files[Top.file] /\ u \in DOMAIN units'
        /\ units'[u].included
    <3>1. status' \notin Errors
      BY <1>6 DEF VisitFile, LoadFile, InCall, Errors
    <3>2. QED
      BY <1>1, <3>1, Zenon DEF VisitOf
  <2>8. WaitsFor(proj, units', f, g)
    BY <1>3, <2>1, <2>2, <2>3, <2>5, <2>6, <2>7, Zenon DEF WaitsFor
  <2>9. Begun(u, fs)
    BY <1>2, <1>4, <1>6, <2>7, <2>8, Zenon DEF Begun, f, g
  <2>10. QED
    BY <2>9, Zenon
<1>7. QED
  BY <1>1, <1>5, <1>6 DEF VisitOf, NextWay

(* Every step does one of those things to the calls.                       *)
LEMMA StepCalls ==
  ASSUME TypeOK, TypeOK', Grown, [Next]_vars
  PROVE  CallsStep
<1>1. CASE frames' = frames
  BY <1>1, SameCarried DEF CallsStep
<1>2. CASE VisitFile \/ LoadFile
  BY <1>2, VisitCalls DEF CallsStep
<1>3. CASE VisitRoot
  <2>1. CASE frames' = <<>>
    BY <1>1, <1>3, <2>1, RootWays
  <2>2. CASE /\ frames' = <<NewFrame(root, <<>>, units)>>
             /\ NewFrame(root, <<>>, units) \in FrameType
             /\ units[root].included
    <3>1. BegunFirst(root)
      BY <1>3, <2>2, RootWays DEF BegunFirst
    <3>2. QED
      BY <3>1 DEF CallsStep
  <2>3. QED
    BY <1>3, <2>1, <2>2, RootWays
<1>4. CASE NextImport
  <2> DEFINE g == [Top EXCEPT !.imp = @ + 1, !.file = 1]
  <2>1. frames # <<>> /\ frames' = Append(Base, g) /\ frames' \in Seq(FrameType)
    <3>1. (frames \in Seq(FrameType))'
      BY DEF TypeOK, FrameType
    <3>2. proj' = proj
      BY DEF Grown
    <3>3. FrameType' = FrameType
      BY <3>2 DEF FrameType, Names
    <3>4. QED
      BY <1>4, <3>1, <3>3 DEF NextImport, InCall
  <2>2. /\ Base \in Seq(FrameType) /\ Top \in FrameType
        /\ Top = frames[Len(frames)] /\ Len(frames) \in DOMAIN frames
        /\ Len(Base) = Len(frames) - 1
        /\ DOMAIN Base = 1 .. Len(frames) - 1
        /\ DOMAIN frames = 1 .. Len(frames)
        /\ \A i \in DOMAIN Base : i \in DOMAIN frames /\ Base[i] = frames[i]
        /\ Len(frames) \in Nat \ {0}
    <3>1. frames \in Seq(FrameType)
      BY DEF TypeOK, FrameType
    <3>2. QED
      BY <2>1, <3>1, TopFacts, PopFacts
  <2>3. g \in FrameType /\ g.u = Top.u /\ g.stack = Top.stack
    <3>1. Top.imp + 1 \in Nat \ {0} /\ 1 \in Nat \ {0}
      BY <2>2 DEF FrameType
    <3>2. ASSUME NEW n \in Nat \ {0}, NEW m \in Nat \ {0}
          PROVE  /\ [Top EXCEPT !.imp = n, !.file = m] \in FrameType
                 /\ [Top EXCEPT !.imp = n, !.file = m].u = Top.u
                 /\ [Top EXCEPT !.imp = n, !.file = m].stack = Top.stack
      BY <2>2 DEF FrameType
    <3>3. QED
      BY <3>1, <3>2, Zenon
  <2> HIDE DEF g
  <2>4. /\ Len(Append(Base, g)) = Len(frames)
        /\ DOMAIN Append(Base, g) = DOMAIN frames
        /\ \A i \in DOMAIN frames :
             Append(Base, g)[i] = IF i = Len(frames) THEN g ELSE frames[i]
    BY <2>2, <2>3, PushFacts
  <2>5. QED
    BY <2>1, <2>2, <2>3, <2>4, Zenon DEF Carried, CallsStep
<1>5. CASE EndCall
  BY <1>5 DEF EndCall, InCall, CallsStep
<1>6. CASE \/ LoadEntry \/ LoadSibling \/ SiblingsDone \/ Crash \/ Circular
           \/ MergeAndCheck \/ UNCHANGED vars
  <2>1. frames' = frames
    BY <1>6 DEF LoadEntry, LoadSibling, SiblingsDone, Crash, Circular,
                MergeAndCheck, vars
  <2>2. QED
    BY <1>1, <2>1
<1>7. QED
  BY <1>2, <1>3, <1>4, <1>5, <1>6, Zenon DEF Next

(* Growth of the table and the next file of the innermost call change no   *)
(* package and no file that is waited for.                                 *)
LEMMA CallsCarried ==
  ASSUME TypeOK, Grown, CallsFit(proj, units, frames), NEW fs, Carried(fs)
  PROVE  CallsFit(proj, units', fs)
<1>1. /\ DOMAIN fs = DOMAIN frames /\ DOMAIN frames = 1 .. Len(frames)
      /\ Len(frames) \in Nat
      /\ \A i \in DOMAIN frames :
           /\ fs[i].stack = frames[i].stack
           /\ units'[fs[i].u].path = units[frames[i].u].path
           /\ i # Len(frames) => fs[i].imp = frames[i].imp
                                 /\ fs[i].file = frames[i].file
  <2>1. frames \in Seq(FrameType) /\ \A i \in DOMAIN frames : frames[i].u \in DOMAIN units
    BY DEF TypeOK, FrameType
  <2>2. DOMAIN frames = 1 .. Len(frames) /\ Len(frames) \in Nat
    BY <2>1, LenProperties
  <2>3. QED
    BY <2>1, <2>2, Zenon DEF Carried, Grown
<1>2. \A i \in DOMAIN frames :
        PackageIn(proj, units', fs[i]) = PackageIn(proj, units, frames[i])
  BY <1>1, Zenon DEF PackageIn
<1>3. \A i \in DOMAIN frames : \A j \in 1 .. i : j \in DOMAIN frames
  BY <1>1
<1>4. NamesHeld(proj, units', fs)
  <2>1. \A i \in DOMAIN frames : \A n \in ToSet(frames[i].stack) :
          \E j \in 1 .. i : PackageIn(proj, units, frames[j]) = n
    BY DEF CallsFit, NamesHeld
  <2>2. ASSUME NEW i \in DOMAIN frames, NEW n \in ToSet(fs[i].stack)
        PROVE  \E j \in 1 .. i : PackageIn(proj, units', fs[j]) = n
    <3>1. n \in ToSet(frames[i].stack)
      BY <1>1, <2>2
    <3>2. PICK j \in 1 .. i : PackageIn(proj, units, frames[j]) = n
      BY <2>1, <2>2, <3>1, Zenon
    <3>3. PackageIn(proj, units', fs[j]) = n
      BY <1>2, <1>3, <2>2, <3>2, Zenon
    <3>4. QED
      BY <3>3
  <2>3. QED
    BY <1>1, <2>2, Zenon DEF NamesHeld
<1>5. NamesCounted(proj, units', fs)
  <2>1. \A i \in DOMAIN frames :
          (\A j \in 1 .. i : PackageIn(proj, units, frames[j]) # NoPackage)
            => Len(frames[i].stack) = i
    BY DEF CallsFit, NamesCounted
  <2>2. QED
    BY <1>1, <1>2, <1>3, <2>1, Zenon DEF NamesCounted
<1>6. Chained(proj, units', fs)
  <2> SUFFICES ASSUME NEW i \in DOMAIN frames, i - 1 \in DOMAIN frames
               PROVE  WaitsFor(proj, units', fs[i - 1], fs[i])
    BY <1>1, Zenon DEF Chained
  <2>1. i - 1 # Len(frames)
    BY <1>1
  <2>2. WaitsFor(proj, units, frames[i - 1], frames[i])
    BY Zenon DEF CallsFit, Chained
  <2>3. /\ fs[i - 1].imp = frames[i - 1].imp /\ fs[i - 1].file = frames[i - 1].file
        /\ units'[fs[i - 1].u].path = units[frames[i - 1].u].path
        /\ units'[fs[i].u].path = units[frames[i].u].path
    BY <1>1, <2>1, Zenon
  <2>4. QED
    BY <2>2, <2>3, Zenon DEF WaitsFor, FilesIn, ImportsIn
<1>7. QED
  BY <1>4, <1>5, <1>6 DEF CallsFit

(* The calls below a call that ends are as they were.                      *)
LEMMA PrefixFits ==
  ASSUME NEW p, NEW us, NEW fs, NEW gs, CallsFit(p, us, fs),
         Len(fs) \in Nat, DOMAIN fs = 1 .. Len(fs),
         DOMAIN gs = 1 .. Len(fs) - 1,
         \A i \in DOMAIN gs : gs[i] = fs[i]
  PROVE  CallsFit(p, us, gs)
<1>1. /\ \A i \in DOMAIN gs : i \in DOMAIN fs
      /\ \A i \in DOMAIN gs : \A j \in 1 .. i : j \in DOMAIN gs
  OBVIOUS
<1>2. NamesHeld(p, us, fs) /\ NamesCounted(p, us, fs) /\ Chained(p, us, fs)
  BY DEF CallsFit
<1>3. NamesHeld(p, us, gs)
  BY <1>1, <1>2, Zenon DEF NamesHeld
<1>4. NamesCounted(p, us, gs)
  BY <1>1, <1>2, Zenon DEF NamesCounted
<1>5. Chained(p, us, gs)
  BY <1>1, <1>2, Zenon DEF Chained
<1>6. QED
  BY <1>3, <1>4, <1>5 DEF CallsFit

(* A call that begins adds its own package to its caller's names.          *)
LEMMA CallsPushed ==
  ASSUME NEW p, NEW us, NEW S, NEW fs \in Seq(S), NEW g \in S,
         NEW T, NEW stack \in Seq(T), PackageIn(p, us, g) \in T \cup {NoPackage},
         CallsFit(p, us, fs),
         g.stack = WithPackage(stack, PackageIn(p, us, g)),
         \/ fs = <<>> /\ stack = <<>>
         \/ /\ fs # <<>> /\ stack = fs[Len(fs)].stack
            /\ WaitsFor(p, us, fs[Len(fs)], g)
  PROVE  CallsFit(p, us, Append(fs, g))
<1> DEFINE gs == Append(fs, g)
           n == Len(fs)
           pk == PackageIn(p, us, g)
<1>1. /\ n \in Nat /\ DOMAIN fs = 1 .. n /\ DOMAIN gs = 1 .. n + 1
      /\ \A i \in DOMAIN fs : gs[i] = fs[i]
      /\ gs[n + 1] = g
  BY PushFacts
<1>2. fs # <<>> => n \in DOMAIN fs
  BY <1>1, EmptySeq
<1> HIDE DEF gs, n, pk
<1>3. /\ \A i \in DOMAIN gs : i \in DOMAIN fs \/ i = n + 1
      /\ \A i \in DOMAIN fs : \A j \in 1 .. i : j \in DOMAIN fs
      /\ \A i \in DOMAIN fs : \A j \in 1 .. i : j \in 1 .. n + 1
      /\ n + 1 \in 1 .. n + 1
      /\ \A i \in DOMAIN fs : i \in 1 .. n + 1
  BY <1>1
<1>4. /\ \A i \in DOMAIN fs : \A e \in ToSet(fs[i].stack) :
           \E j \in 1 .. i : PackageIn(p, us, fs[j]) = e
      /\ \A i \in DOMAIN fs :
           (\A j \in 1 .. i : PackageIn(p, us, fs[j]) # NoPackage)
             => Len(fs[i].stack) = i
      /\ \A i \in DOMAIN fs : i - 1 \in DOMAIN fs => WaitsFor(p, us, fs[i - 1], fs[i])
  BY DEF CallsFit, NamesHeld, NamesCounted, Chained
<1>5. /\ \A e \in ToSet(g.stack) : e \in ToSet(stack) \/ e = pk
      /\ pk # NoPackage => Len(g.stack) = Len(stack) + 1
  <2>1. CASE pk = NoPackage
    BY <2>1 DEF WithPackage, pk
  <2>2. CASE pk # NoPackage
    <3>1. g.stack = Append(stack, pk) /\ pk \in T
      BY <2>2 DEF WithPackage, pk
    <3>2. \A i \in DOMAIN g.stack :
            g.stack[i] = pk \/ (i \in DOMAIN stack /\ g.stack[i] = stack[i])
      BY <3>1, AppendAt
    <3>3. Len(g.stack) = Len(stack) + 1
      BY <3>1, PushFacts
    <3>4. QED
      BY <3>2, <3>3 DEF ToSet
  <2>3. QED
    BY <2>1, <2>2
<1>6. \A e \in ToSet(stack) : \E j \in DOMAIN fs : PackageIn(p, us, fs[j]) = e
  <2>1. CASE fs = <<>> /\ stack = <<>>
    BY <2>1 DEF ToSet
  <2>2. CASE fs # <<>> /\ stack = fs[n].stack
    BY <1>2, <1>3, <1>4, <2>2, Zenon
  <2>3. QED
    BY <2>1, <2>2 DEF n
<1>7. (\A j \in DOMAIN fs : PackageIn(p, us, fs[j]) # NoPackage) => Len(stack) = n
  <2>1. CASE fs = <<>> /\ stack = <<>>
    BY <2>1 DEF n
  <2>2. CASE fs # <<>> /\ stack = fs[n].stack
    BY <1>2, <1>3, <1>4, <2>2, Zenon
  <2>3. QED
    BY <2>1, <2>2 DEF n
<1>8. NamesHeld(p, us, gs)
  <2>1. ASSUME NEW i \in DOMAIN fs, NEW e \in ToSet(gs[i].stack)
        PROVE  \E j \in 1 .. i : PackageIn(p, us, gs[j]) = e
    <3>1. gs[i] = fs[i] /\ e \in ToSet(fs[i].stack)
      BY <1>1, <2>1
    <3>2. PICK j \in 1 .. i : PackageIn(p, us, fs[j]) = e
      BY <1>4, <2>1, <3>1, Zenon
    <3>3. gs[j] = fs[j]
      BY <1>1, <1>3, <2>1, Zenon
    <3>4. QED
      BY <3>2, <3>3
  <2>2. ASSUME NEW e \in ToSet(g.stack)
        PROVE  \E j \in 1 .. n + 1 : PackageIn(p, us, gs[j]) = e
    BY <1>1, <1>3, <1>5, <1>6, Zenon DEF pk
  <2>3. QED
    BY <1>1, <1>3, <2>1, <2>2, Zenon DEF NamesHeld
<1>9. NamesCounted(p, us, gs)
  <2>1. ASSUME NEW i \in DOMAIN fs,
               \A j \in 1 .. i : PackageIn(p, us, gs[j]) # NoPackage
        PROVE  Len(gs[i].stack) = i
    BY <1>1, <1>3, <1>4, <2>1, Zenon
  <2>2. ASSUME \A j \in 1 .. n + 1 : PackageIn(p, us, gs[j]) # NoPackage
        PROVE  Len(g.stack) = n + 1
    <3>1. pk # NoPackage
      BY <1>1, <1>3, <2>2, Zenon DEF pk
    <3>2. \A j \in DOMAIN fs : PackageIn(p, us, fs[j]) # NoPackage
      BY <1>1, <1>3, <2>2, Zenon
    <3>3. QED
      BY <1>5, <1>7, <3>1, <3>2
  <2>3. QED
    BY <1>1, <1>3, <2>1, <2>2, Zenon DEF NamesCounted
<1>10. Chained(p, us, gs)
  <2> SUFFICES ASSUME NEW i \in DOMAIN gs, i - 1 \in DOMAIN gs
               PROVE  WaitsFor(p, us, gs[i - 1], gs[i])
    BY Zenon DEF Chained
  <2>1. CASE i \in DOMAIN fs
    <3>1. i - 1 \in DOMAIN fs
      BY <1>1, <2>1
    <3>2. QED
      BY <1>1, <1>4, <2>1, <3>1, Zenon
  <2>2. CASE i = n + 1
    <3>1. i - 1 = n /\ fs # <<>>
      BY <1>1, <2>2 DEF n
    <3>2. WaitsFor(p, us, fs[n], g)
      BY <3>1 DEF n
    <3>3. QED
      BY <1>1, <1>2, <2>2, <3>1, <3>2, Zenon
  <2>3. QED
    BY <1>3, <2>1, <2>2
<1>11. QED
  BY <1>8, <1>9, <1>10 DEF CallsFit, gs

(* Every step keeps the calls fitting together.                            *)
LEMMA CallsFitStep ==
  ASSUME TypeOK, TypeOK', Grown, CallsFit(proj, units, frames), [Next]_vars
  PROVE  CallsFit(proj', units', frames')
<1>1. /\ proj' = proj /\ IsProject(proj) /\ frames \in Seq(FrameType)
      /\ units' \in Seq(UnitType)
  BY TypeParts, TypeStep DEF Grown, TypeOK, FrameType, UnitType
<1>2. \A u \in DOMAIN units' : proj.pkg[units'[u].path] \in Names(proj) \cup {NoPackage}
  <2>1. \A u \in DOMAIN units' : units'[u] \in UnitType
    BY <1>1, LenProperties, ElementOfSeq
  <2>2. QED
    BY <1>1, <2>1, ProjectFacts, Zenon DEF UnitType
<1>3. CASE Carried(frames')
  BY <1>1, <1>3, CallsCarried
<1>4. CASE frames # <<>> /\ frames' = Base
  <2>1. CallsFit(proj, units', frames)
    BY SameCarried, CallsCarried
  <2>2. /\ DOMAIN Base = 1 .. Len(frames) - 1 /\ DOMAIN frames = 1 .. Len(frames)
        /\ \A i \in DOMAIN Base : Base[i] = frames[i]
        /\ Len(frames) \in Nat
    BY <1>1, <1>4, TopFacts, LenProperties
  <2>3. CallsFit(proj, units', Base)
    BY <2>1, <2>2, PrefixFits
  <2>4. QED
    BY <1>1, <1>4, <2>3
<1>5. CASE \E u, fs : Begun(u, fs)
  <2>1. PICK u, fs : Begun(u, fs)
    BY <1>5
  <2> DEFINE g == NewFrame(u, Top.stack, units')
  <2>2. /\ frames # <<>> /\ Carried(fs) /\ u \in DOMAIN units'
        /\ WaitsFor(proj, units', fs[Len(fs)], g)
        /\ g \in FrameType /\ frames' = Append(fs, g)
    BY <2>1 DEF Begun
  <2>3. CallsFit(proj, units', fs)
    BY <2>2, CallsCarried
  <2>4. /\ g.u = u
        /\ g.stack = WithPackage(Top.stack, proj.pkg[units'[u].path])
    BY DEF NewFrame, Frame
  <2>5. /\ Top.stack \in Seq(Names(proj)) /\ fs # <<>>
        /\ fs[Len(fs)].stack = Top.stack
    <3>1. Top = frames[Len(frames)] /\ Len(frames) \in DOMAIN frames
          /\ Top \in FrameType
      BY <2>2, TopFacts
    <3>2. fs[Len(fs)].stack = Top.stack
      BY <2>2, <3>1, Zenon DEF Carried
    <3>3. fs # <<>>
      BY <1>1, <2>2, EmptySeq DEF Carried
    <3>4. QED
      BY <3>1, <3>2, <3>3 DEF FrameType
  <2> HIDE DEF g
  <2>6. PackageIn(proj, units', g) = proj.pkg[units'[u].path]
    BY <2>4, Zenon DEF PackageIn
  <2>7. fs \in Seq(FrameType)
    BY <2>2 DEF Carried
  <2>8. CallsFit(proj, units', Append(fs, g))
    BY <1>2, <2>2, <2>3, <2>4, <2>5, <2>6, <2>7, CallsPushed
  <2>9. QED
    BY <1>1, <2>2, <2>8
<1>6. CASE \E u : BegunFirst(u)
  <2>1. PICK u : BegunFirst(u)
    BY <1>6
  <2> DEFINE g == NewFrame(u, <<>>, units')
  <2>2. /\ u \in DOMAIN units' /\ g \in FrameType /\ frames' = <<g>>
    BY <2>1 DEF BegunFirst
  <2>3. g.u = u /\ g.stack = WithPackage(<<>>, proj.pkg[units'[u].path])
    BY DEF NewFrame, Frame
  <2> HIDE DEF g
  <2>4. PackageIn(proj, units', g) = proj.pkg[units'[u].path]
    BY <2>3, Zenon DEF PackageIn
  <2>5. CallsFit(proj, units', <<>>)
    BY DEF CallsFit, NamesHeld, NamesCounted, Chained
  <2>6. <<>> \in Seq(FrameType) /\ <<>> \in Seq(Names(proj))
    BY EmptySeq
  <2>7. CallsFit(proj, units', Append(<<>>, g))
    BY <1>2, <2>2, <2>3, <2>4, <2>5, <2>6, CallsPushed
  <2>8. Append(<<>>, g) = <<g>>
    OBVIOUS
  <2>9. QED
    BY <1>1, <2>2, <2>7, <2>8
<1>7. QED
  BY <1>3, <1>4, <1>5, <1>6, StepCalls DEF CallsStep

(* Where the C stack holds at least the calls the names allow, it ends the *)
(* recursion only below a file without package.                            *)
LEMMA OverflowStep ==
  ASSUME MaxStack <= MaxCalls, TypeOK, TypeOK', Grown, OverflowNeedsBareFile,
         CallsFit(proj', units', frames'), [Next]_vars
  PROVE  OverflowNeedsBareFile'
<1> SUFFICES ASSUME status' = "overflow",
                    \A i \in DOMAIN frames' : PackageIn(proj', units', frames'[i]) # NoPackage
             PROVE  FALSE
  BY Zenon DEF OverflowNeedsBareFile, Package, PackageIn
<1>1. CASE UNCHANGED vars
  <2>1. /\ status = "overflow" /\ frames' = frames /\ units' = units /\ proj' = proj
    BY <1>1 DEF vars
  <2>2. QED
    BY <2>1, Zenon DEF OverflowNeedsBareFile, Package, PackageIn
<1>2. CASE VisitFile \/ LoadFile
  <2>1. PICK u, fs : VisitOf(u, fs)
    BY <1>2, VisitWays
  <2>2. status = "imports" /\ frames # <<>>
    BY <1>2 DEF VisitFile, LoadFile, InCall
  <2>3. /\ frames' = fs /\ Advanced(fs)
        /\ Len(Top.stack) < MaxStack /\ Len(frames) >= MaxCalls
    BY <2>1, <2>2 DEF VisitOf, NextWay
  <2>4. /\ Len(frames) \in DOMAIN frames /\ Top = frames[Len(frames)]
        /\ DOMAIN frames = 1 .. Len(frames)
    BY <2>2, TopFacts
  <2>5. Len(frames) \in DOMAIN frames' /\ frames'[Len(frames)].stack = Top.stack
        /\ DOMAIN frames' = 1 .. Len(frames)
    BY <2>3, <2>4, Zenon DEF Advanced
  <2>6. Len(Top.stack) = Len(frames)
    BY <2>5, Zenon DEF CallsFit, NamesCounted
  <2>7. Len(frames) \in Nat /\ MaxStack \in Nat /\ MaxCalls \in Nat
    <3>1. frames \in Seq(FrameType)
      BY DEF TypeOK, FrameType
    <3>2. QED
      BY <3>1, LoaderAssumption, LenProperties
  <2>8. QED
    BY <2>3, <2>6, <2>7
<1>3. CASE VisitRoot
  BY <1>3, RootWays
<1>4. CASE \/ LoadEntry \/ LoadSibling \/ SiblingsDone \/ Crash \/ Circular
           \/ NextImport \/ EndCall \/ MergeAndCheck
  BY <1>4 DEF LoadEntry, LoadSibling, SiblingsDone, Crash, Circular,
              NextImport, EndCall, MergeAndCheck, InCall
<1>5. QED
  BY <1>1, <1>2, <1>3, <1>4, Zenon DEF Next

(* The packages from the call whose package the import names up to the     *)
(* innermost call import each other in a circle.                           *)
LEMMA CircleFound ==
  ASSUME TypeOK, CallsFit(proj, units, frames), Circular, WellNamed(proj)
  PROVE  PackageCycle
<1>1. /\ frames # <<>> /\ Top.imp <= Len(Imports(Top.u))
      /\ Contains(Top.stack, Import)
  BY DEF Circular, InCall
<1>2. /\ Top = frames[Len(frames)] /\ Len(frames) \in DOMAIN frames
      /\ DOMAIN frames = 1 .. Len(frames) /\ Len(frames) \in Nat
      /\ Top.imp \in DOMAIN Imports(Top.u) /\ Import \in Names(proj)
      /\ \A i \in DOMAIN frames : frames[i].u \in DOMAIN units
  <2>1. frames \in Seq(FrameType)
    BY DEF TypeOK, FrameType
  <2>2. QED
    BY <1>1, <2>1, TopFacts, ImportFacts, FramesTyped, LenProperties
<1> DEFINE n == Len(frames)
           pk(i) == Package(frames[i].u)
<1>3. PICK j \in 1 .. n : pk(j) = Import
  <2>1. Import \in ToSet(Top.stack)
    BY <1>1 DEF Contains, ToSet
  <2>2. QED
    BY <1>2, <2>1 DEF CallsFit, NamesHeld, PackageIn, Package
<1> DEFINE S == {pk(i) : i \in j .. n}
<1>4. ASSUME NEW i \in j .. n, i # n
      PROVE  /\ pk(i + 1) \in ToSet(Imports(frames[i].u))
             /\ pk(i + 1) \in Names(proj)
             /\ i + 1 \in j .. n
  <2>1. i \in DOMAIN frames /\ i + 1 \in DOMAIN frames /\ (i + 1) - 1 = i
        /\ i + 1 \in j .. n
    <3>1. DOMAIN frames = 1 .. n /\ n \in Nat
      BY <1>2
    <3>2. j \in 1 .. n /\ i \in j .. n /\ i # n
      BY <1>3, <1>4
    <3> HIDE DEF n, pk
    <3>3. QED
      BY <3>1, <3>2
  <2>2. WaitsFor(proj, units, frames[i], frames[i + 1])
    BY <2>1 DEF CallsFit, Chained
  <2> DEFINE f == frames[i]
             m == Imports(f.u)[f.imp]
  <2>3. /\ f.imp \in DOMAIN Imports(f.u)
        /\ f.file - 1 \in DOMAIN proj.resolve[m]
        /\ proj.resolve[m][f.file - 1] = units[frames[i + 1].u].path
    BY <2>2 DEF WaitsFor, FilesIn, ImportsIn, Imports
  <2>4. Imports(f.u) \in Seq(Names(proj))
    BY <1>2, <2>1, UnitFacts
  <2>5. m \in Names(proj) /\ m \in ToSet(Imports(f.u))
    BY <2>3, <2>4, LenProperties, ElementOfSeq DEF ToSet
  <2>6. units[frames[i + 1].u].path \in ToSet(proj.resolve[m])
    BY <2>3 DEF ToSet
  <2>7. pk(i + 1) = m
    BY <2>5, <2>6, Zenon DEF WellNamed, Package
  <2>8. QED
    BY <2>1, <2>5, <2>7
<1>5. S \in SUBSET Names(proj) /\ S # {}
  <2>1. ASSUME NEW i \in j .. n
        PROVE  pk(i) \in Names(proj)
    <3>1. CASE i = j
      BY <1>2, <1>3, <3>1
    <3>2. CASE i # j
      <4>1. i - 1 \in j .. n /\ i - 1 # n /\ (i - 1) + 1 = i
        BY <1>2, <3>2
      <4>2. pk((i - 1) + 1) \in Names(proj)
        BY <1>4, <4>1, Zenon
      <4>3. QED
        BY <4>1, <4>2
    <3>3. QED
      BY <3>1, <3>2
  <2>2. j \in j .. n
    BY <1>2
  <2>3. QED
    BY <2>1, <2>2
<1>6. ASSUME NEW i \in j .. n
      PROVE  \E u \in DOMAIN units :
               Package(u) = pk(i) /\ \E m \in S : m \in ToSet(Imports(u))
  <2>1. frames[i].u \in DOMAIN units /\ Package(frames[i].u) = pk(i)
    BY <1>2
  <2>2. \E m \in S : m \in ToSet(Imports(frames[i].u))
    <3>1. CASE i = n
      <4>1. Import \in ToSet(Imports(frames[i].u))
        BY <1>2, <3>1 DEF Import, ToSet
      <4>2. j \in j .. n
        BY <1>2
      <4>3. QED
        BY <1>3, <4>1, <4>2
    <3>2. CASE i # n
      BY <1>4, <3>2
    <3>3. QED
      BY <3>1, <3>2
  <2>3. QED
    BY <2>1, <2>2
<1>7. \A e \in S : \E u \in DOMAIN units :
                     Package(u) = e /\ \E m \in S : m \in ToSet(Imports(u))
  BY <1>6
<1>8. QED
  BY <1>5, <1>7, Zenon DEF PackageCycle

(* Only Circular reports a circle.                                         *)
LEMMA CircularStep ==
  ASSUME TypeOK, Grown, CallsFit(proj, units, frames), CircularIsReal, [Next]_vars
  PROVE  CircularIsReal'
<1> SUFFICES ASSUME status' = "circular", WellNamed(proj')
             PROVE  PackageCycle'
  BY Zenon DEF CircularIsReal
<1>1. PackageCycle /\ units' = units
  <2>1. WellNamed(proj)
    BY DEF Grown
  <2>2. CASE Circular
    BY <2>1, <2>2, CircleFound DEF Circular
  <2>3. CASE UNCHANGED vars
    BY <2>1, <2>3 DEF vars, CircularIsReal
  <2>4. CASE VisitRoot \/ VisitFile \/ LoadFile
    BY <2>4, VisitStatus
  <2>5. CASE \/ LoadEntry \/ LoadSibling \/ SiblingsDone \/ Crash
             \/ NextImport \/ EndCall \/ MergeAndCheck
    BY <2>5 DEF LoadEntry, LoadSibling, SiblingsDone, Crash,
                NextImport, EndCall, MergeAndCheck, InCall
  <2>6. QED
    BY <2>2, <2>3, <2>4, <2>5, Zenon DEF Next
<1>2. QED
  BY <1>1, Zenon DEF PackageCycle, Grown, Names, Package, Imports

(* The calls of load_imports_recursive fit together from the start.        *)
LEMMA CallsFitInit == Init => CallsFit(proj, units, frames)
<1> SUFFICES ASSUME Init PROVE CallsFit(proj, units, frames)
  OBVIOUS
<1>1. DOMAIN frames = {}
  BY DEF Init
<1>2. QED
  BY <1>1, Zenon DEF CallsFit, NamesHeld, NamesCounted, Chained

(* A reported circular import is a circle of packages (CircularIsReal):    *)
(* load_imports_recursive compares only names on its own stack.            *)
THEOREM CircularReported == Spec => []CircularIsReal
<1> DEFINE Fits == CallsFit(proj, units, frames)
<1>1. Init => Fits /\ CircularIsReal
  BY CallsFitInit DEF Init, CircularIsReal
<1>2. TypeOK /\ TypeOK' /\ Fits /\ CircularIsReal /\ [Next]_vars
        => Fits' /\ CircularIsReal'
  BY StepGrown, CallsFitStep, CircularStep
<1>3. QED
  BY <1>1, <1>2, TypeCorrect, PTL DEF Spec

(* The recursion runs out of C stack only below a file that declares no    *)
(* package (OverflowNeedsBareFile), if the C stack holds the calls that    *)
(* the "import nesting too deep" check admits, 127 in the code.            *)
THEOREM OverflowIsBare ==
  ASSUME MaxStack <= MaxCalls
  PROVE  Spec => []OverflowNeedsBareFile
<1> DEFINE Fits == CallsFit(proj, units, frames)
<1>1. Init => Fits /\ OverflowNeedsBareFile
  BY CallsFitInit DEF Init, OverflowNeedsBareFile
<1>2. TypeOK /\ TypeOK' /\ Fits /\ OverflowNeedsBareFile /\ [Next]_vars
        => Fits' /\ OverflowNeedsBareFile'
  BY StepGrown, CallsFitStep, OverflowStep
<1>3. QED
  BY <1>1, <1>2, TypeCorrect, PTL DEF Spec

-----------------------------------------------------------------------------
(* Circles of files.  A file is safe when it is on no circle, and a file   *)
(* is safe when all the files it imports are: so a call that ends has      *)
(* shown its file safe, if the files it went past were.                    *)

FilesNamed(p, path, k) == p.resolve[p.imports[path][k]]

(* Sets of files each of which imports another one of the set.             *)
CirclesIn(p) ==
  {S \in SUBSET Paths(p) :
     \A f \in S : \E k \in DOMAIN p.imports[f] :
       \E j \in DOMAIN FilesNamed(p, f, k) : FilesNamed(p, f, k)[j] \in S}

SafeIn(p, path) == \A S \in CirclesIn(p) : path \notin S

(* The files before the n-th file of import imp are safe.                  *)
SafePast(p, path, imp, n) ==
  /\ \A k \in DOMAIN p.imports[path] : k < imp =>
       \A j \in DOMAIN FilesNamed(p, path, k) : SafeIn(p, FilesNamed(p, path, k)[j])
  /\ imp \in DOMAIN p.imports[path] =>
       \A j \in DOMAIN FilesNamed(p, path, imp) :
         j < n => SafeIn(p, FilesNamed(p, path, imp)[j])

(* The imports and files of an admitted project are numbered from 1.       *)
LEMMA FileNumbers ==
  ASSUME NEW p, IsProject(p), NEW path \in Paths(p)
  PROVE  /\ p.imports[path] \in Seq(Names(p))
         /\ Len(p.imports[path]) \in Nat
         /\ DOMAIN p.imports[path] = 1 .. Len(p.imports[path])
         /\ \A k \in DOMAIN p.imports[path] :
              /\ FilesNamed(p, path, k) \in Seq(Paths(p))
              /\ Len(FilesNamed(p, path, k)) \in Nat
              /\ DOMAIN FilesNamed(p, path, k) = 1 .. Len(FilesNamed(p, path, k))
<1>1. /\ p.imports \in [Paths(p) -> Seq(Names(p))]
      /\ p.resolve \in [Names(p) -> Seq(Paths(p))]
  BY DEF IsProject
<1>2. p.imports[path] \in Seq(Names(p))
  BY <1>1
<1>3. /\ Len(p.imports[path]) \in Nat
      /\ DOMAIN p.imports[path] = 1 .. Len(p.imports[path])
      /\ \A k \in DOMAIN p.imports[path] : p.imports[path][k] \in Names(p)
  BY <1>2, LenProperties, ElementOfSeq
<1>4. \A k \in DOMAIN p.imports[path] : FilesNamed(p, path, k) \in Seq(Paths(p))
  BY <1>1, <1>3, Zenon DEF FilesNamed
<1>5. QED
  BY <1>2, <1>3, <1>4, LenProperties

(* A call that begins has gone past nothing.                               *)
LEMMA PastNothing ==
  ASSUME NEW p, IsProject(p), NEW path \in Paths(p)
  PROVE  SafePast(p, path, 1, 1)
<1>1. \A k \in DOMAIN p.imports[path] : ~(k < 1)
  BY FileNumbers
<1>2. \A k \in DOMAIN p.imports[path] :
        \A j \in DOMAIN FilesNamed(p, path, k) : ~(j < 1)
  BY FileNumbers
<1>3. QED
  BY <1>1, <1>2, Zenon DEF SafePast

(* A safe file may be gone past.                                           *)
LEMMA PastFile ==
  ASSUME NEW p, IsProject(p), NEW path \in Paths(p),
         NEW imp \in DOMAIN p.imports[path], NEW n \in Nat,
         SafePast(p, path, imp, n), SafeIn(p, FilesNamed(p, path, imp)[n])
  PROVE  SafePast(p, path, imp, n + 1)
<1>1. \A j \in DOMAIN FilesNamed(p, path, imp) : j < n + 1 => j < n \/ j = n
  BY FileNumbers
<1>2. QED
  BY <1>1, Zenon DEF SafePast

(* An import may be gone past after its last file.                         *)
LEMMA PastImport ==
  ASSUME NEW p, IsProject(p), NEW path \in Paths(p),
         NEW imp \in DOMAIN p.imports[path], NEW n \in Nat,
         SafePast(p, path, imp, n), n > Len(FilesNamed(p, path, imp))
  PROVE  SafePast(p, path, imp + 1, 1)
<1>1. \A k \in DOMAIN p.imports[path] : k < imp + 1 => k < imp \/ k = imp
  BY FileNumbers
<1>2. \A j \in DOMAIN FilesNamed(p, path, imp) : j < n
  BY FileNumbers
<1>3. \A k \in DOMAIN p.imports[path] :
        \A j \in DOMAIN FilesNamed(p, path, k) : ~(j < 1)
  BY FileNumbers
<1>4. QED
  BY <1>1, <1>2, <1>3, Zenon DEF SafePast

(* A file whose imports are all gone past is safe itself.                  *)
LEMMA PastAll ==
  ASSUME NEW p, IsProject(p), NEW path \in Paths(p), NEW imp \in Nat, NEW n,
         SafePast(p, path, imp, n), imp > Len(p.imports[path])
  PROVE  SafeIn(p, path)
<1>1. \A k \in DOMAIN p.imports[path] : k < imp
  BY FileNumbers
<1>2. \A k \in DOMAIN p.imports[path] :
        \A j \in DOMAIN FilesNamed(p, path, k) : SafeIn(p, FilesNamed(p, path, k)[j])
  BY <1>1, Zenon DEF SafePast
<1>3. QED
  BY <1>2, Zenon DEF SafeIn, CirclesIn

(* A waiting call has not gone past the file it waits for.                 *)
PastOf(fs, i) == IF i = Len(fs) THEN fs[i].file ELSE fs[i].file - 1

(* What the active calls have gone past is safe,                           *)
CallsSafe(p, us, fs) ==
  \A i \in DOMAIN fs :
    SafePast(p, us[fs[i].u].path, fs[i].imp, PastOf(fs, i))

(* and so is an included unit gone past, unless its call is active.        *)
UnitsSafe(p, us, fs, r) ==
  \A u \in DOMAIN us :
    us[u].included /\ u < r
      => SafeIn(p, us[u].path) \/ \E i \in DOMAIN fs : fs[i].u = u

LoadedSafe(p, us) == \A u \in DOMAIN us : us[u].loaded => SafeIn(p, us[u].path)

Grounded ==
  /\ LoadedSafe(proj, units)
  /\ status \notin Errors =>
       CallsSafe(proj, units, frames) /\ UnitsSafe(proj, units, frames, root)

(* In what a merge leaves no file is on a circle.                          *)
LEMMA GroundedMerges ==
  ASSUME TypeOK, Stages, Grounded
  PROVE  CycleNeverMerged
<1> SUFFICES ASSUME status \in Merged,
                    NEW S \in SUBSET Included, S # {},
                    \A u \in S : \E v \in S : units[v].path \in Targets(u)
             PROVE  FALSE
  BY DEF CycleNeverMerged, ImportCycle
<1>1. frames = <<>> /\ root > Len(units) /\ status \notin Errors
  BY DEF Stages, Merged, Errors
<1>2. \A u \in Included : u \in DOMAIN units /\ units[u].included /\ u < root
  <2>1. units \in Seq(UnitType) /\ root \in Nat
    BY DEF TypeOK, UnitType
  <2>2. DOMAIN units = 1 .. Len(units) /\ Len(units) \in Nat
    BY <2>1, LenProperties
  <2>3. QED
    BY <1>1, <2>1, <2>2 DEF Included
<1>3. \A u \in Included : SafeIn(proj, units[u].path)
  <2>1. DOMAIN frames = {}
    BY <1>1
  <2>2. QED
    BY <1>1, <1>2, <2>1, Zenon DEF Grounded, UnitsSafe
<1> DEFINE P == {units[u].path : u \in S}
<1>4. P \in SUBSET Paths(proj)
  BY <1>2, UnitFacts
<1>5. ASSUME NEW u \in S
      PROVE  \E k \in DOMAIN proj.imports[units[u].path] :
               \E j \in DOMAIN FilesNamed(proj, units[u].path, k) :
                 FilesNamed(proj, units[u].path, k)[j] \in P
  <2>1. PICK v \in S : units[v].path \in Targets(u)
    BY <1>5
  <2>2. PICK k \in DOMAIN Imports(u) : units[v].path \in FilesOf(Imports(u)[k])
    BY <2>1 DEF Targets, ToSet
  <2>3. PICK j \in DOMAIN proj.resolve[Imports(u)[k]] :
          proj.resolve[Imports(u)[k]][j] = units[v].path
    BY <2>2 DEF FilesOf, ToSet
  <2>4. units[v].path \in P
    BY <2>1
  <2> HIDE DEF P
  <2>5. QED
    BY <2>2, <2>3, <2>4 DEF FilesNamed, Imports
<1>6. P \in CirclesIn(proj)
  BY <1>4, <1>5 DEF CirclesIn
<1>7. PICK u : u \in S
  OBVIOUS
<1>8. units[u].path \in P /\ SafeIn(proj, units[u].path)
  BY <1>3, <1>7
<1>9. QED
  BY <1>6, <1>8, Zenon DEF SafeIn

(* imports_loaded is set at the end of a call only.                        *)
LEMMA LoadedBefore ==
  ASSUME TypeOK, [Next]_vars, NEW u \in DOMAIN units', units'[u].loaded
  PROVE  \/ u \in DOMAIN units /\ units[u].loaded
         \/ EndCall /\ u = Top.u
<1>1. CASE LoadEntry \/ LoadSibling \/ LoadFile
  <2>1. CASE units' = units
    BY <2>1
  <2>2. CASE \E path \in Paths(proj), included \in BOOLEAN :
               units' = Append(units, Unit(path, included))
    <3>1. PICK path \in Paths(proj), included \in BOOLEAN :
                 units' = Append(units, Unit(path, included))
      BY <2>2
    <3>2. \/ u \in DOMAIN units /\ units'[u] = units[u]
          \/ units'[u] = Unit(path, included)
      BY <3>1, UnitsPush
    <3>3. Unit(path, included).loaded = FALSE
      BY DEF Unit
    <3>4. QED
      BY <3>2, <3>3, Zenon
  <2>3. QED
    BY <1>1, <2>1, <2>2, PushSteps
<1>2. CASE VisitFile
  <2>1. PICK v \in DOMAIN units : units' = [units EXCEPT ![v].included = TRUE]
    BY <1>2, Zenon DEF VisitFile, Find
  <2>2. \A w \in DOMAIN units : units[w] \in UnitType
    BY UnitFacts
  <2>3. QED
    BY <2>1, <2>2 DEF UnitType
<1>3. CASE EndCall
  <2>1. Top.u \in DOMAIN units
    BY <1>3, TopFacts DEF EndCall, InCall
  <2>2. units' = units \/ units' = [units EXCEPT ![Top.u].loaded = TRUE]
    BY <1>3, Zenon DEF EndCall
  <2>3. QED
    BY <1>3, <2>1, <2>2
<1>4. CASE \/ SiblingsDone \/ VisitRoot \/ Crash \/ Circular \/ NextImport
           \/ MergeAndCheck \/ UNCHANGED vars
  <2>1. units' = units
    BY <1>4 DEF SiblingsDone, VisitRoot, Crash, Circular, NextImport,
                MergeAndCheck, vars
  <2>2. QED
    BY <2>1
<1>5. QED
  BY <1>1, <1>2, <1>3, <1>4 DEF Next

(* A call that ends has shown the file of its unit safe.                   *)
LEMMA EndCallSafe ==
  ASSUME TypeOK, Grounded, EndCall
  PROVE  SafeIn(proj, units[Top.u].path)
<1>1. /\ frames # <<>> /\ Top.imp > Len(Imports(Top.u)) /\ status \notin Errors
  BY DEF EndCall, InCall, Errors
<1>2. /\ Top \in FrameType /\ Top = frames[Len(frames)]
      /\ Len(frames) \in DOMAIN frames /\ Top.u \in DOMAIN units
  BY <1>1, TopFacts
<1>3. SafePast(proj, units[Top.u].path, Top.imp, Top.file)
  BY <1>1, <1>2, Zenon DEF Grounded, CallsSafe, PastOf
<1>4. /\ units[Top.u].path \in Paths(proj) /\ IsProject(proj)
      /\ Top.imp \in Nat /\ Top.imp > Len(proj.imports[units[Top.u].path])
  BY <1>1, <1>2, UnitFacts DEF TypeOK, FrameType, Imports
<1>5. QED
  BY <1>3, <1>4, PastAll

(* Every unit marked loaded is safe.                                       *)
LEMMA LoadedSafeStep ==
  ASSUME TypeOK, Grown, Grounded, [Next]_vars
  PROVE  LoadedSafe(proj', units')
<1> SUFFICES ASSUME NEW u \in DOMAIN units', units'[u].loaded
             PROVE  SafeIn(proj', units'[u].path)
  BY Zenon DEF LoadedSafe
<1>1. u \in DOMAIN units /\ SafeIn(proj, units[u].path)
  <2>1. CASE u \in DOMAIN units /\ units[u].loaded
    BY <2>1, Zenon DEF Grounded, LoadedSafe
  <2>2. CASE EndCall /\ u = Top.u
    BY <2>2, EndCallSafe, TopFacts DEF EndCall, InCall
  <2>3. QED
    BY <2>1, <2>2, LoadedBefore
<1>2. QED
  BY <1>1, Zenon DEF Grown

(* A safe file the innermost call goes past keeps the calls safe.          *)
LEMMA AdvancedSafe ==
  ASSUME TypeOK, Grown, status = "imports", frames # <<>>,
         Top.imp <= Len(Imports(Top.u)), Top.file <= Len(Files),
         CallsSafe(proj, units, frames), NEW fs, Advanced(fs)
  PROVE  /\ SafeIn(proj, Files[Top.file]) => CallsSafe(proj, units', fs)
         /\ \A i \in DOMAIN fs :
              SafePast(proj, units'[fs[i].u].path, fs[i].imp, fs[i].file - 1)
<1>1. /\ Top = frames[Len(frames)] /\ Len(frames) \in DOMAIN frames
      /\ Top.u \in DOMAIN units /\ Top.imp \in DOMAIN Imports(Top.u)
      /\ Top.file \in Nat
      /\ \A i \in DOMAIN frames : frames[i].u \in DOMAIN units /\ frames[i] \in FrameType
  BY TopFacts, ImportFacts, FramesTyped DEF FrameType
<1>2. \A i \in DOMAIN frames :
        /\ fs[i].u = frames[i].u /\ fs[i].imp = frames[i].imp
        /\ fs[i].file = IF i = Len(frames) THEN frames[i].file + 1
                        ELSE frames[i].file
        /\ units'[fs[i].u].path = units[frames[i].u].path
  BY <1>1, Zenon DEF Advanced, Grown
<1>3. DOMAIN fs = DOMAIN frames /\ Len(fs) = Len(frames)
  BY DEF Advanced
<1>4. \A i \in DOMAIN frames :
        SafePast(proj, units[frames[i].u].path, frames[i].imp, PastOf(frames, i))
  BY DEF CallsSafe
<1>5. \A i \in DOMAIN frames : fs[i].file - 1 = PastOf(frames, i)
  <2>1. \A i \in DOMAIN frames : frames[i].file \in Nat
    BY <1>1 DEF FrameType
  <2>2. QED
    BY <1>2, <2>1 DEF PastOf
<1>6. \A i \in DOMAIN fs :
        SafePast(proj, units'[fs[i].u].path, fs[i].imp, fs[i].file - 1)
  BY <1>2, <1>3, <1>4, <1>5, Zenon
<1>7. ASSUME SafeIn(proj, Files[Top.file])
      PROVE  CallsSafe(proj, units', fs)
  <2> SUFFICES ASSUME NEW i \in DOMAIN frames
               PROVE  SafePast(proj, units'[fs[i].u].path, fs[i].imp, PastOf(fs, i))
    BY <1>3, Zenon DEF CallsSafe
  <2>1. CASE i # Len(frames)
    BY <1>3, <1>6, <2>1, Zenon DEF PastOf
  <2>2. CASE i = Len(frames)
    <3>1. PastOf(fs, i) = Top.file + 1 /\ PastOf(frames, i) = Top.file
          /\ frames[i] = Top
      BY <1>1, <1>2, <1>3, <2>2, Zenon DEF PastOf
    <3>2. SafePast(proj, units[Top.u].path, Top.imp, Top.file)
      BY <1>4, <3>1, Zenon
    <3>3. FilesNamed(proj, units[Top.u].path, Top.imp) = Files
      BY DEF FilesNamed, Files, Import, Imports
    <3>4. units[Top.u].path \in Paths(proj) /\ IsProject(proj)
          /\ Top.imp \in DOMAIN proj.imports[units[Top.u].path]
      BY <1>1, UnitFacts DEF TypeOK, Imports
    <3>5. SafePast(proj, units[Top.u].path, Top.imp, Top.file + 1)
      BY <1>1, <1>7, <3>2, <3>3, <3>4, PastFile
    <3>6. QED
      BY <1>2, <3>1, <3>5, Zenon
  <2>3. QED
    BY <2>1, <2>2
<1>8. QED
  BY <1>6, <1>7

(* A call that begins has gone past nothing, and its callers wait.         *)
LEMMA BegunSafe ==
  ASSUME NEW p, IsProject(p), NEW us, NEW S, NEW fs \in Seq(S), NEW g \in S,
         us[g.u].path \in Paths(p), g.imp = 1, g.file = 1,
         \A i \in DOMAIN fs :
           SafePast(p, us[fs[i].u].path, fs[i].imp, fs[i].file - 1)
  PROVE  CallsSafe(p, us, Append(fs, g))
<1> DEFINE gs == Append(fs, g)
<1>1. /\ Len(fs) \in Nat /\ DOMAIN fs = 1 .. Len(fs) /\ Len(gs) = Len(fs) + 1
      /\ DOMAIN gs = 1 .. Len(fs) + 1
      /\ \A i \in DOMAIN fs : gs[i] = fs[i]
      /\ gs[Len(fs) + 1] = g
  BY PushFacts
<1> HIDE DEF gs
<1>2. \A i \in DOMAIN gs : (i \in DOMAIN fs /\ i # Len(gs)) \/ i = Len(gs)
  BY <1>1
<1>3. ASSUME NEW i \in DOMAIN fs, i # Len(gs)
      PROVE  SafePast(p, us[gs[i].u].path, gs[i].imp, PastOf(gs, i))
  <2>1. gs[i] = fs[i] /\ PastOf(gs, i) = fs[i].file - 1
    BY <1>1, <1>3, Zenon DEF PastOf
  <2>2. QED
    BY <2>1
<1>4. ASSUME NEW i, i = Len(gs)
      PROVE  SafePast(p, us[gs[i].u].path, gs[i].imp, PastOf(gs, i))
  <2>1. gs[i] = g /\ PastOf(gs, i) = 1
    BY <1>1, <1>4, Zenon DEF PastOf
  <2>2. SafePast(p, us[g.u].path, 1, 1)
    BY PastNothing
  <2>3. QED
    BY <2>1, <2>2
<1>5. QED
  BY <1>2, <1>3, <1>4, Zenon DEF CallsSafe, gs

(* The visit of a file.                                                    *)
LEMMA VisitSafe ==
  ASSUME TypeOK, TypeOK', Grown, Grounded, LoadedSafe(proj', units'),
         VisitFile \/ LoadFile, status' \notin Errors
  PROVE  /\ CallsSafe(proj, units', frames')
         /\ UnitsSafe(proj, units', frames', root')
<1>1. PICK u, fs : VisitOf(u, fs)
  BY VisitWays
<1>2. /\ status = "imports" /\ frames # <<>> /\ root' = root /\ proj' = proj
      /\ Top.imp <= Len(Imports(Top.u)) /\ Top.file <= Len(Files)
      /\ status \notin Errors
  BY DEF VisitFile, LoadFile, InCall, Errors
<1>3. /\ Advanced(fs) /\ u \in DOMAIN units' /\ units'[u].path = Files[Top.file]
      /\ \A v \in DOMAIN units' :
           v # u => v \in DOMAIN units /\ units'[v] = units[v]
      /\ NextWay(u, fs)
  BY <1>1, Zenon DEF VisitOf
<1>4. CallsSafe(proj, units, frames) /\ UnitsSafe(proj, units, frames, root)
  BY <1>2 DEF Grounded
<1>5. \A i \in DOMAIN frames : i \in DOMAIN fs /\ fs[i].u = frames[i].u
  BY <1>3, Zenon DEF Advanced
<1>6. \A v \in DOMAIN units' : units'[v].included /\ v < root' /\ v # u
        => SafeIn(proj, units'[v].path) \/ \E i \in DOMAIN fs : fs[i].u = v
  <2> SUFFICES ASSUME NEW v \in DOMAIN units', units'[v].included, v < root', v # u
               PROVE  SafeIn(proj, units'[v].path) \/ \E i \in DOMAIN fs : fs[i].u = v
    BY Zenon
  <2>1. v \in DOMAIN units /\ units'[v] = units[v] /\ v < root
    BY <1>2, <1>3
  <2>2. units[v].included
    BY <2>1
  <2>3. SafeIn(proj, units[v].path) \/ \E i \in DOMAIN frames : frames[i].u = v
    BY <1>4, <2>1, <2>2, Zenon DEF UnitsSafe
  <2>4. QED
    BY <1>5, <2>1, <2>3, Zenon
<1>7. CASE frames' = fs /\ units'[u].loaded
  <2>1. SafeIn(proj, units'[u].path)
    BY <1>2, <1>3, <1>7, Zenon DEF LoadedSafe
  <2>2. SafeIn(proj, Files[Top.file])
    BY <1>3, <2>1, Zenon
  <2>3. CallsSafe(proj, units', fs)
    BY <1>2, <1>3, <1>4, <2>2, AdvancedSafe
  <2>4. UnitsSafe(proj, units', fs, root')
    BY <1>6, <2>1, Zenon DEF UnitsSafe
  <2>5. QED
    BY <1>7, <2>3, <2>4
<1>8. CASE /\ frames' = Append(fs, NewFrame(u, Top.stack, units'))
           /\ NewFrame(u, Top.stack, units') \in FrameType
  <2> DEFINE g == NewFrame(u, Top.stack, units')
  <2>1. g.u = u /\ g.imp = 1 /\ g.file = 1
    BY DEF NewFrame, Frame
  <2>2. g \in FrameType /\ frames' = Append(fs, g) /\ fs \in Seq(FrameType)
    BY <1>3, <1>8, Zenon DEF Advanced
  <2> HIDE DEF g
  <2>3. units'[g.u].path \in Paths(proj) /\ IsProject(proj)
    <3>1. Files[Top.file] \in Paths(proj)
      BY <1>2, ImportFacts
    <3>2. QED
      BY <1>3, <2>1, <3>1 DEF TypeOK
  <2>4. \A i \in DOMAIN fs :
          SafePast(proj, units'[fs[i].u].path, fs[i].imp, fs[i].file - 1)
    BY <1>2, <1>3, <1>4, AdvancedSafe
  <2>5. CallsSafe(proj, units', Append(fs, g))
    BY <2>1, <2>2, <2>3, <2>4, BegunSafe
  <2>6. /\ \A i \in DOMAIN fs : i \in DOMAIN Append(fs, g) /\ Append(fs, g)[i] = fs[i]
        /\ Len(fs) + 1 \in DOMAIN Append(fs, g) /\ Append(fs, g)[Len(fs) + 1] = g
    BY <2>2, PushFacts
  <2>7. UnitsSafe(proj, units', Append(fs, g), root')
    BY <1>6, <2>1, <2>6, Zenon DEF UnitsSafe
  <2>8. QED
    BY <2>2, <2>5, <2>7
<1>9. QED
  BY <1>3, <1>7, <1>8 DEF NextWay, Errors

(* The visit of the next unit of the table.                                *)
LEMMA RootSafe ==
  ASSUME TypeOK, Grounded, VisitRoot, status' \notin Errors
  PROVE  /\ CallsSafe(proj, units', frames')
         /\ UnitsSafe(proj, units', frames', root')
<1>1. /\ status = "imports" /\ frames = <<>> /\ root \in DOMAIN units
      /\ root' = root + 1 /\ units' = units /\ root \in Nat
      /\ status \notin Errors
  BY RootWays DEF TypeOK, Errors
<1>2. \A v \in DOMAIN units : v < root' => v < root \/ v = root
  BY <1>1, UnitFacts
<1>3. \A v \in DOMAIN units : units[v].included /\ v < root
                                => SafeIn(proj, units[v].path)
  <2>1. DOMAIN frames = {}
    BY <1>1
  <2>2. QED
    BY <1>1, <2>1, Zenon DEF Grounded, UnitsSafe
<1>4. CASE frames' = <<>> /\ (units[root].included => units[root].loaded)
  <2>1. DOMAIN frames' = {}
    BY <1>4
  <2>2. units[root].included => SafeIn(proj, units[root].path)
    BY <1>1, <1>4, Zenon DEF Grounded, LoadedSafe
  <2>3. QED
    BY <1>1, <1>2, <1>3, <2>1, <2>2, Zenon DEF CallsSafe, UnitsSafe
<1>5. CASE /\ frames' = <<NewFrame(root, <<>>, units)>>
           /\ NewFrame(root, <<>>, units) \in FrameType
  <2> DEFINE g == NewFrame(root, <<>>, units)
  <2>1. g.u = root /\ g.imp = 1 /\ g.file = 1
    BY DEF NewFrame, Frame
  <2>2. g \in FrameType /\ frames' = <<g>>
    BY <1>5
  <2> HIDE DEF g
  <2>3. units[g.u].path \in Paths(proj) /\ IsProject(proj)
    BY <1>1, <2>1, UnitFacts DEF TypeOK
  <2>4. <<>> \in Seq(FrameType) /\ DOMAIN <<>> = {}
    BY EmptySeq
  <2>5. CallsSafe(proj, units, Append(<<>>, g))
    BY <2>1, <2>2, <2>3, <2>4, BegunSafe
  <2>6. Append(<<>>, g) = <<g>> /\ 1 \in DOMAIN <<g>> /\ <<g>>[1] = g
    OBVIOUS
  <2>7. UnitsSafe(proj, units, <<g>>, root')
    BY <1>2, <1>3, <2>1, <2>6, Zenon DEF UnitsSafe
  <2>8. QED
    BY <1>1, <2>2, <2>5, <2>6, <2>7
<1>6. QED
  BY <1>4, <1>5, RootWays DEF Errors

(* Going on to the next import.                                            *)
LEMMA NextImportSafe ==
  ASSUME TypeOK, TypeOK', Grown, Grounded, NextImport
  PROVE  /\ CallsSafe(proj, units', frames')
         /\ UnitsSafe(proj, units', frames', root')
<1> DEFINE g == [Top EXCEPT !.imp = @ + 1, !.file = 1]
<1>1. /\ status \notin Errors /\ frames # <<>> /\ root' = root /\ units' = units
      /\ frames' = Append(Base, g)
      /\ Top.imp <= Len(Imports(Top.u)) /\ Top.file > Len(Files)
  BY DEF NextImport, InCall, Errors
<1>2. /\ Top \in FrameType /\ Top.u \in DOMAIN units
      /\ Top = frames[Len(frames)] /\ Len(frames) \in DOMAIN frames
      /\ Top.imp \in DOMAIN Imports(Top.u) /\ Top.file \in Nat
  BY <1>1, TopFacts, ImportFacts DEF FrameType
<1>3. g \in FrameType /\ g.u = Top.u /\ g.imp = Top.imp + 1 /\ g.file = 1
  <2>1. Top.imp + 1 \in Nat \ {0} /\ 1 \in Nat \ {0}
    BY <1>2 DEF FrameType
  <2>2. ASSUME NEW n \in Nat \ {0}, NEW m \in Nat \ {0}
        PROVE  /\ [Top EXCEPT !.imp = n, !.file = m] \in FrameType
               /\ [Top EXCEPT !.imp = n, !.file = m].u = Top.u
               /\ [Top EXCEPT !.imp = n, !.file = m].imp = n
               /\ [Top EXCEPT !.imp = n, !.file = m].file = m
    BY <1>2 DEF FrameType
  <2>3. QED
    BY <2>1, <2>2, Zenon
<1> HIDE DEF g
<1>4. /\ Len(frames') = Len(frames)
      /\ DOMAIN frames' = DOMAIN frames
      /\ \A i \in DOMAIN frames : i # Len(frames) => frames'[i] = frames[i]
      /\ frames'[Len(frames)] = g
  <2>1. /\ Base \in Seq(FrameType) /\ Len(Base) = Len(frames) - 1
        /\ DOMAIN Base = 1 .. Len(frames) - 1
        /\ DOMAIN frames = 1 .. Len(frames) /\ Len(frames) \in Nat
        /\ \A i \in DOMAIN Base : Base[i] = frames[i]
    <3>1. frames \in Seq(FrameType)
      BY DEF TypeOK, FrameType
    <3>2. QED
      BY <1>1, <3>1, TopFacts, LenProperties
  <2>2. /\ Len(Append(Base, g)) = Len(frames)
        /\ DOMAIN Append(Base, g) = DOMAIN frames
        /\ \A i \in DOMAIN frames :
             Append(Base, g)[i] = IF i = Len(frames) THEN g ELSE frames[i]
    BY <1>3, <2>1, PushFacts
  <2>3. QED
    BY <1>1, <1>2, <2>2, Zenon
<1>5. SafePast(proj, units[Top.u].path, Top.imp + 1, 1)
  <2>1. SafePast(proj, units[Top.u].path, Top.imp, Top.file)
    BY <1>1, <1>2, Zenon DEF Grounded, CallsSafe, PastOf
  <2>2. FilesNamed(proj, units[Top.u].path, Top.imp) = Files
    BY DEF FilesNamed, Files, Import, Imports
  <2>3. units[Top.u].path \in Paths(proj) /\ IsProject(proj)
        /\ Top.imp \in DOMAIN proj.imports[units[Top.u].path]
    BY <1>2, UnitFacts DEF TypeOK, Imports
  <2>4. QED
    BY <1>1, <1>2, <2>1, <2>2, <2>3, PastImport
<1>6. CallsSafe(proj, units, frames')
  <2> SUFFICES ASSUME NEW i \in DOMAIN frames
               PROVE  SafePast(proj, units[frames'[i].u].path, frames'[i].imp,
                               PastOf(frames', i))
    BY <1>4, Zenon DEF CallsSafe
  <2>1. CASE i # Len(frames)
    <3>1. SafePast(proj, units[frames[i].u].path, frames[i].imp, PastOf(frames, i))
      BY <1>1, Zenon DEF Grounded, CallsSafe
    <3>2. frames'[i] = frames[i] /\ PastOf(frames', i) = PastOf(frames, i)
      BY <1>4, <2>1, Zenon DEF PastOf
    <3>3. QED
      BY <3>1, <3>2
  <2>2. CASE i = Len(frames)
    <3>1. frames'[i] = g /\ PastOf(frames', i) = 1
      BY <1>3, <1>4, <2>2, Zenon DEF PastOf
    <3>2. QED
      BY <1>3, <1>5, <3>1
  <2>3. QED
    BY <2>1, <2>2
<1>7. \A i \in DOMAIN frames : i \in DOMAIN frames' /\ frames'[i].u = frames[i].u
  BY <1>2, <1>3, <1>4, Zenon
<1>8. UnitsSafe(proj, units, frames', root)
  BY <1>1, <1>7, Zenon DEF Grounded, UnitsSafe
<1>9. QED
  BY <1>1, <1>6, <1>8

(* The end of a call: its caller goes past the file it waited for.         *)
LEMMA EndCallKeepsSafe ==
  ASSUME TypeOK, Grown, Grounded, CallsFit(proj, units, frames), EndCall
  PROVE  /\ CallsSafe(proj, units', frames')
         /\ UnitsSafe(proj, units', frames', root')
<1>1. /\ status \notin Errors /\ frames # <<>> /\ root' = root
      /\ frames' = Base
      /\ SafeIn(proj, units[Top.u].path)
  BY EndCallSafe DEF EndCall, InCall, Errors
<1>2. /\ Top = frames[Len(frames)] /\ Len(frames) \in DOMAIN frames
      /\ DOMAIN frames = 1 .. Len(frames) /\ Len(frames) \in Nat
      /\ DOMAIN frames' = 1 .. Len(frames) - 1
      /\ Len(frames') = Len(frames) - 1
      /\ \A i \in DOMAIN frames' : frames'[i] = frames[i]
      /\ \A i \in DOMAIN frames : frames[i].u \in DOMAIN units /\ frames[i] \in FrameType
  <2>1. frames \in Seq(FrameType)
    BY DEF TypeOK, FrameType
  <2>2. QED
    BY <1>1, <2>1, TopFacts, FramesTyped, LenProperties
<1>3. \A i \in DOMAIN frames' : i \in DOMAIN frames /\ i # Len(frames)
                                /\ frames'[i] = frames[i]
  BY <1>2
<1>4. \A i \in DOMAIN frames :
        /\ units'[frames[i].u].path = units[frames[i].u].path
        /\ SafePast(proj, units[frames[i].u].path, frames[i].imp, PastOf(frames, i))
  BY <1>1, <1>2, Zenon DEF Grown, Grounded, CallsSafe
<1>5. CallsSafe(proj, units', frames')
  <2> SUFFICES ASSUME NEW i \in DOMAIN frames'
               PROVE  SafePast(proj, units[frames[i].u].path, frames[i].imp,
                               PastOf(frames', i))
    BY <1>3, <1>4, Zenon DEF CallsSafe
  <2>1. SafePast(proj, units[frames[i].u].path, frames[i].imp, frames[i].file - 1)
    BY <1>3, <1>4, Zenon DEF PastOf
  <2>2. CASE i # Len(frames')
    BY <1>3, <2>1, <2>2, Zenon DEF PastOf
  <2>3. CASE i = Len(frames')
    <3>1. i \in DOMAIN frames /\ i + 1 = Len(frames) /\ (i + 1) - 1 = i
      BY <1>2, <2>3
    <3>2. WaitsFor(proj, units, frames[i], Top)
      <4>1. WaitsFor(proj, units, frames[(i + 1) - 1], frames[i + 1])
        BY <1>2, <3>1, Zenon DEF CallsFit, Chained
      <4>2. QED
        BY <1>2, <3>1, <4>1, Zenon
    <3> DEFINE path == units[frames[i].u].path
               n == frames[i].file - 1
    <3>3. /\ frames[i].imp \in DOMAIN proj.imports[path]
          /\ n \in DOMAIN FilesNamed(proj, path, frames[i].imp)
          /\ FilesNamed(proj, path, frames[i].imp)[n] = units[Top.u].path
      BY <3>2 DEF WaitsFor, FilesIn, ImportsIn, FilesNamed
    <3>4. path \in Paths(proj) /\ IsProject(proj) /\ n \in Nat
          /\ n + 1 = frames[i].file
      <4>1. frames[i].u \in DOMAIN units /\ frames[i].file \in Nat \ {0}
        BY <1>2, <3>1 DEF FrameType
      <4>2. path \in Paths(proj) /\ IsProject(proj)
        BY <4>1, UnitFacts DEF TypeOK
      <4>3. n \in Nat /\ n + 1 = frames[i].file
        BY <4>1
      <4>4. QED
        BY <4>2, <4>3
    <3>5. SafePast(proj, path, frames[i].imp, n)
      BY <2>1
    <3>6. SafeIn(proj, FilesNamed(proj, path, frames[i].imp)[n])
      BY <1>1, <3>3, Zenon
    <3> HIDE DEF path, n
    <3>7. SafePast(proj, path, frames[i].imp, n + 1)
      BY <3>3, <3>4, <3>5, <3>6, PastFile
    <3>8. PastOf(frames', i) = n + 1
      BY <1>3, <2>3, <3>4, Zenon DEF PastOf
    <3>9. QED
      BY <3>7, <3>8 DEF path
  <2>4. QED
    BY <2>2, <2>3
<1>6. UnitsSafe(proj, units', frames', root)
  <2> SUFFICES ASSUME NEW v \in DOMAIN units', units'[v].included, v < root
               PROVE  SafeIn(proj, units'[v].path)
                      \/ \E i \in DOMAIN frames' : frames'[i].u = v
    BY DEF UnitsSafe
  <2>1. v \in DOMAIN units /\ units[v].included /\ units'[v].path = units[v].path
    <3>1. units' = units \/ units' = [units EXCEPT ![Top.u].loaded = TRUE]
      BY Zenon DEF EndCall
    <3>2. \A w \in DOMAIN units : units[w] \in UnitType
      BY UnitFacts
    <3>3. QED
      BY <1>2, <3>1, <3>2 DEF UnitType
  <2>2. SafeIn(proj, units[v].path) \/ \E i \in DOMAIN frames : frames[i].u = v
    BY <1>1, <2>1, Zenon DEF Grounded, UnitsSafe
  <2>3. \A i \in DOMAIN frames : i \in DOMAIN frames' \/ i = Len(frames)
    BY <1>2
  <2>4. QED
    BY <1>1, <1>2, <1>3, <2>1, <2>2, <2>3, Zenon
<1>7. QED
  BY <1>1, <1>5, <1>6

(* Every step keeps what has been gone past safe.                          *)
LEMMA GroundedStep ==
  ASSUME TypeOK, TypeOK', Grown, Stages, CallsFit(proj, units, frames), Grounded,
         [Next]_vars
  PROVE  Grounded'
<1>1. LoadedSafe(proj', units') /\ proj' = proj
  BY LoadedSafeStep DEF Grown
<1> SUFFICES ASSUME status' \notin Errors
             PROVE  /\ CallsSafe(proj, units', frames')
                    /\ UnitsSafe(proj, units', frames', root')
  BY <1>1 DEF Grounded, Errors
<1>2. CASE LoadEntry \/ LoadSibling \/ SiblingsDone
  <2>1. frames' = <<>> /\ root' = 1
    BY <1>2 DEF LoadEntry, LoadSibling, SiblingsDone, Stages
  <2>2. DOMAIN frames' = {}
    BY <2>1
  <2>3. \A u \in DOMAIN units' : ~(u < root')
    <3>1. units' \in Seq(UnitType)
      BY TypeParts, TypeStep, <1>1 DEF TypeOK, UnitType, Paths
    <3>2. QED
      BY <2>1, <3>1, LenProperties
  <2>4. QED
    BY <2>2, <2>3, Zenon DEF CallsSafe, UnitsSafe
<1>3. CASE VisitFile \/ LoadFile
  BY <1>1, <1>3, VisitSafe
<1>4. CASE VisitRoot
  BY <1>4, RootSafe
<1>5. CASE NextImport
  BY <1>5, NextImportSafe
<1>6. CASE EndCall
  BY <1>6, EndCallKeepsSafe
<1>7. CASE Crash \/ Circular
  BY <1>7 DEF Crash, Circular, Errors
<1>8. CASE MergeAndCheck \/ UNCHANGED vars
  <2>1. /\ units' = units /\ frames' = frames /\ root' = root
        /\ status \notin Errors
    BY <1>8 DEF MergeAndCheck, vars, Errors
  <2>2. QED
    BY <2>1 DEF Grounded
<1>9. QED
  BY <1>2, <1>3, <1>4, <1>5, <1>6, <1>7, <1>8, Zenon DEF Next

(* No program with a circle of files is merged (CycleNeverMerged), whether *)
(* or not the check of load_imports_recursive by package name sees it.     *)
THEOREM NoCycleMerged == Spec => []CycleNeverMerged
<1> DEFINE Fits == CallsFit(proj, units, frames)
<1>1. Init => Fits /\ Grounded
  <2> SUFFICES ASSUME Init PROVE Grounded
    BY CallsFitInit
  <2>1. DOMAIN units = {} /\ DOMAIN frames = {}
    BY DEF Init
  <2>2. QED
    BY <2>1, Zenon DEF Grounded, LoadedSafe, CallsSafe, UnitsSafe
<1>2. TypeOK /\ TypeOK' /\ Inv /\ Fits /\ Grounded /\ [Next]_vars
        => Fits' /\ Grounded'
  BY StepGrown, CallsFitStep, GroundedStep DEF Inv
<1>3. TypeOK /\ Inv /\ Grounded => CycleNeverMerged
  BY GroundedMerges DEF Inv
<1>4. QED
  BY <1>1, <1>2, <1>3, TypeCorrect, Invariant, PTL DEF Spec

-----------------------------------------------------------------------------
(* The loader implements ImportClosure.                                    *)

(* Calls are made for included units only.                                 *)
CallsIncluded == \A i \in DOMAIN frames : units[frames[i].u].included

(* The start files are in the program before the first import is read.     *)
StartIncluded ==
  /\ status = "entry" => sib = 1
  /\ status = "siblings" =>
       /\ proj.pkg[Entry] # NoPackage
       /\ InProgram(Entry)
       /\ \A i \in DOMAIN proj.dir :
            i < sib /\ proj.dir[i] \in StartFiles => InProgram(proj.dir[i])
  /\ status \in {"imports"} \cup Merged => \A f \in StartFiles : InProgram(f)

(* Units stay included, and calls begin for included units.                *)
LEMMA CallsIncludedStep ==
  ASSUME TypeOK, TypeOK', Grown, CallsIncluded, [Next]_vars
  PROVE  CallsIncluded'
<1>1. ASSUME NEW fs, Carried(fs)
      PROVE  \A i \in DOMAIN fs : units'[fs[i].u].included
  <2>1. \A i \in DOMAIN frames : frames[i].u \in DOMAIN units
    BY FramesTyped
  <2>2. QED
    BY <1>1, <2>1, Zenon DEF Carried, CallsIncluded, Grown
<1>2. CASE Carried(frames')
  BY <1>1, <1>2 DEF CallsIncluded
<1>3. CASE frames # <<>> /\ frames' = Base
  <2>1. \A i \in DOMAIN Base : i \in DOMAIN frames /\ Base[i] = frames[i]
    <3>1. frames \in Seq(FrameType)
      BY DEF TypeOK, FrameType
    <3>2. QED
      BY <1>3, <3>1, PopFacts DEF Base
  <2>2. \A i \in DOMAIN frames : units'[frames[i].u].included
    BY <1>1, SameCarried
  <2>3. QED
    BY <1>3, <2>1, <2>2, Zenon DEF CallsIncluded
<1>4. CASE \E u, fs : Begun(u, fs)
  <2>1. PICK u, fs : Begun(u, fs)
    BY <1>4
  <2> DEFINE g == NewFrame(u, Top.stack, units')
  <2>2. /\ Carried(fs) /\ fs \in Seq(FrameType) /\ units'[u].included
        /\ g \in FrameType /\ frames' = Append(fs, g)
    BY <2>1 DEF Begun, Carried
  <2>3. g.u = u
    BY DEF NewFrame, Frame
  <2> HIDE DEF g
  <2>4. \A i \in DOMAIN Append(fs, g) :
           (i \in DOMAIN fs /\ Append(fs, g)[i] = fs[i]) \/ Append(fs, g)[i] = g
    BY <2>2, AppendAt
  <2>5. \A i \in DOMAIN Append(fs, g) : units'[Append(fs, g)[i].u].included
    BY <1>1, <2>2, <2>3, <2>4
  <2>6. QED
    BY <2>2, <2>5 DEF CallsIncluded
<1>5. CASE \E u : BegunFirst(u)
  <2>1. PICK u : BegunFirst(u)
    BY <1>5
  <2>2. \A i \in DOMAIN frames' : frames'[i].u = u
    BY <2>1 DEF BegunFirst, NewFrame, Frame
  <2>3. units'[u].included
    BY <2>1 DEF BegunFirst
  <2>4. QED
    BY <2>2, <2>3, Zenon DEF CallsIncluded
<1>6. QED
  BY <1>2, <1>3, <1>4, <1>5, StepCalls DEF CallsStep

(* The unit pushed last is in the program when it is included.             *)
LEMMA PushedInProgram ==
  ASSUME TypeOK, NEW path \in Paths(proj), NEW included \in BOOLEAN,
         units' = Append(units, Unit(path, included))
  PROVE  included => \A f : f = path => InProgram(f)'
<1>1. Len(units) + 1 \in DOMAIN units' /\ units'[Len(units) + 1] = Unit(path, included)
  BY UnitsPush
<1>2. Unit(path, included).path = path /\ Unit(path, included).included = included
  BY DEF Unit
<1>3. QED
  BY <1>1, <1>2, Zenon DEF InProgram

(* The files of the program.                                               *)
Needed == {units[u].path : u \in Included}

(* They are the paths of which InProgram speaks.                           *)
LEMMA NeededIs ==
  ASSUME TypeOK
  PROVE  /\ \A f : f \in Needed <=> InProgram(f)
         /\ Needed \subseteq Paths(proj)
BY UnitFacts DEF Needed, InProgram, Included

(* A push adds the file of an included unit, and nothing else.             *)
LEMMA NeededPush ==
  ASSUME TypeOK, NEW path \in Paths(proj), NEW included \in BOOLEAN,
         units' = Append(units, Unit(path, included))
  PROVE  Needed' = IF included THEN Needed \cup {path} ELSE Needed
<1>1. /\ \A u \in DOMAIN units' : u \in DOMAIN units \/ u = Len(units) + 1
      /\ \A u \in DOMAIN units : u \in DOMAIN units' /\ units'[u] = units[u]
      /\ Len(units) + 1 \in DOMAIN units'
      /\ units'[Len(units) + 1] = Unit(path, included)
  BY UnitsPush
<1>2. Unit(path, included).path = path /\ Unit(path, included).included = included
  BY DEF Unit
<1>3. ASSUME NEW f
      PROVE  f \in Needed' <=> f \in Needed \/ (included /\ f = path)
  <2>1. f \in Needed' <=> \E u \in DOMAIN units' : units'[u].included /\ units'[u].path = f
    BY DEF Needed, Included
  <2>2. f \in Needed <=> \E u \in DOMAIN units : units[u].included /\ units[u].path = f
    BY DEF Needed, Included
  <2>3. QED
    BY <1>1, <1>2, <2>1, <2>2
<1>4. QED
  BY <1>3

(* A visit that does not fail adds its file.                               *)
LEMMA NeededVisit ==
  ASSUME Grown, NEW u, NEW fs, VisitOf(u, fs), status' \notin Errors
  PROVE  Needed' = Needed \cup {Files[Top.file]}
<1>1. /\ u \in DOMAIN units' /\ units'[u].path = Files[Top.file]
      /\ units'[u].included
      /\ \A v \in DOMAIN units' : v # u => v \in DOMAIN units /\ units'[v] = units[v]
  BY Zenon DEF VisitOf
<1>2. \A v \in DOMAIN units : /\ v \in DOMAIN units'
                              /\ units'[v].path = units[v].path
                              /\ units[v].included => units'[v].included
  BY DEF Grown
<1>3. ASSUME NEW f
      PROVE  f \in Needed' <=> f \in Needed \/ f = Files[Top.file]
  <2>1. f \in Needed' <=> \E v \in DOMAIN units' : units'[v].included /\ units'[v].path = f
    BY DEF Needed, Included
  <2>2. f \in Needed <=> \E v \in DOMAIN units : units[v].included /\ units[v].path = f
    BY DEF Needed, Included
  <2>3. QED
    BY <1>1, <1>2, <2>1, <2>2
<1>4. QED
  BY <1>3

(* Each start file is included when its stage is over.                     *)
LEMMA StartStep ==
  ASSUME TypeOK, TypeOK', Grown, Stages, StartIncluded, [Next]_vars
  PROVE  StartIncluded'
<1>1. /\ proj' = proj /\ StartFiles' = StartFiles
      /\ \A f : InProgram(f) => InProgram(f)'
  BY GrownKeeps DEF Grown, StartFiles
<1>2. /\ proj.dir \in Seq(Paths(proj)) /\ Entry \in Paths(proj)
      /\ DOMAIN proj.dir = 1 .. Len(proj.dir) /\ Len(proj.dir) \in Nat
      /\ sib \in Nat \ {0}
  BY ProjectFacts, LenProperties DEF TypeOK
<1>3. CASE LoadEntry
  <2>1. /\ status = "entry" /\ sib' = 1
        /\ units' = Append(units, Unit(Entry, TRUE))
        /\ \/ status' = "siblings" /\ proj.pkg[Entry] # NoPackage
           \/ status' = "imports" /\ proj.pkg[Entry] = NoPackage
           \/ status' = "failed"
    BY <1>3 DEF LoadEntry, StartIncluded
  <2>2. \A f : f = Entry => InProgram(f)'
    <3>1. TRUE \in BOOLEAN
      OBVIOUS
    <3>2. QED
      BY <1>2, <2>1, <3>1, PushedInProgram
  <2>3. \A i \in DOMAIN proj.dir : ~(i < sib')
    BY <1>2, <2>1
  <2>4. proj.pkg[Entry] = NoPackage => StartFiles = {Entry}
    BY DEF StartFiles
  <2>5. QED
    BY <1>1, <2>1, <2>2, <2>3, <2>4 DEF StartIncluded, Merged
<1>4. CASE LoadSibling
  <2> DEFINE path == proj.dir[sib]
  <2>1. /\ status = "siblings" /\ sib \in DOMAIN proj.dir /\ sib' = sib + 1
        /\ path \in Paths(proj)
    BY <1>2, <1>4, ElementOfSeq DEF LoadSibling
  <2>2. /\ proj.pkg[Entry] # NoPackage /\ InProgram(Entry)
        /\ \A i \in DOMAIN proj.dir :
             i < sib /\ proj.dir[i] \in StartFiles => InProgram(proj.dir[i])
    BY <2>1 DEF StartIncluded
  <2>3. \A i \in DOMAIN proj.dir : i < sib' => i < sib \/ i = sib
    BY <1>2, <2>1
  <2> HIDE DEF path
  <2>4. status' = "siblings" \/ status' = "failed"
    BY <1>4, <2>1 DEF LoadSibling
  <2>5. ASSUME status' = "siblings", path \in StartFiles
        PROVE  \A f : f = path => InProgram(f)'
    <3>1. CASE path = Entry
      BY <1>1, <2>2, <3>1
    <3>2. CASE path # Entry
      <4> DEFINE included == path \in proj.readable /\ proj.pkg[path] = proj.pkg[Entry]
      <4>1. units' = Append(units, Unit(path, included)) /\ path \in proj.readable
        BY <1>4, <2>5, <3>2 DEF LoadSibling, path
      <4>2. included /\ included \in BOOLEAN
        BY <2>5, <3>2, <4>1 DEF StartFiles
      <4> HIDE DEF included
      <4>3. QED
        BY <2>1, <4>1, <4>2, PushedInProgram DEF path
    <3>3. QED
      BY <3>1, <3>2
  <2>6. ASSUME status' = "siblings"
        PROVE  \A i \in DOMAIN proj.dir : i < sib' /\ proj.dir[i] \in StartFiles
                 => \A f : f = proj.dir[i] => InProgram(f)'
    BY <1>1, <2>2, <2>3, <2>5, <2>6, Zenon DEF path
  <2>7. \A f : f = Entry => InProgram(f)'
    BY <1>1, <2>2, Zenon
  <2>8. QED
    BY <1>1, <2>2, <2>4, <2>6, <2>7 DEF StartIncluded, Merged
<1>5. CASE SiblingsDone
  <2>1. /\ status = "siblings" /\ status' = "imports"
        /\ \A i \in DOMAIN proj.dir : i < sib
    BY <1>2, <1>5 DEF SiblingsDone
  <2>2. \A f \in StartFiles : InProgram(f)
    BY <2>1 DEF StartIncluded, StartFiles, ToSet
  <2>3. QED
    BY <1>1, <2>1, <2>2, Zenon DEF StartIncluded, Merged
<1>6. CASE /\ status = "imports" \/ status' = status
           /\ status' \notin {"entry", "siblings"}
  <2>1. status' \in {"imports"} \cup Merged => status \in {"imports"} \cup Merged
    BY <1>6
  <2>2. \A f \in StartFiles :
          status \in {"imports"} \cup Merged => InProgram(f)
    BY DEF StartIncluded
  <2>3. QED
    BY <1>1, <1>6, <2>1, <2>2, Zenon DEF StartIncluded
<1>7. CASE UNCHANGED vars
  <2>1. sib' = sib /\ status' = status
    BY <1>7 DEF vars
  <2>2. QED
    BY <1>1, <2>1, Zenon DEF StartIncluded
<1>8. CASE VisitRoot \/ VisitFile \/ LoadFile
  BY <1>6, <1>8, VisitStatus
<1>9. CASE Crash \/ Circular \/ NextImport \/ EndCall \/ MergeAndCheck
  <2>1. /\ status = "imports"
        /\ status' \in {"imports", "crash", "circular", "ok", "unresolved"}
    BY <1>9 DEF Crash, Circular, NextImport, EndCall, MergeAndCheck, InCall
  <2>2. QED
    BY <1>6, <2>1
<1>10. QED
  BY <1>3, <1>4, <1>5, <1>7, <1>8, <1>9, Zenon DEF Next

(* The variables of ImportClosure, as the loader's.                        *)
ClosureImports ==
  [f \in Paths(proj) |-> UNION {FilesOf(n) : n \in ToSet(proj.imports[f])}]
ClosureNeeded == IF status \in Errors THEN {} ELSE Needed
ClosureOutcome ==
  IF status \in Running THEN "open"
  ELSE IF status \in Merged THEN "closed" ELSE "failed"

(* A step that adds a needed file.                                         *)
LEMMA ClosureAdds ==
  ASSUME proj' = proj, status \in Running, status' \in Running,
         NEW f \in Paths(proj), Needed' = Needed \cup {f},
         f \in StartFiles \/ \E g \in Needed : f \in ClosureImports[g]
  PROVE  Closure!Next
<1>1. /\ ClosureNeeded = Needed /\ ClosureNeeded' = Needed'
      /\ ClosureOutcome = "open" /\ ClosureOutcome' = "open"
  BY DEF ClosureNeeded, ClosureOutcome, Running, Errors
<1>2. ClosureImports' = ClosureImports /\ StartFiles' = StartFiles
  BY DEF ClosureImports, StartFiles, FilesOf, Paths
<1>3. f \in DOMAIN ClosureImports
  BY DEF ClosureImports
<1>4. Closure!Add
  BY <1>1, <1>2, <1>3 DEF Closure!Add, Closure!Needs, ClosureNeeded,
     ClosureOutcome, ClosureImports, Needed
<1>5. QED
  BY <1>4 DEF Closure!Next

(* A step that gives up.                                                   *)
LEMMA ClosureFails ==
  ASSUME proj' = proj, status \in Running, status' \in Errors
  PROVE  Closure!Next
<1>1. /\ ClosureNeeded' = {}
      /\ ClosureOutcome = "open" /\ ClosureOutcome' = "failed"
  BY DEF ClosureNeeded, ClosureOutcome, Running, Merged, Errors
<1>2. ClosureImports' = ClosureImports /\ StartFiles' = StartFiles
  BY DEF ClosureImports, StartFiles, FilesOf, Paths
<1>3. Closure!Fail
  BY <1>1, <1>2 DEF Closure!Fail, ClosureNeeded, ClosureOutcome, ClosureImports,
     Needed
<1>4. QED
  BY <1>3 DEF Closure!Next

(* A step that no program shows.                                           *)
LEMMA ClosureStutters ==
  ASSUME proj' = proj, Needed' = Needed,
         status' = status \/ (status \in Running /\ status' \in Running)
  PROVE  UNCHANGED Closure!closureVars
<1>1. ClosureNeeded' = ClosureNeeded /\ ClosureOutcome' = ClosureOutcome
  BY DEF ClosureNeeded, ClosureOutcome, Running, Errors
<1>2. ClosureImports' = ClosureImports /\ StartFiles' = StartFiles
  BY DEF ClosureImports, StartFiles, FilesOf, Paths
<1>3. QED
  BY <1>1, <1>2 DEF Closure!closureVars, ClosureNeeded, ClosureOutcome,
     ClosureImports, Needed

(* The merge closes a program that lacks nothing.                          *)
LEMMA ClosureCloses ==
  ASSUME TypeOK, Inv, StartIncluded, MergeAndCheck
  PROVE  Closure!Next
<1>1. /\ status = "imports" /\ status' \in Merged /\ proj' = proj /\ units' = units
      /\ frames = <<>> /\ root > Len(units)
  BY DEF MergeAndCheck, Merged
<1>2. /\ ClosureNeeded = Needed /\ ClosureNeeded' = Needed
      /\ ClosureOutcome = "open" /\ ClosureOutcome' = "closed"
  BY <1>1 DEF ClosureNeeded, ClosureOutcome, Running, Merged, Errors, Needed,
     Included
<1>3. ClosureImports' = ClosureImports /\ StartFiles' = StartFiles
  BY <1>1 DEF ClosureImports, StartFiles, FilesOf, Paths
<1>4. StartFiles \subseteq Needed
  BY <1>1, NeededIs DEF StartIncluded
<1>5. ASSUME NEW u \in Included
      PROVE  Covered(u)
  <2>1. Covered(u) \/ Active(u)
    <3>1. u < root
      <4>1. units \in Seq(UnitType) /\ root \in Nat
        BY DEF TypeOK, UnitType
      <4>2. u \in 1 .. Len(units) /\ Len(units) \in Nat
        BY <4>1, LenProperties DEF Included
      <4>3. QED
        BY <1>1, <4>1, <4>2
    <3>2. status \notin Errors
      BY <1>1 DEF Errors
    <3>3. QED
      BY <3>1, <3>2, Zenon DEF Inv, ImportsVisited
  <2>2. ~Active(u)
    BY <1>1 DEF Active
  <2>3. QED
    BY <2>1, <2>2
<1>6. \A f \in Needed : ClosureImports[f] \subseteq Needed
  <2> SUFFICES ASSUME NEW u \in Included
               PROVE  ClosureImports[units[u].path] \subseteq Needed
    BY DEF Needed
  <2>1. units[u].path \in Paths(proj)
    BY UnitFacts DEF Included
  <2>2. ClosureImports[units[u].path] = Targets(u)
    BY <2>1 DEF ClosureImports, Targets, Imports
  <2>3. QED
    BY <1>5, <2>2, NeededIs DEF Covered
<1>7. Closure!Close
  BY <1>2, <1>3, <1>4, <1>6 DEF Closure!Close, ClosureNeeded, ClosureOutcome,
     ClosureImports, Needed
<1>8. QED
  BY <1>7 DEF Closure!Next

(* Every step of the loader is a step of ImportClosure, or stutters.       *)
LEMMA ClosureStep ==
  ASSUME TypeOK, TypeOK', Grown, Inv, CallsIncluded, StartIncluded, [Next]_vars
  PROVE  Closure!Next \/ UNCHANGED Closure!closureVars
<1>1. proj' = proj
  BY DEF Grown
<1>2. ASSUME units' = units
      PROVE  Needed' = Needed
  BY <1>2 DEF Needed, Included
<1>3. CASE LoadEntry
  <2>1. /\ status = "entry" /\ units = <<>>
        /\ units' = Append(units, Unit(Entry, TRUE)) /\ Entry \in Paths(proj)
    BY <1>3, ProjectFacts DEF LoadEntry, Inv, Stages, TypeOK
  <2>2. status' \in Errors \/ status' \in Running
    BY <1>3 DEF LoadEntry, Errors, Running
  <2>3. Needed' = Needed \cup {Entry}
    <3>1. TRUE \in BOOLEAN
      OBVIOUS
    <3>2. QED
      BY <2>1, <3>1, NeededPush
  <2>4. Entry \in StartFiles /\ status \in Running
    BY <2>1 DEF StartFiles, Running
  <2>5. QED
    BY <1>1, <2>1, <2>2, <2>3, <2>4, ClosureAdds, ClosureFails
<1>4. CASE LoadSibling
  <2> DEFINE path == proj.dir[sib]
             included == path \in proj.readable /\ proj.pkg[path] = proj.pkg[Entry]
  <2>1. /\ status = "siblings" /\ sib <= Len(proj.dir)
        /\ IF path = Entry THEN UNCHANGED <<units, cap, status>>
           ELSE /\ units' = Append(units, Unit(path, included))
                /\ status' = IF path \in proj.readable THEN status ELSE "failed"
    BY <1>4 DEF LoadSibling
  <2>2. path \in Paths(proj) /\ sib \in DOMAIN proj.dir
    BY <2>1, ProjectFacts, LenProperties, ElementOfSeq DEF TypeOK
  <2>3. status \in Running /\ included \in BOOLEAN
    BY <2>1 DEF Running
  <2>4. proj.pkg[Entry] # NoPackage
    BY <2>1 DEF StartIncluded
  <2>5. included => path \in StartFiles
    BY <2>2, <2>4 DEF StartFiles, ToSet
  <2> HIDE DEF path, included
  <2>6. CASE path = Entry
    BY <1>1, <1>2, <2>1, <2>6, ClosureStutters
  <2>7. CASE path # Entry /\ path \notin proj.readable
    <3>1. status' \in Errors
      BY <2>1, <2>7 DEF Errors
    <3>2. QED
      BY <1>1, <2>3, <3>1, ClosureFails
  <2>8. CASE path # Entry /\ path \in proj.readable
    <3>1. status' = status /\ units' = Append(units, Unit(path, included))
      BY <2>1, <2>8
    <3>2. Needed' = IF included THEN Needed \cup {path} ELSE Needed
      BY <2>2, <2>3, <3>1, NeededPush
    <3>3. CASE included
      BY <1>1, <2>2, <2>3, <2>5, <3>1, <3>2, <3>3, ClosureAdds
    <3>4. CASE ~included
      BY <1>1, <3>1, <3>2, <3>4, ClosureStutters
    <3>5. QED
      BY <3>3, <3>4
  <2>9. QED
    BY <2>6, <2>7, <2>8
<1>5. CASE SiblingsDone \/ NextImport \/ UNCHANGED vars
  <2>1. /\ units' = units
        /\ status' = status \/ (status \in Running /\ status' \in Running)
    BY <1>5 DEF SiblingsDone, NextImport, vars, Running
  <2>2. QED
    BY <1>1, <1>2, <2>1, ClosureStutters
<1>6. CASE VisitRoot
  <2>1. /\ units' = units /\ status \in Running
        /\ status' = status \/ status' \in Errors
    BY <1>6, RootWays DEF Running, Errors
  <2>2. QED
    BY <1>1, <1>2, <2>1, ClosureStutters, ClosureFails
<1>7. CASE Crash \/ Circular
  <2>1. status \in Running /\ status' \in Errors
    BY <1>7 DEF Crash, Circular, InCall, Running, Errors
  <2>2. QED
    BY <1>1, <2>1, ClosureFails
<1>8. CASE VisitFile \/ LoadFile
  <2>1. PICK u, fs : VisitOf(u, fs)
    BY <1>8, VisitWays
  <2>2. /\ status \in Running /\ (status' \in Errors \/ status' \in Running)
    BY <1>8, VisitStatus DEF Running, Errors
  <2>3. CASE status' \in Errors
    BY <1>1, <2>2, <2>3, ClosureFails
  <2>4. CASE status' \notin Errors
    <3>1. Needed' = Needed \cup {Files[Top.file]}
      BY <2>1, <2>4, NeededVisit
    <3>2. /\ frames # <<>> /\ Top.imp <= Len(Imports(Top.u))
          /\ Top.file <= Len(Files)
      BY <1>8 DEF VisitFile, LoadFile, InCall
    <3>3. /\ Top.u \in DOMAIN units /\ Top.imp \in DOMAIN Imports(Top.u)
          /\ Top.file \in DOMAIN Files /\ Files[Top.file] \in Paths(proj)
          /\ Top = frames[Len(frames)] /\ Len(frames) \in DOMAIN frames
      BY <3>2, TopFacts, ImportFacts
    <3>4. units[Top.u].path \in Needed /\ units[Top.u].path \in Paths(proj)
      BY <3>3, UnitFacts DEF Needed, Included, CallsIncluded
    <3>5. Files[Top.file] \in ClosureImports[units[Top.u].path]
      <4>1. Files[Top.file] \in FilesOf(Import)
        BY <3>3 DEF FilesOf, Files, ToSet
      <4>2. Import \in ToSet(proj.imports[units[Top.u].path])
        BY <3>3 DEF Import, Imports, ToSet
      <4>3. ClosureImports[units[Top.u].path]
              = UNION {FilesOf(n) : n \in ToSet(proj.imports[units[Top.u].path])}
        BY <3>4 DEF ClosureImports
      <4>4. QED
        BY <4>1, <4>2, <4>3
    <3>6. QED
      BY <1>1, <2>2, <2>4, <3>1, <3>3, <3>4, <3>5, ClosureAdds
  <2>5. QED
    BY <2>3, <2>4
<1>9. CASE EndCall
  <2>1. Top.u \in DOMAIN units /\ status' = status
    BY <1>9, TopFacts DEF EndCall, InCall
  <2>2. units' = units \/ units' = [units EXCEPT ![Top.u].loaded = TRUE]
    BY <1>9, Zenon DEF EndCall
  <2>3. /\ DOMAIN units' = DOMAIN units
        /\ \A v \in DOMAIN units : /\ units'[v].path = units[v].path
                                   /\ units'[v].included = units[v].included
    BY <2>1, <2>2, UnitFacts DEF UnitType
  <2>4. Needed' = Needed
    BY <2>3 DEF Needed, Included
  <2>5. QED
    BY <1>1, <2>1, <2>4, ClosureStutters
<1>10. CASE MergeAndCheck
  BY <1>10, ClosureCloses
<1>11. QED
  BY <1>3, <1>4, <1>5, <1>6, <1>7, <1>8, <1>9, <1>10, Zenon DEF Next

(* The program is the import closure of the start files (ImplementsClosure): *)
(* every step of compile_source is one of ImportClosure, or shows nothing.  *)
THEOREM LoaderImplementsClosure == Spec => ImplementsClosure
<1>1. Init => Closure!Init /\ CallsIncluded /\ StartIncluded
  <2> SUFFICES ASSUME Init PROVE Closure!Init /\ CallsIncluded /\ StartIncluded
    OBVIOUS
  <2>1. /\ DOMAIN units = {} /\ DOMAIN frames = {} /\ status = "entry" /\ sib = 1
    BY DEF Init
  <2>2. CallsIncluded /\ StartIncluded
    BY <2>1 DEF CallsIncluded, StartIncluded, Merged
  <2>3. Closure!Init
    BY <2>1 DEF Closure!Init, Running, Errors, Included
  <2>4. QED
    BY <2>2, <2>3
<1>2. TypeOK /\ TypeOK' /\ Inv /\ CallsIncluded /\ StartIncluded /\ [Next]_vars
        => CallsIncluded' /\ StartIncluded'
  BY StepGrown, CallsIncludedStep, StartStep DEF Inv
<1>3. TypeOK /\ TypeOK' /\ Inv /\ CallsIncluded /\ StartIncluded /\ [Next]_vars
        => [Closure!Next]_(Closure!closureVars)
  BY StepGrown, ClosureStep
<1>4. QED
  BY <1>1, <1>2, <1>3, TypeCorrect, Invariant, PTL
     DEF Spec, ImplementsClosure, Closure!Spec

=============================================================================
