------------------------- MODULE ImportLoaderProofs -------------------------
(***************************************************************************)
(* Proofs about ImportLoader, for every set of projects and every bound:   *)
(* type correctness first, then the closedness of the merged program.      *)
(***************************************************************************)
EXTENDS ImportLoader, SequenceLemmas

(* What an admitted project looks like from inside the state machine.      *)
LEMMA ProjectFacts ==
  ASSUME IsProject(proj)
  PROVE  /\ proj.pkg \in [Paths(proj) -> Names(proj) \cup {NoPackage}]
         /\ proj.imports \in [Paths(proj) -> Seq(Names(proj))]
         /\ proj.resolve \in [Names(proj) -> Seq(Paths(proj))]
         /\ proj.dir \in Seq(Paths(proj))
         /\ Entry \in Paths(proj)
         /\ \A i, j \in DOMAIN proj.dir : proj.dir[i] = proj.dir[j] => i = j
         /\ NoPackage \notin Names(proj)
  BY DEF IsProject

UnitType == [path : Paths(proj), loaded : BOOLEAN, included : BOOLEAN]
FrameType == [u : Nat, stack : Seq(Names(proj)), imp : Nat \ {0},
              file : Nat \ {0}, stale : BOOLEAN]

(* What a call of load_imports_recursive leaves: the callers' frames, or   *)
(* one more for the unit called.                                           *)
LEMMA CallCases ==
  ASSUME NEW us, NEW u, NEW stack, NEW fs, Call(u, stack, us, fs)
  PROVE  \/ us[u].loaded /\ frames' = fs /\ status' = status
         \/ frames' = fs /\ status' \in {"too deep", "overflow"}
         \/ /\ status' = status
            /\ ~us[u].loaded
            /\ frames' =
                 Append(fs, Frame(u, WithPackage(stack, proj.pkg[us[u].path])))
<1> DEFINE deep == Len(stack) >= MaxStack
           full == Len(fs) >= MaxCalls
<1>0. IF us[u].loaded
      THEN frames' = fs /\ status' = status
      ELSE IF deep
      THEN frames' = fs /\ status' = "too deep"
      ELSE IF full
      THEN frames' = fs /\ status' = "overflow"
      ELSE /\ frames' =
                Append(fs, Frame(u, WithPackage(stack, proj.pkg[us[u].path])))
           /\ status' = status
  BY Zenon DEF Call
<1> HIDE DEF deep, full
<1>1. CASE us[u].loaded
  BY <1>0, <1>1, Zenon
<1>2. CASE ~us[u].loaded /\ (deep \/ full)
  BY <1>0, <1>2, Zenon
<1>3. CASE ~us[u].loaded /\ ~deep /\ ~full
  BY <1>0, <1>3, Zenon
<1>4. QED
  BY <1>1, <1>2, <1>3, Zenon

(* The table may have moved, and the innermost call goes on to its next    *)
(* file: no call changes otherwise.                                        *)
LEMMA MovedType ==
  ASSUME NEW fs \in Seq(FrameType), NEW moved \in BOOLEAN
  PROVE  /\ Moved(fs, moved) \in Seq(FrameType)
         /\ Len(Moved(fs, moved)) = Len(fs)
         /\ DOMAIN Moved(fs, moved) = DOMAIN fs
         /\ \A i \in DOMAIN fs :
              /\ Moved(fs, moved)[i].u = fs[i].u
              /\ Moved(fs, moved)[i].imp = fs[i].imp
              /\ Moved(fs, moved)[i].file = fs[i].file
<1>1. /\ Len(fs) \in Nat
      /\ DOMAIN fs = 1 .. Len(fs)
      /\ \A i \in DOMAIN fs : fs[i] \in FrameType
  BY LenProperties, ElementOfSeq
<1>2. \A i \in DOMAIN fs : [fs[i] EXCEPT !.stale = @ \/ moved] \in FrameType
  BY <1>1 DEF FrameType
<1>3. Moved(fs, moved) \in [1 .. Len(fs) -> FrameType]
  BY <1>1, <1>2 DEF Moved
<1>4. /\ Moved(fs, moved) \in Seq(FrameType)
      /\ Len(Moved(fs, moved)) = Len(fs)
  BY <1>1, <1>3, SeqDef
<1>5. QED
  BY <1>1, <1>3, <1>4 DEF Moved, FrameType

(* Going on to the next file changes nothing else of the frames.           *)
LEMMA NextFileType ==
  ASSUME NEW fs \in Seq(FrameType), fs # <<>>
  PROVE  /\ NextFile(fs) \in Seq(FrameType)
         /\ Len(NextFile(fs)) = Len(fs)
         /\ DOMAIN NextFile(fs) = DOMAIN fs
         /\ \A i \in DOMAIN fs :
              /\ NextFile(fs)[i].u = fs[i].u
              /\ NextFile(fs)[i].imp = fs[i].imp
              /\ NextFile(fs)[i].file =
                   IF i = Len(fs) THEN fs[i].file + 1 ELSE fs[i].file
<1>1. /\ Len(fs) \in Nat \ {0}
      /\ DOMAIN fs = 1 .. Len(fs)
      /\ \A i \in DOMAIN fs : fs[i] \in FrameType
  BY LenProperties, ElementOfSeq, EmptySeq
<1>2. [fs[Len(fs)] EXCEPT !.file = @ + 1] \in FrameType
  <2>1. ASSUME NEW f \in FrameType
        PROVE  [f EXCEPT !.file = @ + 1] \in FrameType
    <3>1. f.file + 1 \in Nat \ {0}
      BY DEF FrameType
    <3>2. ASSUME NEW n \in Nat \ {0}
          PROVE  [f EXCEPT !.file = n] \in FrameType
      BY DEF FrameType
    <3>3. QED
      BY <3>1, <3>2, Zenon
  <2>2. fs[Len(fs)] \in FrameType
    BY <1>1
  <2>3. QED
    BY <2>1, <2>2, Zenon
<1>3. NextFile(fs) = [fs EXCEPT ![Len(fs)] = [fs[Len(fs)] EXCEPT !.file = @ + 1]]
  BY <1>1 DEF NextFile
<1>4. /\ NextFile(fs) \in Seq(FrameType)
      /\ Len(NextFile(fs)) = Len(fs)
      /\ \A i \in DOMAIN fs : NextFile(fs)[i] =
           IF i = Len(fs) THEN [fs[Len(fs)] EXCEPT !.file = @ + 1] ELSE fs[i]
  BY <1>1, <1>2, <1>3, ExceptSeq
<1>5. DOMAIN NextFile(fs) = DOMAIN fs
  BY <1>1, <1>4, LenProperties
<1>6. ASSUME NEW i \in DOMAIN fs
      PROVE  /\ NextFile(fs)[i].u = fs[i].u
             /\ NextFile(fs)[i].imp = fs[i].imp
             /\ NextFile(fs)[i].file =
                  IF i = Len(fs) THEN fs[i].file + 1 ELSE fs[i].file
  <2>1. CASE i = Len(fs)
    BY <2>1, <1>1, <1>4 DEF FrameType
  <2>2. CASE i # Len(fs)
    BY <2>2, <1>1, <1>4, Zenon
  <2>3. QED
    BY <2>1, <2>2
<1>7. QED
  BY <1>1, <1>4, <1>5, <1>6

-----------------------------------------------------------------------------
(* What TypeOK says of the units, their imports and the innermost call.    *)
LEMMA UnitFacts ==
  ASSUME TypeOK, NEW u \in DOMAIN units
  PROVE  /\ u \in Nat \ {0}
         /\ units[u] \in UnitType
         /\ units[u].path \in Paths(proj)
         /\ Imports(u) \in Seq(Names(proj))
         /\ Package(u) \in Names(proj) \cup {NoPackage}
<1>1. /\ units \in Seq(UnitType)
      /\ IsProject(proj)
  BY DEF TypeOK, UnitType
<1>2. /\ u \in 1 .. Len(units)
      /\ Len(units) \in Nat
  BY <1>1, LenProperties
<1>3. units[u] \in UnitType
  BY <1>1, <1>2, ElementOfSeq
<1>4. units[u].path \in Paths(proj)
  BY <1>3 DEF UnitType
<1>5. /\ proj.imports \in [Paths(proj) -> Seq(Names(proj))]
      /\ proj.pkg \in [Paths(proj) -> Names(proj) \cup {NoPackage}]
  BY <1>1, ProjectFacts
<1>6. /\ Imports(u) \in Seq(Names(proj))
      /\ Package(u) \in Names(proj) \cup {NoPackage}
  BY <1>4, <1>5, Zenon DEF Imports, Package
<1>7. QED
  BY <1>2, <1>3, <1>4, <1>6

(* The innermost call and its callers.                                     *)
LEMMA TopFacts ==
  ASSUME TypeOK, frames # <<>>
  PROVE  /\ Top \in FrameType
         /\ Top = frames[Len(frames)]
         /\ Len(frames) \in DOMAIN frames
         /\ Base \in Seq(FrameType)
         /\ Len(Base) = Len(frames) - 1
         /\ DOMAIN Base = 1 .. Len(frames) - 1
         /\ DOMAIN frames = 1 .. Len(frames)
         /\ \A i \in DOMAIN Base : Base[i] = frames[i]
         /\ Top.u \in DOMAIN units
         /\ Imports(Top.u) \in Seq(Names(proj))
<1>1. frames \in Seq(FrameType)
  BY DEF TypeOK, FrameType
<1>2. /\ Last(frames) \in FrameType
      /\ Front(frames) \in Seq(FrameType)
      /\ Len(Front(frames)) = Len(frames) - 1
      /\ Len(frames) \in Nat \ {0}
      /\ Last(frames) = frames[Len(frames)]
      /\ \A i \in 1 .. Len(frames) - 1 : Front(frames)[i] = frames[i]
  BY <1>1, FrontLast
<1>3. /\ DOMAIN frames = 1 .. Len(frames)
      /\ DOMAIN Base = 1 .. Len(frames) - 1
      /\ Len(frames) \in DOMAIN frames
  <2>1. DOMAIN frames = 1 .. Len(frames)
    BY <1>1, LenProperties
  <2>2. DOMAIN Base = 1 .. Len(Base)
    BY <1>2, LenProperties DEF Base
  <2>3. QED
    BY <2>1, <2>2, <1>2 DEF Base
<1>4. Top.u \in DOMAIN units
  BY <1>2, <1>3 DEF TypeOK, Top
<1>5. Imports(Top.u) \in Seq(Names(proj))
  BY <1>4, UnitFacts
<1>6. QED
  BY <1>2, <1>3, <1>4, <1>5 DEF Top, Base

(* The import and the file an active call is at.                           *)
LEMMA ImportFacts ==
  ASSUME TypeOK, frames # <<>>, Top.imp <= Len(Imports(Top.u))
  PROVE  /\ Top.imp \in DOMAIN Imports(Top.u)
         /\ Import \in Names(proj)
         /\ Files \in Seq(Paths(proj))
         /\ Top.file <= Len(Files) => /\ Top.file \in DOMAIN Files
                                     /\ Files[Top.file] \in Paths(proj)
<1>1. /\ Top.imp \in Nat \ {0}
      /\ Top.file \in Nat \ {0}
      /\ Imports(Top.u) \in Seq(Names(proj))
  BY TopFacts DEF FrameType
<1>2. /\ Top.imp \in DOMAIN Imports(Top.u)
      /\ Import \in Names(proj)
  BY <1>1, LenProperties, ElementOfSeq DEF Import
<1>3. Files \in Seq(Paths(proj))
  <2>1. proj.resolve \in [Names(proj) -> Seq(Paths(proj))]
    BY ProjectFacts DEF TypeOK
  <2>2. QED
    BY <1>2, <2>1, Zenon DEF Files
<1>4. QED
  BY <1>1, <1>2, <1>3, LenProperties, ElementOfSeq

(* A call of load_imports_recursive keeps the frames well formed.          *)
FramesOK(fs, us) ==
  /\ fs \in Seq(FrameType)
  /\ \A i \in DOMAIN fs : fs[i].u \in DOMAIN us

(* A new call works on a unit of the table.                                *)
LEMMA FramesPush ==
  ASSUME NEW us, NEW fs, FramesOK(fs, us), NEW f \in FrameType, f.u \in DOMAIN us
  PROVE  FramesOK(Append(fs, f), us)
<1>1. /\ fs \in Seq(FrameType)
      /\ Len(fs) \in Nat
      /\ DOMAIN fs = 1 .. Len(fs)
  BY LenProperties DEF FramesOK
<1>2. /\ Append(fs, f) \in Seq(FrameType)
      /\ DOMAIN Append(fs, f) = 1 .. Len(fs) + 1
      /\ \A i \in 1 .. Len(fs) : Append(fs, f)[i] = fs[i]
      /\ Append(fs, f)[Len(fs) + 1] = f
  BY <1>1
<1>3. QED
  BY <1>1, <1>2 DEF FramesOK

(* load_imports_recursive called: the frames and the status keep their types. *)
LEMMA CallType ==
  ASSUME TypeOK, status = "imports",
         NEW us \in Seq(UnitType), NEW u \in DOMAIN us,
         NEW stack \in Seq(Names(proj)),
         NEW fs, FramesOK(fs, us),
         Call(u, stack, us, fs)
  PROVE  /\ FramesOK(frames', us)
         /\ status' \in {"imports", "too deep", "overflow"}
<1>1. /\ us[u] \in UnitType
      /\ u \in Nat \ {0}
  BY LenProperties, ElementOfSeq
<1>2. proj.pkg[us[u].path] \in Names(proj) \cup {NoPackage}
  BY <1>1, ProjectFacts, Zenon DEF UnitType, TypeOK
<1>3. WithPackage(stack, proj.pkg[us[u].path]) \in Seq(Names(proj))
  BY <1>2 DEF WithPackage
<1>4. /\ Frame(u, WithPackage(stack, proj.pkg[us[u].path])) \in FrameType
      /\ Frame(u, WithPackage(stack, proj.pkg[us[u].path])).u = u
  BY <1>1, <1>3 DEF Frame, FrameType
<1>5. FramesOK(Append(fs, Frame(u, WithPackage(stack, proj.pkg[us[u].path]))), us)
  BY <1>4, FramesPush
<1>6. QED
  BY <1>5, CallCases

(* push_source_unit appends one unit and keeps the others.                 *)
LEMMA UnitsPush ==
  ASSUME TypeOK, NEW path \in Paths(proj), NEW included \in BOOLEAN
  PROVE  /\ Append(units, Unit(path, included)) \in Seq(UnitType)
         /\ Len(units) \in Nat
         /\ DOMAIN units = 1 .. Len(units)
         /\ DOMAIN Append(units, Unit(path, included)) = 1 .. Len(units) + 1
         /\ \A u \in DOMAIN units :
              Append(units, Unit(path, included))[u] = units[u]
         /\ Append(units, Unit(path, included))[Len(units) + 1] =
              Unit(path, included)
<1>1. /\ units \in Seq(UnitType)
      /\ Unit(path, included) \in UnitType
  BY DEF TypeOK, UnitType, Unit
<1>2. QED
  BY <1>1, LenProperties

(* TypeOK in the terms of the lemmas above.                                *)
LEMMA TypeParts ==
  TypeOK <=> /\ IsProject(proj)
             /\ units \in Seq(UnitType)
             /\ cap \in Nat
             /\ FramesOK(frames, units)
             /\ sib \in Nat \ {0}
             /\ root \in Nat \ {0}
             /\ status \in Running \cup Merged \cup Errors
  BY DEF TypeOK, UnitType, FrameType, FramesOK

(* One field of one unit is set: include_in_package or imports_loaded.     *)
LEMMA UnitsSet ==
  ASSUME TypeOK, NEW u \in DOMAIN units
  PROVE  /\ [units EXCEPT ![u].included = TRUE] \in Seq(UnitType)
         /\ [units EXCEPT ![u].loaded = TRUE] \in Seq(UnitType)
         /\ DOMAIN [units EXCEPT ![u].included = TRUE] = DOMAIN units
         /\ DOMAIN [units EXCEPT ![u].loaded = TRUE] = DOMAIN units
<1>1. /\ units \in Seq(UnitType)
      /\ DOMAIN units = 1 .. Len(units)
  BY LenProperties DEF TypeOK, UnitType
<1>2. units[u] \in UnitType
  BY UnitFacts
<1>3. /\ [units[u] EXCEPT !.included = TRUE] \in UnitType
      /\ [units[u] EXCEPT !.loaded = TRUE] \in UnitType
  BY <1>2 DEF UnitType
<1>4. /\ [units EXCEPT ![u].included = TRUE] =
           [units EXCEPT ![u] = [units[u] EXCEPT !.included = TRUE]]
      /\ [units EXCEPT ![u].loaded = TRUE] =
           [units EXCEPT ![u] = [units[u] EXCEPT !.loaded = TRUE]]
  OBVIOUS
<1>5. /\ [units EXCEPT ![u].included = TRUE] \in Seq(UnitType)
      /\ [units EXCEPT ![u].loaded = TRUE] \in Seq(UnitType)
  BY <1>1, <1>3, <1>4, ExceptSeq
<1>6. QED
  BY <1>5

(* The capacity stays a number.                                            *)
LEMMA CapType ==
  ASSUME TypeOK
  PROVE  CapAfterPush \in Nat
<1>1. cap \in Nat /\ FirstCap \in Nat
  BY LoaderAssumption DEF TypeOK
<1>2. CASE Len(units) < cap
  BY <1>1, <1>2, Zenon DEF CapAfterPush
<1>3. CASE ~(Len(units) < cap) /\ cap = 0
  BY <1>1, <1>3, Zenon DEF CapAfterPush
<1>4. CASE ~(Len(units) < cap) /\ cap # 0
  <2>1. 2 * cap \in Nat
    BY <1>1
  <2>2. QED
    BY <2>1, <1>4, Zenon DEF CapAfterPush
<1>5. QED
  BY <1>2, <1>3, <1>4

(* The types hold before the first file is read.                           *)
LEMMA TypeInit == Init => TypeOK
<1> SUFFICES ASSUME Init PROVE TypeOK
  OBVIOUS
<1>1. /\ units \in Seq(UnitType)
      /\ FramesOK(frames, units)
  BY DEF Init, FramesOK
<1>2. QED
  BY <1>1, TypeParts, LoaderAssumption DEF Init, Running

(* Every step of the loader keeps the types.                               *)
LEMMA TypeStep == TypeOK /\ [Next]_vars => TypeOK'
<1> SUFFICES ASSUME TypeOK, [Next]_vars
             PROVE  /\ proj' = proj
                    /\ units' \in Seq(UnitType)
                    /\ cap' \in Nat
                    /\ FramesOK(frames', units')
                    /\ sib' \in Nat \ {0}
                    /\ root' \in Nat \ {0}
                    /\ status' \in Running \cup Merged \cup Errors
  BY DEF TypeOK, UnitType, FrameType, FramesOK
<1> USE DEF Running, Merged, Errors
<1>a. /\ IsProject(proj)
      /\ units \in Seq(UnitType)
      /\ cap \in Nat
      /\ FramesOK(frames, units)
      /\ sib \in Nat \ {0}
      /\ root \in Nat \ {0}
      /\ status \in Running \cup Merged \cup Errors
  BY TypeParts
<1>b. /\ CapAfterPush \in Nat
      /\ Entry \in Paths(proj)
      /\ proj.dir \in Seq(Paths(proj))
  BY <1>a, CapType, ProjectFacts
<1>c. ASSUME NEW path \in Paths(proj), NEW included \in BOOLEAN
      PROVE  FramesOK(frames, Append(units, Unit(path, included)))
  <2>1. DOMAIN units \subseteq DOMAIN Append(units, Unit(path, included))
    BY UnitsPush
  <2>2. QED
    BY <2>1, <1>a DEF FramesOK
<1>d. ASSUME NEW n \in Nat \ {0}
      PROVE  n + 1 \in Nat \ {0}
  OBVIOUS
<1>1. CASE LoadEntry
  <2>1. units' \in Seq(UnitType) /\ FramesOK(frames, units')
    BY <1>1, <1>b, <1>c, UnitsPush, Zenon DEF LoadEntry
  <2>2. QED
    BY <2>1, <1>1, <1>a, <1>b DEF LoadEntry
<1>2. CASE LoadSibling
  <2> DEFINE path == proj.dir[sib]
  <2>1. CASE path = Entry
    BY <2>1, <1>2, <1>a DEF LoadSibling
  <2>2. CASE path # Entry
    <3>1. path \in Paths(proj)
      BY <1>2, <1>a, <1>b, LenProperties, ElementOfSeq DEF LoadSibling
    <3>2. PICK included \in BOOLEAN : units' = Append(units, Unit(path, included))
      BY <2>2, <1>2, Zenon DEF LoadSibling
    <3>3. units' \in Seq(UnitType) /\ FramesOK(frames, units')
      BY <3>1, <3>2, <1>c, UnitsPush, Zenon
    <3>4. /\ proj' = proj /\ frames' = frames /\ root' = root
          /\ sib' = sib + 1 /\ cap' = CapAfterPush
          /\ status' = status \/ status' = "failed"
      BY <2>2, <1>2, Zenon DEF LoadSibling
    <3>5. sib + 1 \in Nat \ {0}
      BY <1>a, <1>d, Zenon
    <3>6. FramesOK(frames', units')
      BY <3>3, <3>4, Zenon
    <3>7. status' \in Running \cup Merged \cup Errors
      BY <3>4, <1>a
    <3>8. QED
      BY <3>3, <3>4, <3>5, <3>6, <3>7, <1>a, <1>b, Zenon
  <2>3. QED
    BY <2>1, <2>2
<1>3. CASE SiblingsDone
  BY <1>3, <1>a DEF SiblingsDone
<1>4. CASE VisitRoot
  <2>1. CASE units[root].included
    <3>1. /\ root \in DOMAIN units
          /\ <<>> \in Seq(Names(proj))
          /\ FramesOK(<<>>, units)
      BY <1>4, <1>a, LenProperties DEF VisitRoot, FramesOK
    <3>2. Call(root, <<>>, units, <<>>) /\ status = "imports"
      BY <2>1, <1>4, Zenon DEF VisitRoot
    <3>3. /\ FramesOK(frames', units)
          /\ status' \in {"imports", "too deep", "overflow"}
      BY <3>1, <3>2, <1>a, CallType
    <3>4. /\ proj' = proj /\ units' = units /\ cap' = cap /\ sib' = sib
          /\ root' = root + 1
      BY <1>4, Zenon DEF VisitRoot
    <3>5. root + 1 \in Nat \ {0}
      BY <1>a, <1>d, Zenon
    <3>6. FramesOK(frames', units')
      BY <3>3, <3>4, Zenon
    <3>7. status' \in Running \cup Merged \cup Errors
      BY <3>3
    <3>8. QED
      BY <3>4, <3>5, <3>6, <3>7, <1>a, Zenon
  <2>2. CASE ~units[root].included
    BY <2>2, <1>4, <1>a DEF VisitRoot
  <2>3. QED
    BY <2>1, <2>2
<1>5. CASE Crash
  BY <1>5, <1>a DEF Crash
<1>6. CASE Circular
  BY <1>6, <1>a DEF Circular
<1>7. CASE NextImport
  <2>1. FramesOK(Base, units) /\ Top \in FrameType /\ Top.u \in DOMAIN units
    BY <1>7, <1>a, TopFacts DEF NextImport, InCall, FramesOK
  <2> DEFINE f == [Top EXCEPT !.imp = @ + 1, !.file = 1]
  <2>2. Top.imp + 1 \in Nat \ {0} /\ 1 \in Nat \ {0}
    BY <2>1 DEF FrameType
  <2>3. ASSUME NEW n \in Nat \ {0}, NEW m \in Nat \ {0}
        PROVE  /\ [Top EXCEPT !.imp = n, !.file = m] \in FrameType
               /\ [Top EXCEPT !.imp = n, !.file = m].u = Top.u
    BY <2>1 DEF FrameType
  <2>4. f \in FrameType /\ f.u = Top.u
    BY <2>2, <2>3, Zenon
  <2>5. FramesOK(Append(Base, f), units)
    BY <2>1, <2>4, FramesPush
  <2>6. QED
    BY <2>5, <1>7, <1>a DEF NextImport, InCall
<1>8. CASE VisitFile
  <2>1. PICK u \in Find(Files[Top.file]) :
          /\ units' = [units EXCEPT ![u].included = TRUE]
          /\ Call(u, Top.stack, units', NextFile(frames))
    BY <1>8, Zenon DEF VisitFile
  <2>2. u \in DOMAIN units /\ status = "imports" /\ frames # <<>>
    BY <2>1, <1>8 DEF Find, VisitFile, InCall
  <2>3. units' \in Seq(UnitType) /\ DOMAIN units' = DOMAIN units
    BY <2>1, <2>2, UnitsSet
  <2>4. Top.stack \in Seq(Names(proj))
    BY <2>2, TopFacts DEF FrameType
  <2>5. FramesOK(NextFile(frames), units')
    BY <2>2, <2>3, <1>a, NextFileType DEF FramesOK
  <2>6. /\ FramesOK(frames', units')
        /\ status' \in {"imports", "too deep", "overflow"}
    BY <2>1, <2>2, <2>3, <2>4, <2>5, CallType
  <2>7. QED
    BY <2>3, <2>6, <1>8, <1>a DEF VisitFile
<1>9. CASE LoadFile
  <2> DEFINE path == Files[Top.file]
  <2>1. PICK moved \in BOOLEAN :
          /\ cap' = CapAfterPush
          /\ units' = Append(units, Unit(path, path \in proj.readable))
          /\ IF path \in proj.readable
             THEN Call(Len(units) + 1, Top.stack, units',
                       Moved(NextFile(frames), moved))
             ELSE /\ frames' = Moved(NextFile(frames), moved)
                  /\ status' = "failed"
    BY <1>9, Zenon DEF LoadFile
  <2>2. status = "imports" /\ frames # <<>>
    BY <1>9 DEF LoadFile, InCall
  <2>3. path \in Paths(proj)
    BY <2>2, <1>9, ImportFacts DEF LoadFile
  <2>4. /\ units' \in Seq(UnitType)
        /\ Len(units) + 1 \in DOMAIN units'
        /\ DOMAIN units \subseteq DOMAIN units'
    <3> DEFINE included == path \in proj.readable
    <3>1. included \in BOOLEAN
      OBVIOUS
    <3> HIDE DEF included
    <3>2. /\ Append(units, Unit(path, included)) \in Seq(UnitType)
          /\ Len(units) \in Nat
          /\ DOMAIN units = 1 .. Len(units)
          /\ DOMAIN Append(units, Unit(path, included)) = 1 .. Len(units) + 1
      BY <3>1, <2>3, UnitsPush, Zenon
    <3>3. units' = Append(units, Unit(path, included))
      BY <2>1, Zenon DEF included
    <3>4. QED
      BY <3>2, <3>3
  <2>5. Top.stack \in Seq(Names(proj))
    BY <2>2, TopFacts DEF FrameType
  <2>6. FramesOK(Moved(NextFile(frames), moved), units')
    BY <2>2, <2>4, <1>a, NextFileType, MovedType DEF FramesOK
  <2>7. /\ FramesOK(frames', units')
        /\ status' \in {"imports", "too deep", "overflow", "failed"}
    <3>1. CASE path \in proj.readable
      BY <3>1, <2>1, <2>2, <2>4, <2>5, <2>6, CallType
    <3>2. CASE path \notin proj.readable
      BY <3>2, <2>1, <2>6
    <3>3. QED
      BY <3>1, <3>2
  <2>8. QED
    BY <2>1, <2>4, <2>7, <1>9, <1>a, <1>b DEF LoadFile
<1>10. CASE EndCall
  <2>1. FramesOK(Base, units) /\ Top.u \in DOMAIN units
    BY <1>10, <1>a, TopFacts DEF EndCall, InCall, FramesOK
  <2>2. units' \in Seq(UnitType) /\ DOMAIN units' = DOMAIN units
    BY <2>1, <1>10, <1>a, UnitsSet DEF EndCall
  <2>3. FramesOK(Base, units')
    BY <2>1, <2>2 DEF FramesOK
  <2>4. QED
    BY <2>2, <2>3, <1>10, <1>a DEF EndCall
<1>11. CASE MergeAndCheck
  BY <1>11, <1>a DEF MergeAndCheck
<1>12. CASE UNCHANGED vars
  BY <1>12, <1>a DEF vars
<1>13. QED
  BY <1>1, <1>2, <1>3, <1>4, <1>5, <1>6, <1>7, <1>8, <1>9, <1>10, <1>11, <1>12
     DEF Next

(* Type correctness (TypeOK): whatever the project, the table's first       *)
(* capacity and the depth of the stacks, every active call works on a unit  *)
(* of the table.                                                           *)
THEOREM TypeCorrect == Spec => []TypeOK
  BY TypeInit, TypeStep, PTL DEF Spec

(***************************************************************************)
(* ImportLoader merges only closed programs and loads no path twice: Inv   *)
(* is inductive.  The heart of it is that the table of units only grows,   *)
(* so what a call of load_imports_recursive has found stays found.         *)
(***************************************************************************)

(* The table keeps its units, their paths and their include flags.         *)
Grown ==
  /\ proj' = proj
  /\ DOMAIN units \subseteq DOMAIN units'
  /\ \A u \in DOMAIN units :
       /\ units'[u].path = units[u].path
       /\ units[u].included => units'[u].included

(* Nothing leaves the program when the table grows.                        *)
LEMMA GrownKeeps ==
  ASSUME TypeOK, Grown
  PROVE  /\ \A path : InProgram(path) => InProgram(path)'
         /\ \A u \in DOMAIN units : /\ Imports(u)' = Imports(u)
                                    /\ Targets(u)' = Targets(u)
                                    /\ Covered(u) => Covered(u)'
         /\ \A f \in FrameType : f.u \in DOMAIN units /\ CallCovers(f)
                                   => CallCovers(f)'
<1>1. \A path : InProgram(path) => InProgram(path)'
  BY DEF InProgram, Grown
<1>2. \A u \in DOMAIN units : Imports(u)' = Imports(u)
  BY DEF Imports, Grown
<1>3. \A n : FilesOf(n)' = FilesOf(n)
  BY DEF FilesOf, Grown
<1>4. \A u \in DOMAIN units : Targets(u)' = Targets(u)
  BY <1>2, <1>3, Zenon DEF Targets
<1>5. \A u \in DOMAIN units : Covered(u) => Covered(u)'
  BY <1>1, <1>4, Zenon DEF Covered
<1>6. ASSUME NEW f \in FrameType, f.u \in DOMAIN units, CallCovers(f)
      PROVE  CallCovers(f)'
  <2>1. Imports(f.u)' = Imports(f.u) /\ proj' = proj
    BY <1>2, <1>6 DEF Grown
  <2>2. \A k \in DOMAIN Imports(f.u) :
          k < f.imp => \A path \in FilesOf(Imports(f.u)[k]) : InProgram(path)'
    BY <1>1, <1>6, Zenon DEF CallCovers
  <2>3. f.imp \in DOMAIN Imports(f.u) =>
          \A j \in DOMAIN FilesAt(f) : j < f.file =>
            \A path : path = FilesAt(f)[j] => InProgram(path)'
    BY <1>1, <1>6, Zenon DEF CallCovers
  <2>4. \A k \in DOMAIN Imports(f.u)' :
          k < f.imp => \A path \in FilesOf(Imports(f.u)[k])' : InProgram(path)'
    <3>1. ASSUME NEW k
          PROVE  FilesOf(Imports(f.u)[k])' = FilesOf(Imports(f.u)[k])
      BY <2>1 DEF FilesOf
    <3>2. (DOMAIN Imports(f.u))' = DOMAIN Imports(f.u)
      BY <2>1
    <3>3. QED
      BY <2>2, <3>1, <3>2, Zenon
  <2>5. f.imp \in DOMAIN Imports(f.u)' =>
          \A j \in DOMAIN FilesAt(f)' : j < f.file => InProgram(FilesAt(f)[j])'
    <3>1. FilesAt(f)' = FilesAt(f)
      BY <2>1 DEF FilesAt
    <3>2. QED
      BY <2>1, <2>3, <3>1, Zenon
  <2>6. QED
    BY <2>4, <2>5, Zenon DEF CallCovers
<1>7. QED
  BY <1>1, <1>2, <1>4, <1>5, <1>6

(* A new unit is put behind the others.                                    *)
LEMMA GrownByPush ==
  ASSUME TypeOK, proj' = proj, NEW path \in Paths(proj), NEW included \in BOOLEAN,
         units' = Append(units, Unit(path, included))
  PROVE  Grown
<1>1. /\ DOMAIN units = 1 .. Len(units)
      /\ DOMAIN units' = 1 .. Len(units) + 1
      /\ Len(units) \in Nat
      /\ \A u \in DOMAIN units : units'[u] = units[u]
  BY UnitsPush, Zenon
<1>2. DOMAIN units \subseteq DOMAIN units'
  BY <1>1
<1>3. QED
  BY <1>1, <1>2, Zenon DEF Grown

(* The action's unit, path or file as the lemmas above need them.          *)
LEMMA PushSteps ==
  ASSUME TypeOK, LoadEntry \/ LoadSibling \/ LoadFile
  PROVE  /\ proj' = proj
         /\ \/ units' = units
            \/ \E path \in Paths(proj), included \in BOOLEAN :
                 units' = Append(units, Unit(path, included))
<1>a. /\ Entry \in Paths(proj)
      /\ proj.dir \in Seq(Paths(proj))
      /\ sib \in Nat \ {0}
  BY ProjectFacts DEF TypeOK
<1>1. CASE LoadEntry
  BY <1>1, <1>a, Zenon DEF LoadEntry
<1>2. CASE LoadSibling
  <2> DEFINE path == proj.dir[sib]
  <2>1. path \in Paths(proj)
    BY <1>2, <1>a, LenProperties, ElementOfSeq DEF LoadSibling
  <2>2. \/ units' = units
        \/ \E included \in BOOLEAN : units' = Append(units, Unit(path, included))
    BY <1>2, Zenon DEF LoadSibling
  <2>3. proj' = proj
    BY <1>2 DEF LoadSibling
  <2>4. QED
    BY <2>1, <2>2, <2>3, Zenon
<1>3. CASE LoadFile
  <2> DEFINE path == Files[Top.file]
  <2>1. path \in Paths(proj)
    BY <1>3, ImportFacts DEF LoadFile, InCall
  <2>2. proj' = proj /\ units' = Append(units, Unit(path, path \in proj.readable))
    BY <1>3, Zenon DEF LoadFile
  <2>3. (path \in proj.readable) \in BOOLEAN
    OBVIOUS
  <2>4. QED
    BY <2>1, <2>2, <2>3, Zenon
<1>4. QED
  BY <1>1, <1>2, <1>3

(* Every step of the loader lets the table grow.                           *)
LEMMA StepGrown == TypeOK /\ [Next]_vars => Grown
<1> SUFFICES ASSUME TypeOK, [Next]_vars PROVE Grown
  OBVIOUS
<1>1. CASE LoadEntry \/ LoadSibling \/ LoadFile
  <2>1. proj' = proj
    BY <1>1, PushSteps
  <2>2. CASE units' = units
    BY <2>1, <2>2, Zenon DEF Grown
  <2>3. CASE \E path \in Paths(proj), included \in BOOLEAN :
               units' = Append(units, Unit(path, included))
    BY <2>1, <2>3, GrownByPush
  <2>4. QED
    BY <1>1, <2>2, <2>3, PushSteps
<1>2. CASE VisitFile
  <2>1. PICK u \in DOMAIN units : units' = [units EXCEPT ![u].included = TRUE]
    BY <1>2, Zenon DEF VisitFile, Find
  <2>2. /\ DOMAIN units' = DOMAIN units
        /\ \A v \in DOMAIN units : /\ units'[v].path = units[v].path
                                   /\ units[v].included => units'[v].included
    BY <2>1, UnitFacts DEF UnitType
  <2>3. QED
    BY <1>2, <2>2 DEF VisitFile, Grown
<1>3. CASE EndCall
  <2>1. Top.u \in DOMAIN units
    BY <1>3, TopFacts DEF EndCall, InCall
  <2>2. units' = units \/ units' = [units EXCEPT ![Top.u].loaded = TRUE]
    BY <1>3, Zenon DEF EndCall
  <2>3. /\ DOMAIN units' = DOMAIN units
        /\ \A v \in DOMAIN units : /\ units'[v].path = units[v].path
                                   /\ units'[v].included = units[v].included
    BY <2>1, <2>2, UnitFacts DEF UnitType
  <2>4. QED
    BY <1>3, <2>3 DEF EndCall, Grown
<1>4. CASE \/ SiblingsDone \/ VisitRoot \/ Crash \/ Circular \/ NextImport
           \/ MergeAndCheck \/ UNCHANGED vars
  <2>1. units' = units /\ proj' = proj
    BY <1>4 DEF SiblingsDone, VisitRoot, Crash, Circular, NextImport,
                MergeAndCheck, vars
  <2>2. QED
    BY <2>1, Zenon DEF Grown
<1>5. QED
  BY <1>1, <1>2, <1>3, <1>4 DEF Next

-----------------------------------------------------------------------------
(* A visit ends in the same stage or in an error.                          *)
LEMMA VisitStatus ==
  ASSUME TypeOK, VisitRoot \/ VisitFile \/ LoadFile
  PROVE  /\ status = "imports"
         /\ status' \in {"imports", "too deep", "overflow", "failed"}
<1>1. CASE VisitRoot
  <2>1. CASE units[root].included
    <3>1. Call(root, <<>>, units, <<>>) /\ status = "imports"
      BY <1>1, <2>1, Zenon DEF VisitRoot
    <3>2. QED
      BY <3>1, CallCases
  <2>2. CASE ~units[root].included
    BY <1>1, <2>2 DEF VisitRoot
  <2>3. QED
    BY <2>1, <2>2
<1>2. CASE VisitFile
  <2>1. PICK u : Call(u, Top.stack, units', NextFile(frames))
    BY <1>2, Zenon DEF VisitFile
  <2>2. QED
    BY <1>2, <2>1, CallCases DEF VisitFile, InCall
<1>3. CASE LoadFile
  <2>1. PICK moved \in BOOLEAN :
          IF Files[Top.file] \in proj.readable
          THEN Call(Len(units) + 1, Top.stack, units',
                    Moved(NextFile(frames), moved))
          ELSE status' = "failed"
    BY <1>3, Zenon DEF LoadFile
  <2>2. status = "imports"
    BY <1>3 DEF LoadFile, InCall
  <2>3. CASE Files[Top.file] \in proj.readable
    <3>1. Call(Len(units) + 1, Top.stack, units', Moved(NextFile(frames), moved))
      BY <2>1, <2>3, Zenon
    <3>2. QED
      BY <3>1, <2>2, CallCases
  <2>4. CASE Files[Top.file] \notin proj.readable
    BY <2>1, <2>2, <2>4
  <2>5. QED
    BY <2>3, <2>4
<1>4. QED
  BY <1>1, <1>2, <1>3

(* compile_source goes through its stages in order.                        *)
LEMMA StagesStep == TypeOK /\ Stages /\ [Next]_vars => Stages'
<1> SUFFICES ASSUME TypeOK, Stages, [Next]_vars PROVE Stages'
  OBVIOUS
<1> USE DEF Stages, Merged
<1>1. CASE LoadEntry
  BY <1>1 DEF LoadEntry
<1>2. CASE LoadSibling
  <2>1. /\ status = "siblings" /\ frames' = frames /\ root' = root
        /\ status' \in {"siblings", "failed"}
    <3> DEFINE path == proj.dir[sib]
    <3>1. CASE path = Entry
      BY <3>1, <1>2, Zenon DEF LoadSibling
    <3>2. CASE path # Entry
      BY <3>2, <1>2, Zenon DEF LoadSibling
    <3>3. QED
      BY <3>1, <3>2
  <2>2. QED
    BY <2>1
<1>3. CASE SiblingsDone
  BY <1>3 DEF SiblingsDone
<1>4. CASE VisitRoot \/ VisitFile \/ LoadFile
  BY <1>4, VisitStatus
<1>5. CASE Crash \/ Circular \/ NextImport \/ EndCall
  BY <1>5 DEF Crash, Circular, NextImport, EndCall, InCall
<1>6. CASE MergeAndCheck
  <2>1. /\ frames' = frames /\ frames = <<>> /\ units' = units /\ root' = root
        /\ root > Len(units) /\ status' \in {"ok", "unresolved"}
    BY <1>6, Zenon DEF MergeAndCheck
  <2>2. QED
    BY <2>1
<1>7. CASE UNCHANGED vars
  BY <1>7 DEF vars
<1>8. QED
  BY <1>1, <1>2, <1>3, <1>4, <1>5, <1>6, <1>7 DEF Next

-----------------------------------------------------------------------------
(* A path that no unit has may be pushed.                                  *)
LEMMA PushUnique ==
  ASSUME TypeOK, UnitsUnique, NEW path \in Paths(proj), NEW included \in BOOLEAN,
         units' = Append(units, Unit(path, included)),
         \A u \in DOMAIN units : units[u].path # path
  PROVE  UnitsUnique'
<1>1. /\ DOMAIN units = 1 .. Len(units)
      /\ DOMAIN units' = 1 .. Len(units) + 1
      /\ Len(units) \in Nat
      /\ \A u \in DOMAIN units : units'[u] = units[u]
      /\ units'[Len(units) + 1] = Unit(path, included)
  BY UnitsPush, Zenon
<1>2. units'[Len(units) + 1].path = path
  BY <1>1 DEF Unit
<1>3. \A u \in DOMAIN units' : u \in DOMAIN units \/ u = Len(units) + 1
  BY <1>1
<1>4. ASSUME NEW u \in DOMAIN units', NEW v \in DOMAIN units',
             units'[u].path = units'[v].path
      PROVE  u = v
  <2>1. CASE u \in DOMAIN units /\ v \in DOMAIN units
    BY <2>1, <1>1, <1>4, Zenon DEF UnitsUnique
  <2>2. CASE u = Len(units) + 1 /\ v \in DOMAIN units
    BY <2>2, <1>1, <1>2, <1>4, Zenon
  <2>3. CASE u \in DOMAIN units /\ v = Len(units) + 1
    BY <2>3, <1>1, <1>2, <1>4, Zenon
  <2>4. CASE u = Len(units) + 1 /\ v = Len(units) + 1
    BY <2>4
  <2>5. QED
    BY <2>1, <2>2, <2>3, <2>4, <1>3
<1>5. QED
  BY <1>4, Zenon DEF UnitsUnique

(* A step that keeps the units and their paths keeps them unique.          *)
LEMMA SamePathsUnique ==
  ASSUME UnitsUnique, DOMAIN units' = DOMAIN units,
         \A u \in DOMAIN units : units'[u].path = units[u].path
  PROVE  UnitsUnique'
  BY Zenon DEF UnitsUnique

(* Siblings are listed once each, and a file is looked up before it is      *)
(* pushed, so no path enters the table twice.                              *)
LEMMA UniqueStep ==
  TypeOK /\ Stages /\ SiblingsFound /\ UnitsUnique /\ [Next]_vars
    => SiblingsFound' /\ UnitsUnique'
<1> SUFFICES ASSUME TypeOK, Stages, SiblingsFound, UnitsUnique, [Next]_vars
             PROVE  SiblingsFound' /\ UnitsUnique'
  OBVIOUS
<1>a. /\ Entry \in Paths(proj)
      /\ proj.dir \in Seq(Paths(proj))
      /\ \A i, j \in DOMAIN proj.dir : proj.dir[i] = proj.dir[j] => i = j
      /\ sib \in Nat \ {0}
      /\ DOMAIN proj.dir = 1 .. Len(proj.dir)
      /\ Len(proj.dir) \in Nat
  BY ProjectFacts, LenProperties DEF TypeOK
<1>1. CASE LoadEntry
  <2>1. units = <<>> /\ units' = Append(units, Unit(Entry, TRUE)) /\ proj' = proj
    BY <1>1 DEF LoadEntry, Stages
  <2>2. UnitsUnique'
    <3>1. \A u \in DOMAIN units : units[u].path # Entry
      BY <2>1
    <3>2. TRUE \in BOOLEAN
      OBVIOUS
    <3>3. QED
      BY <2>1, <3>1, <3>2, <1>a, PushUnique, Zenon
  <2>3. \A u \in DOMAIN units' : units'[u].path = Entry
    BY <2>1 DEF Unit
  <2>4. QED
    BY <2>1, <2>2, <2>3, Zenon DEF SiblingsFound
<1>2. CASE LoadSibling
  <2> DEFINE path == proj.dir[sib]
  <2>1. /\ status = "siblings" /\ sib \in DOMAIN proj.dir /\ sib' = sib + 1
        /\ path \in Paths(proj) /\ proj' = proj
    BY <1>2, <1>a, ElementOfSeq DEF LoadSibling
  <2>2. \A i \in DOMAIN proj.dir : i < sib => i < sib' /\ i # sib
    BY <2>1, <1>a
  <2>3. sib < sib'
    BY <2>1, <1>a
  <2>4. CASE path = Entry
    <3>1. units' = units
      BY <2>4, <1>2, Zenon DEF LoadSibling
    <3>2. QED
      BY <3>1, <2>1, <2>2, SamePathsUnique, Zenon DEF SiblingsFound
  <2>5. CASE path # Entry
    <3>1. PICK included \in BOOLEAN : units' = Append(units, Unit(path, included))
      BY <2>5, <1>2, Zenon DEF LoadSibling
    <3>2. \A u \in DOMAIN units : units[u].path # path
      BY <2>1, <2>2, <2>5, <1>a, Zenon DEF SiblingsFound
    <3>3. UnitsUnique'
      BY <3>1, <3>2, <2>1, PushUnique
    <3>4. \A u \in DOMAIN units' :
            \/ u \in DOMAIN units /\ units'[u] = units[u]
            \/ units'[u].path = path
      <4>1. \A u \in DOMAIN units' :
              \/ u \in DOMAIN units /\ units'[u] = units[u]
              \/ units'[u] = Unit(path, included)
        BY <3>1, <2>1, UnitsPush
      <4>2. QED
        BY <4>1 DEF Unit
    <3>5. SiblingsFound'
      BY <3>4, <2>1, <2>2, <2>3, Zenon DEF SiblingsFound
    <3>6. QED
      BY <3>3, <3>5
  <2>6. QED
    BY <2>4, <2>5
<1>3. CASE LoadFile
  <2>1. \A u \in DOMAIN units : units[u].path # Files[Top.file]
    BY <1>3 DEF LoadFile, Find
  <2>2. PICK path \in Paths(proj), included \in BOOLEAN :
          /\ path = Files[Top.file]
          /\ units' = Append(units, Unit(path, included))
    <3>1. Files[Top.file] \in Paths(proj)
      BY <1>3, ImportFacts DEF LoadFile, InCall
    <3>2. (Files[Top.file] \in proj.readable) \in BOOLEAN
      OBVIOUS
    <3>3. QED
      BY <1>3, <3>1, <3>2, Zenon DEF LoadFile
  <2>3. UnitsUnique'
    BY <2>1, <2>2, PushUnique
  <2>4. status' # "siblings"
    BY <1>3, VisitStatus
  <2>5. QED
    BY <2>3, <2>4 DEF SiblingsFound
<1>4. CASE VisitFile
  <2>1. PICK u \in DOMAIN units : units' = [units EXCEPT ![u].included = TRUE]
    BY <1>4, Zenon DEF VisitFile, Find
  <2>2. DOMAIN units' = DOMAIN units
    BY <2>1
  <2>3. \A v \in DOMAIN units : units'[v].path = units[v].path
    BY <2>1, UnitFacts DEF UnitType
  <2>4. status' # "siblings"
    BY <1>4, VisitStatus
  <2>5. QED
    BY <2>2, <2>3, <2>4, SamePathsUnique DEF SiblingsFound
<1>5. CASE EndCall
  <2>1. Top.u \in DOMAIN units /\ status' # "siblings"
    BY <1>5, TopFacts DEF EndCall, InCall
  <2>2. units' = units \/ units' = [units EXCEPT ![Top.u].loaded = TRUE]
    BY <1>5, Zenon DEF EndCall
  <2>3. /\ DOMAIN units' = DOMAIN units
        /\ \A v \in DOMAIN units : units'[v].path = units[v].path
    <3>1. \A v \in DOMAIN units : units[v] \in UnitType
      BY UnitFacts
    <3>2. QED
      BY <2>1, <2>2, <3>1 DEF UnitType
  <2>4. QED
    BY <2>1, <2>3, SamePathsUnique DEF SiblingsFound
<1>6. CASE SiblingsDone \/ Crash \/ Circular \/ NextImport
  BY <1>6, SamePathsUnique DEF SiblingsDone, Crash, Circular, NextImport, InCall,
     SiblingsFound
<1>7. CASE VisitRoot
  BY <1>7, VisitStatus, SamePathsUnique DEF VisitRoot, SiblingsFound
<1>8. CASE MergeAndCheck
  <2>1. units' = units /\ status' \in {"ok", "unresolved"}
    BY <1>8, Zenon DEF MergeAndCheck
  <2>2. QED
    BY <2>1, SamePathsUnique DEF SiblingsFound
<1>9. CASE UNCHANGED vars
  BY <1>9, SamePathsUnique DEF vars, SiblingsFound
<1>10. QED
  BY <1>1, <1>2, <1>3, <1>4, <1>5, <1>6, <1>7, <1>8, <1>9 DEF Next

-----------------------------------------------------------------------------
(* A call that is through with its imports has covered its unit.           *)
LEMMA CallDone ==
  ASSUME TypeOK, frames # <<>>, CallCovers(Top),
         Top.imp > Len(Imports(Top.u))
  PROVE  Covered(Top.u)
<1>1. /\ Imports(Top.u) \in Seq(Names(proj))
      /\ Top.imp \in Nat
  BY TopFacts DEF FrameType
<1>2. \A k \in DOMAIN Imports(Top.u) : k < Top.imp
  BY <1>1, LenProperties
<1>3. \A k \in DOMAIN Imports(Top.u) :
        \A path \in FilesOf(Imports(Top.u)[k]) : InProgram(path)
  BY <1>2, Zenon DEF CallCovers
<1>4. \A path \in Targets(Top.u) :
        \E k \in DOMAIN Imports(Top.u) : path \in FilesOf(Imports(Top.u)[k])
  BY DEF Targets, ToSet
<1>5. QED
  BY <1>3, <1>4, Zenon DEF Covered

(* imports_loaded is set only at the end of a call, and stays.             *)
LEMMA LoadedStep ==
  TypeOK /\ LoadedIsCovered /\ ImportsVisited /\ [Next]_vars => LoadedIsCovered'
<1> SUFFICES ASSUME TypeOK, LoadedIsCovered, ImportsVisited, [Next]_vars,
                    NEW u \in DOMAIN units', units'[u].loaded
             PROVE  Covered(u)'
  BY Zenon DEF LoadedIsCovered
<1>a. Grown
  BY StepGrown
<1>b. ASSUME u \in DOMAIN units, units[u].loaded
      PROVE  Covered(u)'
  BY <1>a, <1>b, GrownKeeps DEF LoadedIsCovered
<1>1. CASE LoadEntry \/ LoadSibling \/ LoadFile
  <2>1. CASE units' = units
    BY <2>1, <1>b, Zenon
  <2>2. CASE \E path \in Paths(proj), included \in BOOLEAN :
               units' = Append(units, Unit(path, included))
    <3>1. PICK path \in Paths(proj), included \in BOOLEAN :
                 units' = Append(units, Unit(path, included))
      BY <2>2
    <3>2. \/ u \in DOMAIN units /\ units'[u] = units[u]
          \/ units'[u] = Unit(path, included)
      BY <3>1, UnitsPush
    <3>3. Unit(path, included).loaded = FALSE
      BY DEF Unit
    <3>4. QED
      BY <3>2, <3>3, <1>b, Zenon
  <2>3. QED
    BY <1>1, <2>1, <2>2, PushSteps
<1>2. CASE VisitFile
  <2>1. PICK v \in DOMAIN units : units' = [units EXCEPT ![v].included = TRUE]
    BY <1>2, Zenon DEF VisitFile, Find
  <2>2. \A w \in DOMAIN units : units[w] \in UnitType
    BY UnitFacts
  <2>3. u \in DOMAIN units /\ units[u].loaded
    BY <2>1, <2>2 DEF UnitType
  <2>4. QED
    BY <2>3, <1>b
<1>3. CASE EndCall
  <2>1. /\ Top.u \in DOMAIN units
        /\ Len(frames) \in DOMAIN frames
        /\ Top = frames[Len(frames)]
        /\ frames # <<>>
        /\ status = "imports"
    BY <1>3, TopFacts DEF EndCall, InCall
  <2>2. units' = units \/ units' = [units EXCEPT ![Top.u].loaded = TRUE]
    BY <1>3, Zenon DEF EndCall
  <2>3. CallCovers(Top)
    BY <2>1 DEF ImportsVisited, Errors
  <2>4. Covered(Top.u)
    BY <1>3, <2>1, <2>3, CallDone DEF EndCall
  <2>5. CASE u = Top.u
    BY <2>1, <2>4, <2>5, <1>a, GrownKeeps
  <2>6. CASE u # Top.u
    <3>1. u \in DOMAIN units /\ units[u].loaded
      BY <2>1, <2>2, <2>6
    <3>2. QED
      BY <3>1, <1>b
  <2>7. QED
    BY <2>5, <2>6
<1>4. CASE \/ SiblingsDone \/ VisitRoot \/ Crash \/ Circular \/ NextImport
           \/ MergeAndCheck \/ UNCHANGED vars
  <2>1. units' = units
    BY <1>4 DEF SiblingsDone, VisitRoot, Crash, Circular, NextImport,
                MergeAndCheck, vars
  <2>2. QED
    BY <2>1, <1>b, Zenon
<1>5. QED
  BY <1>1, <1>2, <1>3, <1>4 DEF Next

-----------------------------------------------------------------------------
(* A call that starts has gone past nothing.                               *)
FreshCallCovers ==
  \A f : /\ IsProject(proj)
         /\ units \in Seq(UnitType)
         /\ f.u \in DOMAIN units
         /\ f.imp = 1
         /\ f.file = 1
         => CallCovers(f)

(* A call that has just begun has gone past nothing.                       *)
LEMMA FreshCovers == FreshCallCovers
<1> SUFFICES ASSUME IsProject(proj), units \in Seq(UnitType),
                    NEW f, f.u \in DOMAIN units, f.imp = 1, f.file = 1
             PROVE  CallCovers(f)
  BY DEF FreshCallCovers
<1>1. units[f.u].path \in Paths(proj)
  <2>1. units[f.u] \in UnitType
    BY LenProperties, ElementOfSeq
  <2>2. QED
    BY <2>1 DEF UnitType
<1>2. /\ proj.imports \in [Paths(proj) -> Seq(Names(proj))]
      /\ proj.resolve \in [Names(proj) -> Seq(Paths(proj))]
  BY ProjectFacts
<1>3. Imports(f.u) \in Seq(Names(proj))
  BY <1>1, <1>2, Zenon DEF Imports
<1>4. \A k \in DOMAIN Imports(f.u) : ~(k < 1)
  BY <1>3, LenProperties
<1>5. ASSUME 1 \in DOMAIN Imports(f.u)
      PROVE  \A j \in DOMAIN FilesAt(f) : ~(j < 1)
  <2>1. Imports(f.u)[f.imp] \in Names(proj)
    BY <1>3, <1>5, LenProperties, ElementOfSeq
  <2>2. FilesAt(f) \in Seq(Paths(proj))
    BY <2>1, <1>2, Zenon DEF FilesAt
  <2>3. QED
    BY <2>2, LenProperties
<1>6. QED
  BY <1>4, <1>5, Zenon DEF CallCovers

(* Going past one file, or one import, needs just that one.                *)
NextFileKeepsCover ==
  \A f, g : /\ CallCovers(f)
            /\ f.file \in Nat
            /\ FilesAt(f) \in Seq(Paths(proj))
            /\ \A path : path = FilesAt(f)[f.file] => InProgram(path)
            /\ g.u = f.u
            /\ g.imp = f.imp
            /\ g.file = f.file + 1
            => CallCovers(g)

(* A call may go on from a file that is in the program.                    *)
LEMMA NextFileCovers == NextFileKeepsCover
<1> SUFFICES ASSUME NEW f, NEW g, CallCovers(f), f.file \in Nat,
                    FilesAt(f) \in Seq(Paths(proj)),
                    \A path : path = FilesAt(f)[f.file] => InProgram(path),
                    g.u = f.u, g.imp = f.imp, g.file = f.file + 1
             PROVE  CallCovers(g)
  BY Zenon DEF NextFileKeepsCover
<1>1. FilesAt(g) = FilesAt(f)
  BY DEF FilesAt
<1>2. ASSUME f.imp \in DOMAIN Imports(f.u), NEW j \in DOMAIN FilesAt(f),
             j < f.file + 1
      PROVE  InProgram(FilesAt(f)[j])
  <2>1. j \in Nat
    BY <1>2, LenProperties
  <2>2. j < f.file \/ j = f.file
    BY <2>1, <1>2
  <2>3. QED
    BY <2>2, <1>2, Zenon DEF CallCovers
<1>3. QED
  BY <1>1, <1>2, Zenon DEF CallCovers

(* A call may go on from an import whose files it has all gone past.       *)
LEMMA NextImportCovers ==
  ASSUME NEW f \in FrameType, NEW g, CallCovers(f),
         g.u = f.u, g.imp = f.imp + 1, g.file = 1,
         Imports(f.u) \in Seq(Names(proj)),
         proj.resolve \in [Names(proj) -> Seq(Paths(proj))],
         f.imp \in DOMAIN Imports(f.u),
         f.file > Len(FilesAt(f))
  PROVE  CallCovers(g)
<1>1. FilesAt(f) = proj.resolve[Imports(f.u)[f.imp]]
  BY DEF FilesAt
<1>2. /\ FilesAt(f) \in Seq(Paths(proj))
      /\ \A j \in DOMAIN FilesAt(f) : j < f.file
  <2>1. Imports(f.u)[f.imp] \in Names(proj)
    BY LenProperties, ElementOfSeq
  <2>2. FilesAt(f) \in Seq(Paths(proj))
    BY <2>1, <1>1, Zenon
  <2>3. QED
    BY <2>2, LenProperties DEF FrameType
<1>3. \A path \in FilesOf(Imports(f.u)[f.imp]) : InProgram(path)
  <2>1. \A j \in DOMAIN FilesAt(f) : InProgram(FilesAt(f)[j])
    BY <1>2, Zenon DEF CallCovers
  <2>2. QED
    BY <2>1, <1>1 DEF FilesOf, ToSet
<1>4. ASSUME NEW k \in DOMAIN Imports(f.u), k < f.imp + 1
      PROVE  \A path \in FilesOf(Imports(f.u)[k]) : InProgram(path)
  <2>1. k < f.imp \/ k = f.imp
    BY <1>4, LenProperties DEF FrameType
  <2>2. QED
    BY <2>1, <1>3, <1>4, Zenon DEF CallCovers
<1>5. ASSUME g.imp \in DOMAIN Imports(f.u)
      PROVE  \A j \in DOMAIN FilesAt(g) : ~(j < 1)
  <2>1. Imports(f.u)[g.imp] \in Names(proj)
    BY <1>5, LenProperties, ElementOfSeq
  <2>2. FilesAt(g) \in Seq(Paths(proj))
    BY <2>1, Zenon DEF FilesAt
  <2>3. QED
    BY <2>2, LenProperties
<1>6. QED
  BY <1>4, <1>5, Zenon DEF CallCovers

(* After a call of load_imports_recursive that did not fail, its unit is   *)
(* covered or being visited, and its callers are where they were.          *)
LEMMA CallVisits ==
  ASSUME TypeOK', proj' = proj, LoadedIsCovered',
         status' \notin Errors,
         NEW u \in DOMAIN units', NEW stack, NEW fs \in Seq(FrameType),
         Call(u, stack, units', fs),
         \A i \in DOMAIN fs : \A f : f = fs[i] => CallCovers(f)'
  PROVE  /\ \A i \in DOMAIN frames' : \A f : f = frames'[i] => CallCovers(f)'
         /\ Covered(u)' \/ Active(u)'
         /\ \A i \in DOMAIN fs : \A v : v = fs[i].u => Active(v)'
<1>1. CASE units'[u].loaded /\ frames' = fs
  <2>1. Covered(u)'
    BY <1>1, Zenon DEF LoadedIsCovered
  <2>2. QED
    BY <1>1, <2>1, Zenon DEF Active
<1>2. CASE frames' =
             Append(fs, Frame(u, WithPackage(stack, proj.pkg[units'[u].path])))
  <2> DEFINE g == Frame(u, WithPackage(stack, proj.pkg[units'[u].path]))
  <2>1. g.u = u /\ g.imp = 1 /\ g.file = 1
    BY DEF Frame
  <2>2. /\ IsProject(proj)'
        /\ units' \in Seq(UnitType)'
    BY DEF TypeOK, UnitType
  <2>3. FreshCallCovers'
    BY FreshCovers, PTL
  <2>4. \A f : f = g => CallCovers(f)'
    BY <2>1, <2>2, <2>3, Zenon DEF FreshCallCovers
  <2>5. /\ DOMAIN fs = 1 .. Len(fs)
        /\ Len(fs) \in Nat
        /\ DOMAIN frames' = 1 .. Len(fs) + 1
        /\ \A i \in DOMAIN fs : frames'[i] = fs[i]
        /\ frames'[Len(fs) + 1] = g
    <3> HIDE DEF g
    <3>1. DOMAIN fs = 1 .. Len(fs) /\ Len(fs) \in Nat
      BY LenProperties
    <3>2. frames' = Append(fs, g)
      BY <1>2 DEF g
    <3>3. QED
      BY <3>1, <3>2
  <2> HIDE DEF g
  <2>6. \A i \in DOMAIN frames' : i \in DOMAIN fs \/ i = Len(fs) + 1
    BY <2>5
  <2>7. \A i \in DOMAIN fs : i \in DOMAIN frames'
    BY <2>5
  <2>8. Len(fs) + 1 \in DOMAIN frames'
    BY <2>5
  <2>9. QED
    BY <2>1, <2>4, <2>5, <2>6, <2>7, <2>8, Zenon DEF Active
<1>3. CASE status' \in {"too deep", "overflow"}
  BY <1>3 DEF Errors
<1>4. QED
  BY <1>1, <1>2, <1>3, CallCases, Zenon

(* What a call covers depends on its unit and its two counters only.       *)
SamePlaceSameCover ==
  \A f, g : CallCovers(f) /\ g.u = f.u /\ g.imp = f.imp /\ g.file = f.file
              => CallCovers(g)

(* Coverage depends only on where a call stands.                           *)
LEMMA SamePlaceCovers == SamePlaceSameCover
  BY Zenon DEF SamePlaceSameCover, CallCovers, FilesAt

(* When the innermost call goes on to its next file, and that file is in   *)
(* the program, every active call still covers what it has gone past.      *)
LEMMA FilePassed ==
  ASSUME TypeOK, Grown, ImportsVisited, status = "imports", frames # <<>>,
         Top.imp <= Len(Imports(Top.u)), Top.file <= Len(Files),
         NEW fs, DOMAIN fs = DOMAIN frames,
         \A i \in DOMAIN frames :
           /\ fs[i].u = frames[i].u
           /\ fs[i].imp = frames[i].imp
           /\ fs[i].file = IF i = Len(frames) THEN frames[i].file + 1
                                              ELSE frames[i].file,
         \A path : path = Files[Top.file] => InProgram(path)'
  PROVE  \A i \in DOMAIN fs : \A g : g = fs[i] => CallCovers(g)'
<1> SUFFICES ASSUME NEW i \in DOMAIN frames, NEW g, g = fs[i]
             PROVE  CallCovers(g)'
  BY Zenon
<1>1. PICK f : f = frames[i]
  OBVIOUS
<1>2. f \in FrameType /\ f.u \in DOMAIN units
  <2>1. frames \in Seq(FrameType)
    BY DEF TypeOK, FrameType
  <2>2. f \in FrameType
    BY <2>1, <1>1, LenProperties, ElementOfSeq
  <2>3. QED
    BY <2>2, <1>1 DEF TypeOK
<1>3. CallCovers(f)'
  <2>1. CallCovers(f)
    BY <1>1 DEF ImportsVisited, Errors
  <2>2. QED
    BY <2>1, <1>2, GrownKeeps
<1>4. CASE i # Len(frames)
  <2>1. g.u = f.u /\ g.imp = f.imp /\ g.file = f.file
    BY <1>1, <1>4, Zenon
  <2>2. SamePlaceSameCover'
    BY SamePlaceCovers, PTL
  <2>3. QED
    BY <1>3, <2>1, <2>2, Zenon DEF SamePlaceSameCover
<1>5. CASE i = Len(frames)
  <2>1. f = Top
    BY <1>1, <1>5, TopFacts
  <2>2. g.u = f.u /\ g.imp = f.imp /\ g.file = f.file + 1 /\ f.file \in Nat
    BY <1>1, <1>2, <1>5 DEF FrameType
  <2>3. FilesAt(f) = Files
    BY <2>1 DEF FilesAt, Files, Import
  <2>4. FilesAt(f)' = FilesAt(f)
    BY <1>2, GrownKeeps DEF FilesAt, Grown
  <2>5. Files \in Seq(Paths(proj)) /\ Paths(proj)' = Paths(proj)
    BY ImportFacts DEF Paths, Grown
  <2>6. \A path : path = FilesAt(f)'[f.file] => InProgram(path)'
    BY <2>1, <2>3, <2>4
  <2>7. NextFileKeepsCover'
    BY NextFileCovers, PTL
  <2>8. QED
    BY <1>3, <2>2, <2>3, <2>4, <2>5, <2>6, <2>7, Zenon DEF NextFileKeepsCover
<1>6. QED
  BY <1>4, <1>5

(* What a step has to show.                                                *)
LEMMA VisitedGoal ==
  ASSUME \A i \in DOMAIN frames' : \A f : f = frames'[i] => CallCovers(f)',
         \A v \in DOMAIN units' : units'[v].included /\ v < root'
                                   => Covered(v)' \/ Active(v)'
  PROVE  ImportsVisited'
  BY Zenon DEF ImportsVisited, Included

(* A unit gone past is covered or visited, also after the table has grown. *)
LEMMA UnitVisited ==
  ASSUME TypeOK, Grown, ImportsVisited, status = "imports",
         NEW v \in DOMAIN units, units[v].included, v < root
  PROVE  Covered(v)' \/ \E i \in DOMAIN frames : frames[i].u = v
<1>1. Covered(v) \/ Active(v)
  BY DEF ImportsVisited, Errors, Included
<1>2. QED
  BY <1>1, GrownKeeps, Zenon DEF Active

(* Visiting the next unit of the table: it is done, or its call begins.    *)
LEMMA VisitRootVisits ==
  ASSUME TypeOK, TypeOK', Grown, ImportsVisited, LoadedIsCovered', VisitRoot,
         status' \notin Errors
  PROVE  ImportsVisited'
<1>1. /\ status = "imports" /\ frames = <<>> /\ root \in DOMAIN units
      /\ units' = units /\ root' = root + 1 /\ proj' = proj
  <2>1. root \in Nat \ {0} /\ units \in Seq(UnitType)
    BY TypeParts
  <2>2. /\ status = "imports" /\ frames = <<>> /\ root <= Len(units)
        /\ units' = units /\ root' = root + 1 /\ proj' = proj
    BY Zenon DEF VisitRoot
  <2>3. QED
    BY <2>1, <2>2, LenProperties
<1>2. \A v \in DOMAIN units : units[v].included /\ v < root => Covered(v)'
  BY <1>1, UnitVisited
<1>3. \A v \in DOMAIN units : v < root' => v < root \/ v = root
  BY <1>1, UnitFacts
<1>4. CASE units[root].included
  <2>1. Call(root, <<>>, units', <<>>)
    BY <1>1, <1>4, Zenon DEF VisitRoot
  <2>2. <<>> \in Seq(FrameType) /\ DOMAIN <<>> = {} /\ root \in DOMAIN units'
    BY <1>1
  <2>3. /\ \A i \in DOMAIN frames' : \A f : f = frames'[i] => CallCovers(f)'
        /\ \A v : v = root => Covered(v)' \/ Active(v)'
    BY <1>1, <2>1, <2>2, CallVisits
  <2>4. QED
    BY <1>1, <1>2, <1>3, <2>3, VisitedGoal, Zenon
<1>5. CASE ~units[root].included
  <2>1. frames' = <<>>
    BY <1>1, <1>5, Zenon DEF VisitRoot
  <2>2. DOMAIN frames' = {}
    BY <2>1
  <2>3. QED
    BY <1>1, <1>2, <1>3, <1>5, <2>2, VisitedGoal, Zenon
<1>6. QED
  BY <1>4, <1>5

(* Visiting a file that is already in the table.                           *)
LEMMA VisitFileVisits ==
  ASSUME TypeOK, TypeOK', Grown, ImportsVisited, LoadedIsCovered', VisitFile,
         status' \notin Errors
  PROVE  ImportsVisited'
<1>1. /\ status = "imports" /\ frames # <<>> /\ root' = root /\ proj' = proj
      /\ Top.imp <= Len(Imports(Top.u)) /\ Top.file <= Len(Files)
  BY DEF VisitFile, InCall
<1>2. PICK u \in DOMAIN units :
        /\ units[u].path = Files[Top.file]
        /\ units' = [units EXCEPT ![u].included = TRUE]
        /\ Call(u, Top.stack, units', NextFile(frames))
  BY Zenon DEF VisitFile, Find
<1>3. /\ DOMAIN units' = DOMAIN units
      /\ units'[u].path = units[u].path /\ units'[u].included
      /\ \A v \in DOMAIN units : v # u => units'[v] = units[v]
  <2>1. units[u] \in UnitType
    BY UnitFacts
  <2>2. QED
    BY <1>2, <2>1 DEF UnitType
<1>4. \A path : path = Files[Top.file] => InProgram(path)'
  BY <1>2, <1>3, Zenon DEF InProgram
<1>5. /\ frames \in Seq(FrameType)
      /\ NextFile(frames) \in Seq(FrameType)
      /\ DOMAIN NextFile(frames) = DOMAIN frames
      /\ \A i \in DOMAIN frames :
           /\ NextFile(frames)[i].u = frames[i].u
           /\ NextFile(frames)[i].imp = frames[i].imp
           /\ NextFile(frames)[i].file =
                IF i = Len(frames) THEN frames[i].file + 1 ELSE frames[i].file
  <2>1. frames \in Seq(FrameType)
    BY DEF TypeOK, FrameType
  <2>2. QED
    BY <1>1, <2>1, NextFileType, Zenon
<1>6. \A i \in DOMAIN NextFile(frames) :
        \A g : g = NextFile(frames)[i] => CallCovers(g)'
  BY <1>1, <1>4, <1>5, FilePassed, Zenon
<1>7. /\ \A i \in DOMAIN frames' : \A f : f = frames'[i] => CallCovers(f)'
      /\ Covered(u)' \/ Active(u)'
      /\ \A i \in DOMAIN NextFile(frames) :
           \A v : v = NextFile(frames)[i].u => Active(v)'
  <2>1. u \in DOMAIN units'
    BY <1>3
  <2>2. QED
    BY <1>1, <1>2, <1>5, <1>6, <2>1, CallVisits, Zenon
<1>8. ASSUME NEW v \in DOMAIN units', units'[v].included, v < root'
      PROVE  Covered(v)' \/ Active(v)'
  <2>1. CASE v = u
    BY <2>1, <1>7
  <2>2. CASE v # u
    <3>1. v \in DOMAIN units /\ units[v].included /\ v < root
      BY <1>1, <1>3, <1>8, <2>2, Zenon
    <3>2. Covered(v)' \/ \E i \in DOMAIN frames : frames[i].u = v
      BY <3>1, <1>1, UnitVisited
    <3>3. QED
      BY <3>2, <1>5, <1>7, Zenon
  <2>3. QED
    BY <2>1, <2>2
<1>9. QED
  BY <1>7, <1>8, VisitedGoal, Zenon

(* Loading a file, while the table may move under the active calls.        *)
LEMMA LoadFileVisits ==
  ASSUME TypeOK, TypeOK', Grown, ImportsVisited, LoadedIsCovered', LoadFile,
         status' \notin Errors
  PROVE  ImportsVisited'
<1> DEFINE path == Files[Top.file]
           u == Len(units) + 1
<1>1. /\ status = "imports" /\ frames # <<>> /\ root' = root /\ proj' = proj
      /\ Top.imp <= Len(Imports(Top.u)) /\ Top.file <= Len(Files)
  BY DEF LoadFile, InCall
<1>2. PICK moved \in BOOLEAN :
        /\ units' = Append(units, Unit(path, path \in proj.readable))
        /\ IF path \in proj.readable
           THEN Call(u, Top.stack, units', Moved(NextFile(frames), moved))
           ELSE status' = "failed"
  BY Zenon DEF LoadFile
<1>3. path \in proj.readable
  BY <1>2 DEF Errors
<1>4. /\ units' = Append(units, Unit(path, TRUE))
      /\ Call(u, Top.stack, units', Moved(NextFile(frames), moved))
  <2>1. (path \in proj.readable) = TRUE
    BY <1>3
  <2>2. QED
    BY <1>2, <1>3, <2>1, Zenon
<1>5. /\ u \in DOMAIN units'
      /\ units'[u].path = path /\ units'[u].included
      /\ \A v \in DOMAIN units' : v # u => v \in DOMAIN units /\ units'[v] = units[v]
  <2> HIDE DEF path
  <2>1. path \in Paths(proj)
    BY <1>1, ImportFacts DEF path
  <2>2. TRUE \in BOOLEAN
    OBVIOUS
  <2>3. /\ Len(units) \in Nat
        /\ DOMAIN units = 1 .. Len(units)
        /\ DOMAIN units' = 1 .. Len(units) + 1
        /\ \A v \in DOMAIN units : units'[v] = units[v]
        /\ units'[Len(units) + 1] = Unit(path, TRUE)
    BY <1>4, <2>1, <2>2, UnitsPush, Zenon
  <2>4. Unit(path, TRUE).path = path /\ Unit(path, TRUE).included = TRUE
    BY DEF Unit
  <2>5. /\ u \in DOMAIN units'
        /\ \A v \in DOMAIN units' : v # u => v \in DOMAIN units
    BY <2>3
  <2>6. QED
    BY <2>3, <2>4, <2>5, Zenon
<1>6. \A p : p = Files[Top.file] => InProgram(p)'
  BY <1>5, Zenon DEF InProgram
<1> DEFINE fs == Moved(NextFile(frames), moved)
<1>7. /\ fs \in Seq(FrameType)
      /\ DOMAIN fs = DOMAIN frames
      /\ \A i \in DOMAIN frames :
           /\ fs[i].u = frames[i].u
           /\ fs[i].imp = frames[i].imp
           /\ fs[i].file =
                IF i = Len(frames) THEN frames[i].file + 1 ELSE frames[i].file
  <2>1. frames \in Seq(FrameType)
    BY DEF TypeOK, FrameType
  <2>2. /\ NextFile(frames) \in Seq(FrameType)
        /\ DOMAIN NextFile(frames) = DOMAIN frames
        /\ \A i \in DOMAIN frames :
             /\ NextFile(frames)[i].u = frames[i].u
             /\ NextFile(frames)[i].imp = frames[i].imp
             /\ NextFile(frames)[i].file =
                  IF i = Len(frames) THEN frames[i].file + 1 ELSE frames[i].file
    BY <1>1, <2>1, NextFileType, Zenon
  <2>3. /\ fs \in Seq(FrameType)
        /\ DOMAIN fs = DOMAIN NextFile(frames)
        /\ \A i \in DOMAIN NextFile(frames) :
             /\ fs[i].u = NextFile(frames)[i].u
             /\ fs[i].imp = NextFile(frames)[i].imp
             /\ fs[i].file = NextFile(frames)[i].file
    BY <2>2, MovedType, Zenon
  <2>4. QED
    BY <2>2, <2>3, Zenon
<1> HIDE DEF fs
<1>8. \A i \in DOMAIN fs : \A g : g = fs[i] => CallCovers(g)'
  BY <1>1, <1>6, <1>7, FilePassed, Zenon
<1>9. /\ \A i \in DOMAIN frames' : \A f : f = frames'[i] => CallCovers(f)'
      /\ \A v : v = u => Covered(v)' \/ Active(v)'
      /\ \A i \in DOMAIN fs : \A v : v = fs[i].u => Active(v)'
  BY <1>1, <1>4, <1>5, <1>7, <1>8, CallVisits, Zenon DEF fs
<1>10. ASSUME NEW v \in DOMAIN units', units'[v].included, v < root'
       PROVE  Covered(v)' \/ Active(v)'
  <2>1. CASE v = u
    BY <2>1, <1>9, Zenon
  <2>2. CASE v # u
    <3>1. v \in DOMAIN units /\ units[v].included /\ v < root
      BY <1>1, <1>5, <1>10, <2>2, Zenon
    <3>2. Covered(v)' \/ \E i \in DOMAIN frames : frames[i].u = v
      BY <3>1, <1>1, UnitVisited
    <3>3. QED
      BY <3>2, <1>7, <1>9, Zenon
  <2>3. QED
    BY <2>1, <2>2
<1>11. QED
  BY <1>9, <1>10, VisitedGoal, Zenon

(* Every active call has its type and works on a unit of the table.         *)
LEMMA FramesTyped ==
  ASSUME TypeOK
  PROVE  \A i \in DOMAIN frames : frames[i] \in FrameType /\ frames[i].u \in DOMAIN units
<1>1. frames \in Seq(FrameType) /\ \A i \in DOMAIN frames : frames[i].u \in DOMAIN units
  BY DEF TypeOK, FrameType
<1>2. \A i \in DOMAIN frames : frames[i] \in FrameType
  BY <1>1, LenProperties, ElementOfSeq
<1>3. QED
  BY <1>1, <1>2

(* Going on to the next import.                                            *)
LEMMA NextImportVisits ==
  ASSUME TypeOK, Grown, ImportsVisited, NextImport
  PROVE  ImportsVisited'
<1> DEFINE g == [Top EXCEPT !.imp = @ + 1, !.file = 1]
<1>1. /\ status = "imports" /\ frames # <<>> /\ root' = root
      /\ units' = units /\ frames' = Append(Base, g)
      /\ Top.imp <= Len(Imports(Top.u)) /\ Top.file > Len(Files)
  BY Zenon DEF NextImport, InCall
<1>2. /\ Top \in FrameType /\ Top.u \in DOMAIN units
      /\ Top = frames[Len(frames)] /\ Len(frames) \in DOMAIN frames
      /\ Imports(Top.u) \in Seq(Names(proj))
      /\ Top.imp \in DOMAIN Imports(Top.u)
  BY <1>1, TopFacts, ImportFacts
<1>3. g.u = Top.u /\ g.imp = Top.imp + 1 /\ g.file = 1
  BY <1>2 DEF FrameType
<1>4. g \in FrameType
  <2>1. Top.imp + 1 \in Nat \ {0} /\ 1 \in Nat \ {0}
    BY <1>2 DEF FrameType
  <2>2. ASSUME NEW n \in Nat \ {0}, NEW m \in Nat \ {0}
        PROVE  [Top EXCEPT !.imp = n, !.file = m] \in FrameType
    BY <1>2 DEF FrameType
  <2>3. QED
    BY <2>1, <2>2, Zenon
<1> HIDE DEF g
<1>5. CallCovers(g)
  <2>1. CallCovers(Top)
    BY <1>1, <1>2 DEF ImportsVisited, Errors
  <2>2. proj.resolve \in [Names(proj) -> Seq(Paths(proj))]
    BY ProjectFacts DEF TypeOK
  <2>3. FilesAt(Top) = Files
    BY DEF FilesAt, Files, Import
  <2>4. QED
    BY <1>1, <1>2, <1>3, <2>1, <2>2, <2>3, NextImportCovers, Zenon
<1>6. \A f : f = g => CallCovers(f)'
  BY <1>2, <1>3, <1>4, <1>5, GrownKeeps, Zenon
<1>7. /\ DOMAIN frames' = 1 .. Len(frames)
      /\ \A i \in 1 .. Len(frames) - 1 : frames'[i] = frames[i]
      /\ frames'[Len(frames)] = g
      /\ Len(frames) \in Nat \ {0}
      /\ DOMAIN frames = 1 .. Len(frames)
  <2>1. /\ Base \in Seq(FrameType) /\ Len(Base) = Len(frames) - 1
        /\ DOMAIN Base = 1 .. Len(frames) - 1
        /\ DOMAIN frames = 1 .. Len(frames)
        /\ \A i \in DOMAIN Base : Base[i] = frames[i]
        /\ Len(frames) \in Nat \ {0}
    <3>1. frames \in Seq(FrameType)
      BY DEF TypeOK, FrameType
    <3>2. QED
      BY <1>1, <3>1, TopFacts, EmptySeq
  <2>2. /\ DOMAIN Append(Base, g) = 1 .. Len(Base) + 1
        /\ \A i \in 1 .. Len(Base) : Append(Base, g)[i] = Base[i]
        /\ Append(Base, g)[Len(Base) + 1] = g
    BY <2>1, <1>4
  <2>3. QED
    BY <1>1, <2>1, <2>2
<1>8. \A i \in 1 .. Len(frames) : i \in 1 .. Len(frames) - 1 \/ i = Len(frames)
  <2>1. \A n \in Nat \ {0} : \A i \in 1 .. n : i \in 1 .. n - 1 \/ i = n
    OBVIOUS
  <2>2. QED
    BY <1>7, <2>1, Zenon
<1>9. \A i \in DOMAIN frames : \A f : f = frames[i] => CallCovers(f)'
  <2>1. \A i \in DOMAIN frames : frames[i] \in FrameType /\ frames[i].u \in DOMAIN units
    BY FramesTyped
  <2>2. \A i \in DOMAIN frames : CallCovers(frames[i])
    BY <1>1 DEF ImportsVisited, Errors
  <2>3. QED
    BY <2>1, <2>2, GrownKeeps, Zenon
<1>10. \A i \in DOMAIN frames' : \A f : f = frames'[i] => CallCovers(f)'
  BY <1>6, <1>7, <1>8, <1>9, Zenon
<1>11. \A i \in DOMAIN frames : i \in DOMAIN frames' /\ frames'[i].u = frames[i].u
  BY <1>2, <1>3, <1>7, <1>8, Zenon
<1>12. ASSUME NEW v \in DOMAIN units', units'[v].included, v < root'
       PROVE  Covered(v)' \/ Active(v)'
  <2>1. Covered(v)' \/ \E i \in DOMAIN frames : frames[i].u = v
    BY <1>1, <1>12, UnitVisited, Zenon
  <2>2. QED
    BY <2>1, <1>11, Zenon DEF Active
<1>13. QED
  BY <1>10, <1>12, VisitedGoal, Zenon

(* The end of a call: its unit is covered, whether or not it is marked.    *)
LEMMA EndCallVisits ==
  ASSUME TypeOK, Grown, ImportsVisited, EndCall
  PROVE  ImportsVisited'
<1>1. /\ status = "imports" /\ frames # <<>> /\ root' = root
      /\ frames' = Base /\ Top.imp > Len(Imports(Top.u))
  BY Zenon DEF EndCall, InCall
<1>2. /\ Top.u \in DOMAIN units /\ Top = frames[Len(frames)]
      /\ Len(frames) \in DOMAIN frames
      /\ DOMAIN frames = 1 .. Len(frames)
      /\ DOMAIN frames' = 1 .. Len(frames) - 1
      /\ \A i \in DOMAIN frames' : frames'[i] = frames[i]
      /\ Len(frames) \in Nat
  <2>1. frames \in Seq(FrameType)
    BY DEF TypeOK, FrameType
  <2>2. QED
    BY <1>1, <2>1, TopFacts, LenProperties
<1>3. CallCovers(Top)
  BY <1>1, <1>2 DEF ImportsVisited, Errors
<1>4. \A v : v = Top.u => Covered(v)'
  <2>1. Covered(Top.u)
    BY <1>1, <1>3, CallDone
  <2>2. QED
    BY <1>2, <2>1, GrownKeeps, Zenon
<1>5. \A i \in DOMAIN frames' : i \in DOMAIN frames
  BY <1>2
<1>6. \A i \in DOMAIN frames : i \in DOMAIN frames' \/ i = Len(frames)
  BY <1>2
<1>7. \A i \in DOMAIN frames' : \A f : f = frames'[i] => CallCovers(f)'
  <2>1. \A i \in DOMAIN frames : frames[i] \in FrameType /\ frames[i].u \in DOMAIN units
    BY FramesTyped
  <2>2. \A i \in DOMAIN frames : CallCovers(frames[i])
    BY <1>1 DEF ImportsVisited, Errors
  <2>3. QED
    BY <1>2, <1>5, <2>1, <2>2, GrownKeeps, Zenon
<1>8. ASSUME NEW v \in DOMAIN units', units'[v].included, v < root'
      PROVE  Covered(v)' \/ Active(v)'
  <2>1. v \in DOMAIN units /\ units[v].included
    <3>1. units' = units \/ units' = [units EXCEPT ![Top.u].loaded = TRUE]
      BY Zenon DEF EndCall
    <3>2. \A w \in DOMAIN units : units[w] \in UnitType
      BY UnitFacts
    <3>3. CASE units' = units
      BY <3>3, <1>8
    <3>4. CASE units' = [units EXCEPT ![Top.u].loaded = TRUE]
      BY <3>2, <3>4, <1>2, <1>8 DEF UnitType
    <3>5. QED
      BY <3>1, <3>3, <3>4
  <2>2. Covered(v)' \/ \E i \in DOMAIN frames : frames[i].u = v
    BY <2>1, <1>1, <1>8, UnitVisited, Zenon
  <2>3. QED
    BY <2>2, <1>2, <1>4, <1>6, Zenon DEF Active
<1>9. QED
  BY <1>7, <1>8, VisitedGoal, Zenon

(* Before the first visit there is no call, and no unit is passed.          *)
LEMMA EarlyVisited ==
  ASSUME TypeOK', frames' = <<>>, root' = 1
  PROVE  ImportsVisited'
<1>1. \A i \in DOMAIN frames' : \A f : f = frames'[i] => CallCovers(f)'
  <2>1. DOMAIN frames' = {}
    OBVIOUS
  <2>2. QED
    BY <2>1, Zenon
<1>2. \A v \in DOMAIN units' : ~(v < root')
  <2>1. units' \in Seq(UnitType)'
    BY DEF TypeOK, UnitType
  <2>2. DOMAIN units' = 1 .. Len(units') /\ Len(units') \in Nat
    BY <2>1, LenProperties
  <2>3. QED
    BY <2>2
<1>3. QED
  BY <1>1, <1>2, VisitedGoal, Zenon

(* What has been visited stays so while only the status moves on.          *)
LEMMA IdleVisited ==
  ASSUME TypeOK, Grown, ImportsVisited, status \notin Errors,
         units' = units, frames' = frames, root' = root
  PROVE  ImportsVisited'
<1>1. /\ \A i \in DOMAIN frames : CallCovers(frames[i])
      /\ \A u \in Included : u < root => Covered(u) \/ Active(u)
  BY Zenon DEF ImportsVisited
<1>2. \A i \in DOMAIN frames' : \A f : f = frames'[i] => CallCovers(f)'
  BY <1>1, FramesTyped, GrownKeeps, Zenon
<1>3. \A v \in DOMAIN units' : units'[v].included /\ v < root'
                                  => Covered(v)' \/ Active(v)'
  BY <1>1, GrownKeeps, Zenon DEF Included, Active
<1>4. QED
  BY <1>2, <1>3, VisitedGoal, Zenon

(* Every step keeps what has been visited.                                 *)
LEMMA VisitedStep ==
  /\ TypeOK /\ TypeOK' /\ Stages /\ ImportsVisited /\ LoadedIsCovered'
  /\ [Next]_vars
  => ImportsVisited'
<1> SUFFICES ASSUME TypeOK, TypeOK', Stages, ImportsVisited, LoadedIsCovered',
                    [Next]_vars, status' \notin Errors
             PROVE  ImportsVisited'
  BY Zenon DEF ImportsVisited
<1>a. Grown
  BY StepGrown
<1>1. CASE LoadEntry
  <2>1. frames' = <<>> /\ root' = 1
    BY <1>1 DEF LoadEntry, Stages
  <2>2. QED
    BY <2>1, EarlyVisited
<1>2. CASE LoadSibling
  <2>1. frames' = <<>> /\ root' = 1
    BY <1>2 DEF LoadSibling, Stages
  <2>2. QED
    BY <2>1, EarlyVisited
<1>3. CASE SiblingsDone
  <2>1. frames' = <<>> /\ root' = 1
    BY <1>3 DEF SiblingsDone, Stages
  <2>2. QED
    BY <2>1, EarlyVisited
<1>4. CASE VisitRoot
  BY <1>a, <1>4, VisitRootVisits
<1>5. CASE Crash \/ Circular
  BY <1>5 DEF Crash, Circular, Errors
<1>6. CASE NextImport
  BY <1>a, <1>6, NextImportVisits
<1>7. CASE VisitFile
  BY <1>a, <1>7, VisitFileVisits
<1>8. CASE LoadFile
  BY <1>a, <1>8, LoadFileVisits
<1>9. CASE EndCall
  BY <1>a, <1>9, EndCallVisits
<1>10. CASE MergeAndCheck
  <2>1. /\ status \notin Errors
        /\ units' = units /\ frames' = frames /\ root' = root
    BY <1>10 DEF MergeAndCheck, Errors
  <2>2. QED
    BY <1>a, <2>1, IdleVisited
<1>11. CASE UNCHANGED vars
  <2>1. /\ status \notin Errors
        /\ units' = units /\ frames' = frames /\ root' = root
    BY <1>11 DEF vars
  <2>2. QED
    BY <1>a, <2>1, IdleVisited
<1>12. QED
  BY <1>1, <1>2, <1>3, <1>4, <1>5, <1>6, <1>7, <1>8, <1>9, <1>10, <1>11, Zenon
     DEF Next

-----------------------------------------------------------------------------
(* The invariant holds before the first file is read.                      *)
LEMMA InvInit == Init => Inv
<1> SUFFICES ASSUME Init PROVE Inv
  OBVIOUS
<1>1. /\ status = "entry" /\ units = <<>> /\ frames = <<>> /\ root = 1
      /\ DOMAIN units = {} /\ DOMAIN frames = {}
  BY DEF Init
<1>2. Stages /\ SiblingsFound
  BY <1>1 DEF Stages, SiblingsFound, Merged
<1>3. UnitsUnique /\ LoadedIsCovered
  BY <1>1, Zenon DEF UnitsUnique, LoadedIsCovered
<1>4. ImportsVisited
  BY <1>1, Zenon DEF ImportsVisited, Included
<1>5. QED
  BY <1>2, <1>3, <1>4 DEF Inv

(* Every step of compile_source keeps it.                                  *)
LEMMA InvStep == TypeOK /\ TypeOK' /\ Inv /\ [Next]_vars => Inv'
<1> SUFFICES ASSUME TypeOK, TypeOK', Inv, [Next]_vars PROVE Inv'
  OBVIOUS
<1>a. Stages /\ SiblingsFound /\ UnitsUnique /\ LoadedIsCovered /\ ImportsVisited
  BY DEF Inv
<1>1. Stages'
  BY <1>a, StagesStep
<1>2. SiblingsFound' /\ UnitsUnique'
  BY <1>a, UniqueStep
<1>3. LoadedIsCovered'
  BY <1>a, LoadedStep
<1>4. ImportsVisited'
  BY <1>a, <1>3, VisitedStep
<1>5. QED
  BY <1>1, <1>2, <1>3, <1>4 DEF Inv

(* Inv is an invariant: through growth, moves and recursion of the loader. *)
THEOREM Invariant == Spec => []Inv
<1>1. Init => Inv
  BY InvInit
<1>2. TypeOK /\ TypeOK' /\ Inv /\ [Next]_vars => Inv'
  BY InvStep
<1>3. QED
  BY <1>1, <1>2, TypeCorrect, PTL DEF Spec

(* push_source_unit is never called for a path the table already holds.    *)
THEOREM NoPathTwice == Spec => []UnitsUnique
<1>1. Inv => UnitsUnique
  BY DEF Inv
<1>2. QED
  BY <1>1, Invariant, PTL

(* In a program that merge_package_program has merged, no import of a file *)
(* is missing, however late the file was found or included.                *)
THEOREM MergedPrograms == Spec => []MergedIsClosed
<1>1. ASSUME TypeOK, Inv PROVE MergedIsClosed
  <2> SUFFICES ASSUME status \in Merged, NEW u \in Included PROVE Covered(u)
    BY Zenon DEF MergedIsClosed
  <2>1. frames = <<>> /\ root > Len(units)
    BY <1>1 DEF Inv, Stages
  <2>2. Covered(u) \/ Active(u)
    <3>1. u < root
      <4>1. units \in Seq(UnitType) /\ root \in Nat
        BY <1>1 DEF TypeOK, UnitType
      <4>2. u \in 1 .. Len(units) /\ Len(units) \in Nat
        BY <4>1, LenProperties DEF Included
      <4>3. QED
        BY <2>1, <4>1, <4>2
    <3>2. status \notin Errors
      BY DEF Merged, Errors
    <3>3. QED
      BY <1>1, <3>1, <3>2, Zenon DEF Inv, ImportsVisited
  <2>3. ~Active(u)
    BY <2>1 DEF Active
  <2>4. QED
    BY <2>2, <2>3
<1>2. QED
  BY <1>1, Invariant, TypeCorrect, PTL

=============================================================================
