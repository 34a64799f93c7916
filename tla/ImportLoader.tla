---------------------------- MODULE ImportLoader ----------------------------
(***************************************************************************)
(* compile_source in main.c up to the import check of sema_analyze: the    *)
(* entry file, its package siblings and every file their imports name are  *)
(* read, lexed and parsed into a growing table of source units.  The       *)
(* recursion of load_imports_recursive is a stack of frames.               *)
(*                                                                         *)
(* A project says what is on disk.  Names are dotted import paths and      *)
(* package names, Paths the path strings under which files are opened.     *)
(***************************************************************************)
EXTENDS Integers, Sequences, SequencesExt

CONSTANTS
  Projects,   (* the projects a behaviour may start from                   *)
  NoPackage,  (* what a file without package declaration has as package    *)
  Entry,      (* the path the compiler is called with                      *)
  FirstCap,   (* first capacity of the unit table, 8 in the code           *)
  MaxStack,   (* the package stack holds fewer names, 127 in the code      *)
  MaxCalls    (* nested calls the C stack holds; bounds the model          *)

(* pkg      the package a path's file declares, or NoPackage               *)
(* imports  the import declarations of the file, in order                  *)
(* resolve  the paths resolve_import_files finds for a name, none if it    *)
(*          fails                                                          *)
(* visible  the names sema's import_path_exists finds from the entry's     *)
(*          directory                                                      *)
(* readable the paths whose file can be read, lexed and parsed             *)
(* dir      the .afns files of the entry's directory, sorted, as            *)
(*          path_join(path_dirname(entry), name)                           *)
Paths(p) == DOMAIN p.pkg
Names(p) == DOMAIN p.resolve

IsProject(p) ==
  /\ p.pkg \in [Paths(p) -> Names(p) \cup {NoPackage}]
  /\ p.imports \in [Paths(p) -> Seq(Names(p))]
  /\ p.resolve \in [Names(p) -> Seq(Paths(p))]
  /\ p.visible \subseteq Names(p)
  /\ p.readable \subseteq Paths(p)
  /\ p.dir \in Seq(Paths(p))
  /\ \A i, j \in DOMAIN p.dir : p.dir[i] = p.dir[j] => i = j
  /\ Entry \in Paths(p)
  /\ NoPackage \notin Names(p)

ASSUME LoaderAssumption ==
  /\ \A p \in Projects : IsProject(p)
  /\ FirstCap \in Nat \ {0}
  /\ MaxStack \in Nat
  /\ MaxCalls \in Nat \ {0}

VARIABLES
  proj,    (* the project compiled; it never changes                       *)
  units,   (* state->units[0 .. unit_count-1]                              *)
  cap,     (* state->unit_cap                                              *)
  frames,  (* the active calls of load_imports_recursive                   *)
  sib,     (* the next sibling of the entry's directory                    *)
  root,    (* the unit the loop of compile_source looks at                 *)
  status   (* where compile_source is, or how it ended                     *)

vars == <<proj, units, cap, frames, sib, root, status>>

-----------------------------------------------------------------------------
Unit(path, included) ==
  [path |-> path, loaded |-> FALSE, included |-> included]

(* Mutants of Frame: the count of units instead of the last index; the     *)
(* loop over the imports starts at the second.                             *)
FrameBeyond(u, stack) ==
  [u |-> u + 1, stack |-> stack, imp |-> 1, file |-> 1, stale |-> FALSE]
FrameFromSecond(u, stack) ==
  [u |-> u, stack |-> stack, imp |-> 2, file |-> 1, stale |-> FALSE]

(* One call: the unit, the package names on its stack, the next import,    *)
(* the next file of that import, and whether its `unit' pointer points to  *)
(* a table that realloc has freed.                                         *)
Frame(u, stack) ==
  [u |-> u, stack |-> stack, imp |-> 1, file |-> 1, stale |-> FALSE]

Top == Last(frames)
Base == Front(frames)

Package(u) == proj.pkg[units[u].path]
Imports(u) == proj.imports[units[u].path]
Import == Imports(Top.u)[Top.imp]
Files == proj.resolve[Import]

Find(path) == {u \in DOMAIN units : units[u].path = path}

(* Mutant of MayMove: the table is reallocated one unit early.             *)
MovesEarly == Len(units) + 1 >= cap

(* push_source_unit: a full table is reallocated, and may move.            *)
CapAfterPush ==
  IF Len(units) < cap THEN cap ELSE IF cap = 0 THEN FirstCap ELSE 2 * cap
MayMove == Len(units) = cap

Moved(fs, moved) == [i \in DOMAIN fs |-> [fs[i] EXCEPT !.stale = @ \/ moved]]

(* Mutant of NextFile: the loop over the files does not advance.           *)
SameFile(fs) == fs

NextFile(fs) == [fs EXCEPT ![Len(fs)].file = @ + 1]

Init ==
  /\ proj \in Projects
  /\ units = <<>>
  /\ cap = 0
  /\ frames = <<>>
  /\ sib = 1
  /\ root = 1
  /\ status = "entry"

(* The entry is unit 0 and always included.                                *)
LoadEntry ==
  /\ status = "entry"
  /\ units' = Append(units, Unit(Entry, TRUE))
  /\ cap' = CapAfterPush
  /\ status' = IF Entry \notin proj.readable THEN "failed"
               ELSE IF proj.pkg[Entry] # NoPackage THEN "siblings"
               ELSE "imports"
  /\ UNCHANGED <<proj, frames, sib, root>>

(* Mutant of LoadSibling: every sibling is included.                       *)
LoadSiblingAnyway ==
  /\ status = "siblings"
  /\ sib <= Len(proj.dir)
  /\ sib' = sib + 1
  /\ LET path == proj.dir[sib]
     IN IF path = Entry THEN UNCHANGED <<units, cap, status>>
        ELSE /\ units' = Append(units, Unit(path, path \in proj.readable))
             /\ cap' = CapAfterPush
             /\ status' = IF path \in proj.readable THEN status ELSE "failed"
  /\ UNCHANGED <<proj, frames, root>>

(* Every other .afns file of the entry's directory is loaded, whatever its *)
(* package; those of the entry's package are included.                     *)
LoadSibling ==
  /\ status = "siblings"
  /\ sib <= Len(proj.dir)
  /\ sib' = sib + 1
  /\ LET path == proj.dir[sib]
     IN IF path = Entry THEN UNCHANGED <<units, cap, status>>
        ELSE /\ units' = Append(units, Unit(path,
                  path \in proj.readable /\ proj.pkg[path] = proj.pkg[Entry]))
             /\ cap' = CapAfterPush
             /\ status' = IF path \in proj.readable THEN status ELSE "failed"
  /\ UNCHANGED <<proj, frames, root>>

SiblingsDone ==
  /\ status = "siblings"
  /\ sib > Len(proj.dir)
  /\ status' = "imports"
  /\ UNCHANGED <<proj, units, cap, frames, sib, root>>

-----------------------------------------------------------------------------
(* The names a call adds to: its file's own package, if it has one.        *)
WithPackage(stack, pkg) == IF pkg = NoPackage THEN stack ELSE Append(stack, pkg)

(* Mutants of Call: a unit whose call is active is skipped; the number of  *)
(* names is not checked.                                                   *)
CallOnce(u, stack, us, fs) ==
  IF us[u].loaded \/ \E i \in DOMAIN fs : fs[i].u = u
  THEN frames' = fs /\ status' = status
  ELSE IF Len(fs) >= MaxCalls
  THEN frames' = fs /\ status' = "overflow"
  ELSE /\ frames' =
            Append(fs, Frame(u, WithPackage(stack, proj.pkg[us[u].path])))
       /\ status' = status
CallUnchecked(u, stack, us, fs) ==
  IF us[u].loaded
  THEN frames' = fs /\ status' = status
  ELSE IF Len(fs) >= MaxCalls
  THEN frames' = fs /\ status' = "overflow"
  ELSE /\ frames' =
            Append(fs, Frame(u, WithPackage(stack, proj.pkg[us[u].path])))
       /\ status' = status

(* The call load_imports_recursive(u, stack), made with the table us and   *)
(* the callers fs: it returns at once for a unit that is done, fails when  *)
(* the names no longer fit, and otherwise adds its own package's name.     *)
Call(u, stack, us, fs) ==
  IF us[u].loaded
  THEN frames' = fs /\ status' = status
  ELSE IF Len(stack) >= MaxStack
  THEN frames' = fs /\ status' = "too deep"
  ELSE IF Len(fs) >= MaxCalls
  THEN frames' = fs /\ status' = "overflow"
  ELSE /\ frames' =
            Append(fs, Frame(u, WithPackage(stack, proj.pkg[us[u].path])))
       /\ status' = status

(* compile_source: each included unit, in table order, with no name on the *)
(* stack.                                                                  *)
VisitRoot ==
  /\ status = "imports"
  /\ frames = <<>>
  /\ root <= Len(units)
  /\ root' = root + 1
  /\ IF units[root].included THEN Call(root, <<>>, units, <<>>)
                             ELSE UNCHANGED <<frames, status>>
  /\ UNCHANGED <<proj, units, cap, sib>>

InCall == status = "imports" /\ frames # <<>>

(* Reading through a freed pointer may find the old contents or anything.  *)
ReadsFreed == Top.stale

(* At the head of its loop over the imports a call reads unit->ast.        *)
Crash ==
  /\ InCall
  /\ ReadsFreed
  /\ Top.file = 1
  /\ status' = "crash"
  /\ UNCHANGED <<proj, units, cap, frames, sib, root>>

(* Mutant of Circular: a package seen before counts as a circle.           *)
CircularIfSeen ==
  /\ InCall
  /\ Top.imp <= Len(Imports(Top.u))
  /\ Top.file = 1
  /\ \E u \in DOMAIN units : Package(u) = Import
  /\ status' = "circular"
  /\ UNCHANGED <<proj, units, cap, frames, sib, root>>

Circular ==
  /\ InCall
  /\ Top.imp <= Len(Imports(Top.u))
  /\ Top.file = 1
  /\ Contains(Top.stack, Import)
  /\ status' = "circular"
  /\ UNCHANGED <<proj, units, cap, frames, sib, root>>

(* The import's files are all visited, or there are none.                  *)
NextImport ==
  /\ InCall
  /\ Top.imp <= Len(Imports(Top.u))
  /\ Top.file = 1 => ~Contains(Top.stack, Import)
  /\ Top.file > Len(Files)
  /\ frames' = Append(Base, [Top EXCEPT !.imp = @ + 1, !.file = 1])
  /\ UNCHANGED <<proj, units, cap, sib, root, status>>

(* Mutant of VisitFile: a known unit is visited but not included.          *)
VisitOnly ==
  /\ InCall
  /\ Top.imp <= Len(Imports(Top.u))
  /\ Top.file = 1 => ~Contains(Top.stack, Import)
  /\ Top.file <= Len(Files)
  /\ \E u \in Find(Files[Top.file]) :
       /\ \A v \in Find(Files[Top.file]) : u <= v
       /\ Call(u, Top.stack, units, NextFile(frames))
  /\ UNCHANGED <<proj, units, cap, sib, root>>

(* One file of the import: a known unit is included and visited.           *)
VisitFile ==
  /\ InCall
  /\ Top.imp <= Len(Imports(Top.u))
  /\ Top.file = 1 => ~Contains(Top.stack, Import)
  /\ Top.file <= Len(Files)
  /\ \E u \in Find(Files[Top.file]) :
       /\ \A v \in Find(Files[Top.file]) : u <= v
       /\ units' = [units EXCEPT ![u].included = TRUE]
       /\ Call(u, Top.stack, units', NextFile(frames))
  /\ UNCHANGED <<proj, cap, sib, root>>

(* A new one is pushed, read and parsed first.  The table may move under   *)
(* every active call.                                                      *)
LoadFile ==
  /\ InCall
  /\ Top.imp <= Len(Imports(Top.u))
  /\ Top.file = 1 => ~Contains(Top.stack, Import)
  /\ Top.file <= Len(Files)
  /\ Find(Files[Top.file]) = {}
  /\ \E moved \in BOOLEAN :
       LET path == Files[Top.file]
           fs == Moved(NextFile(frames), moved)
       IN /\ moved => MayMove
          /\ cap' = CapAfterPush
          /\ units' = Append(units, Unit(path, path \in proj.readable))
          /\ IF path \in proj.readable
             THEN Call(Len(units) + 1, Top.stack, units', fs)
             ELSE frames' = fs /\ status' = "failed"
  /\ UNCHANGED <<proj, sib, root>>

(* The end of the call: through a stale pointer imports_loaded is set in   *)
(* freed memory.                                                           *)
EndCall ==
  /\ InCall
  /\ Top.imp > Len(Imports(Top.u))
  /\ units' = IF Top.stale THEN units
              ELSE [units EXCEPT ![Top.u].loaded = TRUE]
  /\ frames' = Base
  /\ UNCHANGED <<proj, cap, sib, root, status>>

-----------------------------------------------------------------------------
Included == {u \in DOMAIN units : units[u].included}

(* merge_package_program joins the included units; sema then looks for the *)
(* file of every import of theirs.                                         *)
MergeAndCheck ==
  /\ status = "imports"
  /\ frames = <<>>
  /\ root > Len(units)
  /\ status' = IF \A u \in Included : ToSet(Imports(u)) \subseteq proj.visible
               THEN "ok" ELSE "unresolved"
  /\ UNCHANGED <<proj, units, cap, frames, sib, root>>

Next ==
  \/ LoadEntry \/ LoadSibling \/ SiblingsDone
  \/ VisitRoot
  \/ Crash \/ Circular \/ NextImport \/ VisitFile \/ LoadFile \/ EndCall
  \/ MergeAndCheck

(* One thread runs compile_source to its end.                              *)
Spec == Init /\ [][Next]_vars
FairSpec == Spec /\ WF_vars(Next)

-----------------------------------------------------------------------------
Running == {"entry", "siblings", "imports"}
Merged == {"ok", "unresolved"}
Errors == {"failed", "circular", "too deep", "overflow", "crash"}

TypeOK ==
  /\ IsProject(proj)
  /\ units \in Seq([path : Paths(proj), loaded : BOOLEAN, included : BOOLEAN])
  /\ cap \in Nat
  /\ frames \in Seq([u : Nat, stack : Seq(Names(proj)), imp : Nat \ {0},
                     file : Nat \ {0}, stale : BOOLEAN])
  /\ \A i \in DOMAIN frames : frames[i].u \in DOMAIN units
  /\ sib \in Nat \ {0}
  /\ root \in Nat \ {0}
  /\ status \in Running \cup Merged \cup Errors

(* The files an import of unit u names.                                    *)
FilesOf(n) == ToSet(proj.resolve[n])
Targets(u) == UNION {FilesOf(n) : n \in ToSet(Imports(u))}

InProgram(path) == \E u \in DOMAIN units : units[u].path = path /\ units[u].included

(* Every file that unit u's imports resolve to is part of the program.     *)
Covered(u) == \A path \in Targets(u) : InProgram(path)

(* No file is loaded twice: its declarations would clash with themselves.  *)
(* compile_source pushes siblings without a lookup, load_imports_recursive *)
(* looks the path up first.                                                *)
UnitsUnique ==
  \A u, v \in DOMAIN units : units[u].path = units[v].path => u = v

(* imports_loaded is set only when the unit's imports are in the program,  *)
(* although the calls that add them are still running in between.          *)
LoadedIsCovered == \A u \in DOMAIN units : units[u].loaded => Covered(u)

(* The merged program is closed: whatever order units were found, shared   *)
(* or included late, no import of an included unit is missing from it.     *)
MergedIsClosed ==
  status \in Merged => \A u \in Included : Covered(u)

(* What lies behind it.  The files an active call has gone past are in the *)
(* program, whatever the calls below it did to the table:                  *)
FilesAt(f) == proj.resolve[Imports(f.u)[f.imp]]
CallCovers(f) ==
  /\ \A k \in DOMAIN Imports(f.u) :
       k < f.imp => \A path \in FilesOf(Imports(f.u)[k]) : InProgram(path)
  /\ f.imp \in DOMAIN Imports(f.u) =>
       \A j \in DOMAIN FilesAt(f) : j < f.file => InProgram(FilesAt(f)[j])

Active(u) == \E i \in DOMAIN frames : frames[i].u = u

(* and an included unit the loop of compile_source has gone past is        *)
(* covered, unless its call is still active.                               *)
ImportsVisited ==
  status \notin Errors =>
    /\ \A i \in DOMAIN frames : CallCovers(frames[i])
    /\ \A u \in Included : u < root => Covered(u) \/ Active(u)

(* The stages of compile_source follow each other.                         *)
Stages ==
  /\ status = "entry" => units = <<>>
  /\ status \in {"entry", "siblings"} => frames = <<>> /\ root = 1
  /\ status \in Merged => frames = <<>> /\ root > Len(units)

(* The units found so far are the entry and the siblings gone past.        *)
SiblingsFound ==
  status = "siblings" =>
    \A u \in DOMAIN units :
      \/ units[u].path = Entry
      \/ \E i \in DOMAIN proj.dir : i < sib /\ proj.dir[i] = units[u].path

(* The inductive invariant behind MergedIsClosed and UnitsUnique: each     *)
(* stage leaves what the next one needs, while the table grows and moves   *)
(* under the recursion.                                                    *)
Inv ==
  /\ Stages
  /\ SiblingsFound
  /\ UnitsUnique
  /\ LoadedIsCovered
  /\ ImportsVisited

(* A set of included files each of which imports another one of the set.   *)
ImportCycle ==
  \E S \in SUBSET Included :
    S # {} /\ \A u \in S : \E v \in S : units[v].path \in Targets(u)

(* A program whose files import each other in a circle is never merged,    *)
(* also when packages are missing or misnamed and the check by name does   *)
(* not see the circle.                                                     *)
CycleNeverMerged == status \in Merged => ~ImportCycle

(* Without a name on the stack for every call, only the C stack ends the   *)
(* recursion; the "import nesting too deep" check ends it where every      *)
(* active file has a package.                                              *)
OverflowNeedsBareFile ==
  status = "overflow" => \E i \in DOMAIN frames : Package(frames[i].u) = NoPackage

(* The table moves under the recursion only when it outgrows its first     *)
(* capacity; smaller programs never read a freed unit.                     *)
CrashNeedsGrowth == status = "crash" => Len(units) > FirstCap

(* "circular import" is only reported for packages that import each other  *)
(* in a circle, where every file declares the package it is imported as.   *)
WellNamed(p) == \A n \in Names(p) : \A f \in ToSet(p.resolve[n]) : p.pkg[f] = n
PackageCycle ==
  \E S \in SUBSET Names(proj) :
    S # {} /\ \A n \in S : \E u \in DOMAIN units :
                Package(u) = n /\ \E m \in S : m \in ToSet(Imports(u))
CircularIsReal ==
  status = "circular" /\ WellNamed(proj) => PackageCycle

(* compile_source comes to an end on every project: with a program, with   *)
(* an error, or by running out of stack.                                   *)
Terminates == <>(status \notin Running)

(* Circular imports are reported: "circular import detected for 'cyc.a'".  *)
NoOverflow == status # "overflow"

(* The files the program starts from: the entry and, if it has a package,  *)
(* the files of that package beside it.                                    *)
StartFiles ==
  {Entry} \cup {f \in ToSet(proj.dir) : /\ proj.pkg[Entry] # NoPackage
                                        /\ proj.pkg[f] = proj.pkg[Entry]}

Closure == INSTANCE ImportClosure WITH
  start <- StartFiles,
  imports <- [f \in Paths(proj) |->
                UNION {FilesOf(n) : n \in ToSet(proj.imports[f])}],
  needed <- IF status \in Errors THEN {} ELSE {units[u].path : u \in Included},
  outcome <- IF status \in Running THEN "open"
             ELSE IF status \in Merged THEN "closed" ELSE "failed"

(* The merged program is exactly the import closure of the start files:    *)
(* nothing missing, nothing that no file of it needs (compile_source with  *)
(* load_imports_recursive).                                                *)
ImplementsClosure == Closure!Spec

=============================================================================
