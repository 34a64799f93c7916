---------------------------- MODULE ProjectFiles ----------------------------
(***************************************************************************)
(* The commands of `night' (main.c) as sequences of file operations, one   *)
(* command at a time, each a process of its own that may be killed between *)
(* two operations.  A write truncates the file and fills it later; filling *)
(* may fail, and when it fails as the file is closed nobody notices.       *)
(***************************************************************************)
EXTENDS ProjectEffects

VARIABLES
  disk,    (* path -> content                                              *)
  args,    (* the command line                                             *)
  todo,    (* the file operations the command has yet to make              *)
  status,  (* "none", "running", "ok" or "failed"                          *)
  before,  (* the disk when the command was started                        *)
  lost,    (* has a write been lost at fclose?                             *)
  ran,     (* what `night run' has executed                                *)
  count    (* commands and edits so far                                    *)

vars == <<disk, args, todo, status, before, lost, ran, count>>

CONSTANT MaxCommands   (* a bound on the commands and edits                *)

Put(p, new) == With(disk, At(p), new)
Drop(p) == Without(disk, {At(p)})
Writable(p) == ~IsDir(disk, p) /\ IsDir(disk, Dirname(p))

(* ---- what a command sets out to do ----                                 *)

Op(do, p, new) == [do |-> do, at |-> p, new |-> new]
InitOps(root) ==
  << Op("mkdir", root, Dir), Op("mkdir", SrcDir(root), Dir),
     Op("put", TomlFile(root), TomlOf(Last(root))), Op("put", MainFile(root), Template) >>
FmtOps(d, c) ==
  <<Op("put", Source(d, c), <<"text", Formatted(CString(SourceFile(d, c)))>>)>>
CleanOps(d, c) == <<Op("remove", Output(d, c), Nothing)>>
ParentOps(out) ==
  IF Dirname(out) = <<Here>> THEN <<>> ELSE <<Op("mkdir", Dirname(out), Dir)>>
(* Mutant for ImplementsCommands: the runtime's source stays.              *)
TidyObject(out) == <<Op("tidy", Object(out), Nothing)>>
Tidy(out) == <<Op("tidy", Object(out), Nothing), Op("tidy", Runtime(out), Nothing)>>
BuildOps(d, c) ==
  LET out == Output(d, c)
  IN  ParentOps(out) \o
      << Op("write", Object(out), <<"object", <<"object">>>>),
         Op("write", Runtime(out), <<"runtime", <<"runtime">>>>),
         Op("link", out, Binary(d, c)) >> \o
      Tidy(out)

(* A file with a package, called by its bare name, is loaded once more as  *)
(* its own sibling "./name", and clashes with itself.                      *)
Compiles(d, c) ==
  /\ IsFile(d, Source(d, c))
  /\ Checks(CString(SourceFile(d, c)))
  /\ Packaged(CString(SourceFile(d, c))) => Len(Source(d, c)) > 1
ArgumentsOk(c) == c.word = "init" \/ c.rest = ""

(* The commands that get as far as a file operation, and those that return *)
(* with an error before.  `night test' looks for tests below the entry,    *)
(* which is no directory, and succeeds.                                    *)
Ready(d, c) ==
  /\ ArgumentsOk(c)
  /\ c.word # "init" => Resolves(d, c)
  /\ c.word = "fmt" => IsFile(d, Source(d, c))
  /\ c.word \in {"build", "run", "check", "ast", "codegen"} => Compiles(d, c)
GivingUp == <<Op("fail", Nothing, Nothing)>>
Ops(d, c) ==
  IF ~Ready(d, c) THEN GivingUp
  ELSE CASE c.word = "init" -> InitOps(Root(c))
         [] c.word = "fmt" -> FmtOps(d, c)
         [] c.word = "clean" -> CleanOps(d, c)
         [] c.word = "build" -> BuildOps(d, c)
         [] c.word = "run" -> Append(BuildOps(d, c), Op("exec", Output(d, c), Nothing))
         [] OTHER -> <<>>

Init ==
  /\ disk \in Disks
  /\ args = NoArgs
  /\ todo = <<>>
  /\ status = "none"
  /\ before = disk
  /\ lost = FALSE
  /\ ran = Nothing
  /\ count = 0

Begin ==
  /\ status # "running"
  /\ count < MaxCommands
  /\ args' \in Commands
  /\ todo' = Ops(disk, args')
  /\ status' = "running"
  /\ before' = disk
  /\ lost' = FALSE
  /\ ran' = Nothing
  /\ count' = count + 1
  /\ UNCHANGED disk

(* The user writes a source between two commands.                          *)
Edit ==
  /\ status # "running"
  /\ count < MaxCommands
  /\ count' = count + 1
  /\ \E p \in DOMAIN disk, cs \in Texts :
       disk[p][1] = "text" /\ disk' = [disk EXCEPT ![p] = <<"text", cs>>]
  /\ before' = disk'
  /\ status' = "none"
  /\ args' = NoArgs
  /\ lost' = FALSE
  /\ ran' = Nothing
  /\ UNCHANGED todo

(* ---- the operations ----                                                *)

Doing(do) == status = "running" /\ todo # <<>> /\ Head(todo).do = do
Path == Head(todo).at
New == Head(todo).new
Rest == UNCHANGED <<args, before, count>>
Continue == todo' = Tail(todo) /\ UNCHANGED <<status, lost, ran>> /\ Rest
(* The operation at hand goes on as do.                                    *)
Turn(do) ==
  /\ todo' = [todo EXCEPT ![1].do = do]
  /\ UNCHANGED <<status, lost, ran>>
  /\ Rest
Give(ok) == todo' = <<>> /\ status' = ok /\ UNCHANGED <<lost, ran>> /\ Rest
Fail == Give("failed")

Finish ==
  /\ status = "running"
  /\ todo = <<>>
  /\ Give("ok")
  /\ UNCHANGED disk

GiveUp == Doing("fail") /\ Fail /\ UNCHANGED disk

MakeDir ==
  /\ Doing("mkdir")
  /\ \/ IsDir(disk, Path) /\ Continue /\ UNCHANGED disk
     \/ ~Exists(disk, Path) /\ IsDir(disk, Dirname(Path)) /\ Continue /\ disk' = Put(Path, Dir)
     \/ ~IsDir(disk, Path) /\ Fail /\ UNCHANGED disk

(* write_if_changed.                                                       *)
PutFile ==
  /\ Doing("put")
  /\ IF Exists(disk, Path) /\ disk[At(Path)] = New THEN Continue
     ELSE Turn("write")
  /\ UNCHANGED disk

Open ==
  /\ Doing("write")
  /\ IF Writable(Path)
     THEN /\ disk' = Put(Path, <<New[1], <<>>>>)
          /\ Turn("fill")
     ELSE Fail /\ UNCHANGED disk

Fill == Doing("fill") /\ disk' = Put(Path, New) /\ Continue

(* The data did not reach the disk; fputs has said so, or not.             *)
FillError ==
  /\ Doing("fill")
  /\ New[1] # "runtime"
  /\ \E short \in CutShort(New) \ {New} : disk' = Put(Path, short)
  /\ Fail
FillLost ==
  /\ Doing("fill")
  /\ New[1] # "object"
  /\ \E short \in CutShort(New) \ {New} : disk' = Put(Path, short)
  /\ lost' = TRUE
  /\ todo' = Tail(todo)
  /\ UNCHANGED <<status, ran>>
  /\ Rest

(* Mutant for RunsWhatItBuilt: the linker's status is not looked at.       *)
LinkAnyway ==
  /\ Doing("link")
  /\ \/ Links(New[2][1]) /\ Writable(Path) /\ disk' = Put(Path, New)
     \/ UNCHANGED disk
     \/ Writable(Path) /\ disk' = Put(Path, <<New[1], <<>>>>)
  /\ Continue

(* The linker: what it leaves when it fails is its own.  Object and        *)
(* runtime are removed either way.                                         *)
Linked ==
  /\ Links(New[2][1])
  /\ Writable(Path)
  /\ disk' = Put(Path, New)
  /\ Continue
LinkFailed ==
  /\ \/ UNCHANGED disk
     \/ Writable(Path) /\ disk' \in {Drop(Path), Put(Path, <<New[1], <<>>>>)}
  /\ todo' = Tidy(Path) \o GivingUp
  /\ UNCHANGED <<status, lost, ran>>
  /\ Rest
Link == Doing("link") /\ (Linked \/ LinkFailed)

(* Mutant for TypeOK: what is in a directory is not asked.                 *)
RemovableWhole(p) == Exists(disk, p) /\ At(p) # <<>>
Removable(p) ==
  /\ Exists(disk, p)
  /\ IsDir(disk, p) =>
       Last(p) # Here /\ ~\E q \in DOMAIN disk : q # At(p) /\ IsPrefix(At(p), q)

Tidies == Doing("tidy") /\ disk' = Drop(Path) /\ Continue

RemoveFile ==
  /\ Doing("remove")
  /\ \/ ~Exists(disk, Path) /\ ~Blocked(disk, Path) /\ Continue /\ UNCHANGED disk
     \/ Removable(Path) /\ Continue /\ disk' = Drop(Path)
     \/ (Exists(disk, Path) \/ Blocked(disk, Path)) /\ Fail /\ UNCHANGED disk

(* system(output): a name without a slash is looked up elsewhere.          *)
Found(p) ==
  IF Len(p) = 1 THEN {Nothing, <<"other", <<>>>>}
  ELSE IF IsFile(disk, p) THEN {disk[At(p)]} ELSE {Nothing}
Exec ==
  /\ Doing("exec")
  /\ ran' \in Found(Path)
  /\ todo' = <<>>
  /\ status' \in IF ran' = Nothing THEN {"failed"} ELSE {"ok", "failed"}
  /\ UNCHANGED <<disk, lost>>
  /\ Rest

Killed == status = "running" /\ Fail /\ UNCHANGED disk

Next ==
  \/ Begin \/ Edit \/ Finish \/ GiveUp \/ MakeDir \/ PutFile \/ Open \/ Fill
  \/ FillError \/ FillLost \/ Link \/ Tidies \/ RemoveFile \/ Exec \/ Killed

Spec == Init /\ [][Next]_vars

(***************************************************************************)
(* Properties.                                                             *)
(***************************************************************************)

(* What exists is in a directory that exists, through every order of       *)
(* mkdir, write and remove; and a command that has returned has nothing    *)
(* left to do.                                                             *)
TypeOK ==
  /\ IsTree(disk)
  /\ status \in {"none", "running", "ok", "failed"}
  /\ status # "running" => todo = <<>>

(* The characters of a text that are more than trailing blanks and empty   *)
(* lines at the end.                                                       *)
Significant(cs) ==
  {i \in DOMAIN cs :
     \E j \in i..Len(cs) :
       /\ cs[j] \notin {" ", "\n"}
       /\ cs[i] = "\n" \/ \A k \in i..j : cs[k] # "\n"}
Kept(old, new) ==
  LET words(f) == LET cs == CString(f)
                      is == SetToSortSeq(Significant(cs), <)
                  IN  [i \in DOMAIN is |-> cs[is[i]]]
  IN  new[1] = "text" /\ words(old) = words(new)

(* Formatting a text of the directory keeps what matters in it.            *)
FormatterKeeps ==
  \A p \in DOMAIN before :
    before[p][1] = "text" =>
      Kept(before[p], <<"text", Formatted(CString(before[p]))>>)

(* A file that is read as a source: its name ends in .afns, and is more.   *)
IsSource(d, p) ==
  LET name == Last(p)
  IN  d[p][1] = "text" /\ Len(name) > 1 /\ Last(name) = "afns" /\ name # <<"", "afns">>

(* The command line c puts something else in the place of p: init its own  *)
(* main.afns, the others the output, when the user or night.toml names it  *)
(* or when it is left of another source's name without the extension.      *)
Replaces(d, c, p) ==
  CASE c.word = "init" -> p = At(MainFile(Root(c)))
    [] c.word \in {"build", "run", "clean"} ->
         p = At(Output(d, c)) /\ (c.out # Nothing \/ InProject(d, c) \/ p # At(Source(d, c)))
    [] OTHER -> FALSE

(* After a command, killed or not, every .afns source is there with all    *)
(* that matters in it, up to a NUL, unless the command line puts something *)
(* else in its place or fmt was writing it.                                *)
SourcesSurvive ==
  LET survives(p) == p \in DOMAIN disk /\ Kept(before[p], disk[p])
      unwritten(p) ==
        args.word = "fmt" /\ p = At(Source(before, args)) /\ (lost \/ status = "failed")
  IN  status \in {"ok", "failed"} =>
        \A p \in DOMAIN before :
          IsSource(before, p) => survives(p) \/ Replaces(before, args, p) \/ unwritten(p)

(* `night run' executes the binary it has built, from the source as it     *)
(* stands, and nothing when building failed - provided the output's path   *)
(* has a slash.                                                            *)
RunsWhatItBuilt ==
  ran # Nothing /\ Len(Output(before, args)) > 1 =>
    /\ args.word = "run"
    /\ ran = Binary(before, args)

(* Each command does what it promises, or falls short at its targets only. *)
Promise ==
  INSTANCE ProjectCommands WITH
    disk <- IF status = "running" THEN before ELSE disk,
    result <- IF status = "ok" /\ lost THEN "lost" ELSE status
ImplementsCommands == Promise!Spec
=============================================================================
