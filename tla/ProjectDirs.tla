----------------------------- MODULE ProjectDirs -----------------------------
(***************************************************************************)
(* Paths, texts and night.toml as the commands of `night' read them, in a  *)
(* directory d: a function from the paths that exist to what is there.     *)
(* A path is a sequence of names, and a name the sequence of its parts     *)
(* between the dots: hello.afns is <<"hello", "afns">>.  The directory     *)
(* itself, ".", is kept where the program writes it.                       *)
(* A file holds a kind and a sequence: the characters of a text, the lines *)
(* of a night.toml, one piece for what the compiler and the linker write.  *)
(***************************************************************************)
EXTENDS Naturals, SequencesExt

CONSTANTS
  Parts,      (* the texts that names are made of                          *)
  Disks,      (* the directories the program may be started in             *)
  Commands,   (* command lines: [word, path, out, rest]                    *)
  Texts,      (* what a user may write into a source                       *)
  Checks(_),  (* does a text, up to its NUL, pass compile_source?          *)
  Packaged(_), (* does it declare a package?                               *)
  Links(_),   (* does it have a main?                                      *)
  Template    (* the main.afns that init writes                            *)

OwnParts == {".", "src", "main", "afns", "night", "toml", "llvm", "o", "rt", "c"}
Names == Seq(Parts)
Paths == Seq(Names)
Here == <<".">>
Nothing == <<>>
NoArgs == [word |-> "", path |-> Nothing, out |-> Nothing, rest |-> ""]
Dir == <<"dir", <<>>>>

(* What p refers to: a "." on the way stays where it is.                   *)
At(p) ==
  LET at[i \in 0..Len(p)] ==
        IF i = 0 THEN <<>>
        ELSE IF p[i] = Here THEN at[i - 1] ELSE Append(at[i - 1], p[i])
  IN  at[Len(p)]
(* A file followed by a "." does not exist.                                *)
Exists(d, p) ==
  /\ At(p) \in DOMAIN d
  /\ p # Nothing /\ Last(p) = Here => d[At(p)] = Dir
IsDir(d, p) == Exists(d, p) /\ d[At(p)] = Dir
IsFile(d, p) == Exists(d, p) /\ d[At(p)] # Dir
(* A file stands where p needs a directory.                                *)
Blocked(d, p) ==
  \E i \in 1..(Len(p) - 1) :
    LET above == At(SubSeq(p, 1, i)) IN above \in DOMAIN d /\ d[above] # Dir
Dirname(p) == IF Len(p) = 1 THEN <<Here>> ELSE Front(p)
Beside(p, suffix) == Append(Front(p), Last(p) \o suffix)

(* What is on a disk: directories, and files of known kinds, each in a     *)
(* directory.  A line of a night.toml gives a name or a path, or cannot be *)
(* read.                                                                   *)
Kinds == {"dir", "text", "toml", "object", "runtime", "binary"}
Sections == {"package", "build", "other"}
TomlLines ==
  ({"section", "broken"} \X Sections) \cup ({"name"} \X Names)
    \cup ({"entry", "output"} \X (Paths \ {Nothing}))
IsContent(x) ==
  /\ x[1] \in Kinds
  /\ x[1] = "dir" => x = Dir
  /\ x[1] = "toml" => x[2] \in Seq(TomlLines)
IsTree(d) ==
  /\ DOMAIN d \subseteq Paths
  /\ d = [p \in DOMAIN d |-> d[p]]
  /\ Nothing \in DOMAIN d /\ d[Nothing] = Dir
  /\ \A p \in DOMAIN d \ {Nothing} : Front(p) \in DOMAIN d /\ d[Front(p)] = Dir
  /\ \A p \in DOMAIN d : IsContent(d[p])

ASSUME DirsAssumption ==
  /\ OwnParts \subseteq Parts
  /\ \A d \in Disks : IsTree(d)
  /\ \A c \in Commands : c.path \in Paths /\ c.out \in Paths
  /\ Template[1] = "text"

With(d, p, content) == [q \in DOMAIN d \cup {p} |-> IF q = p THEN content ELSE d[q]]
Without(d, ps) == [p \in DOMAIN d \ ps |-> d[p]]

(* What init makes below the directory root.                               *)
SrcDir(root) == Append(root, <<"src">>)
TomlFile(root) == Append(root, <<"night", "toml">>)
MainFile(root) == Append(SrcDir(root), <<"main", "afns">>)

(* Mutant for SourcesSurvive: a name of two parts has no extension.        *)
StemOfLong(p) == IF Len(Last(p)) <= 2 THEN p ELSE Append(Front(p), Front(Last(p)))
(* replace_extension(path, "").                                            *)
Stem(p) == IF Len(Last(p)) = 1 THEN p ELSE Append(Front(p), Front(Last(p)))

(* ---- texts ----                                                         *)

(* A file as read_file and strlen give it; a binary's header holds a NUL.  *)
CString(content) ==
  LET cs == IF content[1] = "text" THEN content[2] ELSE <<"b", "NUL">>
      ends == {i \in DOMAIN cs : cs[i] = "NUL"} \cup {Len(cs) + 1}
  IN  SubSeq(cs, 1, Min(ends) - 1)

(* cs up to the last character that is no c.                               *)
StripRight(cs, c) ==
  SubSeq(cs, 1, Max({0} \cup {i \in DOMAIN cs : cs[i] # c}))

AddLine(out, line) == out \o StripRight(line, " ") \o <<"\n">>
FormatChar(f, c) ==
  IF c = "\n" THEN [out |-> AddLine(f.out, f.line), line |-> <<>>]
  ELSE [f EXCEPT !.line = Append(@, c)]
Formatted(cs) ==
  LET f == FoldLeft(FormatChar, [out |-> <<>>, line |-> <<>>], cs)
      out == IF f.line = <<>> THEN f.out ELSE AddLine(f.out, f.line)
      kept == Len(StripRight(out, "\n"))
  IN  SubSeq(out, 1, Min({Len(out), kept + 1}))

(* ---- night.toml ----                                                    *)

Lines(content) == IF content[1] = "toml" THEN content[2] ELSE <<>>
(* The section of line i: the last header before it.                       *)
InSection(lines, i, section) ==
  \E h \in 1..(i - 1) :
    /\ lines[h][1] = "section" /\ lines[h][2] = section
    /\ \A k \in (h + 1)..(i - 1) : lines[k][1] # "section"
(* The value of a key: of the lines that give one, the last.               *)
Value(lines, section, key, default) ==
  LET given == {i \in DOMAIN lines : lines[i][1] = key /\ InSection(lines, i, section)}
  IN  IF given = {} THEN default ELSE lines[Max(given)][2]

(* What the project in the directory root says; without a night.toml that  *)
(* can be read, ok is false.                                               *)
Config(d, root) ==
  LET lines == Lines(d[At(TomlFile(root))])
      name == Value(lines, "package", "name", Last(root))
  IN  IF ~IsFile(d, TomlFile(root)) THEN [ok |-> FALSE, entry |-> Nothing, output |-> Nothing]
      ELSE [ok |-> \A i \in DOMAIN lines : lines[i][1] # "broken",
            entry |-> Value(lines, "build", "entry", <<<<"src">>, <<"main", "afns">>>>),
            output |-> Value(lines, "build", "output", <<name>>)]

TomlOf(name) ==
  <<"toml", << <<"section", "package">>, <<"name", name>>, <<"section", "build">>,
               <<"entry", <<<<"src">>, <<"main", "afns">>>>>>,
               <<"output", <<name>>>> >> >>

(* ---- a command's source, output and effect ----                         *)

Root(c) == IF c.path = Nothing THEN <<Here>> ELSE c.path
InProject(d, c) == c.path = Nothing \/ IsDir(d, c.path)
Source(d, c) ==
  IF InProject(d, c) THEN Root(c) \o Config(d, Root(c)).entry ELSE c.path
Output(d, c) ==
  IF c.out # Nothing THEN c.out
  ELSE IF InProject(d, c) THEN Root(c) \o Config(d, Root(c)).output
  ELSE Stem(c.path)
Resolves(d, c) == InProject(d, c) => Config(d, Root(c)).ok

SourceFile(d, c) == d[At(Source(d, c))]
Binary(d, c) == <<"binary", <<CString(SourceFile(d, c))>>>>
Object(out) == Beside(out, <<"llvm", "o">>)
Runtime(out) == Beside(out, <<"rt", "c">>)
Litter(d, c) == {At(Object(Output(d, c))), At(Runtime(Output(d, c)))}

(* What may be on the disk of a file that was not written to its end.      *)
CutShort(new) ==
  {new, <<new[1], <<>>>>}
    \cup {<<new[1], SubSeq(new[2], 1, n)>> : n \in 0..Len(new[2])}
    \cup {<<new[1], Append(SubSeq(new[2], 1, n), <<"broken", "other">>)>> :
            n \in IF new[1] = "toml" THEN 0..(Len(new[2]) - 1) ELSE {}}
=============================================================================
