--------------------------- MODULE ProjectEffects ---------------------------
(***************************************************************************)
(* What a command line c changes in a directory d: the paths it is about,  *)
(* what is there when all has gone well, and what may be there when not.   *)
(***************************************************************************)
EXTENDS ProjectDirs

Building == {"build", "run"}
Targets(d, c) ==
  CASE c.word = "init" ->
         {At(p) : p \in {Root(c), SrcDir(Root(c)), TomlFile(Root(c)), MainFile(Root(c))}}
    [] c.word # "init" /\ ~Resolves(d, c) -> {}
    [] c.word = "fmt" -> {At(Source(d, c))}
    [] c.word = "clean" -> {At(Output(d, c))}
    [] c.word \in Building ->
         {At(Output(d, c)), At(Dirname(Output(d, c)))} \cup Litter(d, c)
    [] OTHER -> {}

InitEffect(d, root) ==
  LET dirs == With(With(d, At(root), Dir), At(SrcDir(root)), Dir)
  IN  With(With(dirs, At(TomlFile(root)), TomlOf(Last(root))), At(MainFile(root)), Template)
BuildEffect(d, c) ==
  LET out == Output(d, c)
  IN  Without(With(With(d, At(Dirname(out)), Dir), At(out), Binary(d, c)), Litter(d, c))
Effect(d, c) ==
  CASE c.word = "init" -> InitEffect(d, Root(c))
    [] c.word = "fmt" ->
         With(d, At(Source(d, c)), <<"text", Formatted(CString(SourceFile(d, c)))>>)
    [] c.word = "clean" -> Without(d, {At(Output(d, c))})
    [] c.word \in Building -> BuildEffect(d, c)
    [] OTHER -> d

(* What a failed command may have left at one of its targets.              *)
Written(d, c, p) ==
  LET done == Effect(d, c)
      builds == c.word \in Building /\ Resolves(d, c)
  IN  (IF builds /\ p \in Litter(d, c)
       THEN UNION {CutShort(<<kind, <<kind>>>>) : kind \in {"object", "runtime"}}
       ELSE IF p \in DOMAIN done THEN CutShort(done[p]) ELSE {})
        \cup (IF builds /\ p = At(Dirname(Output(d, c))) THEN {Dir} ELSE {})
=============================================================================
