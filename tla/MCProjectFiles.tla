--------------------------- MODULE MCProjectFiles ---------------------------
(***************************************************************************)
(* Directories and command lines for ProjectFiles: a source hello.afns, a  *)
(* source `hello' without an extension, C files beside it, a project in    *)
(* the directory or one that init makes in d, with outputs of every kind.  *)
(* The characters: a text with `a' has a main, one with `b' is no program, *)
(* and one with `p' declares a package.                                    *)
(***************************************************************************)
EXTENDS ProjectFiles, TLC

MCParts == OwnParts \cup {"hello", "d", "p", "q", "h", "bin"}
MCChecks(cs) == "b" \notin ToSet(cs)
MCPackaged(cs) == "p" \in ToSet(cs)
MCLinks(cs) == "a" \in ToSet(cs)
MCTemplate == <<"text", <<"p", "a", "\n">>>>
MCTexts == {<<"a", " ", "\n", "\n", " ", "l", "\n", "\n">>, <<"b", "\n">>}

Text(cs) == <<"text", cs>>
Good == Text(<<"a", "\n">>)
Sources == {Good, Text(<<"l", " ">>), Text(<<"b", "\n">>), Text(<<"a", "NUL", "l">>),
            Text(<<"\n", "a", " ", "l">>), Text(<<>>),
            Text(<<"p", "a">>)}

Name(n) == <<n>>
MainName == <<"main", "afns">>
HelloName == <<"hello", "afns">>
Hello == <<HelloName>>
Twice == <<<<"hello", "afns", "afns">>>>
Below == <<Name("d")>>
Toml(lines) ==
  <<"toml", <<<<"section", "package">>, <<"name", Name("p")>>, <<"section", "build">>>> \o lines>>
Tomls == {
  Toml(<<>>), Toml(<<<<"output", <<Name("bin"), Name("p")>>>>>>), Toml(<<<<"broken", "other">>>>),
  Toml(<<<<"entry", Hello>>, <<"output", Hello>>>>),
  <<"toml", <<<<"output", <<Name("q")>>>>>>>> }

Hellos ==
  {Hello :> t : t \in Sources}
    \cup {(Hello :> Text(<<"l", " ">>)) @@ (<<Name("hello")>> :> <<"binary", <<<<"a", "\n">>>>>>)}
    \cup {(Hello :> Good) @@ (<<Name("hello")>> :> Good) @@ (<<<<"hello", "rt", "c">>>> :> Good)}
Projects ==
  {Below :> Good, Below :> Dir}
    \cup {(<<<<"night", "toml">>>> :> t) @@ (<<Name("src")>> :> Dir)
             @@ (<<Name("src"), MainName>> :> Good) : t \in Tomls}
MCDisks == {(<<>> :> Dir) @@ h : h \in Hellos}
             \cup {(<<>> :> Dir) @@ (Hello :> Good) @@ p : p \in Projects}
             \cup {(<<>> :> Dir) @@ (Hello :> Good) @@ (Twice :> Good)}

Line(w, p, o) == [word |-> w, path |-> p, out |-> o, rest |-> ""]
MCCommands ==
  {Line("init", p, Nothing) : p \in {Nothing, Below}}
  \cup {Line("fmt", p, Nothing) : p \in {Nothing, Below, Hello}}
  \cup {Line("clean", p, Nothing) : p \in {Nothing, Below, Hello, <<Name("hello")>>}}
  \cup {Line("clean", Hello, o) : o \in {<<Name("src")>>, <<HelloName, Here>>}}
  \cup {Line("build", p, Nothing) : p \in {Below, Hello, Twice, <<Name("hello")>>}}
  \cup {Line("build", Hello, o) :
          o \in {Hello, <<Name("bin"), Name("h")>>, <<Name("d"), Name("d")>>, <<Name("d"), Here>>}}
  \cup {Line("run", p, Nothing) : p \in {Nothing, Below, Hello, <<Here, HelloName>>}}
  \cup {Line("test", Nothing, Nothing), Line("check", Hello, Nothing)}
  \cup {Line("check", <<HelloName, Here>>, Nothing)}
  \cup {[Line("build", Hello, Nothing) EXCEPT !.rest = "unknown"]}

(* The formatter keeps what matters in every short text.                   *)
ASSUME ShortTextsKept ==
  \A n \in 0..6 :
    \A cs \in [1..n -> {"a", " ", "\n", "NUL"}] :
      Kept(Text(cs), Text(Formatted(CString(Text(cs)))))
=============================================================================
