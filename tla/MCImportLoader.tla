--------------------------- MODULE MCImportLoader ---------------------------
(***************************************************************************)
(* Small projects for ImportLoader.  Paths: "main" is the entry, "a", "b"  *)
(* and "c" are other files, in directories below the entry's unless listed *)
(* beside it.  Names: "M" is the entry's package, "A", "B" and "C" are     *)
(* import paths of the other files.  sema finds at most what the loader    *)
(* resolves: not a directory without a main.afns, nothing of the library.  *)
(***************************************************************************)
EXTENDS ImportLoader

Files4 == {"main", "a", "b", "c"}
Names4 == {"M", "A", "B", "C"}

Project(pkg, imports, resolve, visible, readable, dir) ==
  [pkg |-> pkg, imports |-> imports,
   resolve |-> resolve, visible |-> visible, readable |-> readable, dir |-> dir]

OwnPackage == [f \in Files4 |-> CASE f = "main" -> "M" [] f = "a" -> "A"
                                  [] f = "b" -> "B" [] f = "c" -> "C"]
OneFileEach == [n \in Names4 |-> CASE n = "M" -> <<>> [] n = "A" -> <<"a">>
                                   [] n = "B" -> <<"b">> [] n = "C" -> <<"c">>]

(* Import graphs of four well named files: each file imports nothing, the  *)
(* entry, one of A, B and C (itself included) or two of them in one order. *)
GraphProjects ==
  {Project(OwnPackage, imports, OneFileEach, {"A", "B", "C"}, Files4, <<"main">>) :
     imports \in [Files4 -> {<<>>, <<"A">>, <<"B">>, <<"C">>, <<"A", "B">>,
                             <<"B", "C">>, <<"C", "A">>, <<"M">>}]}

Files3 == {"main", "a", "b"}
Names3 == {"M", "A", "B"}
Pkgs(m, a, b) == [f \in Files3 |-> CASE f = "main" -> m [] f = "a" -> a [] f = "b" -> b]
Resolves(m, a, b) == [n \in Names3 |-> CASE n = "M" -> m [] n = "A" -> a [] n = "B" -> b]
Separate == Resolves(<<>>, <<"a">>, <<"b">>)
Imports3(S) == [Files3 -> S]

(* Files without a package, and files that declare another package than    *)
(* the name they are imported as.                                          *)
BareProjects ==
  {Project(pkg, imports, Separate, {"A", "B"}, Files3, <<"main">>) :
     pkg \in {Pkgs(m, a, b) : m \in {"M", NoPackage}, a \in {"A", "B", NoPackage},
                             b \in {"B", NoPackage}},
     imports \in Imports3({<<>>, <<"A">>, <<"B">>, <<"A", "B">>})}

(* A name that is a directory of two files, a file beside the entry that   *)
(* may share its package, the entry importable by name, and files that     *)
(* cannot be read.                                                         *)
SharedPkg(m, b, c) == [f \in Files4 |-> CASE f = "main" -> m [] f = "a" -> "A"
                                           [] f = "b" -> b [] f = "c" -> c]
SharedProjects ==
  {Project(pkg, imports, Resolves(<<"main">>, <<"a", "c">>, <<"b">>), visible,
           Files4 \ broken, <<"b", "main">>) :
     pkg \in {SharedPkg("M", "M", "A"), SharedPkg("M", "B", "A"),
              SharedPkg("M", "A", "B"), SharedPkg(NoPackage, "M", "A")},
     imports \in [Files4 -> {<<>>, <<"B", "A">>, <<"M">>}],
     visible \in {Names3, {"M", "B"}},
     broken \in {{}, {"main"}, {"b"}, {"c"}}}

(* Everything the run of the loader covers.                                *)
SmallProjects == {p : p \in GraphProjects \cup BareProjects \cup SharedProjects}

(* A program without any package declaration.                              *)
NoPackageProjects ==
  {Project(Pkgs(NoPackage, NoPackage, NoPackage), imports, Separate, {"A", "B"}, Files3,
           <<"main">>) : imports \in Imports3({<<>>, <<"A">>, <<"B">>})}

=============================================================================
