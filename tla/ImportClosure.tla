--------------------------- MODULE ImportClosure ----------------------------
(***************************************************************************)
(* What loading a program's imports promises: starting from some files,    *)
(* files are added only when a file of the program needs them, and the     *)
(* program is closed only when nothing it needs is missing.  Giving up is  *)
(* possible at any time, and leaves no program.                            *)
(***************************************************************************)
EXTENDS Naturals

VARIABLES
  start,    (* the files that belong to the program from the start         *)
  imports,  (* imports[f]: the files that file f imports                   *)
  needed,   (* the files of the program so far                             *)
  outcome   (* "open", "closed" or "failed"                                *)

closureVars == <<start, imports, needed, outcome>>

Needs(f) == f \in start \/ \E g \in needed : f \in imports[g]

Init ==
  /\ needed = {}
  /\ outcome = "open"

Add ==
  /\ outcome = "open"
  /\ \E f \in DOMAIN imports : Needs(f) /\ needed' = needed \cup {f}
  /\ UNCHANGED <<start, imports, outcome>>

Close ==
  /\ outcome = "open"
  /\ start \subseteq needed
  /\ \A f \in needed : imports[f] \subseteq needed
  /\ outcome' = "closed"
  /\ UNCHANGED <<start, imports, needed>>

Fail ==
  /\ outcome = "open"
  /\ outcome' = "failed"
  /\ needed' = {}
  /\ UNCHANGED <<start, imports>>

Next == Add \/ Close \/ Fail

Spec == Init /\ [][Next]_closureVars

=============================================================================
