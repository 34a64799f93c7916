--------------------------- MODULE ProjectCommands ---------------------------
(***************************************************************************)
(* What the commands of `night' promise of the files of the directory they *)
(* are called in: a command that reports success has had its effect and no *)
(* other; one that does not, or whose write was lost when the file was     *)
(* closed, has touched its targets only, each of which is as it was, gone, *)
(* or what the command writes there, perhaps cut short.                    *)
(***************************************************************************)

CONSTANTS
  Disks,         (* the directories the program may be started in          *)
  Commands,      (* command lines                                          *)
  NoArgs,        (* none of them                                           *)
  Texts,         (* what a user may write into a source                    *)
  Effect(_, _),  (* the directory d after the command c                    *)
  Targets(_, _), (* the paths c is about                                   *)
  Written(_, _, _) (* what a failed c may have left at one of them         *)

VARIABLES
  disk,     (* path -> content                                             *)
  args,     (* the command line of the last command                        *)
  result    (* "none", "running", "ok", "lost" or "failed"                 *)

commandVars == <<disk, args, result>>

Init ==
  /\ disk \in Disks
  /\ args = NoArgs
  /\ result = "none"

Start ==
  /\ result # "running"
  /\ result' = "running"
  /\ args' \in Commands
  /\ UNCHANGED disk

Do ==
  /\ result = "running"
  /\ result' = "ok"
  /\ disk' = Effect(disk, args)
  /\ UNCHANGED args

FallShort ==
  /\ result = "running"
  /\ result' \in {"lost", "failed"}
  /\ UNCHANGED args
  /\ \A p \in DOMAIN disk \cup DOMAIN disk' :
       \/ p \in DOMAIN disk \cap DOMAIN disk' /\ disk'[p] = disk[p]
       \/ /\ p \in Targets(disk, args)
          /\ p \in DOMAIN disk' => disk'[p] \in Written(disk, args, p)

(* The user writes a source.                                               *)
Edit ==
  /\ result # "running"
  /\ result' = "none"
  /\ \E p \in DOMAIN disk, cs \in Texts :
       disk[p][1] = "text" /\ disk' = [disk EXCEPT ![p] = <<"text", cs>>]
  /\ args' = NoArgs

Next == Start \/ Do \/ FallShort \/ Edit

Spec == Init /\ [][Next]_commandVars
=============================================================================
