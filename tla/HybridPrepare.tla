--------------------------- MODULE HybridPrepare ---------------------------
(***************************************************************************)
(* prepare-hybrid.sh on one node and the converter it runs in a container: *)
(* a copy of the checkpoint made of hard links in which the shards with    *)
(* dense side layers are rewritten as fp8.  Killed shells, containers that *)
(* outlive them, failed steps and reruns included.                         *)
(*                                                                         *)
(* A file is written in one step: one that was cut short is in the way of  *)
(* a rerun, and of the count, like one that was not written.               *)
(***************************************************************************)
EXTENDS Naturals, FiniteSets

CONSTANTS
  Shells,      \* runs of the script there may be at a time
  Shards,      \* model files of the checkpoint
  Targets,     \* those with tensors to convert
  MaxFaults    \* bound on killed shells, lost nodes and failed converters

ASSUME PrepareAssumption ==
  /\ Targets \subseteq Shards /\ Targets # {}
  /\ "index" \notin Shards
  /\ MaxFaults \in Nat

VARIABLES
  accurate,    \* the roundtrip error of this checkpoint is below 0.10
  src,         \* content behind the entries of MODEL_HOST_PATH
  dir,         \* $DST exists
  dst,         \* its entries: "link", the inode of src, or their own content
  bak,         \* shards with a .bf16.bak in $DST
  prepared,    \* .prepared lies in $DST
  pc,          \* of each shell; "off" when it does not run
  todo,        \* files its cp -al has not linked yet
  conv,        \* its container
  faults

shellVars == <<pc, todo>>
diskVars  == <<src, dir, dst, bak, prepared>>
vars == <<accurate, diskVars, shellVars, conv, faults>>

Files    == Shards \cup {"index"}
Contents == {"orig", "fp8", "wrong"}

NoContainer == [at |-> "gone", todo |-> {}, loaded |-> <<>>]

TypeOK ==
  /\ accurate \in BOOLEAN
  /\ src \in [Files -> Contents]
  /\ dir \in BOOLEAN
  /\ \E S \in SUBSET Files : dst \in [S -> Contents \cup {"link"}]
  /\ bak \subseteq Targets
  /\ prepared \in BOOLEAN
  /\ pc \in [Shells -> {"off", "clear", "copy", "link", "badlink", "unindex", "reindex",
                        "run", "wait", "count", "unbak", "touch"}]
  /\ todo \in [Shells -> SUBSET Files]
  /\ \A s \in Shells :
       /\ conv[s].at \in {"gone", "load", "move", "save", "dump", "assert", "ok", "failed"}
       /\ conv[s].todo \subseteq Targets
  /\ faults \in 0 .. MaxFaults
  /\ ~ dir => DOMAIN dst = {} /\ bak = {} /\ ~ prepared

Init ==
  /\ accurate \in BOOLEAN
  /\ src = [f \in Files |-> "orig"]
  /\ dir = FALSE
  /\ dst = [f \in {} |-> "link"]
  /\ bak = {}
  /\ prepared = FALSE
  /\ pc = [s \in Shells |-> "off"]
  /\ todo = [s \in Shells |-> {}]
  /\ conv = [s \in Shells |-> NoContainer]
  /\ faults = 0

Runs(s)   == conv[s].at \notin {"gone", "ok", "failed"}
Goto(s, l) == pc' = [pc EXCEPT ![s] = l]
Without(S) == [f \in DOMAIN dst \ S |-> dst[f]]
ContentOf(f) == IF dst[f] = "link" THEN src[f] ELSE dst[f]

(* open(path, "w"): what is there is truncated, behind every link to it. *)
Write(f, c) ==
  IF f \in DOMAIN dst /\ dst[f] = "link"
  THEN src' = [src EXCEPT ![f] = c] /\ UNCHANGED dst
  ELSE /\ dst' = [g \in DOMAIN dst \cup {f} |-> IF g = f THEN c ELSE dst[g]]
       /\ UNCHANGED src

-----------------------------------------------------------------------------
(* The shell, under set -euo pipefail: a command that fails ends it. *)

(* Mutants: a directory will do; the marker is not looked at. *)
DirIsThere == dir
NotChecked == FALSE
IsPrepared == prepared

Check(s) ==
  /\ pc[s] = "off"
  /\ IF IsPrepared THEN UNCHANGED pc ELSE Goto(s, "clear")
  /\ UNCHANGED <<accurate, diskVars, todo, conv, faults>>

Entries ==
  ((DOMAIN dst) \X {""}) \cup (bak \X {".bf16.bak"})
  \cup {e \in {<<"", ".prepared">>} : prepared}

(* rm -rf, entry by entry. *)
Clear(s) ==
  /\ pc[s] = "clear"
  /\ \E e \in Entries :
       /\ dst' = Without({f \in Files : e = <<f, "">>})
       /\ bak' = {f \in bak : e # <<f, ".bf16.bak">>}
       /\ prepared' = (prepared /\ e[2] # ".prepared")
  /\ UNCHANGED <<accurate, src, dir, shellVars, conv, faults>>

(* A container still has the removed directory mounted: all it does fails. *)
ClearDir(s) ==
  /\ pc[s] = "clear"
  /\ Entries = {}
  /\ dir' = FALSE
  /\ conv' = [t \in Shells |-> IF Runs(t) THEN [conv[t] EXCEPT !.at = "failed"]
                               ELSE conv[t]]
  /\ Goto(s, "copy")
  /\ UNCHANGED <<accurate, src, dst, bak, prepared, todo, faults>>

(* rm -rf meets an entry that was not there when it read the directory. *)
ClearFails(s) ==
  /\ pc[s] = "clear"
  /\ \E t \in Shells : Runs(t) \/ (t # s /\ pc[t] # "off")
  /\ Goto(s, "off")
  /\ UNCHANGED <<accurate, diskVars, todo, conv, faults>>

(* cp -al; into a directory that is there it copies below it. *)
Copy(s) ==
  /\ pc[s] = "copy"
  /\ dir' = TRUE
  /\ todo' = [todo EXCEPT ![s] = IF dir THEN {} ELSE Files]
  /\ Goto(s, "link")
  /\ UNCHANGED <<accurate, src, dst, bak, prepared, conv, faults>>

(* A file in the way of a link stays; the others are still linked. *)
Link(s) ==
  /\ pc[s] \in {"link", "badlink"}
  /\ IF todo[s] = {} \/ ~ dir
     THEN /\ Goto(s, IF pc[s] = "link" /\ todo[s] = {} THEN "unindex" ELSE "off")
          /\ UNCHANGED <<dst, todo>>
     ELSE \E f \in todo[s] :
            /\ todo' = [todo EXCEPT ![s] = @ \ {f}]
            /\ IF f \in DOMAIN dst
               THEN Goto(s, "badlink") /\ UNCHANGED dst
               ELSE /\ dst' = [g \in DOMAIN dst \cup {f} |->
                                 IF g = f THEN "link" ELSE dst[g]]
                    /\ UNCHANGED pc
  /\ UNCHANGED <<accurate, src, dir, bak, prepared, conv, faults>>

Unindex(s) ==
  /\ pc[s] = "unindex"
  /\ IF "index" \in DOMAIN dst
     THEN dst' = Without({"index"}) /\ Goto(s, "reindex")
     ELSE UNCHANGED dst /\ Goto(s, "off")
  /\ UNCHANGED <<accurate, src, dir, bak, prepared, todo, conv, faults>>

(* cp will not copy a file to itself. *)
Reindex(s) ==
  /\ pc[s] = "reindex"
  /\ IF dir /\ ~ ("index" \in DOMAIN dst /\ dst["index"] = "link")
     THEN Write("index", src["index"]) /\ Goto(s, "run")
     ELSE UNCHANGED <<src, dst>> /\ Goto(s, "off")
  /\ UNCHANGED <<accurate, dir, bak, prepared, todo, conv, faults>>

(* Mutant: every shard is rewritten. *)
EveryFile == Shards
by_file   == Targets

(* docker run; the converter reads the index. *)
RunConverter(s) ==
  /\ pc[s] = "run"
  /\ conv' = [conv EXCEPT ![s] =
                IF "index" \in DOMAIN dst
                THEN [NoContainer EXCEPT !.at = "load", !.todo = by_file]
                ELSE [NoContainer EXCEPT !.at = "failed"]]
  /\ Goto(s, "wait")
  /\ UNCHANGED <<accurate, diskVars, todo, faults>>

(* Mutant: without pipefail, the status is that of tee. *)
StatusOfTee(s) == TRUE
Succeeded(s)   == conv[s].at = "ok"

Wait(s) ==
  /\ pc[s] = "wait"
  /\ ~ Runs(s)
  /\ Goto(s, IF Succeeded(s) THEN "count" ELSE "off")
  /\ conv' = [conv EXCEPT ![s] = NoContainer]
  /\ UNCHANGED <<accurate, diskVars, todo, faults>>

(* The tensors with a weight_scale_inv in the index. *)
Count(s) ==
  /\ pc[s] = "count"
  /\ Goto(s, IF "index" \in DOMAIN dst /\ ContentOf("index") = "fp8"
             THEN "unbak" ELSE "off")
  /\ UNCHANGED <<accurate, diskVars, todo, conv, faults>>

RemoveBackups(s) ==
  /\ pc[s] = "unbak"
  /\ IF bak = {} THEN Goto(s, "touch") /\ UNCHANGED bak
                 ELSE UNCHANGED pc /\ \E f \in bak : bak' = bak \ {f}
  /\ UNCHANGED <<accurate, src, dir, dst, prepared, todo, conv, faults>>

Touch(s) ==
  /\ pc[s] = "touch"
  /\ prepared' = dir
  /\ Goto(s, "off")
  /\ UNCHANGED <<accurate, src, dir, dst, bak, todo, conv, faults>>

Shell(s) ==
  \/ Check(s) \/ Clear(s) \/ ClearDir(s) \/ ClearFails(s) \/ Copy(s) \/ Link(s)
  \/ Unindex(s) \/ Reindex(s) \/ RunConverter(s) \/ Wait(s) \/ Count(s)
  \/ RemoveBackups(s) \/ Touch(s)

-----------------------------------------------------------------------------
(* fp8_convert.py, main(). *)

At(s, l) == conv' = [conv EXCEPT ![s].at = l]

LoadShard(s) ==
  /\ conv[s].at = "load"
  /\ \E f \in conv[s].todo :
       conv' = [conv EXCEPT ![s] =
                  IF f \in DOMAIN dst
                  THEN [@ EXCEPT !.at = "move", !.loaded = <<f, ContentOf(f)>>]
                  ELSE [@ EXCEPT !.at = "failed"]]
  /\ UNCHANGED <<src, dst, bak>>

(* Mutant: the backup is a copy. *)
CopiedAway(f) == UNCHANGED dst
MovedAway(f)  == dst' = Without({f})

Move(s) ==
  LET f == conv[s].loaded[1]
  IN  /\ conv[s].at = "move"
      /\ IF f \in DOMAIN dst
         THEN MovedAway(f) /\ bak' = bak \cup {f} /\ At(s, "save")
         ELSE UNCHANGED <<dst, bak>> /\ At(s, "failed")
      /\ UNCHANGED src

(* fp8 tensors, converted once more, lose their scales. *)
Save(s) ==
  LET f == conv[s].loaded[1]
  IN  /\ conv[s].at = "save"
      /\ Write(f, IF conv[s].loaded[2] = "orig" THEN "fp8" ELSE "wrong")
      /\ conv' = [conv EXCEPT ![s].at = "load", ![s].todo = @ \ {f}]
      /\ UNCHANGED bak

Dump(s) ==
  /\ conv[s].at = "load" /\ conv[s].todo = {}
  /\ Write("index", "fp8")
  /\ At(s, "assert")
  /\ UNCHANGED bak

AssertError(s) ==
  /\ conv[s].at = "assert"
  /\ At(s, IF accurate THEN "ok" ELSE "failed")
  /\ UNCHANGED <<src, dst, bak>>

Converter(s) ==
  /\ LoadShard(s) \/ Move(s) \/ Save(s) \/ Dump(s) \/ AssertError(s)
  /\ UNCHANGED <<accurate, dir, prepared, shellVars, faults>>

-----------------------------------------------------------------------------
(* Faults (external). *)

Fault == faults < MaxFaults /\ faults' = faults + 1

(* The container of a killed shell runs on. *)
KillShell(s) ==
  /\ Fault /\ pc[s] # "off" /\ Goto(s, "off")
  /\ UNCHANGED <<accurate, diskVars, todo, conv>>

ConverterDies(s) ==
  /\ Fault /\ Runs(s) /\ At(s, "failed")
  /\ UNCHANGED <<accurate, diskVars, shellVars>>

NodeStops ==
  /\ Fault
  /\ pc' = [s \in Shells |-> "off"]
  /\ conv' = [s \in Shells |-> NoContainer]
  /\ UNCHANGED <<accurate, diskVars, todo>>

Next ==
  \/ \E s \in Shells : Shell(s) \/ Converter(s) \/ KillShell(s) \/ ConverterDies(s)
  \/ NodeStops

(* A person runs the script again until it says "already prepared". *)
Spec ==
  /\ Init /\ [][Next]_vars
  /\ \A s \in Shells : WF_vars(Shell(s)) /\ WF_vars(Converter(s))

-----------------------------------------------------------------------------
(* .prepared tells a converted directory from one a run has left half-way: *)
(* every shard with side layers is fp8, the others are the published ones, *)
(* the index names the new tensors and the error was checked               *)
(* (prepare-hybrid.sh, "already prepared").                                *)
PreparedIsComplete ==
  prepared =>
    /\ accurate
    /\ DOMAIN dst = Files
    /\ \A f \in Files :
         ContentOf(f) = IF f \in Targets \cup {"index"} THEN "fp8" ELSE "orig"
    /\ bak = {}

(* No step writes to the published checkpoint through a hard link ("so the *)
(* source dir's entries are never modified through the hardlinks").        *)
SourceUntouched == \A f \in Files : src[f] = "orig"

(* A prepared checkpoint, which may be served, is never changed again, by  *)
(* a rerun or by a container that outlived its shell.                      *)
PreparedStays == [][prepared => prepared' /\ UNCHANGED <<dst, src>>]_vars

(* However runs were cut short, running the script again gets there unless *)
(* the error of this checkpoint is too large.                              *)
RerunsPrepare == accurate => <>prepared
=============================================================================
