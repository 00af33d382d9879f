------------------------- MODULE HybridServeProof -------------------------
(***************************************************************************)
(* For any shards, layers and number of faults, with one run of the script *)
(* at a time: the marker is only on a complete directory, the published    *)
(* checkpoint is untouched, and what is served is read as it is stored.    *)
(* The invariant follows the shell through its script and says, for each   *)
(* place, what the directory holds and what a container may still do.      *)
(***************************************************************************)
EXTENDS HybridServe, TLAPS

(* The script is not started while another run of it is there. *)
OneShell == \A s, t \in Shells : s = t

Places == {"off", "clear", "copy", "link", "badlink", "unindex", "reindex",
           "run", "wait", "count", "unbak", "touch"}
ConvPlaces == {"gone", "load", "move", "save", "dump", "assert", "ok", "failed"}
ConvType == [at : ConvPlaces, todo : SUBSET Targets,
             loaded : {<<>>} \cup (Targets \X Contents)]

Types ==
  /\ accurate \in BOOLEAN
  /\ src \in [Files -> Contents]
  /\ dir \in BOOLEAN
  /\ dst = [f \in DOMAIN dst |-> dst[f]]
  /\ DOMAIN dst \subseteq Files
  /\ \A f \in DOMAIN dst : dst[f] \in Contents \cup {"link"}
  /\ bak \subseteq Targets
  /\ prepared \in BOOLEAN
  /\ pc \in [Shells -> Places]
  /\ todo \in [Shells -> SUBSET Files]
  /\ conv \in [Shells -> ConvType]

(* A directory of links only, with the files of S. *)
Linked(S) ==
  /\ dir /\ bak = {}
  /\ DOMAIN dst = S
  /\ \A f \in S : dst[f] = "link"

(* Links, but for the index, which is a copy. *)
Indexed ==
  /\ dir /\ bak = {}
  /\ DOMAIN dst = Files
  /\ dst["index"] = "orig"
  /\ \A f \in Shards : dst[f] = "link"

(* Some shards are converted, those of c.todo are not. *)
Converting(c) ==
  /\ dir
  /\ DOMAIN dst = IF c.at = "save" THEN Files \ {c.loaded[1]} ELSE Files
  /\ dst["index"] = IF c.at \in {"assert", "ok"} THEN "fp8" ELSE "orig"
  /\ \A f \in Shards \ Targets : dst[f] = "link"
  /\ \A f \in Targets \ c.todo : dst[f] = "fp8"
  /\ \A f \in c.todo : (c.at = "save" /\ f = c.loaded[1]) \/ dst[f] = "link"
  /\ c.at \in {"move", "save"} => c.loaded[2] = "orig"
  /\ c.at \in {"assert", "ok"} => c.todo = {}
  /\ c.at = "ok" => accurate

Complete ==
  /\ dir /\ accurate
  /\ DOMAIN dst = Files
  /\ dst["index"] = "fp8"
  /\ \A f \in Shards \ Targets : dst[f] = "link"
  /\ \A f \in Targets : dst[f] = "fp8"

(* A container, its own shell's or one whose shell was killed. *)
Container(s) ==
  Runs(s) =>
    /\ dir /\ ~ prepared
    /\ pc[s] \in {"off", "clear", "wait"}
    /\ "index" \in DOMAIN dst => dst["index"] # "link"
    /\ conv[s].at \in {"move", "save"} =>
         /\ conv[s].loaded \in Targets \X Contents
         /\ conv[s].loaded[1] \in conv[s].todo
    /\ conv[s].at = "save" => conv[s].loaded[1] \notin DOMAIN dst

Place(s) ==
  /\ pc[s] # "off" => ~ prepared
  /\ pc[s] # "badlink"
  /\ pc[s] = "copy"    => ~ dir
  /\ pc[s] = "link"    => Linked(Files \ todo[s])
  /\ pc[s] = "unindex" => Linked(Files)
  /\ pc[s] = "reindex" => Linked(Shards)
  /\ pc[s] = "run"     => Indexed
  /\ pc[s] = "wait" /\ conv[s].at \notin {"gone", "failed"} => Converting(conv[s])
  /\ pc[s] \in {"count", "unbak", "touch"} => Complete
  /\ pc[s] = "touch" => bak = {}

Disk ==
  /\ \A f \in Files : src[f] = "orig"
  /\ ~ dir => DOMAIN dst = {} /\ bak = {} /\ ~ prepared
  /\ prepared => Complete /\ bak = {}

PrepareInv ==
  /\ Types
  /\ Disk
  /\ \A s \in Shells : Container(s) /\ Place(s)

LEMMA InitPrepare == Init => PrepareInv
<1> SUFFICES ASSUME Init PROVE PrepareInv
  OBVIOUS
<1> USE PrepareAssumption
<1>1. Types
  BY DEF Init, Types, Files, Contents, Places, ConvPlaces, ConvType, NoContainer
<1>2. Disk
  BY DEF Init, Disk, Files
<1>3. ASSUME NEW s \in Shells PROVE Container(s) /\ Place(s)
  BY DEF Init, Container, Place, Runs, NoContainer
<1> QED
  BY <1>1, <1>2, <1>3 DEF PrepareInv

LEMMA CheckKeeps ==
  ASSUME PrepareInv, OneShell, NEW s \in Shells, Check(s)
  PROVE  PrepareInv'
<1> USE PrepareAssumption DEF PrepareInv
<1>1. Types'
  BY DEF Types, Check, Goto, diskVars, shellVars, Places, ConvPlaces, Files, Contents, IsPrepared
<1>2. Disk'
  BY DEF Disk, Types, Container, Place, Check, Goto, diskVars, shellVars, Places, Files, Complete, IsPrepared
<1>3. Container(s)'
  BY DEF Types, Disk, Container, Place, Check, Goto, diskVars, shellVars, Places, IsPrepared, Runs
<1>4. Place(s)'
  BY DEF Types, Disk, Container, Place, Check, Goto, diskVars, shellVars, Places, Files, IsPrepared, Runs, Linked, Converting, Complete, Indexed
<1>5. \A t \in Shells : t = s
  BY DEF OneShell
<1> QED
  BY <1>1, <1>2, <1>3, <1>4, <1>5

LEMMA ClearKeeps ==
  ASSUME PrepareInv, OneShell, NEW s \in Shells, Clear(s)
  PROVE  PrepareInv'
<1> USE PrepareAssumption DEF PrepareInv
<1>a. PICK e \in Entries : /\ dst' = Without({f \in Files : e = <<f, "">>})
                           /\ bak' = {f \in bak : e # <<f, ".bf16.bak">>}
                           /\ prepared' = (prepared /\ e[2] # ".prepared")
  BY DEF Clear
<1>b. /\ dst' = [f \in DOMAIN dst' |-> dst'[f]]
      /\ DOMAIN dst' \subseteq DOMAIN dst
      /\ \A f \in DOMAIN dst' : dst'[f] = dst[f]
  BY <1>a DEF Without
<1>c. /\ UNCHANGED <<accurate, src, dir, shellVars, conv>>
      /\ bak' \subseteq bak /\ ~ prepared'
  BY <1>a DEF Clear, Place
<1>1. Types'
  <2>1. DOMAIN dst \subseteq Files /\ \A f \in DOMAIN dst : dst[f] \in Contents \cup {"link"}
    BY DEF Types
  <2>2. DOMAIN dst' \subseteq Files /\ \A f \in DOMAIN dst' : dst'[f] \in Contents \cup {"link"}
    BY ONLY <1>b, <2>1
  <2>3. prepared' \in BOOLEAN /\ bak' \subseteq Targets
    BY <1>a, <1>c DEF Types
  <2> QED
    BY <1>b, <1>c, <2>2, <2>3 DEF Types, shellVars, Contents, Files
<1>2. Disk'
  BY <1>b, <1>c DEF Disk
<1>3. Container(s)'
  BY <1>b, <1>c DEF Container, Runs, shellVars
<1>4. Place(s)'
  <2>1. pc[s] = "clear" /\ pc' = pc /\ ~ prepared'
    BY DEF Clear, Place, shellVars
  <2> QED
    BY <2>1 DEF Place
<1>5. \A t \in Shells : t = s
  BY DEF OneShell
<1> QED
  BY <1>1, <1>2, <1>3, <1>4, <1>5

LEMMA ClearDirKeeps ==
  ASSUME PrepareInv, OneShell, NEW s \in Shells, ClearDir(s)
  PROVE  PrepareInv'
<1> USE PrepareAssumption DEF PrepareInv
<1>1. Types'
  <2>1. conv' \in [Shells -> ConvType]
    <3>1. conv \in [Shells -> ConvType]
          /\ conv' = [t \in Shells |-> IF Runs(t) THEN [conv[t] EXCEPT !.at = "failed"]
                                       ELSE conv[t]]
      BY DEF Types, ClearDir
    <3>2. \A c \in ConvType : [c EXCEPT !.at = "failed"] \in ConvType
      BY DEF ConvType, ConvPlaces
    <3> QED
      BY <3>1, <3>2
  <2>2. pc' \in [Shells -> Places]
    BY DEF Types, ClearDir, Goto, Places
  <2> QED
    BY <2>1, <2>2 DEF Types, ClearDir
<1>2. Disk'
  <2>1. DOMAIN dst = {} /\ bak = {} /\ ~ prepared
    <3>1. \A f \in DOMAIN dst : <<f, "">> \in Entries
      BY DEF Entries
    <3>2. \A f \in bak : <<f, ".bf16.bak">> \in Entries
      BY DEF Entries
    <3>3. prepared => <<"", ".prepared">> \in Entries
      BY DEF Entries
    <3>4. Entries = {}
      BY DEF ClearDir
    <3> QED
      BY <3>1, <3>2, <3>3, <3>4
  <2> QED
    BY <2>1 DEF ClearDir, Disk, Files
<1>3. Container(s)'
  <2>1. conv'[s].at \in {"gone", "ok", "failed"}
    BY DEF Types, ClearDir, Runs, ConvType
  <2> QED
    BY <2>1 DEF Container, Runs
<1>4. Place(s)'
  <2>1. pc'[s] = "copy" /\ ~ dir' /\ ~ prepared'
    BY DEF ClearDir, Goto, Place, Types
  <2> QED
    BY <2>1 DEF Place
<1>5. \A t \in Shells : t = s
  BY DEF OneShell
<1> QED
  BY <1>1, <1>2, <1>3, <1>4, <1>5

LEMMA ClearFailsKeeps ==
  ASSUME PrepareInv, OneShell, NEW s \in Shells, ClearFails(s)
  PROVE  PrepareInv'
<1> USE PrepareAssumption DEF PrepareInv
<1>1. Types'
  BY DEF Types, ClearFails, Goto, diskVars, shellVars, Places, ConvPlaces, Files, Contents
<1>2. Disk'
  BY DEF Disk, Types, Container, Place, ClearFails, Goto, diskVars, shellVars, Places, Files, Complete
<1>3. Container(s)'
  BY DEF Types, Disk, Container, Place, ClearFails, Goto, diskVars, shellVars, Places, Runs
<1>4. Place(s)'
  BY DEF Types, Disk, Container, Place, ClearFails, Goto, diskVars, shellVars, Places, Files, Runs, Linked, Converting, Complete, Indexed
<1>5. \A t \in Shells : t = s
  BY DEF OneShell
<1> QED
  BY <1>1, <1>2, <1>3, <1>4, <1>5

LEMMA CopyKeeps ==
  ASSUME PrepareInv, OneShell, NEW s \in Shells, Copy(s)
  PROVE  PrepareInv'
<1> USE PrepareAssumption DEF PrepareInv
<1>1. Types'
  BY DEF Types, Copy, Goto, diskVars, shellVars, Places, ConvPlaces, Files, Contents, Linked
<1>2. Disk'
  BY DEF Disk, Types, Container, Place, Copy, Goto, diskVars, shellVars, Places, Files, Complete, Linked
<1>3. Container(s)'
  BY DEF Types, Disk, Container, Place, Copy, Goto, diskVars, shellVars, Places, Linked, Runs
<1>4. Place(s)'
  BY DEF Types, Disk, Container, Place, Copy, Goto, diskVars, shellVars, Places, Files, Linked, Runs, Converting, Complete, Indexed
<1>5. \A t \in Shells : t = s
  BY DEF OneShell
<1> QED
  BY <1>1, <1>2, <1>3, <1>4, <1>5

LEMMA LinkKeeps ==
  ASSUME PrepareInv, OneShell, NEW s \in Shells, Link(s)
  PROVE  PrepareInv'
<1> USE PrepareAssumption DEF PrepareInv
<1>5. \A t \in Shells : t = s
  BY DEF OneShell
<1>0. pc[s] = "link" /\ ~ prepared /\ Linked(Files \ todo[s]) /\ todo[s] \subseteq Files
  BY DEF Link, Place, Types
<1>a. CASE todo[s] = {}
  <2>1. pc'[s] = "unindex" /\ UNCHANGED <<accurate, diskVars, todo, conv>> /\ pc' \in [Shells -> Places]
    BY <1>0, <1>a DEF Link, Goto, Types, Linked, Places, diskVars
  <2>2. Linked(Files)'
    BY <2>1, <1>0, <1>a DEF Linked, diskVars
  <2>3. Types' /\ Disk'
    BY <2>1 DEF Types, Disk, Complete, diskVars
  <2>4. Container(s)' /\ Place(s)'
    BY <2>1, <2>2, <1>0 DEF Container, Place, Runs, diskVars
  <2> QED
    BY <2>3, <2>4, <1>5
<1>b. CASE todo[s] # {}
  <2>1. PICK f \in todo[s] :
          /\ todo' = [todo EXCEPT ![s] = @ \ {f}]
          /\ IF f \in DOMAIN dst
             THEN Goto(s, "badlink") /\ UNCHANGED dst
             ELSE /\ dst' = [g \in DOMAIN dst \cup {f} |->
                               IF g = f THEN "link" ELSE dst[g]]
                  /\ UNCHANGED pc
    BY <1>0, <1>b DEF Link, Linked
  <2>2. f \notin DOMAIN dst /\ f \in Files
    BY <2>1, <1>0 DEF Linked
  <2>3. /\ dst' = [g \in DOMAIN dst \cup {f} |-> IF g = f THEN "link" ELSE dst[g]]
        /\ UNCHANGED <<pc, accurate, src, dir, bak, prepared, conv>>
        /\ todo'[s] = todo[s] \ {f} /\ todo' \in [Shells -> SUBSET Files]
    BY <2>1, <2>2 DEF Link, Types
  <2>4. Types'
    BY <2>2, <2>3 DEF Types
  <2>5. Linked(Files \ todo[s])'
    BY <2>2, <2>3, <1>0 DEF Linked
  <2>6. Disk'
    BY <2>3, <1>0 DEF Disk, Linked
  <2>7. Container(s)' /\ Place(s)'
    BY <2>3, <2>5, <1>0 DEF Container, Place, Runs
  <2> QED
    BY <2>4, <2>6, <2>7, <1>5
<1> QED
  BY <1>a, <1>b

LEMMA UnindexKeeps ==
  ASSUME PrepareInv, OneShell, NEW s \in Shells, Unindex(s)
  PROVE  PrepareInv'
<1> USE PrepareAssumption DEF PrepareInv
<1>1. Types'
  BY DEF Types, Unindex, Goto, diskVars, shellVars, Places, ConvPlaces, Files, Contents, Linked, Without
<1>2. Disk'
  BY DEF Disk, Types, Container, Place, Unindex, Goto, diskVars, shellVars, Places, Files, Complete, Linked, Without
<1>3. Container(s)'
  BY DEF Types, Disk, Container, Place, Unindex, Goto, diskVars, shellVars, Places, Linked, Without, Runs
<1>4. Place(s)'
  <2>1. Linked(Files) /\ ~ prepared
    BY DEF Unindex, Place
  <2>2. "index" \in DOMAIN dst
    BY <2>1 DEF Linked, Files
  <2>3. pc'[s] = "reindex" /\ ~ prepared' /\ dst' = Without({"index"}) /\ UNCHANGED <<dir, bak>>
    BY <2>1, <2>2 DEF Unindex, Goto, Types
  <2>4. Linked(Shards)'
    BY <2>1, <2>3 DEF Linked, Without, Files
  <2> QED
    BY <2>3, <2>4 DEF Place
<1>5. \A t \in Shells : t = s
  BY DEF OneShell
<1> QED
  BY <1>1, <1>2, <1>3, <1>4, <1>5

LEMMA ReindexKeeps ==
  ASSUME PrepareInv, OneShell, NEW s \in Shells, Reindex(s)
  PROVE  PrepareInv'
<1> USE PrepareAssumption DEF PrepareInv
<1>1. Types'
  BY DEF Types, Reindex, Goto, diskVars, shellVars, Places, ConvPlaces, Files, Contents, Linked, Write, Indexed
<1>2. Disk'
  BY DEF Disk, Types, Container, Place, Reindex, Goto, diskVars, shellVars, Places, Files, Complete, Linked, Write, Indexed
<1>3. Container(s)'
  BY DEF Types, Disk, Container, Place, Reindex, Goto, diskVars, shellVars, Places, Linked, Write, Indexed, Runs
<1>4. Place(s)'
  <2>1. Linked(Shards) /\ ~ prepared
    BY DEF Reindex, Place
  <2>2. dir /\ "index" \notin DOMAIN dst
    BY <2>1 DEF Linked
  <2>3. /\ dst' = [g \in DOMAIN dst \cup {"index"} |-> IF g = "index" THEN src["index"] ELSE dst[g]]
        /\ pc'[s] = "run" /\ ~ prepared' /\ UNCHANGED <<dir, bak>>
    BY <2>1, <2>2 DEF Reindex, Write, Goto, Types
  <2>4. src["index"] = "orig"
    BY DEF Disk, Files
  <2>5. Indexed'
    BY <2>1, <2>3, <2>4 DEF Linked, Indexed, Files
  <2> QED
    BY <2>3, <2>5 DEF Place
<1>5. \A t \in Shells : t = s
  BY DEF OneShell
<1> QED
  BY <1>1, <1>2, <1>3, <1>4, <1>5

LEMMA RunConverterKeeps ==
  ASSUME PrepareInv, OneShell, NEW s \in Shells, RunConverter(s)
  PROVE  PrepareInv'
<1> USE PrepareAssumption DEF PrepareInv
<1>0. Indexed /\ ~ prepared /\ "index" \in DOMAIN dst
  BY DEF RunConverter, Place, Indexed, Files
<1>c. /\ conv'[s] = [at |-> "load", todo |-> Targets, loaded |-> <<>>]
      /\ conv' = [conv EXCEPT ![s] = conv'[s]]
      /\ pc'[s] = "wait" /\ pc' \in [Shells -> Places]
      /\ UNCHANGED <<accurate, diskVars, todo>>
  BY <1>0 DEF RunConverter, Types, NoContainer, by_file, Goto, Places
<1>1. Types'
  <2>1. conv'[s] \in ConvType
    BY <1>c DEF ConvType, ConvPlaces
  <2>2. conv' \in [Shells -> ConvType]
    BY <2>1, <1>c DEF Types
  <2> QED
    BY <1>c, <2>2 DEF Types, diskVars
<1>2. Disk'
  BY DEF Disk, Types, Container, Place, RunConverter, Goto, diskVars, shellVars, Places, Files, Complete, Indexed, by_file, NoContainer, ConvType, Converting, Runs
<1>3. Container(s)'
  <2>1. dir /\ ~ prepared /\ dst["index"] = "orig"
    BY <1>0 DEF Indexed
  <2> QED
    BY <2>1, <1>c DEF Container, diskVars
<1>4. Place(s)'
  <2>1. Converting(conv[s])'
    BY <1>0, <1>c DEF Indexed, Converting, diskVars, Files
  <2> QED
    BY <2>1, <1>0, <1>c DEF Place, diskVars
<1>5. \A t \in Shells : t = s
  BY DEF OneShell
<1> QED
  BY <1>1, <1>2, <1>3, <1>4, <1>5

LEMMA WaitKeeps ==
  ASSUME PrepareInv, OneShell, NEW s \in Shells, Wait(s)
  PROVE  PrepareInv'
<1> USE PrepareAssumption DEF PrepareInv
<1>1. Types'
  BY DEF Types, Wait, Goto, diskVars, shellVars, Places, ConvPlaces, Files, Contents, NoContainer, ConvType, Converting, Succeeded, Complete, Runs
<1>2. Disk'
  BY DEF Disk, Types, Container, Place, Wait, Goto, diskVars, shellVars, Places, Files, Complete, NoContainer, ConvType, Converting, Succeeded, Runs
<1>3. Container(s)'
  BY DEF Types, Disk, Container, Place, Wait, Goto, diskVars, shellVars, Places, NoContainer, ConvType, Converting, Succeeded, Complete, Runs
<1>4. Place(s)'
  <2>1. ~ prepared' /\ UNCHANGED <<accurate, diskVars>> /\ conv'[s] = NoContainer
        /\ pc'[s] = IF conv[s].at = "ok" THEN "count" ELSE "off"
    BY DEF Wait, Place, diskVars, Types, Goto, Succeeded
  <2>2. CASE conv[s].at = "ok"
    <3>1. Converting(conv[s]) /\ conv[s].todo = {}
      BY <2>2 DEF Wait, Place, Converting
    <3>2. Complete
      BY <3>1, <2>2 DEF Converting, Complete
    <3>3. Complete'
      BY <3>2, <2>1 DEF Complete, diskVars
    <3> QED
      BY <2>1, <2>2, <3>3 DEF Place
  <2>3. CASE conv[s].at # "ok"
    BY <2>1, <2>3 DEF Place
  <2> QED
    BY <2>2, <2>3
<1>5. \A t \in Shells : t = s
  BY DEF OneShell
<1> QED
  BY <1>1, <1>2, <1>3, <1>4, <1>5

LEMMA CountKeeps ==
  ASSUME PrepareInv, OneShell, NEW s \in Shells, Count(s)
  PROVE  PrepareInv'
<1> USE PrepareAssumption DEF PrepareInv
<1>1. Types'
  BY DEF Types, Count, Goto, diskVars, shellVars, Places, ConvPlaces, Files, Contents, Complete, ContentOf
<1>2. Disk'
  BY DEF Disk, Types, Container, Place, Count, Goto, diskVars, shellVars, Places, Files, Complete, ContentOf
<1>3. Container(s)'
  BY DEF Types, Disk, Container, Place, Count, Goto, diskVars, shellVars, Places, Complete, ContentOf, Runs
<1>4. Place(s)'
  <2>1. Complete /\ ~ prepared
    BY DEF Count, Place
  <2>2. Complete' /\ ~ prepared'
    BY <2>1 DEF Count, Complete, diskVars
  <2>3. pc'[s] \in {"off", "unbak", "touch"}
    BY DEF Count, Goto, Types
  <2>4. pc'[s] = "touch" => bak' = {}
    BY DEF Count, Goto, Types
  <2> QED
    BY <2>2, <2>3, <2>4 DEF Place
<1>5. \A t \in Shells : t = s
  BY DEF OneShell
<1> QED
  BY <1>1, <1>2, <1>3, <1>4, <1>5

LEMMA RemoveBackupsKeeps ==
  ASSUME PrepareInv, OneShell, NEW s \in Shells, RemoveBackups(s)
  PROVE  PrepareInv'
<1> USE PrepareAssumption DEF PrepareInv
<1>1. Types'
  BY DEF Types, RemoveBackups, Goto, diskVars, shellVars, Places, ConvPlaces, Files, Contents, Complete
<1>2. Disk'
  BY DEF Disk, Types, Container, Place, RemoveBackups, Goto, diskVars, shellVars, Places, Files, Complete
<1>3. Container(s)'
  BY DEF Types, Disk, Container, Place, RemoveBackups, Goto, diskVars, shellVars, Places, Complete, Runs
<1>4. Place(s)'
  <2>1. Complete /\ ~ prepared
    BY DEF RemoveBackups, Place
  <2>2. Complete' /\ ~ prepared'
    BY <2>1 DEF RemoveBackups, Complete, diskVars
  <2>3. pc'[s] \in {"off", "unbak", "touch"}
    BY DEF RemoveBackups, Goto, Types
  <2>4. pc'[s] = "touch" => bak' = {}
    BY DEF RemoveBackups, Goto, Types
  <2> QED
    BY <2>2, <2>3, <2>4 DEF Place
<1>5. \A t \in Shells : t = s
  BY DEF OneShell
<1> QED
  BY <1>1, <1>2, <1>3, <1>4, <1>5

LEMMA TouchKeeps ==
  ASSUME PrepareInv, OneShell, NEW s \in Shells, Touch(s)
  PROVE  PrepareInv'
<1> USE PrepareAssumption DEF PrepareInv
<1>1. Types'
  BY DEF Types, Touch, Goto, diskVars, shellVars, Places, ConvPlaces, Files, Contents, Complete
<1>2. Disk'
  BY DEF Disk, Types, Container, Place, Touch, Goto, diskVars, shellVars, Places, Files, Complete
<1>3. Container(s)'
  BY DEF Types, Disk, Container, Place, Touch, Goto, diskVars, shellVars, Places, Complete, Runs
<1>4. Place(s)'
  BY DEF Types, Disk, Container, Place, Touch, Goto, diskVars, shellVars, Places, Files, Complete, Runs, Linked, Converting, Indexed
<1>5. \A t \in Shells : t = s
  BY DEF OneShell
<1> QED
  BY <1>1, <1>2, <1>3, <1>4, <1>5

LEMMA LoadShardKeeps ==
  ASSUME PrepareInv, OneShell, NEW s \in Shells, LoadShard(s),
         UNCHANGED <<accurate, dir, prepared, shellVars>>
  PROVE  PrepareInv'
<1> USE PrepareAssumption DEF PrepareInv
<1>0. /\ UNCHANGED <<accurate, src, dir, dst, bak, prepared, pc, todo>>
      /\ conv[s].at = "load" /\ Runs(s) /\ conv[s] \in ConvType
      /\ \A f \in DOMAIN dst : ContentOf(f) \in Contents
      /\ ~ prepared /\ pc[s] \in {"off", "clear", "wait"}
  BY DEF LoadShard, Runs, Types, shellVars, ContentOf, Container
<1>1. PICK f \in conv[s].todo :
        conv' = [conv EXCEPT ![s] =
                   IF f \in DOMAIN dst
                   THEN [@ EXCEPT !.at = "move", !.loaded = <<f, ContentOf(f)>>]
                   ELSE [@ EXCEPT !.at = "failed"]]
  BY DEF LoadShard
<1>2. conv'[s].todo = conv[s].todo /\ conv'[s] \in ConvType
      /\ conv' = [conv EXCEPT ![s] = conv'[s]]
  BY <1>0, <1>1 DEF Types, ConvType, ConvPlaces
<1>3. Types' /\ Disk'
  BY <1>0, <1>2 DEF Types, Disk, Complete
<1>4. CASE f \notin DOMAIN dst
  <2>1. conv'[s].at = "failed"
    BY <1>1, <1>4 DEF Types
  <2>2. Container(s)' /\ Place(s)'
    BY <2>1, <1>0 DEF Container, Place, Runs
  <2> QED
    BY <1>3, <2>2 DEF OneShell
<1>5. CASE f \in DOMAIN dst
  <2>1. conv'[s].at = "move" /\ conv'[s].loaded = <<f, ContentOf(f)>>
    BY <1>0, <1>1, <1>5 DEF Types, ConvType
  <2>2. Container(s)'
    BY <1>0, <1>2, <1>5, <2>1 DEF Container, Runs, ConvType
  <2>3. pc[s] = "wait" => Converting(conv[s])'
    <3>1. SUFFICES ASSUME pc[s] = "wait" PROVE Converting(conv[s])'
      OBVIOUS
    <3>2. Converting(conv[s]) /\ dst[f] = "link"
      BY <3>1, <1>0 DEF Place, Converting
    <3>3. f \in Shards /\ ContentOf(f) = "orig"
      BY <3>2, <1>0 DEF Disk, ContentOf, ConvType, Files
    <3> QED
      BY <3>2, <3>3, <2>1, <1>0, <1>2 DEF Converting
  <2>4. Place(s)'
    BY <2>3, <1>0 DEF Place
  <2> QED
    BY <1>3, <2>2, <2>4 DEF OneShell
<1> QED
  BY <1>4, <1>5

LEMMA MoveKeeps ==
  ASSUME PrepareInv, OneShell, NEW s \in Shells, Move(s),
         UNCHANGED <<accurate, dir, prepared, shellVars>>
  PROVE  PrepareInv'
<1> USE PrepareAssumption DEF PrepareInv
<1> DEFINE f == conv[s].loaded[1]
<1>0. /\ UNCHANGED <<accurate, src, dir, prepared, pc, todo>>
      /\ conv[s].at = "move" /\ Runs(s) /\ conv[s] \in ConvType
      /\ f \in conv[s].todo /\ f \in Targets
      /\ dir /\ ~ prepared /\ pc[s] \in {"off", "clear", "wait"}
  BY DEF Move, Runs, Types, shellVars, Container, ConvType
<1>2. \E l \in ConvPlaces : conv' = [conv EXCEPT ![s].at = l]
  BY DEF Move, At, ConvPlaces
<1>3. conv' = [conv EXCEPT ![s] = conv'[s]] /\ conv'[s] \in ConvType
      /\ conv'[s].todo = conv[s].todo /\ conv'[s].loaded = conv[s].loaded
  BY <1>0, <1>2 DEF Types, ConvType
<1>4. CASE f \notin DOMAIN dst
  <2>1. conv'[s].at = "failed" /\ UNCHANGED <<dst, bak>>
    BY <1>0, <1>4 DEF Move, At, Types, ConvType
  <2>2. Types' /\ Disk'
    BY <1>0, <1>3, <2>1 DEF Types, Disk
  <2>3. Container(s)' /\ Place(s)'
    BY <2>1, <1>0 DEF Container, Place, Runs
  <2> QED
    BY <2>2, <2>3 DEF OneShell
<1>5. CASE f \in DOMAIN dst
  <2>1. conv'[s].at = "save" /\ dst' = Without({f}) /\ bak' = bak \cup {f}
    BY <1>0, <1>5 DEF Move, At, MovedAway, Types, ConvType
  <2>2. /\ dst' = [g \in DOMAIN dst' |-> dst'[g]] /\ DOMAIN dst' = DOMAIN dst \ {f}
        /\ \A g \in DOMAIN dst' : dst'[g] = dst[g]
    BY <2>1 DEF Without
  <2> HIDE DEF f
  <2>3. Types' /\ Disk'
    <3>1. bak' \subseteq Targets /\ bak' \subseteq Files
      BY <1>0, <2>1 DEF Types, Files
    <3>2. DOMAIN dst' \subseteq Files /\ \A g \in DOMAIN dst' : dst'[g] \in Contents \cup {"link"}
      BY <2>2 DEF Types
    <3>3. conv' \in [Shells -> ConvType]
      BY <1>3 DEF Types
    <3> QED
      BY <1>0, <2>2, <3>1, <3>2, <3>3 DEF Types, Disk
  <2>4. Container(s)'
    <3>1. f = conv'[s].loaded[1]
      BY <1>3 DEF f
    <3>2. conv'[s].loaded \in Targets \X Contents
      BY <1>0, <1>3 DEF Container
    <3>3. "index" \in DOMAIN dst' => dst'["index"] # "link"
      BY <1>0, <2>2 DEF Container
    <3> QED
      BY <1>0, <1>3, <2>1, <2>2, <3>1, <3>2, <3>3 DEF Container
  <2>5. pc[s] = "wait" => Converting(conv[s])'
    <3>1. SUFFICES ASSUME pc[s] = "wait" PROVE Converting(conv[s])'
      OBVIOUS
    <3>2. Converting(conv[s])
      BY <3>1, <1>0 DEF Place
    <3>3. conv[s].loaded[2] = "orig" /\ DOMAIN dst = Files
      BY <3>2, <1>0 DEF Converting
    <3>4. f \in Shards /\ f # "index" /\ "index" \in Files /\ Shards \subseteq Files
      BY <1>0 DEF Files
    <3>5. f = conv'[s].loaded[1] /\ DOMAIN dst' = Files \ {conv'[s].loaded[1]}
      BY <1>3, <2>2, <3>3 DEF f
    <3>6. DOMAIN dst' = Files \ {f} /\ dst'["index"] = "orig"
      BY <3>2, <3>4, <3>5, <1>0, <2>2 DEF Converting
    <3>7. /\ \A g \in Shards \ Targets : dst'[g] = "link"
          /\ \A g \in Targets \ conv[s].todo : dst'[g] = "fp8"
          /\ \A g \in conv[s].todo : g = f \/ dst'[g] = "link"
      <4>1. conv[s].todo \subseteq Targets /\ Targets \subseteq Shards
        BY <1>0 DEF ConvType
      <4> QED
        BY <3>2, <3>4, <3>6, <4>1, <1>0, <2>2 DEF Converting
    <3>8. /\ conv'[s].at = "save" /\ conv'[s].todo = conv[s].todo /\ dir'
          /\ conv'[s].loaded[2] = "orig" /\ conv'[s].loaded[1] = f
      BY <3>3, <3>5, <1>0, <1>3, <2>1
    <3> QED
      BY ONLY <3>6, <3>7, <3>8 DEF Converting
  <2>6. Place(s)'
    BY <2>5, <1>0 DEF Place
  <2> QED
    BY <2>3, <2>4, <2>6 DEF OneShell
<1> QED
  BY <1>4, <1>5

(* What Write does where there is no link. *)
LEMMA Written ==
  ASSUME NEW f, NEW c, Write(f, c), f \in DOMAIN dst => dst[f] # "link"
  PROVE  /\ UNCHANGED src
         /\ dst' = [g \in DOMAIN dst' |-> dst'[g]]
         /\ DOMAIN dst' = DOMAIN dst \cup {f}
         /\ dst'[f] = c
         /\ \A g \in DOMAIN dst \ {f} : dst'[g] = dst[g]
BY DEF Write

LEMMA SaveKeeps ==
  ASSUME PrepareInv, OneShell, NEW s \in Shells, Save(s),
         UNCHANGED <<accurate, dir, prepared, shellVars>>
  PROVE  PrepareInv'
<1> USE PrepareAssumption DEF PrepareInv
<1> DEFINE f == conv[s].loaded[1]
           c == IF conv[s].loaded[2] = "orig" THEN "fp8" ELSE "wrong"
<1>0. /\ UNCHANGED <<accurate, dir, prepared, pc, todo, bak>>
      /\ conv[s].at = "save" /\ Runs(s) /\ conv[s] \in ConvType
      /\ f \in conv[s].todo /\ f \in Targets /\ f \notin DOMAIN dst
      /\ dir /\ ~ prepared /\ pc[s] \in {"off", "clear", "wait"}
      /\ f # "index" /\ f \in Files
  BY DEF Save, Runs, Types, shellVars, Container, ConvType, Files
<1>1. Write(f, c)
  BY DEF Save
<1>2. /\ UNCHANGED src
      /\ dst' = [g \in DOMAIN dst' |-> dst'[g]]
      /\ DOMAIN dst' = DOMAIN dst \cup {f}
      /\ dst'[f] = c
      /\ \A g \in DOMAIN dst \ {f} : dst'[g] = dst[g]
  <2> HIDE DEF f, c
  <2> QED
    BY <1>0, <1>1, Written
<1>3. conv'[s].at = "load" /\ conv'[s].todo = conv[s].todo \ {f} /\ conv'[s] \in ConvType
      /\ conv' = [conv EXCEPT ![s] = conv'[s]]
  <2>1. conv' = [conv EXCEPT ![s].at = "load", ![s].todo = @ \ {f}]
    BY DEF Save
  <2>2. conv \in [Shells -> ConvType]
    BY DEF Types
  <2> HIDE DEF f
  <2> QED
    BY <2>1, <2>2 DEF ConvType, ConvPlaces
<1>5. Types' /\ Disk'
  BY <1>0, <1>2, <1>3 DEF Types, Disk, Contents
<1>6. Container(s)'
  BY <1>0, <1>2, <1>3 DEF Container, Runs
<1>7. pc[s] = "wait" => Converting(conv[s])'
  <2>1. SUFFICES ASSUME pc[s] = "wait" PROVE Converting(conv[s])'
    OBVIOUS
  <2>2. Converting(conv[s])
    BY <2>1, <1>0 DEF Place
  <2>3. c = "fp8" /\ DOMAIN dst = Files \ {f}
    BY <2>2, <1>0 DEF Converting
  <2> HIDE DEF c
  <2>4. DOMAIN dst' = Files /\ "index" \in Files /\ Shards \subseteq Files
    BY <2>3, <1>0, <1>2 DEF Files
  <2> QED
    BY <2>2, <2>3, <2>4, <1>0, <1>2, <1>3 DEF Converting, ConvType
<1>8. Place(s)'
  BY <1>7, <1>0 DEF Place
<1> QED
  BY <1>5, <1>6, <1>8 DEF OneShell

LEMMA DumpKeeps ==
  ASSUME PrepareInv, OneShell, NEW s \in Shells, Dump(s),
         UNCHANGED <<accurate, dir, prepared, shellVars>>
  PROVE  PrepareInv'
<1> USE PrepareAssumption DEF PrepareInv
<1>0. /\ UNCHANGED <<accurate, dir, prepared, pc, todo, bak>>
      /\ conv[s].at = "load" /\ conv[s].todo = {} /\ Runs(s) /\ conv[s] \in ConvType
      /\ dir /\ ~ prepared /\ pc[s] \in {"off", "clear", "wait"}
      /\ "index" \in DOMAIN dst => dst["index"] # "link"
  BY DEF Dump, Runs, Types, shellVars, Container
<1>1. /\ UNCHANGED src
      /\ dst' = [g \in DOMAIN dst' |-> dst'[g]]
      /\ DOMAIN dst' = DOMAIN dst \cup {"index"}
      /\ dst'["index"] = "fp8"
      /\ \A g \in DOMAIN dst \ {"index"} : dst'[g] = dst[g]
  BY <1>0, Written DEF Dump
<1>2. conv'[s].at = "assert" /\ conv'[s].todo = {} /\ conv'[s] \in ConvType
      /\ conv' = [conv EXCEPT ![s] = conv'[s]]
  BY <1>0 DEF Dump, At, Types, ConvType, ConvPlaces
<1>3. Types' /\ Disk'
  BY <1>0, <1>1, <1>2 DEF Types, Disk, Contents, Files
<1>4. Container(s)'
  BY <1>0, <1>1, <1>2 DEF Container, Runs
<1>5. pc[s] = "wait" => Converting(conv[s])'
  <2>1. SUFFICES ASSUME pc[s] = "wait" PROVE Converting(conv[s])'
    OBVIOUS
  <2>2. Converting(conv[s]) /\ DOMAIN dst = Files
    BY <2>1, <1>0 DEF Place, Converting
  <2>3. DOMAIN dst' = Files /\ Shards = DOMAIN dst \ {"index"}
    BY <2>2, <1>1 DEF Files
  <2> QED
    BY <2>2, <2>3, <1>0, <1>1, <1>2 DEF Converting
<1>6. Place(s)'
  BY <1>5, <1>0 DEF Place
<1> QED
  BY <1>3, <1>4, <1>6 DEF OneShell

LEMMA AssertErrorKeeps ==
  ASSUME PrepareInv, OneShell, NEW s \in Shells, AssertError(s),
         UNCHANGED <<accurate, dir, prepared, shellVars>>
  PROVE  PrepareInv'
<1> USE PrepareAssumption DEF PrepareInv
<1>0. /\ UNCHANGED <<accurate, src, dir, dst, bak, prepared, pc, todo>>
      /\ conv[s].at = "assert" /\ Runs(s) /\ conv[s] \in ConvType
      /\ ~ prepared /\ pc[s] \in {"off", "clear", "wait"}
  BY DEF AssertError, Runs, Types, shellVars, Container
<1>1. /\ conv'[s].at = IF accurate THEN "ok" ELSE "failed"
      /\ conv'[s].todo = conv[s].todo /\ conv'[s].loaded = conv[s].loaded
      /\ conv' = [conv EXCEPT ![s] = conv'[s]] /\ conv'[s] \in ConvType
  BY <1>0 DEF AssertError, At, Types, ConvType, ConvPlaces
<1>2. Types' /\ Disk'
  BY <1>0, <1>1 DEF Types, Disk
<1>3. Container(s)'
  BY <1>1 DEF Container, Runs
<1>4. pc[s] = "wait" /\ accurate => Converting(conv[s])'
  <2>1. SUFFICES ASSUME pc[s] = "wait", accurate PROVE Converting(conv[s])'
    OBVIOUS
  <2>2. Converting(conv[s])
    BY <2>1, <1>0 DEF Place
  <2>3. conv'[s].at = "ok"
    BY <2>1, <1>1
  <2> QED
    BY <2>1, <2>2, <2>3, <1>0, <1>1 DEF Converting
<1>5. Place(s)'
  BY <1>0, <1>1, <1>4 DEF Place
<1> QED
  BY <1>2, <1>3, <1>5 DEF OneShell

LEMMA FaultsKeep ==
  ASSUME PrepareInv, OneShell,
         NodeStops \/ \E s \in Shells : KillShell(s) \/ ConverterDies(s)
  PROVE  PrepareInv'
<1> USE PrepareAssumption DEF PrepareInv
<1>1. CASE NodeStops
  <2>1. Types' /\ Disk'
    BY <1>1 DEF NodeStops, Types, Disk, Complete, diskVars, Places, ConvType, ConvPlaces, NoContainer
  <2>2. ASSUME NEW s \in Shells PROVE Container(s)' /\ Place(s)'
    BY <1>1 DEF NodeStops, Container, Place, Runs, NoContainer
  <2> QED
    BY <2>1, <2>2
<1>2. ASSUME NEW s \in Shells, KillShell(s) PROVE PrepareInv'
  <2>1. Types' /\ Disk'
    BY <1>2 DEF KillShell, Goto, Types, Disk, Complete, diskVars, Places
  <2>2. pc'[s] = "off" /\ UNCHANGED <<dir, dst, prepared, conv>>
    BY <1>2 DEF KillShell, Goto, Types, diskVars
  <2>3. Container(s)' /\ Place(s)'
    BY <2>2 DEF Container, Place, Runs
  <2> QED
    BY <2>1, <2>3 DEF OneShell
<1>3. ASSUME NEW s \in Shells, ConverterDies(s) PROVE PrepareInv'
  <2>1. /\ UNCHANGED <<accurate, src, dir, dst, bak, prepared, pc, todo>>
        /\ conv'[s].at = "failed" /\ conv'[s] \in ConvType
        /\ conv' = [conv EXCEPT ![s] = conv'[s]] /\ Runs(s)
    BY <1>3 DEF ConverterDies, At, Types, ConvType, ConvPlaces, diskVars, shellVars
  <2>2. Types' /\ Disk'
    BY <2>1 DEF Types, Disk, Complete
  <2>3. Container(s)' /\ Place(s)'
    BY <2>1 DEF Container, Place, Runs
  <2> QED
    BY <2>2, <2>3 DEF OneShell
<1> QED
  BY <1>1, <1>2, <1>3

LEMMA NextKeeps ==
  ASSUME PrepareInv, OneShell, Next
  PROVE  PrepareInv'
<1>1. ASSUME NEW s \in Shells, Shell(s) PROVE PrepareInv'
  BY <1>1, CheckKeeps, ClearKeeps, ClearDirKeeps, ClearFailsKeeps, CopyKeeps, LinkKeeps,
     UnindexKeeps, ReindexKeeps, RunConverterKeeps, WaitKeeps, CountKeeps,
     RemoveBackupsKeeps, TouchKeeps DEF Shell
<1>2. ASSUME NEW s \in Shells, Converter(s) PROVE PrepareInv'
  BY <1>2, LoadShardKeeps, MoveKeeps, SaveKeeps, DumpKeeps, AssertErrorKeeps DEF Converter
<1> QED
  BY <1>1, <1>2, FaultsKeep DEF Next

-----------------------------------------------------------------------------
(* Where the marker lies the disk does not change, and every layer that    *)
(* was to be converted is stored as fp8.                                   *)
LEMMA PreparedRests ==
  ASSUME PrepareInv, prepared, Next
  PROVE  prepared' /\ UNCHANGED <<src, dir, dst>>
<1>1. \A s \in Shells : pc[s] = "off" /\ ~ Runs(s)
  BY DEF PrepareInv, Place, Container
<1>2. ASSUME NEW s \in Shells, Shell(s) PROVE UNCHANGED <<prepared, src, dir, dst>>
  <2>1. Check(s)
    BY <1>1, <1>2 DEF Shell, Clear, ClearDir, ClearFails, Copy, Link, Unindex, Reindex,
       RunConverter, Wait, Count, RemoveBackups, Touch
  <2> QED
    BY <2>1 DEF Check, diskVars
<1>3. ASSUME NEW s \in Shells PROVE ~ Converter(s)
  BY <1>1 DEF Converter, LoadShard, Move, Save, Dump, AssertError, Runs
<1>4. ASSUME NodeStops \/ \E s \in Shells : KillShell(s) \/ ConverterDies(s)
      PROVE  UNCHANGED <<prepared, src, dir, dst>>
  BY <1>4 DEF NodeStops, KillShell, ConverterDies, diskVars
<1> QED
  BY <1>2, <1>3, <1>4 DEF Next

LEMMA PreparedStored ==
  ASSUME Complete, NEW t \in Tails
  PROVE  StoredFp8(t) <=> t \in Converted
BY ServeAssumption, PrepareAssumption DEF Complete, StoredFp8, ContentOf, Files

ServeInv ==
  /\ serving \in BOOLEAN /\ scanned \in BOOLEAN
  /\ method \in [Modules -> {"none", "fp8", "bf16"}]
  /\ serving => prepared
  /\ ~ serving => fp8_layers = Unset /\ fp8_norm = Unset
                  /\ \A m \in Modules : method[m] = "none"
  /\ fp8_layers # Unset =>
       \E S \in SUBSET Names :
         /\ fp8_layers = Set(S)
         /\ {n[2] : n \in S} = Converted \/ (S = {} /\ ~ scanned)
  /\ fp8_norm # Unset => fp8_norm = Set(Converted)
  /\ \A m \in Modules :
       /\ method[m] = "fp8" => SublayersOf[m] \subseteq Converted
       /\ method[m] = "bf16" /\ scanned => ~ SublayersOf[m] \subseteq Converted

LEMMA FoundNames ==
  ASSUME Complete
  PROVE  Found \subseteq Names /\ {n[2] : n \in Found} = Converted /\ Found # {}
<1>1. {u \in Tails : StoredFp8(u)} = Converted
  BY PreparedStored, ServeAssumption
<1>2. Found = {<<"hf", t>> : t \in Converted}
  BY <1>1 DEF Found
<1>3. Converted # {}
  BY PrepareAssumption, ServeAssumption
<1>4. \A n \in Found : n \in Names /\ n[2] \in Converted
  BY <1>2, ServeAssumption DEF Names
<1>5. \A t \in Converted : <<"hf", t>> \in Found /\ <<"hf", t>>[2] = t
  BY <1>2
<1> QED
  BY <1>3, <1>4, <1>5

LEMMA DispatchKeeps ==
  ASSUME ServeInv, NEW m \in Modules, serving, UNCHANGED <<serving, prepared>>,
         NEW S \in SUBSET Names, Dispatch(S, m), scanned' \in BOOLEAN, scanned' => scanned,
         {n[2] : n \in S} = Converted \/ (S = {} /\ ~ scanned')
  PROVE  ServeInv'
<1>1. fp8_layers' = Set(S)
  BY DEF Dispatch
<1>2. S # {} => NormSet(S) = Converted
  <2>1. SUFFICES ASSUME S # {} PROVE NormSet(S) = Converted
    OBVIOUS
  <2>2. {n[2] : n \in S} = Converted
    BY <2>1
  <2>3. fp8_norm # Unset => fp8_norm[1] = Converted
    BY DEF ServeInv, Set
  <2> QED
    BY <2>2, <2>3 DEF NormSet, Norm
<1>3. fp8_norm' # Unset => fp8_norm' = Set(Converted)
  BY <1>2 DEF Dispatch, ServeInv
<1>4. IsFp8(S, NormSet(S), m) <=> S # {} /\ SublayersOf[m] \subseteq Converted
  BY <1>2 DEF IsFp8, Norm
<1>5. method' = [method EXCEPT ![m] = IF IsFp8(S, NormSet(S), m) THEN "fp8" ELSE "bf16"]
  BY DEF Dispatch
<1>6. method'[m] = "fp8" => SublayersOf[m] \subseteq Converted
  BY <1>4, <1>5 DEF ServeInv
<1>7. method'[m] = "bf16" /\ scanned' => ~ SublayersOf[m] \subseteq Converted
  <2>1. scanned' => S # {}
    BY ServeAssumption, PrepareAssumption
  <2> QED
    BY <1>4, <1>5, <2>1 DEF ServeInv
<1>8. method' \in [Modules -> {"none", "fp8", "bf16"}]
      /\ \A k \in Modules \ {m} : method'[k] = method[k]
  BY <1>5 DEF ServeInv
<1>9. \E T \in SUBSET Names :
         /\ fp8_layers' = Set(T)
         /\ {n[2] : n \in T} = Converted \/ (T = {} /\ ~ scanned')
  BY <1>1
<1> QED
  BY <1>3, <1>6, <1>7, <1>8, <1>9 DEF ServeInv

LEMMA ServeKeeps ==
  ASSUME PrepareInv, OneShell, ServeInv, [ServeNext]_allVars
  PROVE  PrepareInv' /\ ServeInv'
<1>1. CASE Next /\ UNCHANGED serveVars
  <2>1. PrepareInv'
    BY <1>1, NextKeeps
  <2>2. serving => prepared'
    BY <1>1, PreparedRests DEF ServeInv
  <2>3. UNCHANGED <<serving, fp8_layers, fp8_norm, scanned, method>>
    BY <1>1 DEF serveVars
  <2> QED
    BY <2>1, <2>2, <2>3 DEF ServeInv
<1>2. CASE UNCHANGED <<accurate, diskVars, shellVars, conv>>
  <2> PrepareInv'
    <3>1. UNCHANGED <<accurate, src, dir, dst, bak, prepared, pc, todo, conv>>
      BY <1>2 DEF diskVars, shellVars
    <3>2. Types' /\ Disk'
      BY <3>1 DEF PrepareInv, Types, Disk, Complete
    <3>3. ASSUME NEW s \in Shells PROVE Container(s)' /\ Place(s)'
      <4>1. Container(s) /\ Place(s)
        BY DEF PrepareInv
      <4>2. Container(s)'
        BY <3>1, <4>1 DEF Container, Runs
      <4>3. /\ Linked(Files \ todo[s])' <=> Linked(Files \ todo[s])
            /\ Linked(Files)' <=> Linked(Files)
            /\ Linked(Shards)' <=> Linked(Shards)
            /\ Indexed' <=> Indexed
            /\ Complete' <=> Complete
        BY <3>1 DEF Linked, Indexed, Complete
      <4>4. Converting(conv[s])' <=> Converting(conv[s])
        BY <3>1 DEF Converting
      <4> QED
        BY <3>1, <4>1, <4>2, <4>3, <4>4 DEF Place
    <3> QED
      BY <3>2, <3>3 DEF PrepareInv
  <2>1. prepared' = prepared
    BY <1>2 DEF diskVars
  <2>2. prepared => Complete
    BY DEF PrepareInv, Disk
  <2>3. ASSUME Launch \/ Stop PROVE ServeInv'
    BY <2>1, <2>3 DEF Launch, Stop, NewProcess, MayLaunch, ServeInv
  <2>4. ASSUME ApplyVllmMapper PROVE ServeInv'
    <3>1. PICK S \in {Found, {}} : ScanFp8Layers(S) /\ fp8_layers' = Set(Mapped(S))
      BY <2>4 DEF ApplyVllmMapper
    <3>2. serving /\ prepared /\ Complete
      BY <2>2, <2>4 DEF ApplyVllmMapper, ServeInv
    <3>3. Mapped(S) \in SUBSET Names
      BY <3>1, <3>2, FoundNames DEF Mapped, Names
    <3>4. {n[2] : n \in Mapped(S)} = {n[2] : n \in S} /\ (S = {} => Mapped(S) = {})
      <4>1. \A n \in S : <<"vllm", n[2]>> \in Mapped(S) /\ <<"vllm", n[2]>>[2] = n[2]
        BY DEF Mapped
      <4>2. \A k \in Mapped(S) : \E n \in S : k[2] = n[2]
        BY DEF Mapped
      <4>3. S = {} => Mapped(S) = {}
        BY DEF Mapped
      <4>4. {n[2] : n \in Mapped(S)} \subseteq {n[2] : n \in S}
        BY ONLY <4>2
      <4>5. {n[2] : n \in S} \subseteq {n[2] : n \in Mapped(S)}
        BY ONLY <4>1
      <4> QED
        BY ONLY <4>3, <4>4, <4>5
    <3>5. {n[2] : n \in S} = Converted \/ (S = {} /\ ~ scanned')
      BY <3>1, <3>2, FoundNames DEF ScanFp8Layers
    <3>6. scanned' \in BOOLEAN /\ (scanned' => scanned)
      <4>1. scanned' = scanned \/ scanned' = FALSE
        BY <3>1 DEF ScanFp8Layers
      <4>2. scanned \in BOOLEAN
        BY DEF ServeInv
      <4>3. CASE scanned' = scanned
        BY <4>2, <4>3
      <4>4. CASE scanned' = FALSE
        BY <4>4
      <4> QED
        BY ONLY <4>1, <4>3, <4>4
    <3>7. UNCHANGED <<serving, fp8_norm, method>>
      BY <2>4 DEF ApplyVllmMapper
    <3> QED
      BY <2>1, <3>1, <3>2, <3>3, <3>4, <3>5, <3>6, <3>7 DEF ServeInv
  <2>5. ASSUME NEW m \in Modules, GetQuantMethod(m) PROVE ServeInv'
    <3>1. serving /\ prepared /\ Complete /\ UNCHANGED <<serving, prepared>>
      BY <2>1, <2>2, <2>5 DEF GetQuantMethod, ServeInv
    <3>2. CASE fp8_layers = Unset
      <4>1. PICK S \in {Found, {}} : ScanFp8Layers(S) /\ Dispatch(S, m)
        BY <2>5, <3>2 DEF GetQuantMethod
      <4>2. {n[2] : n \in S} = Converted \/ (S = {} /\ ~ scanned')
        BY <3>1, <4>1, FoundNames DEF ScanFp8Layers
      <4>3. S \in SUBSET Names
        BY <3>1, FoundNames
      <4>4. scanned' \in BOOLEAN /\ (scanned' => scanned)
        <5>1. scanned' = scanned \/ scanned' = FALSE
          BY <4>1 DEF ScanFp8Layers
        <5>2. scanned \in BOOLEAN
          BY DEF ServeInv
        <5>3. CASE scanned' = scanned
          BY <5>2, <5>3
        <5>4. CASE scanned' = FALSE
          BY <5>4
        <5> QED
          BY ONLY <5>1, <5>3, <5>4
      <4> QED
        BY <3>1, <4>1, <4>2, <4>3, <4>4, DispatchKeeps
    <3>3. CASE fp8_layers # Unset
      <4>1. PICK S \in SUBSET Names :
              /\ fp8_layers = Set(S)
              /\ {n[2] : n \in S} = Converted \/ (S = {} /\ ~ scanned)
        BY <3>3 DEF ServeInv
      <4>2. Dispatch(S, m) /\ scanned' = scanned
        BY <2>5, <3>3, <4>1 DEF GetQuantMethod, Set
      <4> QED
        BY <3>1, <4>1, <4>2, DispatchKeeps DEF ServeInv
    <3> QED
      BY <3>2, <3>3
  <2>6. ASSUME UNCHANGED allVars PROVE ServeInv'
    BY <2>6 DEF allVars, vars, serveVars, diskVars, ServeInv
  <2>7. ASSUME Next /\ UNCHANGED serveVars PROVE ServeInv'
    BY <2>1, <2>7 DEF serveVars, ServeInv
  <2> QED
    BY <2>3, <2>4, <2>5, <2>6, <2>7 DEF ServeNext, Serve
<1>3. Serve \/ UNCHANGED allVars => UNCHANGED <<accurate, diskVars, shellVars, conv>>
  BY DEF Serve, Launch, Stop, ApplyVllmMapper, GetQuantMethod, allVars, vars
<1> QED
  BY <1>1, <1>2, <1>3 DEF ServeNext

(* The two invariants, with one run of the script at a time. *)
THEOREM ServeInvariant == ASSUME OneShell PROVE ServeSpec => [](PrepareInv /\ ServeInv)
<1>1. ServeInit => PrepareInv /\ ServeInv
  BY InitPrepare DEF ServeInit, ServeInv
<1>2. PrepareInv /\ ServeInv /\ [ServeNext]_allVars => (PrepareInv /\ ServeInv)'
  BY ServeKeeps
<1> QED
  BY <1>1, <1>2, PTL DEF ServeSpec

(* .prepared lies only in a directory that is complete, however runs were  *)
(* cut short and whatever containers outlived their shell.                 *)
THEOREM PreparedCompleteTheorem == ASSUME OneShell PROVE ServeSpec => []PreparedIsComplete
<1>1. PrepareInv => PreparedIsComplete
  <2>1. SUFFICES ASSUME PrepareInv, prepared PROVE PreparedIsComplete
    BY DEF PreparedIsComplete
  <2>2. Complete /\ bak = {} /\ \A f \in Files : src[f] = "orig"
    BY <2>1 DEF PrepareInv, Disk
  <2> QED
    BY <2>2, PrepareAssumption DEF PreparedIsComplete, Complete, ContentOf, Files
<1> QED
  BY <1>1, ServeInvariant, PTL

(* The published checkpoint is never written through a hard link. *)
THEOREM SourceUntouchedTheorem == ASSUME OneShell PROVE ServeSpec => []SourceUntouched
<1>1. PrepareInv => SourceUntouched
  BY DEF PrepareInv, Disk, SourceUntouched
<1> QED
  BY <1>1, ServeInvariant, PTL

(* A prepared checkpoint, which may be served, is not changed again. *)
THEOREM PreparedStaysTheorem == ASSUME OneShell PROVE ServeSpec => PreparedStays
<1>1. PrepareInv /\ [ServeNext]_allVars => [prepared => prepared' /\ UNCHANGED <<dst, src>>]_vars
  <2>1. ASSUME PrepareInv, prepared, Next PROVE prepared' /\ UNCHANGED <<dst, src>>
    BY <2>1, PreparedRests
  <2>2. Serve \/ UNCHANGED allVars => UNCHANGED <<prepared, dst, src>>
    BY DEF Serve, Launch, Stop, ApplyVllmMapper, GetQuantMethod, allVars, vars, diskVars
  <2> QED
    BY <2>1, <2>2 DEF ServeNext
<1> QED
  BY <1>1, ServeInvariant, PTL DEF ServeSpec, PreparedStays

(* What is handed out from the cached sets is what the shards store: fp8   *)
(* exactly for modules stored so, unless a scan failed.                    *)
THEOREM ServedAsStoredTheorem == ASSUME OneShell PROVE ServeSpec => []ServedAsStored
<1>1. PrepareInv /\ ServeInv => ServedAsStored
  <2>1. SUFFICES ASSUME PrepareInv, ServeInv, NEW m \in Modules, method[m] # "none"
                 PROVE  LET stored == \A t \in SublayersOf[m] : StoredFp8(t)
                        IN  /\ method[m] = "fp8" => stored
                            /\ method[m] = "bf16" /\ scanned => ~ stored
    BY DEF ServedAsStored
  <2>2. Complete
    BY <2>1 DEF ServeInv, PrepareInv, Disk
  <2>3. SublayersOf[m] \subseteq Tails
    BY ServeAssumption
  <2>4. (\A t \in SublayersOf[m] : StoredFp8(t)) <=> SublayersOf[m] \subseteq Converted
    BY <2>2, <2>3, PreparedStored
  <2> QED
    BY <2>1, <2>4 DEF ServeInv
<1> QED
  BY <1>1, ServeInvariant, PTL

LEMMA FaultsStay ==
  ASSUME faults \in 0 .. MaxFaults, [ServeNext]_allVars
  PROVE  faults' \in 0 .. MaxFaults
<1> USE PrepareAssumption
<1>1. UNCHANGED faults \/ Fault => faults' \in 0 .. MaxFaults
  BY DEF Fault
<1>2. ASSUME NEW s \in Shells, Shell(s) PROVE UNCHANGED faults
  BY <1>2 DEF Shell, Check, Clear, ClearDir, ClearFails, Copy, Link, Unindex, Reindex,
     RunConverter, Wait, Count, RemoveBackups, Touch
<1>3. ASSUME NEW s \in Shells, Converter(s) PROVE UNCHANGED faults
  BY <1>3 DEF Converter
<1>4. ASSUME NodeStops \/ \E s \in Shells : KillShell(s) \/ ConverterDies(s) PROVE Fault
  BY <1>4 DEF NodeStops, KillShell, ConverterDies
<1>5. ASSUME Serve \/ UNCHANGED allVars PROVE UNCHANGED faults \/ Fault
  BY <1>5 DEF Serve, Launch, Stop, ApplyVllmMapper, GetQuantMethod, ScanFp8Layers, allVars, vars
<1> QED
  BY <1>1, <1>2, <1>3, <1>4, <1>5 DEF ServeNext, Next

(* Every variable of the script, the container and the shim keeps its type. *)
THEOREM ServeTypesTheorem == ASSUME OneShell PROVE ServeSpec => []ServeTypeOK
<1>1. ServeInit => faults \in 0 .. MaxFaults
  BY PrepareAssumption DEF ServeInit, Init
<1>2. PrepareInv /\ ServeInv /\ faults \in 0 .. MaxFaults => ServeTypeOK
  <2>1. SUFFICES ASSUME PrepareInv, ServeInv, faults \in 0 .. MaxFaults PROVE ServeTypeOK
    OBVIOUS
  <2>2. TypeOK
    <3>1. Types
      BY <2>1 DEF PrepareInv
    <3>2. \E S \in SUBSET Files : dst \in [S -> Contents \cup {"link"}]
      <4>1. dst \in [DOMAIN dst -> Contents \cup {"link"}] /\ DOMAIN dst \in SUBSET Files
        BY <3>1 DEF Types
      <4> QED
        BY <4>1
    <3>3. \A s \in Shells : conv[s].at \in ConvPlaces /\ conv[s].todo \subseteq Targets
      BY <3>1 DEF Types, ConvType
    <3> QED
      BY <2>1, <3>1, <3>2, <3>3 DEF TypeOK, Types, Places, ConvPlaces, PrepareInv, Disk
  <2>3. fp8_layers \in {Unset} \cup {Set(S) : S \in SUBSET Names}
    BY <2>1 DEF ServeInv
  <2>4. fp8_norm \in {Unset} \cup {Set(S) : S \in SUBSET Tails}
    BY <2>1, ServeAssumption DEF ServeInv
  <2> QED
    BY <2>1, <2>2, <2>3, <2>4 DEF ServeTypeOK, ServeInv
<1>3. faults \in 0 .. MaxFaults /\ [ServeNext]_allVars => (faults \in 0 .. MaxFaults)'
  BY FaultsStay, PrepareAssumption
<1> QED
  BY <1>1, <1>2, <1>3, ServeInvariant, PTL DEF ServeSpec
=============================================================================
