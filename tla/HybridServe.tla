---------------------------- MODULE HybridServe ----------------------------
(***************************************************************************)
(* An engine process over the checkpoint that HybridPrepare makes:         *)
(* launch-qwen38-tp4.sh with HYBRID=1, and the shim                        *)
(* vllm_fp8_hybrid_modelopt.py that decides, module by module, whether a   *)
(* linear layer is loaded as blockwise fp8 or as bf16.  What it decides    *)
(* from is cached on the quantization config twice, and may come from a    *)
(* scan that failed.                                                       *)
(*                                                                         *)
(* The name of a layer is <<space, tail>>: the tail begins at "layers.",   *)
(* and hf_to_vllm_mapper renames the part before it.                       *)
(***************************************************************************)
EXTENDS HybridPrepare

CONSTANTS
  Tails,       \* linear layers that are not experts
  FileOf,      \* shard with the weight of each
  Converted,   \* those TARGETS matches and whose sides 128 divides
  Modules,     \* modules the models build; "qkv_proj" stands for several
  SublayersOf  \* layers behind each, by packed_modules_mapping

ASSUME ServeAssumption ==
  /\ FileOf \in [Tails -> Shards]
  /\ Converted \subseteq Tails
  /\ Targets = {FileOf[t] : t \in Converted}
  /\ SublayersOf \in [Modules -> (SUBSET Tails) \ {{}}]

VARIABLES
  serving,     \* the engine process is there
  fp8_layers,  \* attribute of the config
  fp8_norm,    \* _fp8_norm
  scanned,     \* no scan of this process raised
  method       \* linear method of each module; "none" before it is built

serveVars == <<serving, fp8_layers, fp8_norm, scanned, method>>
allVars   == <<vars, serveVars>>

Names == {"hf", "vllm"} \X Tails

(* An attribute that getattr may not find. *)
Unset  == <<>>
Set(S) == <<S>>

ServeTypeOK ==
  /\ TypeOK
  /\ serving \in BOOLEAN /\ scanned \in BOOLEAN
  /\ fp8_layers \in {Unset} \cup {Set(S) : S \in SUBSET Names}
  /\ fp8_norm \in {Unset} \cup {Set(S) : S \in SUBSET Tails}
  /\ method \in [Modules -> {"none", "fp8", "bf16"}]

NewProcess ==
  /\ fp8_layers' = Unset /\ fp8_norm' = Unset
  /\ scanned' = TRUE
  /\ method' = [m \in Modules |-> "none"]

ServeInit ==
  /\ Init
  /\ serving = FALSE
  /\ fp8_layers = Unset /\ fp8_norm = Unset
  /\ scanned = TRUE
  /\ method = [m \in Modules |-> "none"]

(* The weight of t is F8_E4M3 and has a weight_scale_inv beside it. *)
StoredFp8(t) ==
  /\ t \in Converted
  /\ FileOf[t] \in DOMAIN dst
  /\ ContentOf(FileOf[t]) = "fp8"

(* Mutant: any directory will do. *)
MayLaunchFrom == dir
MayLaunch     == prepared

Launch ==
  /\ ~ serving
  /\ MayLaunch
  /\ serving' = TRUE
  /\ NewProcess
  /\ UNCHANGED vars

Stop ==
  /\ serving
  /\ serving' = FALSE
  /\ NewProcess
  /\ UNCHANGED vars

(* What a scan finds; nothing when get_safetensors_params_metadata raises. *)
Found == {<<"hf", t>> : t \in {u \in Tails : StoredFp8(u)}}
ScanFp8Layers(S) ==
  \/ S = Found /\ UNCHANGED <<scanned, faults>>
  \/ S = {} /\ Fault /\ scanned' = FALSE

Mapped(S) == {<<"vllm", n[2]>> : n \in S}

(* Once per model that is loaded with this config, or never. *)
ApplyVllmMapper ==
  /\ serving
  /\ \E S \in {Found, {}} : ScanFp8Layers(S) /\ fp8_layers' = Set(Mapped(S))
  /\ UNCHANGED <<accurate, diskVars, shellVars, conv, serving, fp8_norm, method>>

(* Mutants: names are compared whole; one sublayer is enough.              *)
NormWhole(n) == n
Norm(n)      == n[2]
AnyFp8(S, N, m) == S # {} /\ \E t \in SublayersOf[m] : Norm(<<"vllm", t>>) \in N
IsFp8(S, N, m)  == S # {} /\ \A t \in SublayersOf[m] : Norm(<<"vllm", t>>) \in N

NormSet(S) == IF fp8_norm = Unset THEN {Norm(n) : n \in S} ELSE fp8_norm[1]

Dispatch(S, m) ==
  /\ fp8_layers' = Set(S)
  /\ fp8_norm' = IF S = {} THEN fp8_norm ELSE Set(NormSet(S))
  /\ method' = [method EXCEPT ![m] = IF IsFp8(S, NormSet(S), m) THEN "fp8" ELSE "bf16"]

(* get_quant_method, asked directly or through the proxy that stands for   *)
(* None on the layers ModelOpt excludes.                                   *)
GetQuantMethod(m) ==
  /\ serving /\ method[m] = "none"
  /\ IF fp8_layers = Unset
     THEN \E S \in {Found, {}} : ScanFp8Layers(S) /\ Dispatch(S, m)
     ELSE Dispatch(fp8_layers[1], m) /\ UNCHANGED <<scanned, faults>>
  /\ UNCHANGED <<accurate, diskVars, shellVars, conv, serving>>

Serve == Launch \/ Stop \/ ApplyVllmMapper \/ \E m \in Modules : GetQuantMethod(m)

ServeNext == Serve \/ (Next /\ UNCHANGED serveVars)

ServeSpec ==
  /\ ServeInit /\ [][ServeNext]_allVars
  /\ \A s \in Shells :
       /\ WF_allVars(Shell(s) /\ UNCHANGED serveVars)
       /\ WF_allVars(Converter(s) /\ UNCHANGED serveVars)

-----------------------------------------------------------------------------
(* A module is read as fp8 exactly if all its weights are stored so, now   *)
(* and not only when the names were scanned and cached; a failed scan may  *)
(* leave fp8 weights to be read as bf16, never the other way round         *)
(* (_is_fp8_layer, get_quant_method and their cached sets).                *)
ServedAsStored ==
  \A m \in Modules :
    LET stored == \A t \in SublayersOf[m] : StoredFp8(t)
    IN  /\ method[m] = "fp8" => stored
        /\ method[m] = "bf16" /\ scanned => ~ stored
=============================================================================
