------------------------------ MODULE MCFiles ------------------------------
(* A directory is the root of an offload store or that of a package. *)
EXTENDS PackageFiles, KVFileStore

VARIABLE directory

Linear == <<"qkv", "o_proj">>
Norm == <<"input_layernorm">>

Init ==
    /\ directory \in {"store", "package"}
    /\ StoreInit /\ PackageInit
    /\ directory = "package" => overwrite
Next ==
    /\ UNCHANGED directory
    /\ \/ directory = "store" /\ StoreNext /\ UNCHANGED packageVars
       \/ directory = "package" /\ PackageNext /\ UNCHANGED storeVars
Spec == Init /\ [][Next]_<<directory, storeVars, packageVars>>
=============================================================================
