---------------------------- MODULE PackageFiles ----------------------------
(***************************************************************************)
(* CheckpointConverter.convert and QuantizedPackageWriter.write_tensors    *)
(* write a package into a directory: for every tensor of every layer its   *)
(* .npy files, one after the other and in place, and package.json last.    *)
(* A write that raises is put down as an error and the writer goes on with *)
(* the next tensor; with an error package.json is left as it was.  The     *)
(* process may die at any point.  The directory may hold a package of      *)
(* another checkpoint already.                                             *)
(*                                                                         *)
(* A reader loads package.json, has the checksums compared and loads the   *)
(* files it refers to.                                                     *)
(***************************************************************************)
EXTENDS CheckpointPackage, Disk

CONSTANT MaxWriteCuts  \* bound: writes that raise, and deaths of the process

VARIABLES
    packageFiles,  \* packageFiles[t][part]: the file of that part of tensor t
    packageJson,   \* package.json
    conversion,    \* the write_tensors call under way
    report,        \* the PackageWriterReport of the last call that returned
    cutVersions,   \* history: conversions cut short since package.json was written
    writeCuts      \* bounded by MaxWriteCuts

packageVars == <<packageFiles, packageJson, conversion, report, cutVersions, writeCuts>>

Parts == {"weight", "scales", "zeros"}
NoReport == [ok |-> FALSE]
Converting == conversion.name = "writing"
ConversionIdle == [name |-> "idle"]

PackageInit ==
    /\ packageFiles = [t \in Tensors |-> [part \in Parts |-> Absent]]
    /\ packageJson = Absent
    /\ conversion = ConversionIdle
    /\ report = NoReport
    /\ cutVersions = {}
    /\ writeCuts = 0

---------------------------------------------------------------------------
(* The tensors go in the order of the metadata, by layer and by key, and the
   files of one of them in the order _write_layer_tensor saves them. *)

Before(t, u) ==
    \/ t[1] < u[1]
    \/ t[1] = u[1] /\ \E i, j \in DOMAIN KeyOrder : i < j /\ t[2] = KeyOrder[i] /\ u[2] = KeyOrder[j]

PartsScalesFirst(t, zeros) ==  \* mutant: the scales are saved before the weight
    IF IsNorm(t[2]) THEN <<"weight">>
    ELSE IF zeros THEN <<"scales", "weight", "zeros">> ELSE <<"scales", "weight">>

PartsInOrder(t, zeros) ==
    IF IsNorm(t[2]) THEN <<"weight">>
    ELSE IF zeros THEN <<"weight", "scales", "zeros">> ELSE <<"weight", "scales">>

Saved(version, t, zeros, part) == WithZeros(quantize_layer(version, t[1]), zeros)[t[2]][part]

---------------------------------------------------------------------------
(* convert: all layers in memory, then the metadata, then the files.  Without
   save_tensor_data only package.json is written. *)

ConvertMetadata(version, layers) ==
    /\ ~Converting
    /\ validate(layers)
    /\ \/ /\ packageJson' = Whole(package_from_quantized_layers(version, layers))
          /\ cutVersions' = {}
          /\ UNCHANGED writeCuts
       \/ /\ writeCuts < MaxWriteCuts /\ writeCuts' = writeCuts + 1
          /\ packageJson' \in CutWrite(packageJson)
          /\ UNCHANGED cutVersions
    /\ report' = NoReport
    /\ UNCHANGED <<packageFiles, conversion>>

(* given: a caller of write_tensors may leave out the layer packages, which is
   an error for every layer *)
Convert(version, layers, zeros, given) ==
    /\ ~Converting
    /\ validate(layers)
    /\ conversion' = [name |-> "writing", zeros |-> zeros, part |-> 1,
                      todo |-> IF given THEN TensorsOf(layers) ELSE {},
                      errors |-> ~given,
                      package |-> package_from_quantized_layers(version, layers)]
    /\ report' = NoReport
    /\ UNCHANGED <<packageFiles, packageJson, cutVersions, writeCuts>>

AtTensor(t) ==
    /\ Converting /\ t \in conversion.todo
    /\ \A u \in conversion.todo \ {t} : Before(t, u)

Order(t) == PartsInOrder(t, conversion.zeros)
Part(t) == Order(t)[conversion.part]
NextTensor(t) == [conversion EXCEPT !.todo = @ \ {t}, !.part = 1]

(* save_tensor_npy; the references of a tensor are set once its weight and its
   scales are saved, the zeros' after that. *)
Referred(t) ==
    IF Part(t) = "scales" \/ IsNorm(t[2])
    THEN [conversion.package EXCEPT
            !.checksum[t] = Saved(conversion.package.version, t, conversion.zeros, "weight")]
    ELSE IF Part(t) = "zeros" THEN [conversion.package EXCEPT !.zeros = @ \cup {t}]
    ELSE conversion.package

SavePart(t) ==
    /\ AtTensor(t)
    /\ packageFiles' = [packageFiles EXCEPT
          ![t][Part(t)] = Whole(Saved(conversion.package.version, t, conversion.zeros, Part(t)))]
    /\ conversion' = [(IF conversion.part = Len(Order(t)) THEN NextTensor(t)
                       ELSE [conversion EXCEPT !.part = @ + 1]) EXCEPT !.package = Referred(t)]
    /\ UNCHANGED <<packageJson, report, cutVersions, writeCuts>>

FailPartForgotten(t) ==  \* mutant: the error is not put down
    /\ AtTensor(t)
    /\ writeCuts < MaxWriteCuts /\ writeCuts' = writeCuts + 1
    /\ conversion' = NextTensor(t)
    /\ UNCHANGED <<packageFiles, packageJson, report, cutVersions>>

FailPart(t) ==
    /\ AtTensor(t)
    /\ writeCuts < MaxWriteCuts /\ writeCuts' = writeCuts + 1
    /\ \E file \in CutWrite(packageFiles[t][Part(t)]) :
          packageFiles' = [packageFiles EXCEPT ![t][Part(t)] = file]
    /\ conversion' = [NextTensor(t) EXCEPT !.errors = TRUE]
    /\ UNCHANGED <<packageJson, report, cutVersions>>

FinishPackage ==
    /\ Converting /\ conversion.todo = {}
    /\ IF conversion.errors
       THEN /\ cutVersions' = cutVersions \cup {conversion.package.version}
            /\ UNCHANGED packageJson
       ELSE /\ packageJson' = Whole(conversion.package)
            /\ cutVersions' = {}
    /\ report' = [ok |-> ~conversion.errors, package |-> conversion.package,
                  zeros |-> conversion.zeros]
    /\ conversion' = ConversionIdle
    /\ UNCHANGED <<packageFiles, writeCuts>>

(* The process dies, in the middle of a file perhaps. *)
Die ==
    /\ Converting
    /\ writeCuts < MaxWriteCuts /\ writeCuts' = writeCuts + 1
    /\ \/ /\ \E t \in conversion.todo :
                /\ AtTensor(t)
                /\ \E file \in CutWrite(packageFiles[t][Part(t)]) :
                      packageFiles' = [packageFiles EXCEPT ![t][Part(t)] = file]
          /\ UNCHANGED packageJson
       \/ /\ conversion.todo = {} /\ ~conversion.errors
          /\ packageJson' \in CutWrite(packageJson)
          /\ UNCHANGED packageFiles
    /\ cutVersions' = cutVersions \cup {conversion.package.version}
    /\ conversion' = ConversionIdle
    /\ UNCHANGED report

PackageNext ==
    \/ \E version \in Versions, layers \in SUBSET Layers :
          \/ ConvertMetadata(version, layers)
          \/ \E zeros, given \in BOOLEAN : Convert(version, layers, zeros, given)
    \/ \E t \in Tensors : SavePart(t) \/ FailPart(t)
    \/ FinishPackage \/ Die
PackageSpec == PackageInit /\ [][PackageNext]_packageVars

---------------------------------------------------------------------------
(* The reader.  base_dir is the directory of the tensors: data_file has no
   directory in it. *)

validate_tensor_files(package) ==
    {t \in DOMAIN package.checksum :
       /\ package.checksum[t] # None
       /\ \/ ~IsWhole(packageFiles[t]["weight"])
          \/ Content(packageFiles[t]["weight"]) # package.checksum[t]
          \/ ~IsNorm(t[2]) /\ ~IsWhole(packageFiles[t]["scales"])
          \/ t \in package.zeros /\ ~IsWhole(packageFiles[t]["zeros"])}

Load(package, t) ==
    [weight |-> Content(packageFiles[t]["weight"]),
     scales |-> IF IsNorm(t[2]) THEN None ELSE Content(packageFiles[t]["scales"]),
     zeros |-> IF t \in package.zeros THEN Content(packageFiles[t]["zeros"]) ELSE None]

Loaded(package) ==
    /\ packageJson = Whole(package)
    /\ has_tensor_data(package)
    /\ validate_tensor_files(package) = {}

(* A package with tensor data whose files validate with their checksums is
   the conversion package.json speaks of, weights, scales and zeros of every
   layer, although only the weights have a checksum: unless this version was
   converted again over the package and cut short, or is being converted
   (write order of _write_layer_tensor and write_tensors,
   validate_tensor_files, to_kernel_weights). *)
ValidatedPackageIsWhole ==
    IsWhole(packageJson) =>
        LET package == Content(packageJson)
        IN  /\ Loaded(package)
            /\ package.version \notin cutVersions
            /\ Converting => conversion.package.version # package.version
            => \A l \in package.layers :
                  to_kernel_weights([key \in Keys |-> Load(package, <<l, key>>)])
                      = to_kernel_weights(WithZeros(quantize_layer(package.version, l), package.zeros # {}))

(* A report that says ok: package.json and every file it refers to are this
   call's (write_tensors). *)
WriterReportHonest ==
    report.ok /\ ~Converting =>
        /\ packageJson = Whole(report.package)
        /\ \A t \in DOMAIN report.package.checksum :
              /\ report.package.checksum[t] # None
              /\ LET order == PartsInOrder(t, report.zeros)
                 IN  \A i \in DOMAIN order :
                        packageFiles[t][order[i]]
                            = Whole(Saved(report.package.version, t, report.zeros, order[i]))
=============================================================================
