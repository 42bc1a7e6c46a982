------------------------- MODULE CheckpointPackage -------------------------
(***************************************************************************)
(* From a checkpoint's tensors to the weights of the kernels: the names of *)
(* a layer's tensors, the fusion of q, k and v, the quantized layer, the   *)
(* package that describes it and the arguments of LlamaLayerKernelWeights. *)
(* A tensor of a checkpoint is <<version, name>>: its numbers, and the     *)
(* rounding of a quantization, are left out; what may be wrong here is     *)
(* which tensor ends up where.                                             *)
(***************************************************************************)
EXTENDS Naturals, Sequences, FiniteSets

CONSTANTS
    NumLayers,   \* config.num_hidden_layers
    Versions,    \* checkpoints that are converted
    LinearKeys,  \* the quantized tensors of a layer, in the order of its metadata
    NormKeys     \* the tensors that stay as they are, which come after them

Layers == 0..NumLayers-1
KeyOrder == LinearKeys \o NormKeys
Keys == {KeyOrder[i] : i \in DOMAIN KeyOrder}
IsNorm(key) == \E i \in DOMAIN NormKeys : NormKeys[i] = key
None == <<"None">>

ASSUME PackageAssumption ==
    /\ NumLayers \in Nat
    /\ LinearKeys \in Seq(STRING) \ {<<>>} /\ NormKeys \in Seq(STRING)
    /\ \A i, j \in DOMAIN KeyOrder : KeyOrder[i] = KeyOrder[j] => i = j

---------------------------------------------------------------------------
(* Names and fusion. *)

llama_layer_tensor_names(l, key) ==
    IF key = "qkv" THEN <<<<l, "q_proj">>, <<l, "k_proj">>, <<l, "v_proj">>>> ELSE <<<<l, key>>>>
load_tensor(version, name) == <<version, name>>
fuse_qkv_for_layer(version, names) == [i \in DOMAIN names |-> load_tensor(version, names[i])]

(* Two different checkpoints have different packed weights (a checkpoint and
   its double do not: only the scales differ). *)
quantize_weight_groupwise(weight) ==
    [weight |-> <<"packed", weight>>, scales |-> <<"scales", weight>>, zeros |-> None]
_materialize_symmetric_zeros(scales) == <<"symmetric", scales>>
kernel_zeros(linear) ==
    IF linear.zeros # None THEN linear.zeros ELSE _materialize_symmetric_zeros(linear.scales)

quantize_layer(version, l) ==
    [key \in Keys |->
        LET tensor == fuse_qkv_for_layer(version, llama_layer_tensor_names(l, key))
        IN  IF IsNorm(key) THEN [weight |-> <<"norm", tensor>>, scales |-> None, zeros |-> None]
            ELSE quantize_weight_groupwise(tensor)]

(* A caller of the writer may bring layers with zero points of their own; the
   quantizer never does, whatever with_zeros says. *)
WithZeros(layer, zeros) ==
    IF ~zeros THEN layer
    ELSE [key \in Keys |-> IF IsNorm(key) THEN layer[key]
                           ELSE [layer[key] EXCEPT !.zeros = <<"zeros", layer[key].scales>>]]

to_kernel_weights(layer) ==
    [key \in Keys |-> IF IsNorm(key) THEN <<layer[key].weight>>
                      ELSE <<layer[key].weight, layer[key].scales, kernel_zeros(layer[key])>>]

---------------------------------------------------------------------------
(* The package: what package.json says.  checksum[t] is None as long as
   data_file and scales_file are not set; zeros is the set of the tensors with
   a zeros_file. *)

Tensors == Layers \X Keys
TensorsOf(layers) == {t \in Tensors : t[1] \in layers}

package_from_quantized_layers(version, layers) ==
    [version |-> version, layers |-> layers,
     checksum |-> [t \in TensorsOf(layers) |-> None], zeros |-> {}]

(* validate without allow_partial: layers, and no gap between them. *)
validate(layers) ==
    /\ layers # {}
    /\ \A i, j \in layers : \A l \in i..j : l \in layers

has_tensor_data(package) ==
    \A t \in DOMAIN package.checksum : IsNorm(t[2]) \/ package.checksum[t] # None
=============================================================================
