------------------------------- MODULE Meshes -------------------------------
(***************************************************************************)
(* How arrays are laid over devices: meshes (substrax/mesh/device_mesh.py, *)
(* rules.py), plans and strategies (strategies.py), batches placed on      *)
(* shards (spmd/data_parallel.py, devices/placement.py) and metrics        *)
(* reduced (spmd/collectives.py). Nothing here keeps state: a behaviour is *)
(* one call, with its arguments and what it returned or Refused.           *)
(*                                                                         *)
(* A PartitionSpec is a sequence of axis names; Replicated stands for None.*)
(***************************************************************************)
EXTENDS Integers, FiniteSets, SequencesExt

CONSTANTS
    MaxDevices,   \* BOUND: how many devices are visible
    MaxLayers,    \* BOUND: how many layers a pipeline has
    MeshAxes,     \* the axis names strategies are given
    TensorNames,  \* the dimension names tensors are given
    MaxTogether,  \* BOUND: strategies combined, dimensions of a tensor, leaves of a batch
    Refused       \* what a call that raises returns

Replicated == "none"
Axes == [name : {"data", "model", "pipeline"}, size : Nat]

ASSUME MeshesAssumption ==
    /\ MaxDevices \in Nat /\ MaxLayers \in Nat /\ MaxTogether \in Nat
    \* None is no axis's name.
    /\ Replicated \notin MeshAxes
    \* A call that raises returns no mesh.
    /\ Refused \notin [axes : Seq(Axes), devices : SUBSET Nat]

VARIABLE made    \* the call and its result

meshVars == <<made>>

MeshInit == made = [call |-> "none"]

Calls(result) == made' = result

Product(shape) ==
    LET upto[n \in 0..Len(shape)] == IF n = 0 THEN 1 ELSE upto[n - 1] * shape[n].size
    IN  upto[Len(shape)]

-----------------------------------------------------------------------------
(* Plans and meshes.                                                       *)

Sizes(data, tensor, pipeline) == [data |-> data, tensor |-> tensor, pipeline |-> pipeline]

\* int(math.sqrt(count))
Root(count) == CHOOSE r \in 0..count : r * r <= count /\ (r + 1) * (r + 1) > count

\* A mutant of FromDeviceCount: the data axis is rounded up.
FromDeviceCountUp(count) ==
    LET tensor == IF Root(count) > 8 THEN 8 ELSE Root(count)
    IN  IF count <= 4 THEN Sizes(count, 1, 1)
        ELSE IF count = 8 THEN Sizes(2, 4, 1)
        ELSE Sizes((count + tensor - 1) \div tensor, tensor, 1)

FromDeviceCount(count) ==
    LET tensor == IF Root(count) > 8 THEN 8 ELSE Root(count)
    IN  IF count <= 4 THEN Sizes(count, 1, 1)
        ELSE IF count = 8 THEN Sizes(2, 4, 1)
        ELSE Sizes(count \div tensor, tensor, 1)

\* ParallelismConfig.from_sharding_config: the axes longer than one, or one of one.
ShapeOf(config) ==
    LET Axis(name, size) == IF size > 1 THEN <<[name |-> name, size |-> size]>> ELSE <<>>
        kept == Axis("data", config.data) \o Axis("model", config.tensor)
                \o Axis("pipeline", config.pipeline)
    IN  IF kept = <<>> THEN <<[name |-> "data", size |-> 1]>> ELSE kept

IsValid(shape, config) == Product(shape) = config.data * config.tensor * config.pipeline

\* create_device_mesh on given devices; types is how many axis types came along, or
\* -1 for None.
CreateDeviceMesh(shape, count, types) ==
    IF types # -1 /\ types # Len(shape) THEN Refused
    ELSE IF count < Product(shape) THEN Refused
    ELSE [axes |-> shape, devices |-> 1..Product(shape)]

\* The three ready-made meshes: only the data-parallel one takes what there is.
DataMesh(size, visible) ==
    LET taken == IF size < visible THEN size ELSE visible
    IN  CreateDeviceMesh(<<[name |-> "data", size |-> taken]>>, taken, -1)

ModelMesh(size, visible) ==
    IF visible < size THEN Refused
    ELSE CreateDeviceMesh(<<[name |-> "model", size |-> size]>>, size, -1)

HybridMesh(data, model, visible) ==
    IF visible < data * model THEN Refused
    ELSE CreateDeviceMesh(<<[name |-> "data", size |-> data], [name |-> "model", size |-> model]>>,
                          data * model, -1)

\* The plan for all the devices there are, and the mesh it asks for.
PlanDevices ==
    \E count \in 1..MaxDevices :
        LET config == FromDeviceCount(count)
            shape == ShapeOf(config)
        IN  Calls([call |-> "plan", count |-> count, config |-> config, shape |-> shape,
                   got |-> CreateDeviceMesh(shape, count, -1)])

\* A configuration written by hand, for more or fewer devices than there are.
PlanByHand ==
    \E count, data, tensor, pipeline \in 1..3, types \in {-1, 1, 2} :
        LET config == Sizes(data, tensor, pipeline)
            shape == ShapeOf(config)
        IN  Calls([call |-> "byhand", count |-> 3 * count, config |-> config, shape |-> shape,
                   types |-> types, got |-> CreateDeviceMesh(shape, 3 * count, types)])

MakeMesh ==
    \E visible \in 1..3, data, model \in 1..3 :
        \/ Calls([call |-> "mesh", count |-> visible, asked |-> data, got |-> DataMesh(data, visible)])
        \/ Calls([call |-> "mesh", count |-> visible, asked |-> model, got |-> ModelMesh(model, visible)])
        \/ Calls([call |-> "mesh", count |-> visible, asked |-> data * model,
                  got |-> HybridMesh(data, model, visible)])

\* assign_layers_to_stages: what is over goes to the first stages, one each.
AssignLayers(layers, stages) ==
    [i \in 1..stages |-> (layers \div stages) + IF i <= layers % stages THEN 1 ELSE 0]

Forward(stages) == [i \in 1..(stages - 1) |-> <<i - 1, i>>]
Backward(stages) == [i \in 1..(stages - 1) |-> <<i, i - 1>>]

Pipeline ==
    \E layers \in 0..MaxLayers, stages \in 1..MaxLayers :
        Calls([call |-> "pipeline", layers |-> layers, stages |-> stages,
               got |-> AssignLayers(layers, stages)])

-----------------------------------------------------------------------------
(* Specs.                                                                  *)

Strategies == [kind : {"data", "fsdp", "pipeline"}, axis : MeshAxes, dim : {Replicated}]
              \union [kind : {"tensor"}, axis : MeshAxes, dim : {Replicated, "in_features"}]

\* Where a strategy shards a tensor with these dimension names.
Claims(strategy, tensor, i) ==
    CASE strategy.kind = "data" -> tensor[i] = "batch"
      [] strategy.kind = "fsdp" -> i = 1 /\ tensor[i] \in {"out_features", "features", "hidden"}
      [] strategy.kind = "tensor" ->
            tensor[i] = IF strategy.dim = Replicated THEN "hidden" ELSE strategy.dim
      [] strategy.kind = "pipeline" -> FALSE

\* get_partition_spec
SpecOf(strategy, tensor) ==
    [i \in DOMAIN tensor |-> IF Claims(strategy, tensor, i) THEN strategy.axis ELSE Replicated]

\* apply_sharding's own spec, by the number of dimensions alone; large is
\* should_shard_weight. A scalar is refused where the code indexes its shape.
ApplySpec(strategy, ndim, large) ==
    LET only(at) == [i \in 1..ndim |-> IF i = at THEN strategy.axis ELSE Replicated]
    IN  CASE strategy.kind = "pipeline" -> only(0)
          [] ndim = 0 /\ strategy.kind # "pipeline" -> Refused
          [] ndim > 0 /\ strategy.kind = "data" -> only(1)
          [] ndim > 0 /\ strategy.kind = "fsdp" -> only(IF large THEN 1 ELSE 0)
          [] ndim = 2 /\ strategy.kind = "tensor" -> only(IF strategy.dim = "in_features" THEN 2 ELSE 1)
          [] ndim \notin {0, 2} /\ strategy.kind = "tensor" -> only(ndim)

\* _validate_strategies: an axis is shared by one data and one FSDP strategy at most.
Compatible(strategies) ==
    \A i, j \in DOMAIN strategies : i # j /\ strategies[i].axis = strategies[j].axis =>
        {strategies[i].kind, strategies[j].kind} = {"data", "fsdp"}

\* A mutant of ResolveConflict: only the new claim may win by its name.
ResolveNewest(existing, new) ==
    IF existing = Replicated \/ new \in {"model", "fsdp"} THEN new ELSE existing

\* _resolve_spec_conflict: model wins, then fsdp, then the existing claim.
ResolveConflict(existing, new) ==
    IF existing = Replicated THEN new
    ELSE IF "model" \in {existing, new} THEN "model"
    ELSE IF "fsdp" \in {existing, new} THEN "fsdp" ELSE existing

Merge(merged, spec) ==
    [i \in DOMAIN merged |-> IF spec[i] = Replicated THEN merged[i]
                             ELSE ResolveConflict(merged[i], spec[i])]

MergeAll(start, specs) ==
    LET merged[n \in 0..Len(specs)] == IF n = 0 THEN start ELSE Merge(merged[n - 1], specs[n])
    IN  merged[Len(specs)]

\* get_combined_partition_spec, with the strategies in the order of the mapping.
Combined(strategies, tensor) ==
    MergeAll([i \in DOMAIN tensor |-> Replicated],
             [k \in DOMAIN strategies |-> SpecOf(strategies[k], tensor)])

\* resolve_sharding_conflicts, which starts from the first proposal.
Resolved(specs) == IF specs = <<>> THEN <<>> ELSE MergeAll(specs[1], specs)

Tensors == {t \in BoundedSeq(TensorNames, MaxTogether) : IsInjective(t)}

CombineSpecs ==
    \E strategies \in BoundedSeq(Strategies, MaxTogether), tensor \in Tensors :
        Calls([call |-> "combine", strategies |-> strategies, tensor |-> tensor,
               got |-> IF Compatible(strategies) THEN Combined(strategies, tensor) ELSE Refused])

ApplySharding ==
    \E strategy \in Strategies, ndim \in 0..MaxTogether, large \in BOOLEAN :
        Calls([call |-> "apply", strategy |-> strategy, ndim |-> ndim,
               got |-> ApplySpec(strategy, ndim, large)])

\* MeshRules of data_parallel_rules and fsdp_rules, and partition_spec_for_names.
Rules == [data |-> [data |-> "data", embed |-> Replicated, mlp |-> Replicated, heads |-> Replicated],
          fsdp |-> [data |-> "data", embed |-> "model", mlp |-> "model", heads |-> "model"]]

LookUpNames ==
    \E rules \in DOMAIN Rules, names \in BoundedSeq({"data", "embed", "mlp", "heads"}, MaxTogether) :
        Calls([call |-> "names", rules |-> rules, names |-> names,
               got |-> [i \in DOMAIN names |-> Rules[rules][names[i]]]])

-----------------------------------------------------------------------------
(* Batches and metrics. A leaf is a jax array, a NumPy array, a NumPy      *)
(* scalar or something else, in one of a batch's two subtrees.             *)

Leaves == [kind : {"jax", "numpy"}, ndim : 0..2, under : {1, 2}]
          \union [kind : {"generic", "other"}, ndim : {0}, under : {1, 2}]

IsArray(leaf) == leaf.kind # "other"

\* How many dimensions a sharding partitions; -1 is one that is not a NamedSharding.
Shardings == {-1, 0, 1, 2}

\* A mutant of LeafShardings: the shardings of the array leaves alone, one after the other.
ShardingsOfArrays(leaves, prefix) ==
    LET arrays == SelectSeq(leaves, IsArray)
    IN  [i \in DOMAIN leaves |-> prefix[IF i \in DOMAIN arrays THEN arrays[i].under ELSE 1]]

\* _leaf_shardings: the prefix broadcast to every leaf.
LeafShardings(leaves, prefix) == [i \in DOMAIN leaves |-> prefix[leaves[i].under]]

\* _check_holds
Holds(leaf, sharding) == sharding <= leaf.ndim

\* place_batch_on_shards: nothing is placed unless every array leaf holds its spec.
PlaceBatch(leaves, prefix) ==
    LET shardings == LeafShardings(leaves, prefix)
        arrays == {i \in DOMAIN leaves : IsArray(leaves[i])}
        positions == [k \in 1..Cardinality(arrays) |->
                         CHOOSE i \in arrays : Cardinality({j \in arrays : j < i}) = k - 1]
        placed == [k \in DOMAIN positions |-> <<"on", shardings[positions[k]]>>]
        PlaceOf(i) == CHOOSE k \in DOMAIN positions : positions[k] = i
    IN  IF \E k \in DOMAIN positions : ~Holds(leaves[positions[k]], shardings[positions[k]])
        THEN Refused
        ELSE [i \in DOMAIN leaves |-> IF IsArray(leaves[i]) THEN placed[PlaceOf(i)] ELSE <<"as it was">>]

Place ==
    \E leaves \in BoundedSeq(Leaves, MaxTogether), first, second \in Shardings :
        /\ leaves # <<>>
        /\ Calls([call |-> "place", leaves |-> leaves, prefix |-> <<first, second>>,
                  got |-> PlaceBatch(leaves, <<first, second>>)])

\* shard_batch_dim's spec for a leaf: NumPy arrays are left to the host, an axis
\* beyond the leaf's is left out, a negative one counts from the end.
BatchSpec(leaf, batch_axis) ==
    LET at == IF batch_axis < 0 THEN leaf.ndim + batch_axis + 1 ELSE batch_axis + 1
    IN  IF leaf.kind # "jax" THEN <<"as it was">>
        ELSE IF leaf.ndim > 0 /\ at < 1 THEN Refused
        ELSE [i \in 1..leaf.ndim |-> IF i = at THEN "data" ELSE Replicated]

ShardBatchDim ==
    \E leaf \in Leaves, batch_axis \in -2..2 :
        Calls([call |-> "shard", leaf |-> leaf, axis |-> batch_axis,
               got |-> BatchSpec(leaf, batch_axis)])

\* _reduce_arrays outside a collective: arrays of one dimension at least.
ReduceMean(leaves) ==
    [i \in DOMAIN leaves |-> IF leaves[i].kind = "jax" /\ leaves[i].ndim > 0 THEN "mean" ELSE "as it was"]

\* reduce_custom: ops gives the operation per metric, "unset" for one it does not name.
ReduceCustom(leaves, ops) ==
    [i \in DOMAIN leaves |->
        LET operation == IF ops[i] = "unset" THEN "mean" ELSE ops[i]
        IN  IF operation \in {"mean", "sum", "max", "min"} /\ leaves[i].kind = "jax"
               /\ leaves[i].ndim > 0 THEN operation ELSE "as it was"]

Reduce ==
    \E leaves \in BoundedSeq({l \in Leaves : l.under = 1}, 2) :
        \E ops \in [DOMAIN leaves -> {"unset", "mean", "sum", "None", "median"}] :
            Calls([call |-> "reduce", leaves |-> leaves, ops |-> ops,
                   got |-> ReduceCustom(leaves, ops)])

-----------------------------------------------------------------------------
(* Advice on batch sizes (devices/placement.py).                           *)

\* _detect_hardware_type, by the names the first device's kind contains.
HardwareOf(platform, says) ==
    CASE platform = "tpu" -> IF says \intersect {"v5e", "v5 lite"} # {} THEN "tpu_v5e"
                             ELSE IF "v5p" \in says THEN "tpu_v5p" ELSE "tpu_v4"
      [] platform \in {"gpu", "cuda"} -> IF "h100" \in says THEN "h100"
                             ELSE IF "v100" \in says /\ "a100" \notin says THEN "v100" ELSE "a100"
      [] platform = "cpu" -> "cpu"
      [] OTHER -> "unknown"

\* _BATCH_SIZE_RECOMMENDATIONS: least, critical and optimal.
Advice == [tpu_v5e |-> <<64, 240, 256>>, tpu_v5p |-> <<128, 480, 512>>, tpu_v4 |-> <<64, 192, 256>>,
           h100 |-> <<64, 298, 320>>, a100 |-> <<32, 240, 256>>, v100 |-> <<16, 96, 128>>,
           cpu |-> <<1, 16, 32>>, unknown |-> <<32, 64, 128>>]

\* validate_batch_size: how good the size is, from 0 (not valid) to 3 (optimal).
ValidateBatchSize(hardware, size, warn) ==
    LET advice == Advice[hardware]
    IN  IF size < advice[1] THEN 0
        ELSE IF size < advice[2] /\ warn THEN 1
        ELSE IF size >= advice[3] THEN 3 ELSE 2

Advise ==
    \E platform \in {"tpu", "gpu", "cuda", "cpu", "rocm"}, warn \in BOOLEAN,
       says \in SUBSET {"v5e", "v5p", "h100", "v100"}, size \in {32 * i : i \in 0..16} :
        Calls([call |-> "advise", warn |-> warn, size |-> size,
               hardware |-> HardwareOf(platform, says),
               got |-> ValidateBatchSize(HardwareOf(platform, says), size, warn)])

MeshNext ==
    /\ made.call = "none"
    /\ \/ PlanDevices \/ PlanByHand \/ MakeMesh \/ Pipeline
       \/ CombineSpecs \/ ApplySharding \/ LookUpNames
       \/ Place \/ ShardBatchDim \/ Reduce \/ Advise

MeshSpec == MeshInit /\ [][MeshNext]_meshVars

-----------------------------------------------------------------------------
(* Properties.                                                             *)

Made(call) == made.call = call

\* A plan for all the devices there are is a mesh of at most these devices that
\* leaves fewer idle than one tensor-parallel group has; one written by hand is what
\* it says, and is refused when and only when it needs more devices or other axis
\* types; a ready-made mesh is never larger than asked; a pipeline's layers are all
\* assigned, evenly, in order, and gradients go back where activations came from;
\* and a larger batch is never advised against where a smaller one was not.
PlanFitsDevices ==
    /\ Made("plan") =>
        /\ IsValid(made.shape, made.config)
        /\ made.got # Refused
        /\ made.count - Product(made.shape) \in 0..(made.config.tensor - 1)
    /\ Made("byhand") =>
        /\ IsValid(made.shape, made.config)
        /\ made.got = Refused <=> \/ Product(made.shape) > made.count
                                    \/ made.types \notin {-1, Len(made.shape)}
    /\ Made("mesh") /\ made.got # Refused =>
        made.got.devices \subseteq 1..made.count /\ Cardinality(made.got.devices) <= made.asked
    /\ Made("pipeline") =>
        /\ SumFunction(made.got) = made.layers
        /\ \A i, j \in DOMAIN made.got : i <= j => made.got[i] - made.got[j] \in {0, 1}
        /\ Forward(made.stages) = [i \in DOMAIN Backward(made.stages) |-> Reverse(Backward(made.stages)[i])]
    /\ Made("advise") =>
        \A larger \in {made.size, made.size + 1, 2 * made.size}, warn \in {made.warn, FALSE} :
            made.got <= ValidateBatchSize(made.hardware, larger, warn)

UsesOnce(spec, axis) == Cardinality({i \in DOMAIN spec : spec[i] = axis}) <= 1

\* Each dimension goes to an axis some strategy claimed, the specs merge to the same
\* either way, the order only matters to axes without a rank, and no axis is used twice
\* for a tensor whose batch comes first.
SettledFor(got, strategies, tensor) ==
    LET specs == [k \in DOMAIN strategies |-> SpecOf(strategies[k], tensor)]
    IN  /\ \A i \in DOMAIN tensor :
             LET claims == {specs[k][i] : k \in DOMAIN specs} \ {Replicated}
             IN  got[i] \in IF claims = {} THEN {Replicated} ELSE claims
        /\ specs # <<>> => Resolved(specs) = got
        /\ (\A k \in DOMAIN specs : strategies[k].axis \in {"data", "fsdp", "model"}) =>
             Combined(Reverse(strategies), tensor) = got
        /\ (\A i \in DOMAIN tensor : tensor[i] = "batch" => i = 1) =>
             \A axis \in MeshAxes : UsesOnce(got, axis)

\* Strategies that may be combined give each dimension to an axis some strategy
\* claimed, whichever way the specs are merged; on the axes data, fsdp and model the
\* order of the mapping makes no difference; and jax is never asked to use an axis
\* twice for a tensor whose batch, if it has one, comes first.
SpecsSettled ==
    /\ Made("combine") /\ made.got # Refused => SettledFor(made.got, made.strategies, made.tensor)
    /\ Made("apply") /\ made.got # Refused =>
        Len(made.got) = made.ndim /\ UsesOnce(made.got, made.strategy.axis)
    /\ Made("names") =>
        LET model == {i \in DOMAIN made.names : made.names[i] # "data"}
        IN  IsInjective(made.names) /\ (made.rules = "fsdp" => Cardinality(model) <= 1) =>
                \A axis \in {"data", "model"} : UsesOnce(made.got, axis)

\* A batch is placed leaf by leaf on the shardings of its subtrees or not at all,
\* whatever else lies between its arrays; where shard_batch_dim accepts an array of
\* one dimension at least it agrees with place_batch_on_shards on the batch axis; and
\* a reduction names no metric's operation exactly when it is reduce_mean.
PlacedAsAsked ==
    /\ Made("place") =>
        LET arrays == {i \in DOMAIN made.leaves : IsArray(made.leaves[i])}
            asked(i) == made.prefix[made.leaves[i].under]
        IN  IF \E i \in arrays : made.leaves[i].ndim < asked(i) THEN made.got = Refused
            ELSE \A i \in DOMAIN made.leaves :
                    made.got[i] = IF i \in arrays THEN <<"on", asked(i)>> ELSE <<"as it was">>
    /\ Made("shard") /\ made.got \notin {Refused, <<"as it was">>} =>
        /\ UsesOnce(made.got, "data")
        /\ made.axis = 0 /\ PlaceBatch(<<made.leaf>>, <<1, 1>>) # Refused => made.got[1] = "data"
    /\ Made("reduce") /\ (\A i \in DOMAIN made.ops : made.ops[i] \in {"unset", "mean"}) =>
        made.got = ReduceMean(made.leaves)
=============================================================================
