----------------------------- MODULE KvbmLayout -----------------------------
(***************************************************************************)
(* What KvbmWorker::new makes of the tensors of an inference engine        *)
(* (runtime-kvbm-distributed-worker.rs): it validates its configuration,   *)
(* loads the tensors one by one, and unless the caller gave them reads the *)
(* outer and inner dimension of a block off the shape of a tensor.  The    *)
(* model the tensors were made for is known here, not to the code.         *)
(***************************************************************************)
EXTENDS Integers, Sequences

CONSTANTS
  NumBlocks,  \* numbers of device blocks
  NumLayers,  \* numbers of layers of models
  PageSizes,  \* page sizes that are asked for
  InnerDims,  \* inner dimensions of models
  MaxPage,    \* the largest page size the code accepts
  None

\* A model has a layer, and something in it.
ASSUME KvbmLayoutAssumption ==
  /\ NumBlocks \cup PageSizes \cup {MaxPage} \subseteq Nat
  /\ NumLayers \cup InnerDims \subseteq Nat \ {0}
  /\ None \notin Nat

VARIABLES
  phase,     \* new, loading, infer, built, failed or panicked
  model,     \* history: the model the tensors belong to
  config,    \* KvbmWorkerConfig
  tensors,   \* the shapes of the tensors
  loaded,    \* number of tensors made into device storages
  geometry   \* num_layers, outer_dim, inner_dim and bytes_per_block

lvars == <<phase, model, config, tensors, loaded, geometry>>

\* axis: the tensors have a dimension for the outer_dim, as those of models
\* with separate K and V must, and those with one latent vector need not.
Models == {m \in [blocks: NumBlocks, layers: NumLayers, outer: {1, 2}, page: PageSizes, inner: InnerDims,
                  axis: BOOLEAN] : m.outer = 2 => m.axis}
Layouts == {"FullyContiguous", "OuterContiguous", "BlockContiguous"}

\* External: the tensors an engine makes.  LayerSeparate has one per layer and
\* outer_contiguous says whether the outer dimension comes before the blocks.
Shape(m, layout) ==
  CASE layout = "FullyContiguous" -> IF m.axis THEN <<m.blocks, m.layers, m.outer, m.page, m.inner>>
                                               ELSE <<m.blocks, m.layers, m.page, m.inner>>
    [] layout = "OuterContiguous" -> IF m.axis THEN <<m.outer, m.blocks, m.page, m.inner>>
                                               ELSE <<m.blocks, m.page, m.inner>>
    [] layout = "BlockContiguous" -> IF m.axis THEN <<m.blocks, m.outer, m.page, m.inner>>
                                               ELSE <<m.blocks, m.page, m.inner>>

\* The product over a shape, which has at most five dimensions.
Dimension(s, n) == IF n <= Len(s) THEN s[n] ELSE 1
Product(s) == Dimension(s, 1) * Dimension(s, 2) * Dimension(s, 3) * Dimension(s, 4) * Dimension(s, 5)
\* The dimensions of a shape from the n-th on, counted from 0.
From(s, n) == SubSeq(s, n + 1, Len(s))

\* The caller gives both dimensions, one or none, sometimes out of range.
Configs(m) ==
  [layout: Layouts, blocks: {m.blocks, 0}, page: {m.page}, outer: {m.outer, 3, None}, inner: {m.inner, 0, None}]

\* The caller gives the tensors of the model, none, one that lacks dimensions,
\* or some that differ.
Tensors(m, layout) ==
  IF layout = "FullyContiguous"
  THEN {<< >>, <<Shape(m, layout)>>, <<From(Shape(m, layout), 3)>>}
  ELSE {<< >>, [n \in 1 .. m.layers |-> Shape(m, layout)],
        [n \in 1 .. m.layers |-> IF n = 1 THEN Shape(m, layout) ELSE Append(Shape(m, layout), 1)]}

LayoutInit ==
  /\ phase = "new"
  /\ model \in Models
  /\ config \in Configs(model)
  /\ tensors \in Tensors(model, config.layout)
  /\ loaded = 0
  /\ geometry = None

\* The ranges of the fields, a power of two for the page size, and both
\* dimensions or none.
Valid(c) ==
  /\ c.page \in 1 .. MaxPage /\ \E n \in 0 .. MaxPage : c.page = 2 ^ n
  /\ c.outer \in {1, 2, None} /\ c.inner # 0
  /\ (c.outer = None) = (c.inner = None)

Validate ==
  /\ phase = "new"
  /\ phase' = IF Valid(config) /\ config.blocks # 0 THEN "loading" ELSE "failed"
  /\ UNCHANGED <<model, config, tensors, loaded, geometry>>

\* The device allocator may fail before the first tensor, and each storage that
\* is made of a tensor may.
LoadFails ==
  /\ phase = "loading" /\ (loaded < Len(tensors) \/ loaded = 0)
  /\ phase' = "failed"
  /\ UNCHANGED <<model, config, tensors, loaded, geometry>>

\* load_and_validate_tensors: all shapes are equal, and there is one.
LoadTensor ==
  /\ phase = "loading" /\ loaded < Len(tensors)
  /\ IF tensors[loaded + 1] = tensors[1]
     THEN loaded' = loaded + 1 /\ UNCHANGED phase
     ELSE phase' = "failed" /\ UNCHANGED loaded
  /\ UNCHANGED <<model, config, tensors, geometry>>

AllLoaded ==
  /\ phase = "loading" /\ loaded = Len(tensors)
  /\ phase' = IF tensors = << >> THEN "panicked" ELSE IF Len(tensors[1]) < 3 THEN "failed" ELSE "infer"
  /\ UNCHANGED <<model, config, tensors, loaded, geometry>>

Given(x, inferred) == IF x = None THEN inferred ELSE x

\* Mutant: the outer dimension of BlockContiguous is looked for up front.
DimsFromFront(c, shape) ==
  IF c.layout = "FullyContiguous"
  THEN <<Given(c.outer, shape[3]), Given(c.inner, Product(From(shape, 3)) \div c.page)>>
  ELSE IF c.outer # None THEN <<c.outer, c.inner>>
  ELSE IF shape[1] <= 2 THEN <<shape[1], Product(From(shape, 2)) \div c.page>>
       ELSE <<1, Product(From(shape, IF c.layout = "OuterContiguous" THEN 2 ELSE 1)) \div c.page>>

\* outer_dim and inner_dim of KvbmWorker::new.  Without explicit dimensions
\* LayerSeparate takes a candidate of at most 2 for the outer dimension.
Dims(c, shape) ==
  LET candidate == IF c.layout = "OuterContiguous" THEN shape[1] ELSE shape[2]
      start == IF candidate <= 2 \/ c.layout = "OuterContiguous" THEN 2 ELSE 1
  IN  IF c.layout = "FullyContiguous"
      THEN <<Given(c.outer, shape[3]), Given(c.inner, Product(From(shape, 3)) \div c.page)>>
      ELSE IF c.outer # None THEN <<c.outer, c.inner>>
      ELSE <<IF candidate <= 2 THEN candidate ELSE 1, Product(From(shape, start)) \div c.page>>

Infer ==
  /\ phase = "infer"
  /\ LET shape == tensors[1]
         dims == Dims(config, shape)
         layers == IF config.layout = "FullyContiguous" THEN shape[2] ELSE Len(tensors)
     IN  geometry' = [layers |-> layers, outer |-> dims[1], inner |-> dims[2],
                      elements |-> layers * dims[1] * config.page * dims[2]]
  /\ phase' = "built"
  /\ UNCHANGED <<model, config, tensors, loaded>>

LayoutNext == Validate \/ LoadTensor \/ LoadFails \/ AllLoaded \/ Infer

-----------------------------------------------------------------------------
Inferred == config.outer = None

\* A tensor without an axis for the outer dimension, whose shape does not tell
\* so: the code takes another dimension for it, or skips one too many.
Misread ==
  /\ Inferred /\ ~model.axis
  /\ CASE config.layout = "FullyContiguous" -> model.page # 1
       [] config.layout = "BlockContiguous" -> model.page = 2
       [] config.layout = "OuterContiguous" -> model.page # 1 \/ model.blocks = 2

(* The geometry that KvbmWorker::new goes on with is that of the tensors:    *)
(* layers, outer and inner dimension of its blocks are those of the model,   *)
(* and blocks of this size fill the tensors, which are all alike, exactly.   *)
(* The shapes for which                                                      *)
(* the inference goes wrong are those of Misread and no others: they all     *)
(* lack the axis the code looks for.  (create_layout, which is not in the    *)
(* repository, may still refuse a wrong one.)                                *)
GeometryExact ==
  phase = "built" =>
    /\ Misread <=> <<geometry.layers, geometry.outer, geometry.inner>> # <<model.layers, model.outer, model.inner>>
    /\ ~Misread => \A n \in DOMAIN tensors :
                     config.blocks * geometry.elements = Len(tensors) * Product(tensors[n])
=============================================================================
