--------------------------- MODULE KvbmSetupProofs ---------------------------
(***************************************************************************)
(* The safety of the two constructors of MCKvbmSetup: the geometry that    *)
(* KvbmWorker::new infers, for every model, every shape of its tensors and *)
(* every configuration, and the block manager that Resources::new makes,   *)
(* for any number of calls of its builders' setters.                       *)
(***************************************************************************)
EXTENDS MCKvbmSetup, SequenceTheorems, TLAPS

-----------------------------------------------------------------------------
(* Arithmetic of shapes.                                                   *)

\* Dividing a product by one of its factors leaves the other.
LEMMA Quotient ==
  ASSUME NEW a \in Nat \ {0}, NEW b \in Nat
  PROVE  (a * b) \div a = b
OBVIOUS

\* Dividing by more than one makes a number smaller.
LEMMA SmallerQuotient ==
  ASSUME NEW a \in Nat \ {0, 1}, NEW b \in Nat \ {0}
  PROVE  b \div a # b
OBVIOUS

LEMMA ModelType ==
  ASSUME NEW m \in Models
  PROVE  /\ m.blocks \in Nat /\ m.page \in Nat /\ m.outer \in {1, 2}
         /\ m.layers \in Nat \ {0} /\ m.inner \in Nat \ {0}
         /\ m.axis \in BOOLEAN /\ (~m.axis => m.outer = 1)
BY KvbmLayoutAssumption DEF Models

\* The shapes of the tensors, by layout and by whether they have an axis for
\* the outer dimension.
LEMMA Shapes ==
  ASSUME NEW m
  PROVE  /\ Shape(m, "FullyContiguous") = IF m.axis THEN <<m.blocks, m.layers, m.outer, m.page, m.inner>>
                                                    ELSE <<m.blocks, m.layers, m.page, m.inner>>
         /\ Shape(m, "OuterContiguous") = IF m.axis THEN <<m.outer, m.blocks, m.page, m.inner>>
                                                    ELSE <<m.blocks, m.page, m.inner>>
         /\ Shape(m, "BlockContiguous") = IF m.axis THEN <<m.blocks, m.outer, m.page, m.inner>>
                                                    ELSE <<m.blocks, m.page, m.inner>>
BY Zenon DEF Shape

\* Products over shapes and over what is left of them.
LEMMA ProductsOf3 ==
  ASSUME NEW a \in Nat, NEW b \in Nat, NEW c \in Nat
  PROVE  /\ Product(<<a, b, c>>) = a * b * c
         /\ Product(From(<<a, b, c>>, 1)) = b * c
         /\ Product(From(<<a, b, c>>, 2)) = c
BY DEF Product, Dimension, From

LEMMA ProductsOf4 ==
  ASSUME NEW a \in Nat, NEW b \in Nat, NEW c \in Nat, NEW d \in Nat
  PROVE  /\ Product(<<a, b, c, d>>) = a * b * c * d
         /\ Product(From(<<a, b, c, d>>, 2)) = c * d
         /\ Product(From(<<a, b, c, d>>, 3)) = d
BY DEF Product, Dimension, From

LEMMA ProductsOf5 ==
  ASSUME NEW a \in Nat, NEW b \in Nat, NEW c \in Nat, NEW d \in Nat, NEW e \in Nat
  PROVE  /\ Product(<<a, b, c, d, e>>) = a * b * c * d * e
         /\ Product(From(<<a, b, c, d, e>>, 3)) = d * e
BY DEF Product, Dimension, From

-----------------------------------------------------------------------------
(* KvbmWorker::new.                                                        *)

\* What loading has established when the dimensions are read off a shape.
WellShaped ==
  /\ Len(tensors) = IF config.layout = "FullyContiguous" THEN 1 ELSE model.layers
  /\ DOMAIN tensors = 1 .. Len(tensors)
  /\ \A n \in 1 .. Len(tensors) : tensors[n] = Shape(model, config.layout)

Inference(dims) ==
  [layers |-> model.layers, outer |-> dims[1], inner |-> dims[2],
   elements |-> model.layers * dims[1] * config.page * dims[2]]

LayoutInv ==
  /\ model \in Models /\ config \in Configs(model)
  /\ tensors \in Tensors(model, config.layout)
  /\ loaded \in Nat
  /\ \A n \in 1 .. loaded : tensors[n] = tensors[1]
  /\ phase \in {"loading", "infer", "built"} => Valid(config) /\ config.blocks # 0
  /\ phase \in {"infer", "built"} => WellShaped
  /\ phase = "built" => geometry = Inference(Dims(config, Shape(model, config.layout)))

\* What a valid configuration says about its model.
LEMMA ConfigType ==
  ASSUME model \in Models, config \in Configs(model), Valid(config), config.blocks # 0
  PROVE  /\ config.layout \in Layouts
         /\ config.blocks = model.blocks /\ model.blocks \in Nat \ {0}
         /\ config.page = model.page /\ model.page \in Nat \ {0}
         /\ Inferred => config.outer = None /\ config.inner = None
         /\ ~Inferred => config.outer = model.outer /\ config.inner = model.inner
BY ModelType, KvbmLayoutAssumption DEF Configs, Valid, Inferred

\* What is read off a shape that has an axis for the outer dimension, and off
\* one that has none, in each of the layouts.
LEMMA DimsOfFullyContiguous ==
  ASSUME NEW m \in Models, m.page # 0,
         NEW c, c.layout = "FullyContiguous", c.outer = None, c.inner = None, c.page = m.page
  PROVE  Dims(c, Shape(m, c.layout)) =
           IF m.axis THEN <<m.outer, m.inner>> ELSE <<m.page, m.inner \div m.page>>
<1> DEFINE b == m.blocks  l == m.layers  o == m.outer  p == m.page  i == m.inner
<1>1. b \in Nat /\ l \in Nat /\ o \in Nat /\ p \in Nat \ {0} /\ i \in Nat
  BY ModelType
<1>2. Shape(m, c.layout) = IF m.axis THEN <<b, l, o, p, i>> ELSE <<b, l, p, i>>
  BY Shapes
<1>3. c.page = p
  OBVIOUS
<1> HIDE DEF b, l, o, p, i
<1>4. Product(From(<<b, l, o, p, i>>, 3)) = p * i
  BY <1>1, ProductsOf5
<1>5. Product(From(<<b, l, p, i>>, 3)) = i
  BY <1>1, ProductsOf4
<1>6. (p * i) \div p = i
  BY <1>1, Quotient
<1>7. <<b, l, o, p, i>>[3] = o /\ <<b, l, p, i>>[3] = p
  OBVIOUS
<1>8. Dims(c, Shape(m, c.layout)) = IF m.axis THEN <<o, i>> ELSE <<p, i \div p>>
  BY <1>2, <1>3, <1>4, <1>5, <1>6, <1>7 DEF Dims, Given
<1> QED
  BY <1>8 DEF o, p, i

LEMMA DimsOfBlockContiguous ==
  ASSUME NEW m \in Models, m.page # 0,
         NEW c, c.layout = "BlockContiguous", c.outer = None, c.inner = None, c.page = m.page
  PROVE  Dims(c, Shape(m, c.layout)) =
           IF m.axis THEN <<m.outer, m.inner>>
           ELSE IF m.page <= 2 THEN <<m.page, m.inner \div m.page>> ELSE <<1, m.inner>>
<1> DEFINE b == m.blocks  o == m.outer  p == m.page  i == m.inner
<1>1. b \in Nat /\ o \in Nat /\ o <= 2 /\ p \in Nat \ {0} /\ i \in Nat
  BY ModelType
<1>2. Shape(m, c.layout) = IF m.axis THEN <<b, o, p, i>> ELSE <<b, p, i>>
  BY Shapes
<1>3. c.page = p
  OBVIOUS
<1> HIDE DEF b, o, p, i
<1>4. Product(From(<<b, o, p, i>>, 2)) = p * i
  BY <1>1, ProductsOf4
<1>5. Product(From(<<b, p, i>>, 2)) = i /\ Product(From(<<b, p, i>>, 1)) = p * i
  BY <1>1, ProductsOf3
<1>6. (p * i) \div p = i
  BY <1>1, Quotient
<1>7. <<b, o, p, i>>[2] = o /\ <<b, p, i>>[2] = p
  OBVIOUS
<1>8. Dims(c, Shape(m, c.layout)) =
        IF m.axis THEN <<o, i>> ELSE IF p <= 2 THEN <<p, i \div p>> ELSE <<1, i>>
  <2>1. CASE m.axis
    BY <1>1, <1>2, <1>3, <1>4, <1>6, <1>7, <2>1 DEF Dims
  <2>2. CASE ~m.axis
    BY <1>1, <1>2, <1>3, <1>5, <1>6, <1>7, <2>2 DEF Dims
  <2> QED
    BY <2>1, <2>2
<1> QED
  BY <1>8 DEF o, p, i

LEMMA DimsOfOuterContiguous ==
  ASSUME NEW m \in Models, m.page # 0,
         NEW c, c.layout = "OuterContiguous", c.outer = None, c.inner = None, c.page = m.page
  PROVE  Dims(c, Shape(m, c.layout)) =
           IF m.axis THEN <<m.outer, m.inner>>
           ELSE <<IF m.blocks <= 2 THEN m.blocks ELSE 1, m.inner \div m.page>>
<1> DEFINE b == m.blocks  o == m.outer  p == m.page  i == m.inner
<1>1. b \in Nat /\ o \in Nat /\ o <= 2 /\ p \in Nat \ {0} /\ i \in Nat
  BY ModelType
<1>2. Shape(m, c.layout) = IF m.axis THEN <<o, b, p, i>> ELSE <<b, p, i>>
  BY Shapes
<1>3. c.page = p
  OBVIOUS
<1> HIDE DEF b, o, p, i
<1>4. Product(From(<<o, b, p, i>>, 2)) = p * i
  BY <1>1, ProductsOf4
<1>5. Product(From(<<b, p, i>>, 2)) = i
  BY <1>1, ProductsOf3
<1>6. (p * i) \div p = i
  BY <1>1, Quotient
<1>7. <<o, b, p, i>>[1] = o /\ <<b, p, i>>[1] = b
  OBVIOUS
<1>8. Dims(c, Shape(m, c.layout)) =
        IF m.axis THEN <<o, i>> ELSE <<IF b <= 2 THEN b ELSE 1, i \div p>>
  <2>1. CASE m.axis
    BY <1>1, <1>2, <1>3, <1>4, <1>6, <1>7, <2>1 DEF Dims
  <2>2. CASE ~m.axis
    BY <1>1, <1>2, <1>3, <1>5, <1>6, <1>7, <2>2 DEF Dims
  <2> QED
    BY <2>1, <2>2
<1> QED
  BY <1>8 DEF b, o, p, i

\* The dimensions that are inferred are those of the model, but for Misread.
LEMMA DimensionsRead ==
  ASSUME model \in Models, config \in Configs(model), Valid(config), config.blocks # 0
  PROVE  Misread <=> Dims(config, Shape(model, config.layout)) # <<model.outer, model.inner>>
<1> DEFINE dims == Dims(config, Shape(model, config.layout))
<1>1. /\ model.blocks \in Nat \ {0} /\ model.page \in Nat \ {0} /\ model.inner \in Nat \ {0}
      /\ config.page = model.page /\ model.axis \in BOOLEAN /\ (~model.axis => model.outer = 1)
  BY ConfigType, ModelType
<1>2. model.inner \div model.page = model.inner <=> model.page = 1
  <2>1. model.inner \div 1 = model.inner
    BY <1>1
  <2>2. model.page # 1 => model.inner \div model.page # model.inner
    BY <1>1, SmallerQuotient
  <2> QED
    BY <2>1, <2>2
<1>3. CASE ~Inferred
  <2>1. /\ config.outer = model.outer /\ config.inner = model.inner
        /\ model.outer # None /\ model.inner # None
    BY <1>3, ConfigType, ModelType, KvbmLayoutAssumption
  <2>2. dims = <<model.outer, model.inner>>
    BY <2>1 DEF Dims, Given
  <2>3. ~Misread
    BY <1>3 DEF Misread
  <2> QED
    BY <2>2, <2>3
<1>4. ASSUME Inferred PROVE config.outer = None /\ config.inner = None
  BY <1>4, ConfigType
<1>5. CASE Inferred /\ config.layout = "FullyContiguous"
  <2>1. dims = IF model.axis THEN <<model.outer, model.inner>>
               ELSE <<model.page, model.inner \div model.page>>
    BY <1>1, <1>4, <1>5, DimsOfFullyContiguous
  <2>2. Misread <=> ~model.axis /\ model.page # 1
    BY <1>5, Zenon DEF Misread
  <2> QED
    BY <1>1, <1>2, <2>1, <2>2
<1>6. CASE Inferred /\ config.layout = "BlockContiguous"
  <2>1. dims = IF model.axis THEN <<model.outer, model.inner>>
               ELSE IF model.page <= 2 THEN <<model.page, model.inner \div model.page>> ELSE <<1, model.inner>>
    BY <1>1, <1>4, <1>6, DimsOfBlockContiguous
  <2>2. Misread <=> ~model.axis /\ model.page = 2
    BY <1>6, Zenon DEF Misread
  <2> QED
    BY <1>1, <1>2, <2>1, <2>2
<1>7. CASE Inferred /\ config.layout = "OuterContiguous"
  <2>1. dims = IF model.axis THEN <<model.outer, model.inner>>
               ELSE <<IF model.blocks <= 2 THEN model.blocks ELSE 1, model.inner \div model.page>>
    BY <1>1, <1>4, <1>7, DimsOfOuterContiguous
  <2>2. Misread <=> ~model.axis /\ (model.page # 1 \/ model.blocks = 2)
    BY <1>7, Zenon DEF Misread
  <2>3. (IF model.blocks <= 2 THEN model.blocks ELSE 1) = 1 <=> model.blocks # 2
    BY <1>1
  <2> QED
    BY <1>1, <1>2, <2>1, <2>2, <2>3
<1> QED
  BY <1>3, <1>5, <1>6, <1>7, ConfigType DEF Layouts

\* Blocks of the model's dimensions fill its tensors.
LEMMA TensorsFilled ==
  ASSUME NEW m \in Models, NEW layout \in Layouts
  PROVE  m.blocks * (m.layers * m.outer * m.page * m.inner) =
           (IF layout = "FullyContiguous" THEN 1 ELSE m.layers) * Product(Shape(m, layout))
<1> DEFINE b == m.blocks  l == m.layers  o == m.outer  p == m.page  i == m.inner
<1>1. /\ b \in Nat /\ l \in Nat /\ o \in Nat /\ p \in Nat /\ i \in Nat
      /\ m.axis \in BOOLEAN /\ (~m.axis => o = 1)
  BY ModelType
<1>2. /\ layout = "FullyContiguous" =>
           Shape(m, layout) = IF m.axis THEN <<b, l, o, p, i>> ELSE <<b, l, p, i>>
      /\ layout = "OuterContiguous" => Shape(m, layout) = IF m.axis THEN <<o, b, p, i>> ELSE <<b, p, i>>
      /\ layout = "BlockContiguous" => Shape(m, layout) = IF m.axis THEN <<b, o, p, i>> ELSE <<b, p, i>>
  BY Shapes
<1> HIDE DEF b, l, o, p, i
<1>3. Product(<<b, l, o, p, i>>) = b * l * o * p * i /\ b * (l * o * p * i) = 1 * (b * l * o * p * i)
  BY <1>1, ProductsOf5
<1>4. o = 1 => Product(<<b, l, p, i>>) = b * l * p * i /\ b * (l * o * p * i) = 1 * (b * l * p * i)
  BY <1>1, ProductsOf4
<1>5. Product(<<o, b, p, i>>) = o * b * p * i /\ b * (l * o * p * i) = l * (o * b * p * i)
  BY <1>1, ProductsOf4
<1>6. Product(<<b, o, p, i>>) = b * o * p * i /\ b * (l * o * p * i) = l * (b * o * p * i)
  BY <1>1, ProductsOf4
<1>7. o = 1 => Product(<<b, p, i>>) = b * p * i /\ b * (l * o * p * i) = l * (b * p * i)
  BY <1>1, ProductsOf3
<1>8. b * (l * o * p * i) = (IF layout = "FullyContiguous" THEN 1 ELSE l) * Product(Shape(m, layout))
  <2>1. CASE layout = "FullyContiguous"
    BY <1>1, <1>2, <1>3, <1>4, <2>1, Zenon
  <2>2. CASE layout = "OuterContiguous"
    BY <1>1, <1>2, <1>5, <1>7, <2>2
  <2>3. CASE layout = "BlockContiguous"
    BY <1>1, <1>2, <1>6, <1>7, <2>3
  <2> QED
    BY <2>1, <2>2, <2>3 DEF Layouts
<1> QED
  BY <1>8 DEF b, l, o, p, i

LEMMA LayoutInitially == LayoutInit => LayoutInv
BY DEF LayoutInit, LayoutInv

\* Tensors that were all loaded and have three dimensions or more are those of
\* the model.
LEMMA LoadedAreShaped ==
  ASSUME model \in Models, config \in Configs(model), tensors \in Tensors(model, config.layout),
         \A n \in 1 .. Len(tensors) : tensors[n] = tensors[1],
         tensors # << >>, ~(Len(tensors[1]) < 3)
  PROVE  WellShaped
<1> DEFINE shape == Shape(model, config.layout)
<1>0. config.layout \in Layouts /\ model.layers \in Nat \ {0}
  BY ModelType DEF Configs
<1>1. CASE config.layout = "FullyContiguous"
  <2>1. Len(From(shape, 3)) < 3
    <3>1. shape = IF model.axis THEN <<model.blocks, model.layers, model.outer, model.page, model.inner>>
                                ELSE <<model.blocks, model.layers, model.page, model.inner>>
      BY <1>1, Shapes
    <3>2. Len(shape) = IF model.axis THEN 5 ELSE 4
      BY <3>1
    <3> QED
      BY <3>1, <3>2 DEF From
  <2>2. tensors # <<From(shape, 3)>>
    BY <2>1
  <2>3. tensors = <<shape>>
    BY <1>1, <2>2 DEF Tensors
  <2> QED
    BY <1>1, <2>3 DEF WellShaped
<1>2. CASE config.layout # "FullyContiguous"
  <2>1. PICK f : tensors = [n \in 1 .. model.layers |-> IF n = 1 THEN shape ELSE f]
    BY <1>2 DEF Tensors
  <2>2. Len(tensors) = model.layers /\ DOMAIN tensors = 1 .. model.layers
    BY <1>0, <2>1
  <2>3. tensors[1] = shape
    BY <1>0, <2>1
  <2> QED
    BY <1>2, <2>2, <2>3 DEF WellShaped
<1> QED
  BY <1>1, <1>2

LEMMA LayoutStep == LayoutInv /\ [LayoutNext]_lvars => LayoutInv'
<1> SUFFICES ASSUME LayoutInv, [LayoutNext]_lvars PROVE LayoutInv'
  OBVIOUS
<1> USE DEF LayoutInv
<1>1. CASE Validate
  BY <1>1 DEF Validate, WellShaped
<1>2. CASE LoadTensor
  BY <1>2 DEF LoadTensor, WellShaped
<1>3. CASE AllLoaded
  <2>1. /\ UNCHANGED <<model, config, tensors, loaded, geometry>>
        /\ phase = "loading" /\ loaded = Len(tensors) /\ phase' \in {"panicked", "failed", "infer"}
        /\ phase' = "infer" => tensors # << >> /\ ~(Len(tensors[1]) < 3)
    BY <1>3 DEF AllLoaded
  <2>2. phase' = "infer" => WellShaped
    BY <2>1, LoadedAreShaped
  <2> QED
    BY <2>1, <2>2 DEF WellShaped
<1>4. CASE Infer
  <2>1. phase = "infer" /\ phase' = "built" /\ UNCHANGED <<model, config, tensors, loaded>> /\ WellShaped
    BY <1>4 DEF Infer
  <2>2. tensors[1] = Shape(model, config.layout)
    BY <2>1, ModelType DEF WellShaped
  <2>3. (IF config.layout = "FullyContiguous" THEN tensors[1][2] ELSE Len(tensors)) = model.layers
    <3>1. CASE config.layout = "FullyContiguous"
      <4>1. tensors[1] = IF model.axis THEN <<model.blocks, model.layers, model.outer, model.page, model.inner>>
                                       ELSE <<model.blocks, model.layers, model.page, model.inner>>
        BY <2>2, <3>1, Shapes
      <4> QED
        BY <3>1, <4>1
    <3>2. CASE config.layout # "FullyContiguous"
      BY <2>1, <3>2 DEF WellShaped
    <3> QED
      BY <3>1, <3>2
  <2>4. geometry' = Inference(Dims(config, Shape(model, config.layout)))
    BY <1>4, <2>2, <2>3, Zenon DEF Infer, Inference
  <2> QED
    BY <2>1, <2>4 DEF WellShaped, Inference
<1>5. CASE LoadFails
  BY <1>5 DEF LoadFails, WellShaped
<1>6. CASE UNCHANGED lvars
  BY <1>6 DEF lvars, WellShaped, Inference, Valid, Dims, Given
<1> QED
  BY <1>1, <1>2, <1>3, <1>4, <1>5, <1>6 DEF LayoutNext

LEMMA LayoutExact == LayoutInv => GeometryExact
<1> SUFFICES ASSUME LayoutInv, phase = "built"
             PROVE  /\ Misread <=> <<geometry.layers, geometry.outer, geometry.inner>> #
                                     <<model.layers, model.outer, model.inner>>
                    /\ ~Misread => \A n \in DOMAIN tensors :
                         config.blocks * geometry.elements = Len(tensors) * Product(tensors[n])
  BY DEF GeometryExact
<1> DEFINE dims == Dims(config, Shape(model, config.layout))
<1>1. /\ model \in Models /\ config \in Configs(model) /\ Valid(config) /\ config.blocks # 0
      /\ WellShaped /\ geometry = Inference(dims)
  BY DEF LayoutInv
<1>2. /\ geometry.layers = model.layers /\ geometry.outer = dims[1] /\ geometry.inner = dims[2]
      /\ geometry.elements = model.layers * dims[1] * config.page * dims[2]
  BY <1>1 DEF Inference
<1>3. dims = <<dims[1], dims[2]>>
  BY DEF Dims
<1>4. Misread <=> dims # <<model.outer, model.inner>>
  BY <1>1, DimensionsRead
<1> HIDE DEF dims
<1>5. Misread <=> <<geometry.layers, geometry.outer, geometry.inner>> #
                    <<model.layers, model.outer, model.inner>>
  BY <1>2, <1>3, <1>4
<1>6. ASSUME ~Misread, NEW n \in DOMAIN tensors
      PROVE  config.blocks * geometry.elements = Len(tensors) * Product(tensors[n])
  <2>1. config.blocks = model.blocks /\ config.page = model.page /\ config.layout \in Layouts
    BY <1>1, ConfigType
  <2>2. geometry.elements = model.layers * model.outer * model.page * model.inner
    BY <1>2, <1>4, <1>6, <2>1
  <2>3. /\ tensors[n] = Shape(model, config.layout)
        /\ Len(tensors) = IF config.layout = "FullyContiguous" THEN 1 ELSE model.layers
    BY <1>1, <1>6 DEF WellShaped
  <2>4. model.blocks * (model.layers * model.outer * model.page * model.inner) =
          (IF config.layout = "FullyContiguous" THEN 1 ELSE model.layers) * Product(Shape(model, config.layout))
    BY <1>1, <2>1, TensorsFilled
  <2> QED
    BY <2>1, <2>2, <2>3, <2>4, Zenon
<1> QED
  BY <1>5, <1>6

-----------------------------------------------------------------------------
(* Resources::new and the builders before it.                              *)

\* What the builder let through, and what each step of the constructor leaves
\* to the next one.
SourceInv ==
  /\ source \in [Sources -> {"unset", "none", "some"}]
  /\ step \notin {"configuring", "refused"} => OneIsSet
  /\ step = "refused" => ~OneIsSet

EventsInv ==
  step \in {"agent", "backend", "runtime", "up"} =>
    /\ given.consolidator /\ events # "dynamo" => mishap \/ given.explicitEvents
    /\ given.explicitEvents => events = "explicit"

AgentInv ==
  /\ step \in {"configuring", "validate", "events", "agent"} => agent = "absent" /\ ~backend
  /\ step = "backend" => agent = "own" /\ nixl = "Enabled" /\ ~backend
  /\ step \in {"runtime", "up"} =>
       /\ given.disk /\ ~backend => ~given.plugin \/ nixl # "Enabled"
       /\ backend => agent = "own" /\ given.disk
       /\ (agent = "absent") = (nixl = "Disabled")
  /\ nixl \in {"Enabled", "EnabledWithAgent", "Disabled"}
  /\ given \in Givens /\ backend \in BOOLEAN

ManagerInv == SourceInv /\ EventsInv /\ AgentInv

LEMMA ManagerInitially == ManagerInit => ManagerInv
BY DEF ManagerInit, ManagerInv, SourceInv, EventsInv, AgentInv

LEMMA ManagerStep == ManagerInv /\ [ManagerNext]_mvars => ManagerInv'
<1> SUFFICES ASSUME ManagerInv, [ManagerNext]_mvars PROVE ManagerInv'
  OBVIOUS
<1> USE DEF ManagerInv, SourceInv, EventsInv, AgentInv, OneIsSet
<1>1. ASSUME NEW x \in Sources, SetSource(x) PROVE ManagerInv'
  <2>1. source' \in [Sources -> {"unset", "none", "some"}]
    BY <1>1 DEF SetSource
  <2> QED
    BY <1>1, <2>1 DEF SetSource, Configuring
<1>2. CASE SetNixl
  BY <1>2 DEF SetNixl, Configuring
<1>3. CASE Build
  BY <1>3 DEF Build
<1>4. CASE ValidateModel
  BY <1>4 DEF ValidateModel
<1>5. CASE ChooseEvents
  BY <1>5 DEF ChooseEvents, Givens
<1>6. CASE CreateAgent
  BY <1>6 DEF CreateAgent
<1>7. CASE CreateBackend
  BY <1>7 DEF CreateBackend, Givens
<1>8. CASE FindRuntime
  BY <1>8 DEF FindRuntime
<1>9. CASE UNCHANGED mvars
  BY <1>9 DEF mvars
<1> QED
  BY <1>1, <1>2, <1>3, <1>4, <1>5, <1>6, <1>7, <1>8, <1>9 DEF ManagerNext

\* A builder that accepted has one field set, one that refused has none or two.
LEMMA SourceExact == ManagerInv => OneSource
<1> SUFFICES ASSUME SourceInv PROVE OneSource
  BY DEF ManagerInv
<1>1. \A x \in Sources : source[x] \in {"unset", "none", "some"}
  BY DEF SourceInv
<1>2. CASE step \notin {"configuring", "refused"}
  <2>1. PICK x \in Sources : source[x] # "unset" /\ \A y \in Sources \ {x} : source[y] = "unset"
    BY <1>2 DEF SourceInv, OneIsSet
  <2>2. Actual = {} => source[x] = "none"
    BY <1>1, <2>1 DEF Actual
  <2>3. \A y \in Actual : y = x
    BY <2>1 DEF Actual
  <2> QED
    BY <1>2, <2>2, <2>3 DEF OneSource
<1>3. CASE step \in {"configuring", "refused"}
  <2>1. ASSUME step = "refused", NEW x \in Sources, Actual = {x}
        PROVE  \E y \in Sources : source[y] = "none"
    <3>1. source[x] = "some"
      BY <2>1 DEF Actual
    <3>2. PICK y \in Sources \ {x} : source[y] # "unset"
      BY <2>1, <3>1 DEF SourceInv, OneIsSet
    <3>3. source[y] # "some"
      BY <2>1, <3>2 DEF Actual
    <3> QED
      BY <1>1, <3>2, <3>3
  <2> QED
    BY <1>3, <2>1 DEF OneSource
<1> QED
  BY <1>2, <1>3

LEMMA Degradation == ManagerInv => DegradedExplained
BY DEF ManagerInv, EventsInv, AgentInv, DegradedExplained

-----------------------------------------------------------------------------
IInv == LayoutInv /\ ManagerInv

LEMMA Invariance == Spec => []IInv
<1>1. Init => IInv
  BY LayoutInitially, ManagerInitially DEF Init, IInv
<1>2. IInv /\ [Next]_<<lvars, mvars, part>> => IInv'
  <2>1. [Next]_<<lvars, mvars, part>> => [LayoutNext]_lvars /\ [ManagerNext]_mvars
    BY DEF Next
  <2> QED
    BY <2>1, LayoutStep, ManagerStep DEF IInv
<1> QED
  BY <1>1, <1>2, PTL DEF Spec

\* The geometry KvbmWorker::new goes on with is that of the tensors, and goes
\* wrong for the shapes of Misread and no others: for all numbers of blocks and
\* layers, page sizes and inner dimensions.
THEOREM GeometryRight == Spec => []GeometryExact
<1>1. IInv => GeometryExact
  BY LayoutExact DEF IInv
<1> QED
  BY Invariance, <1>1, PTL

\* A layout is built from one source of blocks exactly, but for sources that
\* were set to None: for any number of calls of the setters.
THEOREM OneSourceOnly == Spec => []OneSource
<1>1. IInv => OneSource
  BY SourceExact DEF IInv
<1> QED
  BY Invariance, <1>1, PTL

\* A manager that comes up without what was configured has one of the reasons
\* the constructor tolerates.
THEOREM DegradationExplained == Spec => []DegradedExplained
<1>1. IInv => DegradedExplained
  BY Degradation DEF IInv
<1> QED
  BY Invariance, <1>1, PTL

=============================================================================
