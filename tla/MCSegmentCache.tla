---------------------------- MODULE MCSegmentCache ----------------------------
(***************************************************************************)
(* Plans, sizes and configurations for model checking SegmentCache.        *)
(***************************************************************************)
EXTENDS SegmentCache

CONSTANTS p1, p2, a, b

Read(part, proj, pred) == [part |-> part, proj |-> proj, pred |-> pred]
Nothing == Read(p1, {}, {})

\* Two scans of different partitions; a query may read one or both.
MCPlans ==
  {<<x, y>> : x \in {Nothing, Read(p1, {a}, {}), Read(p1, {a}, {b})},
              y \in {Nothing, Read(p2, {a}, {}), Read(p2, {a, b}, {})}} \ {<<Nothing, Nothing>>}

\* AirMettle makes a difference in hybrid plans alone.
MCConfigs ==
  {c \in [policy : {"LRU", "LFU", "LFUS", "WLFU"}, mode : {"CACHING_ONLY", "HYBRID"},
          airmettle : BOOLEAN] : c.airmettle => c.mode = "HYBRID"}

MCSize == [k \in Key |-> IF k = <<p1, b>> THEN 2 ELSE 1]
MCWeight == [k \in Key |-> IF k[2] = b THEN 2 ELSE 1]

\* One table scanned twice by each query.
MCTwicePlans == {<<Read(p, {a}, {}), Read(p, {a}, {})>> : p \in {p1, p2}}
MCTwiceConfigs == [policy : {"LRU"}, mode : {"CACHING_ONLY"}, airmettle : {FALSE}]

\* The weighted policy alone, to look for the ends of its estimates (NeverCrashes).
MCWeighted == [policy : {"WLFU"}, mode : {"HYBRID"}, airmettle : {FALSE}]

MCOneSize == [k \in Key |-> 1]
===============================================================================
