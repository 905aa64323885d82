-------------------------- MODULE GuestFlagsProofs --------------------------
(***************************************************************************)
(* The flag word of a record: what the helpers put into it is what its      *)
(* readers find in it, and storing it with the number of the core changes   *)
(* nothing of that.                                                         *)
(***************************************************************************)
EXTENDS GuestTrace, TLAPS

(* The masks of the fields are apart from each other and from the byte of the
   core.                                                                    *)
LEMMA StoredField ==
    ASSUME NEW core, NEW w
    PROVE  /\ Stored(core, w) \cap QEM_TRACE_EVENT_MASK = w \cap QEM_TRACE_EVENT_MASK
           /\ Stored(core, w) \cap QEM_TRACE_GRANULARITY_MASK = w \cap QEM_TRACE_GRANULARITY_MASK
           /\ Stored(core, w) \cap QEM_TRACE_DATA_SIZE_MASK = w \cap QEM_TRACE_DATA_SIZE_MASK
           /\ Stored(core, w) \cap QEM_TRACE_CACHE_LEVEL_MASK = w \cap QEM_TRACE_CACHE_LEVEL_MASK
<1>1. Stored(core, w) \cap QEM_TRACE_EVENT_MASK = w \cap QEM_TRACE_EVENT_MASK
  BY DEF Stored, Code, QEM_TRACE_EVENT_MASK
<1>2. Stored(core, w) \cap QEM_TRACE_GRANULARITY_MASK = w \cap QEM_TRACE_GRANULARITY_MASK
  BY DEF Stored, Code, QEM_TRACE_GRANULARITY_MASK
<1>3. Stored(core, w) \cap QEM_TRACE_DATA_SIZE_MASK = w \cap QEM_TRACE_DATA_SIZE_MASK
  BY DEF Stored, Code, QEM_TRACE_DATA_SIZE_MASK
<1>4. Stored(core, w) \cap QEM_TRACE_CACHE_LEVEL_MASK = w \cap QEM_TRACE_CACHE_LEVEL_MASK
  BY DEF Stored, Code, QEM_TRACE_CACHE_LEVEL_MASK
<1> QED BY <1>1, <1>2, <1>3, <1>4

(* The bits that stand alone.                                               *)
LEMMA StoredBit ==
    ASSUME NEW core, NEW w
    PROVE  /\ Stored(core, w) \cap QEM_TRACE_DATA_TYPE_INST = w \cap QEM_TRACE_DATA_TYPE_INST
           /\ Stored(core, w) \cap QEM_TRACE_ACCESS_TYPE_WRITE = w \cap QEM_TRACE_ACCESS_TYPE_WRITE
           /\ Stored(core, w) \cap QEM_TRACE_PL_USER = w \cap QEM_TRACE_PL_USER
           /\ Stored(core, w) \cap QEM_TRACE_COHERENCY_REQ = w \cap QEM_TRACE_COHERENCY_REQ
           /\ Stored(core, w) \cap QEM_TRACE_CACHE_INHIBIT_ON = w \cap QEM_TRACE_CACHE_INHIBIT_ON
           /\ Stored(core, w) \cap QEM_TRACE_CACHE_WT_ON = w \cap QEM_TRACE_CACHE_WT_ON
           /\ Stored(core, w) \cap QEM_TRACE_EVENT_EXCLUSIVE = w \cap QEM_TRACE_EVENT_EXCLUSIVE
<1>1. Stored(core, w) \cap QEM_TRACE_DATA_TYPE_INST = w \cap QEM_TRACE_DATA_TYPE_INST
  BY DEF Stored, Code, QEM_TRACE_DATA_TYPE_INST
<1>2. Stored(core, w) \cap QEM_TRACE_ACCESS_TYPE_WRITE = w \cap QEM_TRACE_ACCESS_TYPE_WRITE
  BY DEF Stored, Code, QEM_TRACE_ACCESS_TYPE_WRITE
<1>3. Stored(core, w) \cap QEM_TRACE_PL_USER = w \cap QEM_TRACE_PL_USER
  BY DEF Stored, Code, QEM_TRACE_PL_USER
<1>4. Stored(core, w) \cap QEM_TRACE_COHERENCY_REQ = w \cap QEM_TRACE_COHERENCY_REQ
  BY DEF Stored, Code, QEM_TRACE_COHERENCY_REQ
<1>5. Stored(core, w) \cap QEM_TRACE_CACHE_INHIBIT_ON = w \cap QEM_TRACE_CACHE_INHIBIT_ON
  BY DEF Stored, Code, QEM_TRACE_CACHE_INHIBIT_ON
<1>6. Stored(core, w) \cap QEM_TRACE_CACHE_WT_ON = w \cap QEM_TRACE_CACHE_WT_ON
  BY DEF Stored, Code, QEM_TRACE_CACHE_WT_ON
<1>7. Stored(core, w) \cap QEM_TRACE_EVENT_EXCLUSIVE = w \cap QEM_TRACE_EVENT_EXCLUSIVE
  BY DEF Stored, Code, QEM_TRACE_EVENT_EXCLUSIVE
<1> QED BY <1>1, <1>2, <1>3, <1>4, <1>5, <1>6, <1>7

(* The printer looks at the fields alone.                                   *)
LEMMA PrintedFields ==
    ASSUME NEW v, NEW w,
           v \cap QEM_TRACE_EVENT_MASK = w \cap QEM_TRACE_EVENT_MASK,
           v \cap QEM_TRACE_GRANULARITY_MASK = w \cap QEM_TRACE_GRANULARITY_MASK,
           v \cap QEM_TRACE_DATA_SIZE_MASK = w \cap QEM_TRACE_DATA_SIZE_MASK,
           v \cap QEM_TRACE_CACHE_LEVEL_MASK = w \cap QEM_TRACE_CACHE_LEVEL_MASK
    PROVE  /\ Printed(v).event = Printed(w).event /\ Printed(v).gran = Printed(w).gran
           /\ Printed(v).size = Printed(w).size /\ Printed(v).level = Printed(w).level
<1>1. Printed(v).event = Printed(w).event
  BY DEF Printed, PrintedEvent, FirstOf
<1>2. Printed(v).gran = Printed(w).gran
  BY DEF Printed, PrintedGranularity, FirstOf
<1>3. Printed(v).size = Printed(w).size
  BY DEF Printed, PrintedSize, FirstOf
<1>4. Printed(v).level = Printed(w).level
  BY DEF Printed, PrintedLevel, FirstOf
<1> QED BY <1>1, <1>2, <1>3, <1>4

(* Storing a record keeps what is printed of it, for every core.            *)
THEOREM StoringKeepsWords ==
    ASSUME NEW core, NEW w
    PROVE  Printed(Stored(core, w)) = Printed(w)
<1>1. /\ Printed(Stored(core, w)).event = Printed(w).event
      /\ Printed(Stored(core, w)).gran = Printed(w).gran
      /\ Printed(Stored(core, w)).size = Printed(w).size
      /\ Printed(Stored(core, w)).level = Printed(w).level
  BY StoredField, PrintedFields
<1> QED BY <1>1, StoredBit DEF Printed

(* ------------------------ what the helpers encode ------------------------ *)

(* The fields a description has one of several values of.                   *)
Coded(d) ==
    /\ d.event \in DOMAIN QEM_TRACE_EVENT /\ d.gran \in DOMAIN QEM_TRACE_GRANULARITY
    /\ d.size \in DOMAIN QEM_TRACE_DATA_SIZE /\ d.level \in DOMAIN QEM_TRACE_CACHE_LEVEL

(* The bits of a word, field by field.                                      *)
LEMMA FlagsBits ==
    ASSUME NEW d, NEW b
    PROVE  b \in Flags(d) <=>
              \/ b \in QEM_TRACE_EVENT[d.event] \/ b \in QEM_TRACE_GRANULARITY[d.gran]
              \/ b \in QEM_TRACE_DATA_SIZE[d.size] \/ b \in QEM_TRACE_CACHE_LEVEL[d.level]
              \/ d.inst /\ b \in QEM_TRACE_DATA_TYPE_INST
              \/ d.write /\ b \in QEM_TRACE_ACCESS_TYPE_WRITE
              \/ d.user /\ b \in QEM_TRACE_PL_USER
              \/ d.coherent /\ b \in QEM_TRACE_COHERENCY_REQ
              \/ d.inhibit /\ b \in QEM_TRACE_CACHE_INHIBIT_ON
              \/ d.wt /\ b \in QEM_TRACE_CACHE_WT_ON
              \/ d.exclusive /\ b \in QEM_TRACE_EVENT_EXCLUSIVE
BY DEF Flags, If

(* The codes of the four fields stay within their masks.                    *)
LEMMA CodesInMasks ==
    ASSUME NEW d, Coded(d)
    PROVE  /\ QEM_TRACE_EVENT[d.event] \subseteq QEM_TRACE_EVENT_MASK
           /\ QEM_TRACE_GRANULARITY[d.gran] \subseteq QEM_TRACE_GRANULARITY_MASK
           /\ QEM_TRACE_DATA_SIZE[d.size] \subseteq QEM_TRACE_DATA_SIZE_MASK
           /\ QEM_TRACE_CACHE_LEVEL[d.level] \subseteq QEM_TRACE_CACHE_LEVEL_MASK
<1>1. QEM_TRACE_EVENT[d.event] \subseteq QEM_TRACE_EVENT_MASK
  BY DEF Coded, QEM_TRACE_EVENT, QEM_TRACE_EVENT_MASK, Code
<1>2. QEM_TRACE_GRANULARITY[d.gran] \subseteq QEM_TRACE_GRANULARITY_MASK
  BY DEF Coded, QEM_TRACE_GRANULARITY, QEM_TRACE_GRANULARITY_MASK, Code
<1>3. QEM_TRACE_DATA_SIZE[d.size] \subseteq QEM_TRACE_DATA_SIZE_MASK
  BY DEF Coded, QEM_TRACE_DATA_SIZE, QEM_TRACE_DATA_SIZE_MASK, Code
<1>4. QEM_TRACE_CACHE_LEVEL[d.level] \subseteq QEM_TRACE_CACHE_LEVEL_MASK
  BY DEF Coded, QEM_TRACE_CACHE_LEVEL, QEM_TRACE_CACHE_LEVEL_MASK, Code
<1> QED BY <1>1, <1>2, <1>3, <1>4

(* A word has 32 bits.                                                      *)
LEMMA FlagsAreWords ==
    ASSUME NEW d, Coded(d)
    PROVE  Flags(d) \subseteq 0..31
<1>1. /\ QEM_TRACE_EVENT[d.event] \subseteq 0..31 /\ QEM_TRACE_GRANULARITY[d.gran] \subseteq 0..31
      /\ QEM_TRACE_DATA_SIZE[d.size] \subseteq 0..31 /\ QEM_TRACE_CACHE_LEVEL[d.level] \subseteq 0..31
  <2>1. /\ QEM_TRACE_EVENT_MASK \subseteq 0..31 /\ QEM_TRACE_GRANULARITY_MASK \subseteq 0..31
        /\ QEM_TRACE_DATA_SIZE_MASK \subseteq 0..31 /\ QEM_TRACE_CACHE_LEVEL_MASK \subseteq 0..31
    BY DEF QEM_TRACE_EVENT_MASK, QEM_TRACE_GRANULARITY_MASK, QEM_TRACE_DATA_SIZE_MASK,
           QEM_TRACE_CACHE_LEVEL_MASK, Code
  <2> QED BY <2>1, CodesInMasks
<1>2. /\ QEM_TRACE_DATA_TYPE_INST \subseteq 0..31 /\ QEM_TRACE_ACCESS_TYPE_WRITE \subseteq 0..31
      /\ QEM_TRACE_PL_USER \subseteq 0..31 /\ QEM_TRACE_COHERENCY_REQ \subseteq 0..31
      /\ QEM_TRACE_CACHE_INHIBIT_ON \subseteq 0..31 /\ QEM_TRACE_CACHE_WT_ON \subseteq 0..31
      /\ QEM_TRACE_EVENT_EXCLUSIVE \subseteq 0..31
  BY DEF QEM_TRACE_DATA_TYPE_INST, QEM_TRACE_ACCESS_TYPE_WRITE, QEM_TRACE_PL_USER,
         QEM_TRACE_COHERENCY_REQ, QEM_TRACE_CACHE_INHIBIT_ON, QEM_TRACE_CACHE_WT_ON,
         QEM_TRACE_EVENT_EXCLUSIVE, Code
<1>3. ASSUME NEW b \in Flags(d)
      PROVE  b \in 0..31
  BY <1>1, <1>2, FlagsBits
<1> QED BY <1>3

(* The masks are apart from each other and from the bits that stand alone.  *)
LEMMA MasksAreApart ==
    LET single == QEM_TRACE_DATA_TYPE_INST \cup QEM_TRACE_ACCESS_TYPE_WRITE \cup QEM_TRACE_PL_USER
                  \cup QEM_TRACE_COHERENCY_REQ \cup QEM_TRACE_CACHE_INHIBIT_ON
                  \cup QEM_TRACE_CACHE_WT_ON \cup QEM_TRACE_EVENT_EXCLUSIVE
    IN  /\ QEM_TRACE_EVENT_MASK \cap (QEM_TRACE_GRANULARITY_MASK \cup QEM_TRACE_DATA_SIZE_MASK
                                     \cup QEM_TRACE_CACHE_LEVEL_MASK \cup single) = {}
        /\ QEM_TRACE_GRANULARITY_MASK \cap (QEM_TRACE_DATA_SIZE_MASK
                                     \cup QEM_TRACE_CACHE_LEVEL_MASK \cup single) = {}
        /\ QEM_TRACE_DATA_SIZE_MASK \cap (QEM_TRACE_CACHE_LEVEL_MASK \cup single) = {}
        /\ QEM_TRACE_CACHE_LEVEL_MASK \cap single = {}
<1> USE DEF QEM_TRACE_DATA_TYPE_INST, QEM_TRACE_ACCESS_TYPE_WRITE, QEM_TRACE_PL_USER,
            QEM_TRACE_COHERENCY_REQ, QEM_TRACE_CACHE_INHIBIT_ON, QEM_TRACE_CACHE_WT_ON,
            QEM_TRACE_EVENT_EXCLUSIVE, QEM_TRACE_EVENT_MASK, QEM_TRACE_GRANULARITY_MASK,
            QEM_TRACE_DATA_SIZE_MASK, QEM_TRACE_CACHE_LEVEL_MASK, Code
<1>1. CASE meta
  BY <1>1
<1>2. CASE ~meta
  BY <1>2
<1> QED BY <1>1, <1>2

(* A field of a word holds the code it was given.                           *)
LEMMA FlagsFields ==
    ASSUME NEW d, Coded(d)
    PROVE  /\ Flags(d) \cap QEM_TRACE_EVENT_MASK = QEM_TRACE_EVENT[d.event]
           /\ Flags(d) \cap QEM_TRACE_GRANULARITY_MASK = QEM_TRACE_GRANULARITY[d.gran]
           /\ Flags(d) \cap QEM_TRACE_DATA_SIZE_MASK = QEM_TRACE_DATA_SIZE[d.size]
           /\ Flags(d) \cap QEM_TRACE_CACHE_LEVEL_MASK = QEM_TRACE_CACHE_LEVEL[d.level]
<1>1. Flags(d) \cap QEM_TRACE_EVENT_MASK = QEM_TRACE_EVENT[d.event]
  BY FlagsBits, CodesInMasks, MasksAreApart
<1>2. Flags(d) \cap QEM_TRACE_GRANULARITY_MASK = QEM_TRACE_GRANULARITY[d.gran]
  BY FlagsBits, CodesInMasks, MasksAreApart
<1>3. Flags(d) \cap QEM_TRACE_DATA_SIZE_MASK = QEM_TRACE_DATA_SIZE[d.size]
  BY FlagsBits, CodesInMasks, MasksAreApart
<1>4. Flags(d) \cap QEM_TRACE_CACHE_LEVEL_MASK = QEM_TRACE_CACHE_LEVEL[d.level]
  BY FlagsBits, CodesInMasks, MasksAreApart
<1> QED BY <1>1, <1>2, <1>3, <1>4

(* No two of the bits that stand alone are the same; without metadata there
   are only two.                                                            *)
LEMMA BitsAreApart ==
    /\ meta => /\ QEM_TRACE_DATA_TYPE_INST = {9} /\ QEM_TRACE_ACCESS_TYPE_WRITE = {8}
               /\ QEM_TRACE_PL_USER = {10} /\ QEM_TRACE_COHERENCY_REQ = {18}
               /\ QEM_TRACE_CACHE_INHIBIT_ON = {21} /\ QEM_TRACE_CACHE_WT_ON = {22}
               /\ QEM_TRACE_EVENT_EXCLUSIVE = {23}
    /\ ~meta => /\ QEM_TRACE_DATA_TYPE_INST = {1} /\ QEM_TRACE_ACCESS_TYPE_WRITE = {0}
                /\ QEM_TRACE_PL_USER = {} /\ QEM_TRACE_COHERENCY_REQ = {}
                /\ QEM_TRACE_CACHE_INHIBIT_ON = {} /\ QEM_TRACE_CACHE_WT_ON = {}
                /\ QEM_TRACE_EVENT_EXCLUSIVE = {}
BY DEF QEM_TRACE_DATA_TYPE_INST, QEM_TRACE_ACCESS_TYPE_WRITE, QEM_TRACE_PL_USER,
       QEM_TRACE_COHERENCY_REQ, QEM_TRACE_CACHE_INHIBIT_ON, QEM_TRACE_CACHE_WT_ON,
       QEM_TRACE_EVENT_EXCLUSIVE, Code

(* In either build a record tells code from data and a write from a read.   *)
LEMMA KindIsTold ==
    ASSUME NEW d, Coded(d), d.inst \in BOOLEAN, d.write \in BOOLEAN
    PROVE  Printed(Flags(d)).inst = d.inst /\ Printed(Flags(d)).write = d.write
<1>1. (Flags(d) \cap QEM_TRACE_DATA_TYPE_INST # {}) = d.inst
  BY FlagsBits, CodesInMasks, MasksAreApart, BitsAreApart
<1>2. (Flags(d) \cap QEM_TRACE_ACCESS_TYPE_WRITE # {}) = d.write
  BY FlagsBits, CodesInMasks, MasksAreApart, BitsAreApart
<1> QED BY <1>1, <1>2 DEF Printed

(* With metadata it tells the other bits as well.                           *)
LEMMA BitsAreTold ==
    ASSUME NEW d, Coded(d), meta, d.user \in BOOLEAN, d.coherent \in BOOLEAN,
           d.inhibit \in BOOLEAN, d.wt \in BOOLEAN, d.exclusive \in BOOLEAN
    PROVE  LET told == Printed(Flags(d)) IN
           /\ told.user = d.user /\ told.coherent = d.coherent /\ told.inhibit = d.inhibit
           /\ told.wt = d.wt /\ told.exclusive = d.exclusive
<1>1. (Flags(d) \cap QEM_TRACE_PL_USER # {}) = d.user
  BY FlagsBits, CodesInMasks, MasksAreApart, BitsAreApart
<1>2. (Flags(d) \cap QEM_TRACE_COHERENCY_REQ # {}) = d.coherent
  BY FlagsBits, CodesInMasks, MasksAreApart, BitsAreApart
<1>3. (Flags(d) \cap QEM_TRACE_CACHE_INHIBIT_ON # {}) = d.inhibit
  BY FlagsBits, CodesInMasks, MasksAreApart, BitsAreApart
<1>4. (Flags(d) \cap QEM_TRACE_CACHE_WT_ON # {}) = d.wt
  BY FlagsBits, CodesInMasks, MasksAreApart, BitsAreApart
<1>5. (Flags(d) \cap QEM_TRACE_EVENT_EXCLUSIVE # {}) = d.exclusive
  BY FlagsBits, CodesInMasks, MasksAreApart, BitsAreApart
<1> QED BY <1>1, <1>2, <1>3, <1>4, <1>5 DEF Printed

(* ------------------------- what the readers find ------------------------- *)

(* The first of several hits.                                               *)
LEMMA MinIs ==
    ASSUME NEW S \in SUBSET Nat, NEW k \in S, \A j \in S : k <= j
    PROVE  Min(S) = k
<1>1. \E x \in S : \A y \in S : x =< y
  OBVIOUS
<1>2. Min(S) \in S /\ \A y \in S : Min(S) =< y
  BY ONLY <1>1, Zenon DEF Min
<1>3. Min(S) <= k /\ k <= Min(S) /\ Min(S) \in Nat /\ k \in Nat
  BY ONLY <1>2, S \in SUBSET Nat, k \in S, \A j \in S : k <= j
<1> QED BY ONLY <1>3

(* The granularity, the size and the level of a build with metadata: the
   codes of a field differ.                                                 *)
LEMMA GranularityIsTold ==
    ASSUME NEW d, Coded(d), meta
    PROVE  Printed(Flags(d)).gran = d.gran
<1> DEFINE order == <<"SET", "WAY", "GLOBAL">>
           w == Flags(d) \cap QEM_TRACE_GRANULARITY_MASK
           hits == {i \in DOMAIN order : w = QEM_TRACE_GRANULARITY[order[i]]}
<1>1. Printed(Flags(d)).gran = IF hits = {} THEN "LINE" ELSE order[Min(hits)]
  BY DEF Printed, PrintedGranularity, FirstOf
<1>2. w = QEM_TRACE_GRANULARITY[d.gran]
  BY FlagsFields
<1>3. d.gran \in {"LINE", "SET", "WAY", "GLOBAL"}
  BY DEF Coded, QEM_TRACE_GRANULARITY
<1>4. /\ QEM_TRACE_GRANULARITY["LINE"] = {} /\ QEM_TRACE_GRANULARITY["SET"] = {14}
      /\ QEM_TRACE_GRANULARITY["WAY"] = {15} /\ QEM_TRACE_GRANULARITY["GLOBAL"] = {14, 15}
  BY DEF QEM_TRACE_GRANULARITY, Code
<1>5. DOMAIN order = 1..3 /\ order[1] = "SET" /\ order[2] = "WAY" /\ order[3] = "GLOBAL"
  OBVIOUS
<1> HIDE DEF order, w
<1>6. CASE d.gran = "LINE"
  BY <1>1, <1>2, <1>4, <1>5, <1>6
<1>7. CASE d.gran = "SET"
  <2>1. hits = {1}
    BY <1>2, <1>4, <1>5, <1>7
  <2> QED BY <1>1, <1>5, <1>7, <2>1, MinIs
<1>8. CASE d.gran = "WAY"
  <2>1. hits = {2}
    BY <1>2, <1>4, <1>5, <1>8
  <2> QED BY <1>1, <1>5, <1>8, <2>1, MinIs
<1>9. CASE d.gran = "GLOBAL"
  <2>1. hits = {3}
    BY <1>2, <1>4, <1>5, <1>9
  <2> QED BY <1>1, <1>5, <1>9, <2>1, MinIs
<1> QED BY <1>3, <1>6, <1>7, <1>8, <1>9

(* The same of the size ...                                                *)
LEMMA SizeIsTold ==
    ASSUME NEW d, Coded(d), meta
    PROVE  Printed(Flags(d)).size = d.size
<1> DEFINE order == <<"B16", "B32", "B64">>
           w == Flags(d) \cap QEM_TRACE_DATA_SIZE_MASK
           hits == {i \in DOMAIN order : w = QEM_TRACE_DATA_SIZE[order[i]]}
<1>1. Printed(Flags(d)).size = IF hits = {} THEN "B8" ELSE order[Min(hits)]
  BY DEF Printed, PrintedSize, FirstOf
<1>2. w = QEM_TRACE_DATA_SIZE[d.size]
  BY FlagsFields
<1>3. d.size \in {"B8", "B16", "B32", "B64"}
  BY DEF Coded, QEM_TRACE_DATA_SIZE
<1>4. /\ QEM_TRACE_DATA_SIZE["B8"] = {} /\ QEM_TRACE_DATA_SIZE["B16"] = {16}
      /\ QEM_TRACE_DATA_SIZE["B32"] = {17} /\ QEM_TRACE_DATA_SIZE["B64"] = {16, 17}
  BY DEF QEM_TRACE_DATA_SIZE, Code
<1>5. DOMAIN order = 1..3 /\ order[1] = "B16" /\ order[2] = "B32" /\ order[3] = "B64"
  OBVIOUS
<1> HIDE DEF order, w
<1>6. CASE d.size = "B8"
  BY <1>1, <1>2, <1>4, <1>5, <1>6
<1>7. CASE d.size = "B16"
  <2>1. hits = {1}
    BY <1>2, <1>4, <1>5, <1>7
  <2> QED BY <1>1, <1>5, <1>7, <2>1, MinIs
<1>8. CASE d.size = "B32"
  <2>1. hits = {2}
    BY <1>2, <1>4, <1>5, <1>8
  <2> QED BY <1>1, <1>5, <1>8, <2>1, MinIs
<1>9. CASE d.size = "B64"
  <2>1. hits = {3}
    BY <1>2, <1>4, <1>5, <1>9
  <2> QED BY <1>1, <1>5, <1>9, <2>1, MinIs
<1> QED BY <1>3, <1>6, <1>7, <1>8, <1>9

(* ... and of the cache level.                                             *)
LEMMA LevelIsTold ==
    ASSUME NEW d, Coded(d), meta
    PROVE  Printed(Flags(d)).level = d.level
<1> DEFINE order == <<"ALL", "L3", "L2">>
           w == Flags(d) \cap QEM_TRACE_CACHE_LEVEL_MASK
           hits == {i \in DOMAIN order : w = QEM_TRACE_CACHE_LEVEL[order[i]]}
<1>1. Printed(Flags(d)).level = IF hits = {} THEN "L1" ELSE order[Min(hits)]
  BY DEF Printed, PrintedLevel, FirstOf
<1>2. w = QEM_TRACE_CACHE_LEVEL[d.level]
  BY FlagsFields
<1>3. d.level \in {"L1", "ALL", "L3", "L2"}
  BY DEF Coded, QEM_TRACE_CACHE_LEVEL
<1>4. /\ QEM_TRACE_CACHE_LEVEL["L1"] = {} /\ QEM_TRACE_CACHE_LEVEL["ALL"] = {19, 20}
      /\ QEM_TRACE_CACHE_LEVEL["L3"] = {20} /\ QEM_TRACE_CACHE_LEVEL["L2"] = {19}
  BY DEF QEM_TRACE_CACHE_LEVEL, Code
<1>5. DOMAIN order = 1..3 /\ order[1] = "ALL" /\ order[2] = "L3" /\ order[3] = "L2"
  OBVIOUS
<1> HIDE DEF order, w
<1>6. CASE d.level = "L1"
  BY <1>1, <1>2, <1>4, <1>5, <1>6
<1>7. CASE d.level = "ALL"
  <2>1. hits = {1}
    BY <1>2, <1>4, <1>5, <1>7
  <2> QED BY <1>1, <1>5, <1>7, <2>1, MinIs
<1>8. CASE d.level = "L3"
  <2>1. hits = {2}
    BY <1>2, <1>4, <1>5, <1>8
  <2> QED BY <1>1, <1>5, <1>8, <2>1, MinIs
<1>9. CASE d.level = "L2"
  <2>1. hits = {3}
    BY <1>2, <1>4, <1>5, <1>9
  <2> QED BY <1>1, <1>5, <1>9, <2>1, MinIs
<1> QED BY <1>3, <1>6, <1>7, <1>8, <1>9

(* The readers ask for the events in this order.                            *)
LEMMA Orders ==
    /\ DOMAIN EventOrder = 1..7
    /\ EventOrder[1] = "DCBZ" /\ EventOrder[2] = "PREFETCH" /\ EventOrder[3] = "UNLOCK"
    /\ EventOrder[4] = "LOCK" /\ EventOrder[5] = "FLUSH_INVAL"
    /\ EventOrder[6] = "INVALIDATE" /\ EventOrder[7] = "FLUSH"
BY DEF EventOrder

(* The codes of the events in the two builds.                               *)
LEMMA EventCodes ==
    /\ QEM_TRACE_EVENT["ACCESS"] = {}
    /\ meta => /\ QEM_TRACE_EVENT["DCBZ"] = {11, 12, 13} /\ QEM_TRACE_EVENT["PREFETCH"] = {12, 13}
               /\ QEM_TRACE_EVENT["UNLOCK"] = {11, 13} /\ QEM_TRACE_EVENT["LOCK"] = {13}
               /\ QEM_TRACE_EVENT["FLUSH_INVAL"] = {11, 12}
               /\ QEM_TRACE_EVENT["INVALIDATE"] = {12} /\ QEM_TRACE_EVENT["FLUSH"] = {11}
    /\ ~meta => /\ QEM_TRACE_EVENT["DCBZ"] = {3, 4} /\ QEM_TRACE_EVENT["PREFETCH"] = {2, 4}
                /\ QEM_TRACE_EVENT["UNLOCK"] = {4} /\ QEM_TRACE_EVENT["LOCK"] = {2, 3}
                /\ QEM_TRACE_EVENT["FLUSH_INVAL"] = {2, 3}
                /\ QEM_TRACE_EVENT["INVALIDATE"] = {3} /\ QEM_TRACE_EVENT["FLUSH"] = {2}
BY DEF QEM_TRACE_EVENT, Code

(* What a reader takes an event for: flush and invalidate has the code of lock
   in a build without metadata.                                             *)
ToldAs(e) == IF ~meta /\ e = "FLUSH_INVAL" THEN "LOCK" ELSE e

(* The event is told at its place k in the order: its code is the one there, and no
   code that is asked for earlier is part of it.                            *)
FoundAt(e, k) ==
    /\ EventOrder[k] = ToldAs(e) /\ QEM_TRACE_EVENT[EventOrder[k]] = QEM_TRACE_EVENT[e]
    /\ \A j \in 1..7 : j < k => ~(QEM_TRACE_EVENT[EventOrder[j]] \subseteq QEM_TRACE_EVENT[e])

(* Every event but an access has such a place; an access has no code.       *)
LEMMA EventsAreFound ==
    ASSUME NEW e \in DOMAIN QEM_TRACE_EVENT
    PROVE  \/ e = "ACCESS" /\ \A j \in 1..7 : ~(QEM_TRACE_EVENT[EventOrder[j]] \subseteq {})
           \/ \E k \in 1..7 : FoundAt(e, k)
<1>1. e \in {"ACCESS", "DCBZ", "PREFETCH", "UNLOCK", "LOCK", "FLUSH_INVAL", "INVALIDATE", "FLUSH"}
  BY DEF QEM_TRACE_EVENT
<1>2. \A j \in 1..7 : j \in {1, 2, 3, 4, 5, 6, 7}
  OBVIOUS
<1>3. CASE e = "ACCESS"
  BY <1>2, <1>3, Orders, EventCodes
<1>4. CASE e = "DCBZ"
  <2>1. FoundAt(e, 1)
    BY <1>2, <1>4, Orders, EventCodes DEF FoundAt, ToldAs
  <2> QED BY <2>1
<1>5. CASE e = "PREFETCH"
  <2>1. FoundAt(e, 2)
    BY <1>2, <1>5, Orders, EventCodes DEF FoundAt, ToldAs
  <2> QED BY <2>1
<1>6. CASE e = "UNLOCK"
  <2>1. FoundAt(e, 3)
    BY <1>2, <1>6, Orders, EventCodes DEF FoundAt, ToldAs
  <2> QED BY <2>1
<1>7. CASE e = "LOCK"
  <2>1. FoundAt(e, 4)
    BY <1>2, <1>7, Orders, EventCodes DEF FoundAt, ToldAs
  <2> QED BY <2>1
<1>8. CASE e = "FLUSH_INVAL"
  <2>1. meta => FoundAt(e, 5)
    BY <1>2, <1>8, Orders, EventCodes DEF FoundAt, ToldAs
  <2>2. ~meta => FoundAt(e, 4)
    BY <1>2, <1>8, Orders, EventCodes DEF FoundAt, ToldAs
  <2> QED BY <2>1, <2>2
<1>9. CASE e = "INVALIDATE"
  <2>1. FoundAt(e, 6)
    BY <1>2, <1>9, Orders, EventCodes DEF FoundAt, ToldAs
  <2> QED BY <2>1
<1>10. CASE e = "FLUSH"
  <2>1. FoundAt(e, 7)
    BY <1>2, <1>10, Orders, EventCodes DEF FoundAt, ToldAs
  <2> QED BY <2>1
<1> QED BY <1>1, <1>3, <1>4, <1>5, <1>6, <1>7, <1>8, <1>9, <1>10

(* Both ways of reading the event of a record find the one the helper meant. *)
LEMMA EventIsRead ==
    ASSUME NEW d, Coded(d)
    PROVE  Printed(Flags(d)).event = ToldAs(d.event) /\ LeadingEvent(Flags(d)) = ToldAs(d.event)
<1> DEFINE w == Flags(d)
           code == QEM_TRACE_EVENT[d.event]
           equal == {i \in DOMAIN EventOrder : w \cap QEM_TRACE_EVENT_MASK = QEM_TRACE_EVENT[EventOrder[i]]}
           part == {i \in DOMAIN EventOrder : QEM_TRACE_EVENT[EventOrder[i]] \subseteq w}
<1>1. /\ Printed(w).event = IF equal = {} THEN "ACCESS" ELSE EventOrder[Min(equal)]
      /\ LeadingEvent(w) = IF part = {} THEN "ACCESS" ELSE EventOrder[Min(part)]
  BY DEF Printed, PrintedEvent, LeadingEvent, FirstOf
<1>2. w \cap QEM_TRACE_EVENT_MASK = code
  BY FlagsFields
<1>3. \A j \in 1..7 : QEM_TRACE_EVENT[EventOrder[j]] \subseteq QEM_TRACE_EVENT_MASK
  <2>1. \A j \in 1..7 : EventOrder[j] \in DOMAIN QEM_TRACE_EVENT
    BY Orders DEF QEM_TRACE_EVENT
  <2>2. \A e \in DOMAIN QEM_TRACE_EVENT : QEM_TRACE_EVENT[e] \subseteq QEM_TRACE_EVENT_MASK
    BY DEF QEM_TRACE_EVENT, QEM_TRACE_EVENT_MASK, Code
  <2> QED BY <2>1, <2>2
<1> HIDE DEF w, code
<1>4. /\ equal = {i \in 1..7 : QEM_TRACE_EVENT[EventOrder[i]] = code}
      /\ part = {i \in 1..7 : QEM_TRACE_EVENT[EventOrder[i]] \subseteq code}
  BY <1>2, <1>3, Orders
<1>5. CASE d.event = "ACCESS" /\ \A j \in 1..7 : ~(QEM_TRACE_EVENT[EventOrder[j]] \subseteq {})
  <2>1. code = {}
    BY <1>5, EventCodes DEF code
  <2>2. equal = {} /\ part = {}
    BY <1>4, <1>5, <2>1
  <2> QED BY <1>1, <1>5, <2>2 DEF ToldAs, w
<1>6. ASSUME NEW k \in 1..7, FoundAt(d.event, k)
      PROVE  Printed(w).event = ToldAs(d.event) /\ LeadingEvent(w) = ToldAs(d.event)
  <2>1. /\ EventOrder[k] = ToldAs(d.event) /\ QEM_TRACE_EVENT[EventOrder[k]] = code
        /\ \A j \in 1..7 : j < k => ~(QEM_TRACE_EVENT[EventOrder[j]] \subseteq code)
    BY <1>6 DEF FoundAt, code
  <2>2. k \in equal /\ k \in part /\ equal \in SUBSET Nat /\ part \in SUBSET Nat
    BY <1>4, <2>1
  <2>3. \A j \in part : k <= j
    BY <1>4, <2>1
  <2>4. \A j \in equal : k <= j
    BY <1>4, <2>1
  <2>5. Min(equal) = k /\ Min(part) = k
    BY <2>2, <2>3, <2>4, MinIs
  <2> QED BY <1>1, <2>1, <2>2, <2>5
<1> QED BY <1>5, <1>6, EventsAreFound DEF Coded, w

(* With metadata the line that is printed of a record says of it all that the
   helper said: no field of the word overlaps another, and no order in which
   the codes are asked for hides one.                                       *)
THEOREM WordsAreRead ==
    ASSUME NEW d \in Description, meta
    PROVE  Printed(Flags(d)) = d
<1>1. Coded(d) /\ d.inst \in BOOLEAN /\ d.write \in BOOLEAN
  BY DEF Description, Coded
<1>2. /\ d.user \in BOOLEAN /\ d.coherent \in BOOLEAN /\ d.inhibit \in BOOLEAN
      /\ d.wt \in BOOLEAN /\ d.exclusive \in BOOLEAN
  BY DEF Description
<1>3. Printed(Flags(d)).event = d.event
  BY <1>1, EventIsRead DEF ToldAs
<1>4. Printed(Flags(d)).inst = d.inst /\ Printed(Flags(d)).write = d.write
  BY <1>1, KindIsTold
<1>5. /\ Printed(Flags(d)).user = d.user /\ Printed(Flags(d)).coherent = d.coherent
      /\ Printed(Flags(d)).inhibit = d.inhibit /\ Printed(Flags(d)).wt = d.wt
      /\ Printed(Flags(d)).exclusive = d.exclusive
  BY <1>1, <1>2, BitsAreTold
<1>6. /\ Printed(Flags(d)).gran = d.gran /\ Printed(Flags(d)).size = d.size
      /\ Printed(Flags(d)).level = d.level
  BY <1>1, GranularityIsTold, SizeIsTold, LevelIsTold
<1>7. Printed(Flags(d)) = [f \in {"event", "inst", "write", "user", "gran", "size", "level", "coherent",
                                   "inhibit", "wt", "exclusive"} |-> Printed(Flags(d))[f]]
  BY DEF Printed
<1> QED BY <1>3, <1>4, <1>5, <1>6, <1>7 DEF Description

(* Without metadata the event and the kind of the access are left, and flush
   and invalidate reads as lock.                                            *)
THEOREM ShortWordsAreRead ==
    ASSUME NEW d \in Description, ~meta
    PROVE  /\ Printed(Flags(d)).event = IF d.event = "FLUSH_INVAL" THEN "LOCK" ELSE d.event
           /\ LeadingEvent(Flags(d)) = Printed(Flags(d)).event
           /\ Printed(Flags(d)).inst = d.inst /\ Printed(Flags(d)).write = d.write
<1>1. Coded(d) /\ d.inst \in BOOLEAN /\ d.write \in BOOLEAN
  BY DEF Description, Coded
<1> QED BY <1>1, EventIsRead, KindIsTold DEF ToldAs
=============================================================================
