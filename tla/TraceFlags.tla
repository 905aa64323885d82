----------------------------- MODULE TraceFlags -----------------------------
(***************************************************************************)
(* The flag word of a trace record: how the helpers encode an event        *)
(* (QEMTrace/qem_trace_def.h), what the back ends keep of the word, and how *)
(* the print back end decodes it.  The fields of the SMI test client and of *)
(* the 32-bit branch of bin_to_str are decoded in the same way; the 64-bit  *)
(* branch of bin_to_str (Tests/bin_to_str.cpp:250) is not modelled: it asks *)
(* for the bits of a code without the mask in every field, and prints B64   *)
(* as 16 bits and GLOBAL as SET.                                            *)
(*                                                                         *)
(* A word is the set of its bits that are set: | is union, & intersection,  *)
(* and (w & x) == x is x \subseteq w.                                      *)
(***************************************************************************)
EXTENDS Naturals, FiniteSetsExt

CONSTANT QEM_TRACE_GATHER_META      \* the build gathers metadata

(* Each enumerator has one code for either build.                           *)
Code(meta, plain) == IF QEM_TRACE_GATHER_META THEN meta ELSE plain

QEM_TRACE_ACCESS_TYPE_WRITE == Code({8}, {0})
QEM_TRACE_DATA_TYPE_INST    == Code({9}, {1})
QEM_TRACE_PL_USER           == Code({10}, {})
QEM_TRACE_COHERENCY_REQ     == Code({18}, {})
QEM_TRACE_CACHE_INHIBIT_ON  == Code({21}, {})
QEM_TRACE_CACHE_WT_ON       == Code({22}, {})
QEM_TRACE_EVENT_EXCLUSIVE   == Code({23}, {})

(* Mutant: the lock event is given a code that prefetch contains.           *)
QEM_TRACE_EVENT_Clash ==
    [ACCESS |-> {}, FLUSH |-> Code({11}, {2}), INVALIDATE |-> Code({12}, {3}),
     FLUSH_INVAL |-> Code({11, 12}, {2, 3}), LOCK |-> Code({12, 13}, {2, 4}),
     UNLOCK |-> Code({11, 13}, {4}), PREFETCH |-> Code({12, 13}, {2, 4}),
     DCBZ |-> Code({11, 12, 13}, {3, 4})]

(* The events; flush and invalidate together are the union of the two.      *)
QEM_TRACE_EVENT ==
    [ACCESS |-> {}, FLUSH |-> Code({11}, {2}), INVALIDATE |-> Code({12}, {3}),
     FLUSH_INVAL |-> Code({11, 12}, {2, 3}), LOCK |-> Code({13}, {2, 3}),
     UNLOCK |-> Code({11, 13}, {4}), PREFETCH |-> Code({12, 13}, {2, 4}),
     DCBZ |-> Code({11, 12, 13}, {3, 4})]
QEM_TRACE_EVENT_MASK == Code({11, 12, 13}, {2, 3, 4})

QEM_TRACE_GRANULARITY ==
    [LINE |-> {}, SET |-> Code({14}, {}), WAY |-> Code({15}, {}), GLOBAL |-> Code({14, 15}, {})]
QEM_TRACE_GRANULARITY_MASK == Code({14, 15}, {})

QEM_TRACE_DATA_SIZE ==
    [B8 |-> {}, B16 |-> Code({16}, {}), B32 |-> Code({17}, {}), B64 |-> Code({16, 17}, {})]
QEM_TRACE_DATA_SIZE_MASK == Code({16, 17}, {})

QEM_TRACE_CACHE_LEVEL ==
    [L1 |-> {}, L2 |-> Code({19}, {}), L3 |-> Code({20}, {}), ALL |-> Code({19, 20}, {})]
QEM_TRACE_CACHE_LEVEL_MASK == Code({19, 20}, {})

-----------------------------------------------------------------------------
(* What a word says of an event.                                            *)
Description ==
    [event : DOMAIN QEM_TRACE_EVENT, inst : BOOLEAN, write : BOOLEAN, user : BOOLEAN,
     size : DOMAIN QEM_TRACE_DATA_SIZE, gran : DOMAIN QEM_TRACE_GRANULARITY,
     level : DOMAIN QEM_TRACE_CACHE_LEVEL, coherent : BOOLEAN, inhibit : BOOLEAN,
     wt : BOOLEAN, exclusive : BOOLEAN]

(* A read access of a byte, nothing else set: the word 0.                   *)
Plain ==
    [event |-> "ACCESS", inst |-> FALSE, write |-> FALSE, user |-> FALSE, size |-> "B8",
     gran |-> "LINE", level |-> "L1", coherent |-> FALSE, inhibit |-> FALSE, wt |-> FALSE,
     exclusive |-> FALSE]

If(cond, bits) == IF cond THEN bits ELSE {}

(* The flags |= ... of the helpers.                                         *)
Flags(d) ==
    UNION {QEM_TRACE_EVENT[d.event], QEM_TRACE_GRANULARITY[d.gran],
           QEM_TRACE_DATA_SIZE[d.size], QEM_TRACE_CACHE_LEVEL[d.level],
           If(d.inst, QEM_TRACE_DATA_TYPE_INST), If(d.write, QEM_TRACE_ACCESS_TYPE_WRITE),
           If(d.user, QEM_TRACE_PL_USER), If(d.coherent, QEM_TRACE_COHERENCY_REQ),
           If(d.inhibit, QEM_TRACE_CACHE_INHIBIT_ON), If(d.wt, QEM_TRACE_CACHE_WT_ON),
           If(d.exclusive, QEM_TRACE_EVENT_EXCLUSIVE)}

(* Mutant: the core is or-ed in as it is, without its mask.                 *)
StoredUnmasked(core, flags) ==
    Code(core \cup {b \in flags : b > 7}, {b \in flags : b < 8})

(* The word of a stored record: the core takes the low byte, or the word is
   cut to a byte.                                                           *)
Stored(core, flags) ==
    Code({b \in core : b < 8} \cup {b \in flags : b > 7}, {b \in flags : b < 8})

-----------------------------------------------------------------------------
(* The decoders ask for one code after the other and take the first that
   answers.                                                                 *)
FirstOf(order, Answers(_), otherwise) ==
    LET hits == {i \in DOMAIN order : Answers(order[i])}
    IN  IF hits = {} THEN otherwise ELSE order[Min(hits)]

EventOrder == <<"DCBZ", "PREFETCH", "UNLOCK", "LOCK", "FLUSH_INVAL", "INVALIDATE", "FLUSH">>

(* The E: field of a line compares the masked word ...                      *)
PrintedEvent(w) ==
    FirstOf(EventOrder, LAMBDA e : w \cap QEM_TRACE_EVENT_MASK = QEM_TRACE_EVENT[e], "ACCESS")

(* ... and the word the line begins with, the bits of each code alone.      *)
LeadingEvent(w) ==
    FirstOf(EventOrder, LAMBDA e : QEM_TRACE_EVENT[e] \subseteq w, "ACCESS")

(* The fields that follow compare the masked word as well.                  *)
PrintedGranularity(w) ==
    FirstOf(<<"SET", "WAY", "GLOBAL">>,
            LAMBDA g : w \cap QEM_TRACE_GRANULARITY_MASK = QEM_TRACE_GRANULARITY[g], "LINE")
PrintedSize(w) ==
    FirstOf(<<"B16", "B32", "B64">>,
            LAMBDA s : w \cap QEM_TRACE_DATA_SIZE_MASK = QEM_TRACE_DATA_SIZE[s], "B8")
PrintedLevel(w) ==
    FirstOf(<<"ALL", "L3", "L2">>,
            LAMBDA l : w \cap QEM_TRACE_CACHE_LEVEL_MASK = QEM_TRACE_CACHE_LEVEL[l], "L1")

Printed(w) ==
    [event |-> PrintedEvent(w),
     inst |-> w \cap QEM_TRACE_DATA_TYPE_INST # {},
     write |-> w \cap QEM_TRACE_ACCESS_TYPE_WRITE # {},
     user |-> w \cap QEM_TRACE_PL_USER # {},
     gran |-> PrintedGranularity(w), size |-> PrintedSize(w), level |-> PrintedLevel(w),
     coherent |-> w \cap QEM_TRACE_COHERENCY_REQ # {},
     inhibit |-> w \cap QEM_TRACE_CACHE_INHIBIT_ON # {},
     wt |-> w \cap QEM_TRACE_CACHE_WT_ON # {},
     exclusive |-> w \cap QEM_TRACE_EVENT_EXCLUSIVE # {}]
=============================================================================
