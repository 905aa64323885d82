-------------------------- MODULE SmiTracingProofs --------------------------
(***************************************************************************)
(* What the client program reads is what the tracer sent.  The proof       *)
(* follows the cells: everything that was ever handed to the SMI, with the *)
(* zeros of the flushes, is one sequence (the wire); the private block of  *)
(* the client, the blocks of the ring, the private block of the sender and *)
(* the message it is sending are consecutive parts of it.  Neither program *)
(* keeps that sequence, so the invariant says that there is one.           *)
(***************************************************************************)
EXTENDS SmiTracing, SmiChannelProofs

(* Every item occupies at least one cell.                                   *)
LEMMA ItemSizes ==
    ASSUME NEW m \in Items
    PROVE  ItemSize(m) \in Nat \ {0}
BY SizesAssumption DEF ItemSize

(* The cells of an item, and how many they are.                             *)
LEMMA CellsType ==
    ASSUME NEW m \in Items
    PROVE  /\ Cells(m) \in Seq(Cell)
           /\ Len(Cells(m)) = ItemSize(m)
           /\ DOMAIN Cells(m) = 1..ItemSize(m)
<1>1. Cells(m) \in Seq(Cell)
  BY CallersAssumption, MessagesAssumption
<1>2. DOMAIN Cells(m) = 1..ItemSize(m)
  BY DEF Cells
<1>3. ItemSize(m) \in Nat
  BY ItemSizes
<1>4. Len(Cells(m)) = ItemSize(m)
  BY <1>1, <1>2, <1>3, LenProperties
<1> QED BY <1>1, <1>2, <1>4

(* A step of the tracer, of the guest or of the client program is a step of the
   channel's most general callers, or leaves the channel alone.             *)
LEMMA ChannelStep ==
    ASSUME TracingTypeOK, NextTracing
    PROVE  Next \/ UNCHANGED vars
<1>1. CASE (Guest \/ Tracer) /\ UNCHANGED <<cliVars, readerVars>>
  <2>1. CASE Guest
    <3>1. UNCHANGED <<sharedVars, srvVars>>
      BY <2>1 DEF Guest, TraceEnable, TraceDisable, TraceOutput
    <3> QED BY <1>1, <3>1 DEF vars
  <2>2. CASE CallSend
    <3>1. Head(trc_calls) \in Items
      BY <2>2 DEF CallSend, TracingTypeOK
    <3>2. Cells(Head(trc_calls)) \in Messages
      BY <3>1, CallersAssumption
    <3> QED BY <1>1, <2>2, <3>2 DEF CallSend, Next, ServerNext, ServerCall
  <2>3. CASE CallFlush
    BY <1>1, <2>3 DEF CallFlush, Next, ServerNext, ServerCall
  <2>4. CASE EngineStep
    BY <1>1, <2>4 DEF Next, ServerNext
  <2> QED BY <1>1, <2>1, <2>2, <2>3, <2>4 DEF Tracer
<1>2. CASE Reader /\ UNCHANGED <<srvVars, tracingVars>>
  <2>1. CASE ReaderReceive
    <3>1. ReaderSize \in ReadSizes
      BY CallersAssumption DEF ReaderSize
    <3> QED BY <1>2, <2>1, <3>1 DEF ReaderReceive, Next, ClientNext, ClientCall
  <2>2. CASE ReaderWord \/ ReaderRecord
    BY <1>2, <2>2 DEF ReaderWord, ReaderRecord, vars
  <2>3. CASE ReaderEndOfStream
    BY <1>2, <2>3 DEF ReaderEndOfStream, Next, ClientNext, ClientCall
  <2>4. CASE ClientStep
    BY <1>2, <2>4 DEF Next, ClientNext
  <2> QED BY <1>2, <2>1, <2>2, <2>3, <2>4 DEF Reader
<1>3. CASE ServerSpurious /\ UNCHANGED <<cliVars, tracingVars, readerVars>>
  BY <1>3 DEF Next, ServerNext
<1>4. CASE ClientSpurious /\ UNCHANGED <<srvVars, tracingVars, readerVars>>
  BY <1>4 DEF Next, ClientNext
<1> QED BY <1>1, <1>2, <1>3, <1>4 DEF NextTracing

(* The types hold initially ...                                             *)
LEMMA InitTracingTyped == InitTracing => TracingTypeOK
<1> SUFFICES ASSUME InitTracing PROVE TracingTypeOK
  OBVIOUS
<1>1. TypeOK
  BY InitTyped DEF InitTracing
<1>2. <<>> \in Seq(Items \cup {"flush"}) /\ <<>> \in Seq(Items) /\ <<>> \in Seq(Seq(Cell))
  OBVIOUS
<1>3. /\ qem_tracing_state = {} /\ trc_calls = <<>> /\ trc_sent = <<>> /\ rdr_seen = <<>>
      /\ rdr_state = "version" /\ rdr_called \in BOOLEAN
  BY DEF InitTracing
<1> QED BY <1>1, <1>2, <1>3 DEF TracingTypeOK

(* ... and every step keeps them.                                           *)
LEMMA TracingTyped ==
    ASSUME TracingTypeOK, [NextTracing]_allVars
    PROVE  TracingTypeOK'
<1>1. [Next]_vars
  BY ChannelStep DEF allVars
<1>2. TypeOK /\ TypeOK'
  BY <1>1, NextTyped DEF TracingTypeOK
<1>3. ASSUME UNCHANGED readerVars,
             /\ qem_tracing_state' \subseteq TraceTypes
             /\ trc_calls' \in Seq(Items \cup {"flush"})
             /\ trc_sent' \in Seq(Items)
      PROVE  TracingTypeOK'
  BY <1>2, <1>3 DEF TracingTypeOK, readerVars
<1>4. ASSUME UNCHANGED tracingVars,
             /\ rdr_state' \in {"version", "size", "record", "failed"}
             /\ rdr_called' \in BOOLEAN
             /\ rdr_seen' \in Seq(Seq(Cell))
      PROVE  TracingTypeOK'
  BY <1>2, <1>4 DEF TracingTypeOK, tracingVars
<1>5. CASE Guest /\ UNCHANGED readerVars
  <2>1. qem_tracing_state' \subseteq TraceTypes /\ trc_sent' = trc_sent
    BY <1>5 DEF Guest, TraceEnable, TraceDisable, TraceOutput, TracingTypeOK
  <2>2. trc_calls' \in {InitSequence, CloseSequence, <<>>} \cup {<<r>> : r \in Records}
    BY <1>5 DEF Guest, TraceEnable, TraceDisable, TraceOutput
  <2>3. trc_calls' \in Seq(Items \cup {"flush"})
    <3> DEFINE T == Items \cup {"flush"}
    <3>1. VERSION \in T /\ SIZE \in T /\ EOS \in T /\ "flush" \in T /\ Records \subseteq T
      BY DEF Items
    <3> HIDE DEF T
    <3>2. \A a, b \in T : <<>> \in Seq(T) /\ <<a>> \in Seq(T) /\ <<a, b>> \in Seq(T)
      OBVIOUS
    <3>3. /\ InitSequence \in Seq(T) /\ CloseSequence \in Seq(T) /\ <<>> \in Seq(T)
          /\ \A r \in Records : <<r>> \in Seq(T)
      BY <3>1, <3>2 DEF InitSequence, CloseSequence
    <3> QED BY <2>2, <3>3 DEF T
  <2> QED BY <1>3, <1>5, <2>1, <2>3 DEF TracingTypeOK
<1>6. CASE CallSend /\ UNCHANGED readerVars
  <2>1. Head(trc_calls) \in Items /\ Tail(trc_calls) \in Seq(Items \cup {"flush"})
    BY <1>6 DEF CallSend, TracingTypeOK
  <2>2. trc_sent' \in Seq(Items)
    BY <1>6, <2>1 DEF CallSend, TracingTypeOK
  <2> QED BY <1>3, <1>6, <2>1, <2>2 DEF CallSend, TracingTypeOK
<1>7. CASE CallFlush /\ UNCHANGED readerVars
  BY <1>3, <1>7 DEF CallFlush, TracingTypeOK
<1>8. CASE UNCHANGED tracingVars /\ UNCHANGED readerVars
  BY <1>3, <1>8 DEF TracingTypeOK, tracingVars
<1>9. CASE ReaderReceive /\ UNCHANGED tracingVars
  BY <1>4, <1>9 DEF ReaderReceive, TracingTypeOK
<1>10. CASE (ReaderWord \/ ReaderRecord \/ ReaderEndOfStream) /\ UNCHANGED tracingVars
  <2>1. rdr_seen' = Append(rdr_seen, cli_got) /\ rdr_called' = FALSE
        /\ rdr_state' \in {"version", "size", "record", "failed"}
    BY <1>10 DEF ReaderWord, ReaderRecord, ReaderEndOfStream, TracingTypeOK
  <2>2. cli_got \in Seq(Cell)
    BY <1>2 DEF TypeOK
  <2>3. rdr_seen' \in Seq(Seq(Cell))
    BY <2>1, <2>2 DEF TracingTypeOK
  <2> QED BY <1>4, <1>10, <2>1, <2>3
<1> QED BY <1>5, <1>6, <1>7, <1>8, <1>9, <1>10
        DEF NextTracing, Tracer, Reader, allVars

(* The tracer and the client program use the SMI as its most general callers
   may, so that what is proved of those holds of them.                      *)
THEOREM TracingUsesChannel == TracingSpec => Spec
<1>1. InitTracing => Init
  BY DEF InitTracing
<1>2. TracingTypeOK /\ [NextTracing]_allVars => [Next]_vars
  BY ChannelStep DEF allVars
<1>3. TracingTypeOK /\ [NextTracing]_allVars => TracingTypeOK'
  BY TracingTyped
<1> QED BY <1>1, <1>2, <1>3, InitTracingTyped, PTL DEF TracingSpec, Spec

(* Every variable of the tracer and of the client program keeps its type.   *)
THEOREM TracingTyping == TracingSpec => []TracingTypeOK
<1>1. TracingTypeOK /\ [NextTracing]_allVars => TracingTypeOK'
  BY TracingTyped
<1> QED BY <1>1, InitTracingTyped, PTL DEF TracingSpec

-----------------------------------------------------------------------------
(* Where the items of a stream are on the wire.                             *)

(* The position of block b, and that the item that ends at e ends in it.    *)
Base(b)   == b * BLOCK_SIZE
Cut(b, e) == Base(b) < e /\ e <= Base(b) + BLOCK_SIZE

(* The position behind the j-th item, and where the one after it starts: right
   behind it, or behind the padding of the flush.  The block before the first
   one stands for what malloc returned to the client.                       *)
End(sent, start, j) == start[j] + ItemSize(sent[j])

Follows(x, sent, start, j) ==
    \/ j = 0 /\ x = BLOCK_SIZE
    \/ j # 0 /\ sent[j] # EOS /\ x = End(sent, start, j)
    \/ j # 0 /\ sent[j] = EOS /\ \E b \in Nat : Cut(b, End(sent, start, j)) /\ x = Base(b) + BLOCK_SIZE

(* What comes after the j-th item.                                          *)
Expect(sent, j) ==
    IF j = 0 \/ sent[j] = EOS THEN "version" ELSE IF sent[j] = VERSION THEN "size" ELSE "record"

(* An item is of the kind that is due.                                      *)
Fits(m, e) == (m = VERSION <=> e = "version") /\ (m = SIZE <=> e = "size")

(* The j-th item lies where it is due, and behind an end record there are zeros up
   to the end of the block.                                                 *)
ItemOK(wire, start, sent, j) ==
    /\ End(sent, start, j) <= Len(wire)
    /\ \A k \in 1..ItemSize(sent[j]) : wire[start[j] + k] = Cells(sent[j])[k]
    /\ Follows(start[j], sent, start, j - 1)
    /\ Fits(sent[j], Expect(sent, j - 1))
    /\ sent[j] = EOS =>
          \A b \in Nat : Cut(b, End(sent, start, j)) =>
             \A x \in Nat : End(sent, start, j) < x /\ x <= Base(b) + BLOCK_SIZE /\ x <= Len(wire)
                           => wire[x] = Zero

ItemsOK(wire, start, sent) ==
    /\ Len(start) = Len(sent)
    /\ \A j \in 1..Len(sent) : ItemOK(wire, start, sent, j)

(* Blocks lie one behind the other ...                                      *)
LEMMA BaseNext ==
    ASSUME NEW b \in Nat
    PROVE  Base(b) \in Nat /\ Base(b + 1) = Base(b) + BLOCK_SIZE
BY BlockSizeAssumption DEF Base

(* ... and do not overlap.                                                  *)
LEMMA BaseOrder ==
    ASSUME NEW a \in Nat, NEW b \in Nat, a < b
    PROVE  Base(a) + BLOCK_SIZE <= Base(b)
<1>1. PICK n \in Nat : b = (a + 1) + n
  <2>1. b - (a + 1) \in Nat /\ b = (a + 1) + (b - (a + 1))
    OBVIOUS
  <2> QED BY <2>1
<1>2. b * BLOCK_SIZE = (a + 1) * BLOCK_SIZE + n * BLOCK_SIZE
  BY <1>1, BlockSizeAssumption
<1>3. n * BLOCK_SIZE \in Nat
  BY BlockSizeAssumption
<1>4. (a + 1) * BLOCK_SIZE \in Nat
  BY BlockSizeAssumption
<1>5. b * BLOCK_SIZE >= (a + 1) * BLOCK_SIZE
  BY <1>2, <1>3, <1>4
<1> QED BY <1>5, BaseNext DEF Base

(* A position is the end of a part of one block only.                       *)
LEMMA CutUnique ==
    ASSUME NEW a \in Nat, NEW b \in Nat, NEW e \in Nat, Cut(a, e), Cut(b, e)
    PROVE  a = b
<1>1. Base(a) \in Nat /\ Base(b) \in Nat /\ BLOCK_SIZE \in Nat
  BY BaseNext, BlockSizeAssumption
<1>2. ~(a < b)
  BY <1>1, BaseOrder DEF Cut
<1>3. ~(b < a)
  BY <1>1, BaseOrder DEF Cut
<1> QED BY <1>2, <1>3

(* An item ends behind its start.                                           *)
LEMMA EndType ==
    ASSUME NEW sent \in Seq(Items), NEW start \in Seq(Nat), Len(start) = Len(sent),
           NEW j \in 1..Len(sent)
    PROVE  start[j] \in Nat /\ sent[j] \in Items /\ End(sent, start, j) \in Nat /\ start[j] < End(sent, start, j)
<1>1. start[j] \in Nat /\ sent[j] \in Items
  OBVIOUS
<1>2. ItemSize(sent[j]) \in Nat \ {0}
  BY <1>1, ItemSizes
<1> QED BY <1>1, <1>2 DEF End

(* The place where the next item starts is determined ...                   *)
LEMMA FollowsOnce ==
    ASSUME NEW sent \in Seq(Items), NEW start \in Seq(Nat), Len(start) = Len(sent),
           NEW j \in 0..Len(sent), NEW x, NEW y,
           Follows(x, sent, start, j), Follows(y, sent, start, j)
    PROVE  x = y
<1>1. CASE j # 0 /\ sent[j] = EOS
  <2>1. End(sent, start, j) \in Nat
    BY <1>1, EndType
  <2>2. PICK a \in Nat : Cut(a, End(sent, start, j)) /\ x = Base(a) + BLOCK_SIZE
    BY <1>1 DEF Follows
  <2>3. PICK b \in Nat : Cut(b, End(sent, start, j)) /\ y = Base(b) + BLOCK_SIZE
    BY <1>1 DEF Follows
  <2> QED BY <2>1, <2>2, <2>3, CutUnique
<1>2. CASE j = 0 \/ sent[j] # EOS
  BY <1>2 DEF Follows
<1> QED BY <1>1, <1>2

(* ... and is not before the end of the item.                               *)
LEMMA FollowsBehind ==
    ASSUME NEW sent \in Seq(Items), NEW start \in Seq(Nat), Len(start) = Len(sent),
           NEW j \in 1..Len(sent), NEW x, Follows(x, sent, start, j)
    PROVE  x \in Nat /\ End(sent, start, j) <= x
<1>1. End(sent, start, j) \in Nat
  BY EndType
<1>2. CASE sent[j] = EOS
  <2>1. PICK b \in Nat : Cut(b, End(sent, start, j)) /\ x = Base(b) + BLOCK_SIZE
    BY <1>2 DEF Follows
  <2>2. Base(b) \in Nat /\ BLOCK_SIZE \in Nat
    BY BaseNext, BlockSizeAssumption
  <2> QED BY <1>1, <2>1, <2>2 DEF Cut
<1>3. CASE sent[j] # EOS
  BY <1>1, <1>3 DEF Follows
<1> QED BY <1>2, <1>3

(* What follows the j-th item depends on the j-th item only.                *)
LEMMA SamePast ==
    ASSUME NEW sent, NEW sent2, NEW start, NEW start2, NEW j, NEW x,
           j # 0 => sent2[j] = sent[j] /\ start2[j] = start[j]
    PROVE  /\ Follows(x, sent2, start2, j) <=> Follows(x, sent, start, j)
           /\ Expect(sent2, j) = Expect(sent, j)
<1>1. CASE j = 0
  BY <1>1 DEF Follows, Expect
<1>2. CASE j # 0
  <2>1. End(sent2, start2, j) = End(sent, start, j)
    BY <1>2 DEF End
  <2> QED BY <1>2, <2>1 DEF Follows, Expect
<1> QED BY <1>1, <1>2

(* When the next item goes to the end of the wire, the padding behind every end
   record is complete.                                                      *)
LEMMA PaddingEnds ==
    ASSUME NEW wire \in Seq(Cell), NEW start \in Seq(Nat), NEW sent \in Seq(Items),
           ItemsOK(wire, start, sent), Follows(Len(wire), sent, start, Len(sent)),
           NEW j \in 1..Len(sent), sent[j] = EOS, NEW b \in Nat, Cut(b, End(sent, start, j))
    PROVE  Base(b) + BLOCK_SIZE <= Len(wire)
<1>1. Len(start) = Len(sent) /\ Len(wire) \in Nat /\ Len(sent) \in Nat
  BY DEF ItemsOK
<1>2. Follows(Base(b) + BLOCK_SIZE, sent, start, j)
  BY DEF Follows
<1>3. CASE j = Len(sent)
  <2>1. Base(b) + BLOCK_SIZE = Len(wire)
    BY <1>1, <1>2, <1>3, FollowsOnce
  <2> QED BY <1>1, <2>1
<1>4. CASE j # Len(sent)
  <2>1. j + 1 \in 1..Len(sent) /\ (j + 1) - 1 = j /\ j \in 0..Len(sent)
    BY <1>1, <1>4
  <2>2. ItemOK(wire, start, sent, j + 1)
    BY <2>1 DEF ItemsOK
  <2>3. Follows(start[j + 1], sent, start, j) /\ End(sent, start, j + 1) <= Len(wire)
    BY <2>1, <2>2 DEF ItemOK
  <2>4. start[j + 1] = Base(b) + BLOCK_SIZE
    BY <1>1, <1>2, <2>1, <2>3, FollowsOnce
  <2>5. start[j + 1] \in Nat /\ End(sent, start, j + 1) \in Nat /\ start[j + 1] < End(sent, start, j + 1)
    BY <1>1, <2>1, EndType
  <2> QED BY <1>1, <2>3, <2>4, <2>5
<1> QED BY <1>3, <1>4

(* An item that is put at the end of the wire, where it is due, leaves all items
   in place.                                                                *)
LEMMA ItemsGrow ==
    ASSUME NEW wire \in Seq(Cell), NEW start \in Seq(Nat), NEW sent \in Seq(Items), NEW m \in Items,
           ItemsOK(wire, start, sent), Follows(Len(wire), sent, start, Len(sent)),
           Fits(m, Expect(sent, Len(sent)))
    PROVE  ItemsOK(wire \o Cells(m), Append(start, Len(wire)), Append(sent, m))
<1> DEFINE w == wire \o Cells(m)
           st == Append(start, Len(wire))
           se == Append(sent, m)
           L == Len(sent)
<1>1. Len(start) = L /\ Len(wire) \in Nat /\ L \in Nat /\ ItemSize(m) \in Nat
      /\ Cells(m) \in Seq(Cell) /\ Len(Cells(m)) = ItemSize(m)
  BY CellsType, ItemSizes DEF ItemsOK
<1>2. /\ Len(w) = Len(wire) + ItemSize(m)
      /\ \A i \in 1..Len(wire) : w[i] = wire[i]
      /\ \A k \in 1..ItemSize(m) : w[Len(wire) + k] = Cells(m)[k]
  <2>1. /\ Len(w) = Len(wire) + Len(Cells(m))
        /\ \A i \in 1..Len(wire) + Len(Cells(m)) :
              w[i] = IF i <= Len(wire) THEN wire[i] ELSE Cells(m)[i - Len(wire)]
    BY <1>1, ConcatProperties
  <2>2. ASSUME NEW k \in 1..ItemSize(m) PROVE w[Len(wire) + k] = Cells(m)[k]
    BY <1>1, <2>1
  <2> QED BY <1>1, <2>1, <2>2
<1>3. /\ Len(st) = L + 1 /\ Len(se) = L + 1
      /\ st[L + 1] = Len(wire) /\ se[L + 1] = m
      /\ \A j \in 1..L : st[j] = start[j] /\ se[j] = sent[j]
  BY <1>1
<1> HIDE DEF w, st, se
<1>4. ASSUME NEW j \in 1..L
      PROVE  ItemOK(w, st, se, j)
  <2>1. st[j] = start[j] /\ se[j] = sent[j] /\ End(se, st, j) = End(sent, start, j)
    BY <1>3 DEF End
  <2>2. j - 1 # 0 => st[j - 1] = start[j - 1] /\ se[j - 1] = sent[j - 1]
    BY <1>1, <1>3, SMTT(30)
  <2>3. ItemOK(wire, start, sent, j)
    BY DEF ItemsOK
  <2>4. /\ Follows(start[j], se, st, j - 1) <=> Follows(start[j], sent, start, j - 1)
        /\ Expect(se, j - 1) = Expect(sent, j - 1)
    BY ONLY <2>2, SamePast
  <2>5. /\ End(sent, start, j) \in Nat /\ start[j] \in Nat /\ ItemSize(sent[j]) \in Nat
        /\ End(sent, start, j) = start[j] + ItemSize(sent[j])
        /\ End(sent, start, j) <= Len(wire)
    BY <1>1, <2>3, EndType, ItemSizes DEF End, ItemOK
  <2>6. ASSUME NEW k \in 1..ItemSize(sent[j]) PROVE w[start[j] + k] = Cells(sent[j])[k]
    <3>1. start[j] + k \in 1..Len(wire)
      BY <1>1, <2>5
    <3> QED BY <1>2, <2>3, <3>1 DEF ItemOK
  <2>7. ASSUME sent[j] = EOS, NEW b \in Nat, Cut(b, End(sent, start, j)),
               NEW x \in Nat, End(sent, start, j) < x, x <= Base(b) + BLOCK_SIZE
        PROVE  w[x] = Zero
    <3>1. Base(b) + BLOCK_SIZE <= Len(wire)
      BY <2>7, PaddingEnds
    <3>2. Base(b) \in Nat /\ BLOCK_SIZE \in Nat
      BY ONLY b \in Nat, BaseNext, BlockSizeAssumption
    <3>3. x \in 1..Len(wire) /\ x <= Len(wire)
      BY <1>1, <2>5, <2>7, <3>1, <3>2, SMTT(30)
    <3> QED BY <1>2, <2>3, <2>7, <3>3 DEF ItemOK
  <2>8. End(sent, start, j) <= Len(w)
    BY <1>1, <1>2, <2>5
  <2> QED BY <2>1, <2>3, <2>4, <2>6, <2>7, <2>8 DEF ItemOK
<1>5. ItemOK(w, st, se, L + 1)
  <2>1. End(se, st, L + 1) = Len(w)
    BY <1>2, <1>3 DEF End
  <2>2. L # 0 => st[L] = start[L] /\ se[L] = sent[L]
    BY <1>1, <1>3
  <2>3. (L + 1) - 1 = L
    BY <1>1
  <2>4. /\ Follows(Len(wire), se, st, L) <=> Follows(Len(wire), sent, start, L)
        /\ Expect(se, L) = Expect(sent, L)
    BY ONLY <2>2, SamePast
  <2>5. Len(w) \in Nat
    BY <1>1, <1>2
  <2>6. ASSUME NEW x \in Nat, Len(w) < x, x <= Len(w) PROVE FALSE
    BY <2>5, <2>6
  <2> QED BY <1>2, <1>3, <2>1, <2>3, <2>4, <2>5, <2>6 DEF ItemOK
<1>6. \A j \in 1..(L + 1) : j \in 1..L \/ j = L + 1
  BY <1>1
<1> QED BY <1>3, <1>4, <1>5, <1>6 DEF ItemsOK, w, st, se

(* So does padding.                                                         *)
LEMMA ItemsPad ==
    ASSUME NEW wire \in Seq(Cell), NEW start \in Seq(Nat), NEW sent \in Seq(Items),
           NEW w \in Seq(Cell), ItemsOK(wire, start, sent), Len(wire) <= Len(w),
           \A i \in 1..Len(wire) : w[i] = wire[i],
           \A i \in 1..Len(w) : i > Len(wire) => w[i] = Zero
    PROVE  ItemsOK(w, start, sent)
<1>1. Len(start) = Len(sent) /\ Len(wire) \in Nat /\ Len(w) \in Nat
  BY DEF ItemsOK
<1>2. ASSUME NEW j \in 1..Len(sent)
      PROVE  ItemOK(w, start, sent, j)
  <2>1. ItemOK(wire, start, sent, j)
    BY DEF ItemsOK
  <2>2. /\ End(sent, start, j) \in Nat /\ start[j] \in Nat /\ ItemSize(sent[j]) \in Nat
        /\ End(sent, start, j) = start[j] + ItemSize(sent[j])
        /\ End(sent, start, j) <= Len(wire)
    BY <1>1, <2>1, EndType, ItemSizes DEF End, ItemOK
  <2>3. ASSUME NEW k \in 1..ItemSize(sent[j]) PROVE w[start[j] + k] = Cells(sent[j])[k]
    <3>1. start[j] + k \in 1..Len(wire)
      BY <1>1, <2>2
    <3> QED BY <2>1, <3>1 DEF ItemOK
  <2>4. ASSUME sent[j] = EOS, NEW b \in Nat, Cut(b, End(sent, start, j)),
               NEW x \in Nat, End(sent, start, j) < x, x <= Base(b) + BLOCK_SIZE, x <= Len(w)
        PROVE  w[x] = Zero
    <3>1. x \in 1..Len(w)
      BY <1>1, <2>2, <2>4
    <3>2. CASE x <= Len(wire)
      <4>1. x \in 1..Len(wire)
        BY <1>1, <3>1, <3>2
      <4> QED BY <2>1, <2>4, <3>2, <4>1 DEF ItemOK
    <3>3. CASE x > Len(wire)
      BY <3>1, <3>3
    <3> QED BY <1>1, <3>2, <3>3
  <2>5. End(sent, start, j) <= Len(w)
    BY <1>1, <2>2
  <2> QED BY <2>1, <2>3, <2>4, <2>5 DEF ItemOK
<1> QED BY <1>1, <1>2 DEF ItemsOK

-----------------------------------------------------------------------------
(* The stream and the state.  `wire` is everything that was handed to the SMI,
   padding included; c and d are the numbers of the client's and of the
   sender's private block, `at` is where the item that the client reads starts. *)

(* The engine has a complete block to publish; the client has used up its own. *)
Publishing == srv_pc \in {"lock", "check", "wait", "copy", "relock", "publish"}
Taking     == cli_pc \in {"lock", "check", "wait", "copy", "relock", "release"}

(* How far the sender has filled its block and the client has used up its own. *)
SrvPos(d) == Base(d) + IF Publishing THEN BLOCK_SIZE ELSE srv_index
CliPos(c) == Base(c) + IF Taking THEN BLOCK_SIZE ELSE cli_index

(* The sender's block and the rest of the message are the end of the wire.  *)
ServerWire(wire, d) ==
    /\ Len(wire) = SrvPos(d) + Len(srv_rest)
    /\ \A o \in Offsets : Publishing \/ o < srv_index => wire[Base(d) + o + 1] = Image[o]
    /\ \A i \in 1..Len(srv_rest) : wire[SrvPos(d) + i] = srv_rest[i]
    /\ srv_call = "send" => srv_rest # <<>> /\ (Publishing => srv_index = 0)
    /\ srv_call # "send" => srv_rest = <<>>

(* The blocks in transit lie between the client's block and the sender's.   *)
TransitWire(wire, c, d) ==
    /\ d = c + Len(Transit) + 1
    /\ \A i \in 1..Len(Transit), o \in Offsets : wire[Base(c + i) + o + 1] = Transit[i][o]

(* The client's block is block c; while another one is being taken, its old
   contents are used up.                                                    *)
ClientWire(wire, c) ==
    IF Taking THEN cli_index = 0
    ELSE \A o \in Offsets : wire[Base(c) + o + 1] = cli_local[o]

(* The end record was sent, its flush was not.                              *)
FlushDue == trc_calls = <<"flush">>

(* The calls of the tracer's operation and the items sent so far fit.       *)
Progress(calls, on, next) ==
    \/ calls = <<>> /\ next = IF on THEN "record" ELSE "version"
    \/ calls = InitSequence /\ next = "version" /\ on
    \/ calls = <<SIZE>> /\ next = "size" /\ on
    \/ \E r \in Records : calls = <<r>> /\ next = "record" /\ on
    \/ calls = CloseSequence /\ next = "record" /\ ~on
    \/ calls = <<"flush">> /\ next = "version" /\ ~on

(* What the tracer sends next belongs at the end of the wire.               *)
TracerWire(wire, start) ==
    /\ Progress(trc_calls, qem_tracing_state # {}, Expect(trc_sent, Len(trc_sent)))
    /\ FlushDue =>
          /\ Len(trc_sent) > 0 /\ trc_sent[Len(trc_sent)] = EOS
          /\ Len(wire) = End(trc_sent, start, Len(trc_sent))
          /\ srv_call # "flush" /\ (srv_pc = "idle" => srv_index > 0)
    /\ ~FlushDue => Follows(Len(wire), trc_sent, start, Len(trc_sent))

(* What the client program has read, and how far the item is that it is reading. *)
ReaderWire(wire, start, c, at) ==
    /\ Len(rdr_seen) <= Len(trc_sent)
    /\ \A i \in 1..Len(rdr_seen) : rdr_seen[i] = Cells(trc_sent[i])
    /\ rdr_state = Expect(trc_sent, Len(rdr_seen))
    /\ Follows(at, trc_sent, start, Len(rdr_seen))
    /\ rdr_called =>
          /\ CliPos(c) = at + Len(cli_got)
          /\ Len(cli_got) + cli_want = ReaderSize
          /\ \A i \in 1..Len(cli_got) : cli_got[i] = wire[at + i]
          /\ IF cli_pc = "idle" THEN cli_want = 0 /\ cli_index > 0 ELSE cli_want > 0
    /\ ~rdr_called => CliPos(c) = at /\ cli_pc = "idle"

(* The wire explains the whole state.                                       *)
Stream(wire, start, c, d, at) ==
    /\ ServerWire(wire, d)
    /\ TransitWire(wire, c, d)
    /\ ClientWire(wire, c)
    /\ ItemsOK(wire, start, trc_sent)
    /\ TracerWire(wire, start)
    /\ ReaderWire(wire, start, c, at)

(* The inductive invariant.                                                 *)
StreamInv ==
    \E wire \in Seq(Cell), start \in Seq(Nat), c \in Nat, d \in Nat, at \in Nat :
        Stream(wire, start, c, d, at)

(* Longer is `wire` with more cells behind it.                              *)
Extends(longer, wire) == Len(wire) <= Len(longer) /\ \A i \in 1..Len(wire) : longer[i] = wire[i]

(* The positions in their order: the client's block, the blocks in transit, the
   sender's block, the message that is being sent.                          *)
LEMMA StreamBounds ==
    ASSUME TypeOK, RingInv, NEW wire \in Seq(Cell), NEW c \in Nat, NEW d \in Nat,
           ServerWire(wire, d), TransitWire(wire, c, d)
    PROVE  /\ Base(c) \in Nat /\ Base(d) \in Nat /\ SrvPos(d) \in Nat /\ CliPos(c) \in Nat
           /\ CliPos(c) <= Base(c) + BLOCK_SIZE
           /\ Base(c) + BLOCK_SIZE <= Base(d)
           /\ Base(d) <= SrvPos(d) /\ SrvPos(d) <= Base(d) + BLOCK_SIZE /\ SrvPos(d) <= Len(wire)
           /\ \A i \in 1..Len(Transit), o \in Offsets : Base(c + i) \in Nat /\ Base(c + i) + o + 1 <= Base(d)
<1>1. /\ Len(Transit) \in Nat /\ BLOCK_SIZE \in Nat
      /\ srv_index \in 0..BLOCK_SIZE /\ cli_index \in 0..BLOCK_SIZE /\ Len(srv_rest) \in Nat
  BY TransitType, BlockSizeAssumption DEF TypeOK
<1>2. Base(c) \in Nat /\ Base(d) \in Nat
  BY BaseNext
<1>3. c < d
  BY <1>1 DEF TransitWire
<1>4. Base(c) + BLOCK_SIZE <= Base(d)
  BY <1>3, BaseOrder
<1>5. /\ SrvPos(d) \in Nat /\ CliPos(c) \in Nat /\ CliPos(c) <= Base(c) + BLOCK_SIZE
      /\ Base(d) <= SrvPos(d) /\ SrvPos(d) <= Base(d) + BLOCK_SIZE
  BY <1>1, <1>2, SMTT(30) DEF SrvPos, CliPos
<1>6. SrvPos(d) <= Len(wire)
  BY <1>1, <1>5 DEF ServerWire
<1>7. ASSUME NEW i \in 1..Len(Transit), NEW o \in Offsets
      PROVE  Base(c + i) \in Nat /\ Base(c + i) + o + 1 <= Base(d)
  <2>1. c + i \in Nat /\ c + i < d
    BY <1>1 DEF TransitWire
  <2>2. Base(c + i) \in Nat /\ Base(c + i) + BLOCK_SIZE <= Base(d)
    BY <2>1, BaseOrder, BaseNext
  <2>3. o \in Nat /\ o + 1 <= BLOCK_SIZE
    BY <1>1 DEF Offsets
  <2> QED BY <1>1, <1>2, <2>2, <2>3
<1> QED BY <1>2, <1>4, <1>5, <1>6, <1>7

(* A step of the sending program leaves the client's view of the wire, which at
   most gets longer.                                                        *)
LEMMA ClientFrame ==
    ASSUME TracingTypeOK, RingInv, NEW wire \in Seq(Cell), NEW start \in Seq(Nat),
           NEW c \in Nat, NEW d \in Nat, NEW at \in Nat, Stream(wire, start, c, d, at),
           UNCHANGED cliVars, UNCHANGED readerVars,
           NEW w \in Seq(Cell), NEW st \in Seq(Nat), Extends(w, wire),
           Extends(st, start), Extends(trc_sent', trc_sent), trc_sent' \in Seq(Items)
    PROVE  ClientWire(w, c)' /\ ReaderWire(w, st, c, at)'
<1>1. TypeOK /\ ServerWire(wire, d) /\ TransitWire(wire, c, d) /\ ClientWire(wire, c)
      /\ ReaderWire(wire, start, c, at) /\ Len(start) = Len(trc_sent)
  BY DEF Stream, TracingTypeOK, ItemsOK
<1>2. /\ Base(c) \in Nat /\ CliPos(c) \in Nat /\ Base(c) + BLOCK_SIZE <= Len(wire)
      /\ CliPos(c) <= Len(wire) /\ BLOCK_SIZE \in Nat /\ Len(wire) \in Nat
  <2>1. BLOCK_SIZE \in Nat /\ Len(wire) \in Nat
    BY BlockSizeAssumption
  <2> QED BY <1>1, <2>1, StreamBounds
<1>3. /\ Taking' = Taking /\ CliPos(c)' = CliPos(c) /\ ReaderSize' = ReaderSize
      /\ UNCHANGED <<cli_pc, cli_want, cli_got, cli_local, cli_index, rdr_state, rdr_called, rdr_seen>>
  BY DEF cliVars, readerVars, Taking, CliPos, ReaderSize
<1>4. ClientWire(w, c)'
  <2>1. ASSUME NEW o \in Offsets PROVE w[Base(c) + o + 1] = wire[Base(c) + o + 1]
    <3>1. Base(c) + o + 1 \in 1..Len(wire)
      BY <1>2, SMTT(30) DEF Offsets
    <3> QED BY <3>1 DEF Extends
  <2> QED BY <1>1, <1>3, <2>1 DEF ClientWire
<1>5. ReaderWire(w, st, c, at)'
  <2> DEFINE n == Len(rdr_seen)
  <2>1. n \in Nat /\ Len(trc_sent) \in Nat /\ Len(trc_sent') \in Nat /\ Len(cli_got) \in Nat
        /\ n <= Len(trc_sent) /\ n <= Len(trc_sent')
    <3>1. rdr_seen \in Seq(Seq(Cell)) /\ trc_sent \in Seq(Items) /\ cli_got \in Seq(Cell)
      BY <1>1 DEF TracingTypeOK, TypeOK
    <3>2. n <= Len(trc_sent) /\ Len(trc_sent) <= Len(trc_sent')
      BY <1>1 DEF ReaderWire, Extends
    <3>3. n \in Nat /\ Len(trc_sent) \in Nat /\ Len(trc_sent') \in Nat /\ Len(cli_got) \in Nat
      BY <3>1
    <3> QED BY <3>2, <3>3
  <2>2. n # 0 => trc_sent'[n] = trc_sent[n] /\ st[n] = start[n]
    BY <1>1, <2>1 DEF Extends
  <2>3. /\ Follows(at, trc_sent', st, n) <=> Follows(at, trc_sent, start, n)
        /\ Expect(trc_sent', n) = Expect(trc_sent, n)
    BY ONLY <2>2, SamePast
  <2>4. \A i \in 1..n : trc_sent'[i] = trc_sent[i]
    BY <2>1 DEF Extends
  <2>5. rdr_called => \A i \in 1..Len(cli_got) : w[at + i] = wire[at + i]
    <3>1. rdr_called => CliPos(c) = at + Len(cli_got)
      BY <1>1 DEF ReaderWire
    <3>2. rdr_called => \A i \in 1..Len(cli_got) : at + i \in 1..Len(wire)
      BY <1>2, <2>1, <3>1
    <3> QED BY <3>2 DEF Extends
  <2> QED BY <1>1, <1>3, <2>1, <2>3, <2>4, <2>5 DEF ReaderWire
<1> QED BY <1>4, <1>5

(* A step of the client program leaves the sender's view of the wire.       *)
LEMMA ServerFrame ==
    ASSUME NEW wire \in Seq(Cell), NEW start \in Seq(Nat), NEW c \in Nat, NEW d \in Nat, NEW at \in Nat,
           Stream(wire, start, c, d, at), UNCHANGED srvVars, UNCHANGED tracingVars
    PROVE  ServerWire(wire, d)' /\ ItemsOK(wire, start, trc_sent)' /\ TracerWire(wire, start)'
<1>1. /\ UNCHANGED <<srv_pc, srv_call, srv_rest, srv_local, srv_index>>
      /\ UNCHANGED <<qem_tracing_state, trc_calls, trc_sent>>
  BY DEF srvVars, tracingVars
<1>2. Publishing' = Publishing /\ SrvPos(d)' = SrvPos(d) /\ Image' = Image /\ FlushDue' = FlushDue
  BY <1>1 DEF Publishing, SrvPos, Image, FlushDue
<1>3. ServerWire(wire, d)'
  BY <1>1, <1>2 DEF Stream, ServerWire
<1>4. ItemsOK(wire, start, trc_sent)'
  BY <1>1 DEF Stream
<1>5. TracerWire(wire, start)'
  BY <1>1, <1>2 DEF Stream, TracerWire
<1> QED BY <1>3, <1>4, <1>5

(* The sender's steps around the mutex, and its copy into shared memory, leave
   the stream as it is.                                                     *)
LEMMA QuietServer ==
    ASSUME TracingTypeOK, RingInv, NEW wire \in Seq(Cell), NEW start \in Seq(Nat),
           NEW c \in Nat, NEW d \in Nat, NEW at \in Nat, Stream(wire, start, c, d, at),
           \/ ServerLock \/ ServerWait \/ ServerWake \/ ServerFree
           \/ ServerCopy \/ ServerLoad \/ ServerSpurious,
           UNCHANGED cliVars, UNCHANGED tracingVars, UNCHANGED readerVars
    PROVE  Stream(wire, start, c, d, at)'
<1>1. /\ UNCHANGED <<srv_call, srv_rest, srv_local, srv_index>>
      /\ Publishing' <=> Publishing
      /\ srv_pc' = "idle" <=> srv_pc = "idle"
  BY DEF ServerLock, ServerWait, ServerWake, ServerFree, ServerCopy, ServerLoad, ServerSpurious,
         srvVars, Publishing
<1>2. Transit' = Transit
  <2>1. CASE ServerCopy
    BY <2>1, CopyKeepsTransit DEF TracingTypeOK
  <2>2. CASE ~ServerCopy
    BY <2>2, TransitUnchanged
       DEF ServerLock, ServerWait, ServerWake, ServerFree, ServerLoad, ServerSpurious, srvVars, cliVars
  <2> QED BY <2>1, <2>2
<1>3. SrvPos(d)' = SrvPos(d) /\ Image' = Image /\ UNCHANGED <<qem_tracing_state, trc_calls, trc_sent>>
  BY <1>1 DEF SrvPos, Image, tracingVars
<1>4. ServerWire(wire, d)'
  BY <1>1, <1>3 DEF Stream, ServerWire
<1>5. TransitWire(wire, c, d)'
  BY <1>2 DEF Stream, TransitWire
<1>6. ItemsOK(wire, start, trc_sent)' /\ TracerWire(wire, start)'
  BY <1>1, <1>3 DEF Stream, TracerWire, FlushDue
<1>7. ClientWire(wire, c)' /\ ReaderWire(wire, start, c, at)'
  <2>1. Extends(wire, wire) /\ Extends(start, start) /\ Extends(trc_sent', trc_sent)
    BY <1>3 DEF Extends, TracingTypeOK
  <2> QED BY <1>3, <2>1, ClientFrame DEF TracingTypeOK
<1> QED BY <1>4, <1>5, <1>6, <1>7 DEF Stream

(* An operation of the guest sets up calls that fit what was sent so far.   *)
LEMMA GuestStream ==
    ASSUME TracingTypeOK, RingInv, NEW wire \in Seq(Cell), NEW start \in Seq(Nat),
           NEW c \in Nat, NEW d \in Nat, NEW at \in Nat, Stream(wire, start, c, d, at),
           Guest, UNCHANGED cliVars, UNCHANGED readerVars
    PROVE  Stream(wire, start, c, d, at)'
<1>1. /\ UNCHANGED sharedVars /\ UNCHANGED srvVars /\ trc_sent' = trc_sent /\ trc_calls = <<>>
      /\ \/ qem_tracing_state' # {} /\ trc_calls' = IF qem_tracing_state = {} THEN InitSequence ELSE <<>>
         \/ /\ qem_tracing_state # {}
            /\ trc_calls' = IF qem_tracing_state' = {} THEN CloseSequence ELSE <<>>
         \/ /\ qem_tracing_state # {} /\ qem_tracing_state' = qem_tracing_state
            /\ \E r \in Records : trc_calls' = <<r>>
  BY DEF Guest, TraceEnable, TraceDisable, TraceOutput, Ready
<1>2. /\ UNCHANGED <<srv_pc, srv_call, srv_rest, srv_local, srv_index>>
      /\ UNCHANGED <<block_mask, shared_buffer_data, srv_next, cli_next>>
  BY <1>1 DEF srvVars, sharedVars, cliVars
<1>3. /\ Publishing' = Publishing /\ SrvPos(d)' = SrvPos(d) /\ Image' = Image
      /\ Transit' = Transit
  BY <1>2, TransitUnchanged DEF Publishing, SrvPos, Image
<1>4. ServerWire(wire, d)' /\ TransitWire(wire, c, d)' /\ ItemsOK(wire, start, trc_sent)'
  BY <1>1, <1>2, <1>3 DEF Stream, ServerWire, TransitWire
<1>5. TracerWire(wire, start)'
  <2>1. ~FlushDue /\ ~FlushDue'
    <3>1. <<>> # <<"flush">>
      OBVIOUS
    <3>2. InitSequence # <<"flush">> /\ CloseSequence # <<"flush">>
      BY DEF InitSequence, CloseSequence
    <3>3. \A r \in Records : <<r>> # <<"flush">>
      BY RecordsAssumption
    <3> QED BY <1>1, <3>1, <3>2, <3>3 DEF FlushDue
  <2>2. Expect(trc_sent, Len(trc_sent)) = IF qem_tracing_state # {} THEN "record" ELSE "version"
    <3>1. /\ <<>> # InitSequence /\ <<>> # CloseSequence /\ <<>> # <<SIZE>> /\ <<>> # <<"flush">>
          /\ \A r \in Records : <<>> # <<r>>
      BY DEF InitSequence, CloseSequence
    <3> QED BY <1>1, <3>1 DEF Stream, TracerWire, Progress
  <2>3. Progress(trc_calls', qem_tracing_state' # {}, Expect(trc_sent, Len(trc_sent)))
    BY <1>1, <2>2 DEF Progress
  <2> QED BY <1>1, <2>1, <2>3 DEF Stream, TracerWire
<1>6. ClientWire(wire, c)' /\ ReaderWire(wire, start, c, at)'
  <2>1. Extends(wire, wire) /\ Extends(start, start) /\ Extends(trc_sent', trc_sent)
    BY <1>1 DEF Extends, TracingTypeOK
  <2> QED BY <1>1, <2>1, ClientFrame DEF TracingTypeOK
<1> QED BY <1>4, <1>5, <1>6 DEF Stream

(* The blocks in transit stay where they are on a wire that gets longer.    *)
LEMMA TransitFrame ==
    ASSUME TypeOK, RingInv, NEW wire \in Seq(Cell), NEW c \in Nat, NEW d \in Nat,
           ServerWire(wire, d), TransitWire(wire, c, d),
           NEW w \in Seq(Cell), Extends(w, wire), Transit' = Transit
    PROVE  TransitWire(w, c, d)'
<1>1. ASSUME NEW i \in 1..Len(Transit), NEW o \in Offsets
      PROVE  w[Base(c + i) + o + 1] = wire[Base(c + i) + o + 1]
  <2>1. /\ Base(c + i) \in Nat /\ Base(c + i) + o + 1 <= Base(d) /\ Base(d) \in Nat
        /\ Base(d) <= SrvPos(d) /\ SrvPos(d) <= Len(wire) /\ SrvPos(d) \in Nat
    BY StreamBounds
  <2>2. o \in Nat /\ Len(wire) \in Nat
    BY BlockSizeAssumption DEF Offsets
  <2>3. Base(c + i) + o + 1 \in 1..Len(wire)
    BY <2>1, <2>2
  <2> QED BY <2>3 DEF Extends
<1> QED BY <1>1 DEF TransitWire

(* qem_smi_client_send is entered: the wire grows by the cells of the item. *)
LEMMA SendStream ==
    ASSUME TracingTypeOK, RingInv, NEW wire \in Seq(Cell), NEW start \in Seq(Nat),
           NEW c \in Nat, NEW d \in Nat, NEW at \in Nat, Stream(wire, start, c, d, at),
           CallSend, UNCHANGED cliVars, UNCHANGED readerVars
    PROVE  StreamInv'
<1> DEFINE L == Len(trc_sent)
<1>1. PICK m \in Items : m = Head(trc_calls)
  BY DEF CallSend, TracingTypeOK
<1>2. /\ m = Head(trc_calls) /\ trc_calls # <<>> /\ m # "flush"
      /\ trc_sent' = Append(trc_sent, m) /\ trc_calls' = Tail(trc_calls)
      /\ qem_tracing_state' = qem_tracing_state
      /\ srv_pc = "idle" /\ srv_pc' = "send" /\ srv_call' = "send" /\ srv_rest' = Cells(m)
      /\ UNCHANGED <<srv_local, srv_index, srv_next, block_mask, shared_buffer_data, cli_next>>
  BY <1>1 DEF CallSend, Send, sharedVars, cliVars
<1>3. /\ TypeOK /\ trc_sent \in Seq(Items) /\ ServerWire(wire, d) /\ TransitWire(wire, c, d)
      /\ ItemsOK(wire, start, trc_sent) /\ TracerWire(wire, start) /\ Len(start) = L
  BY DEF TracingTypeOK, Stream, ItemsOK
<1>4. /\ L \in Nat /\ Len(wire) \in Nat /\ ItemSize(m) \in Nat \ {0}
      /\ Cells(m) \in Seq(Cell) /\ Len(Cells(m)) = ItemSize(m)
  BY <1>2, <1>3, ItemSizes, CellsType
<1> DEFINE e == Expect(trc_sent, L)
<1>5. /\ ~FlushDue /\ Fits(m, e)
      /\ \/ m = VERSION /\ trc_calls' = <<SIZE>> /\ qem_tracing_state # {}
         \/ m \in Records \cup {SIZE} /\ trc_calls' = <<>> /\ qem_tracing_state # {}
         \/ m = EOS /\ trc_calls' = <<"flush">> /\ qem_tracing_state = {}
  <2>1. Progress(trc_calls, qem_tracing_state # {}, e)
    BY <1>3 DEF TracerWire
  <2>2. CASE trc_calls = InitSequence /\ e = "version" /\ qem_tracing_state # {}
    <3>1. m = VERSION /\ trc_calls' = <<SIZE>> /\ trc_calls # <<"flush">>
      BY <1>2, <2>2 DEF InitSequence, VERSION, SIZE
    <3> QED BY <2>2, <3>1 DEF Fits, FlushDue, VERSION, SIZE
  <2>3. CASE trc_calls = <<SIZE>> /\ e = "size" /\ qem_tracing_state # {}
    <3>1. m = SIZE /\ trc_calls' = <<>> /\ trc_calls # <<"flush">>
      BY <1>2, <2>3 DEF SIZE
    <3> QED BY <2>3, <3>1 DEF Fits, FlushDue, VERSION, SIZE
  <2>4. CASE \E r \in Records : trc_calls = <<r>> /\ e = "record" /\ qem_tracing_state # {}
    <3>1. PICK r \in Records : trc_calls = <<r>> /\ e = "record" /\ qem_tracing_state # {}
      BY <2>4
    <3>2. m = r /\ trc_calls' = <<>> /\ trc_calls # <<"flush">>
      BY <1>2, <3>1
    <3>3. r # VERSION /\ r # SIZE
      BY RecordsAssumption
    <3> QED BY <3>1, <3>2, <3>3 DEF Fits, FlushDue
  <2>5. CASE trc_calls = CloseSequence /\ e = "record" /\ qem_tracing_state = {}
    <3>1. m = EOS /\ trc_calls' = <<"flush">> /\ trc_calls # <<"flush">>
      BY <1>2, <2>5 DEF CloseSequence, EOS
    <3> QED BY <2>5, <3>1 DEF Fits, FlushDue, VERSION, SIZE, EOS
  <2>6. CASE trc_calls = <<"flush">>
    BY <1>2, <2>6
  <2> QED BY <1>2, <2>1, <2>2, <2>3, <2>4, <2>5, <2>6 DEF Progress
<1>6. Follows(Len(wire), trc_sent, start, L)
  BY <1>3, <1>5 DEF TracerWire
<1>7. PICK w \in Seq(Cell) : w = wire \o Cells(m)
  <2>1. wire \o Cells(m) \in Seq(Cell)
    BY <1>4, ConcatProperties
  <2> QED BY <2>1
<1>8. PICK st \in Seq(Nat) : st = Append(start, Len(wire))
  <2>1. Append(start, Len(wire)) \in Seq(Nat)
    BY <1>4, AppendProperties
  <2> QED BY <2>1
<1>9. ItemsOK(w, st, trc_sent')
  BY <1>2, <1>3, <1>5, <1>6, <1>7, <1>8, ItemsGrow
<1>10. /\ Len(w) = Len(wire) + ItemSize(m)
       /\ \A i \in 1..Len(wire) : w[i] = wire[i]
       /\ \A k \in 1..ItemSize(m) : w[Len(wire) + k] = Cells(m)[k]
  <2>1. /\ Len(w) = Len(wire) + Len(Cells(m))
        /\ \A i \in 1..Len(wire) + Len(Cells(m)) :
              w[i] = IF i <= Len(wire) THEN wire[i] ELSE Cells(m)[i - Len(wire)]
    BY <1>4, <1>7, ConcatProperties
  <2>2. ASSUME NEW k \in 1..ItemSize(m) PROVE w[Len(wire) + k] = Cells(m)[k]
    <3>1. /\ Len(wire) + k \in 1..Len(wire) + Len(Cells(m)) /\ ~(Len(wire) + k <= Len(wire))
          /\ (Len(wire) + k) - Len(wire) = k
      BY <1>4
    <3> QED BY <2>1, <3>1
  <2>3. ASSUME NEW i \in 1..Len(wire) PROVE w[i] = wire[i]
    <3>1. i \in 1..Len(wire) + Len(Cells(m)) /\ i <= Len(wire)
      BY <1>4
    <3> QED BY <2>1, <3>1
  <2>4. Len(Cells(m)) = ItemSize(m)
    BY <1>4
  <2> QED BY ONLY <2>1, <2>2, <2>3, <2>4
<1>11. /\ Len(st) = L + 1 /\ Len(trc_sent') = L + 1 /\ trc_sent' \in Seq(Items)
       /\ st[L + 1] = Len(wire) /\ trc_sent'[L + 1] = m
       /\ \A j \in 1..L : st[j] = start[j] /\ trc_sent'[j] = trc_sent[j]
  BY <1>2, <1>3, <1>4, <1>8
<1> HIDE DEF e
<1>12. Extends(w, wire) /\ Extends(st, start) /\ Extends(trc_sent', trc_sent)
  BY <1>3, <1>4, <1>10, <1>11, SMTT(30) DEF Extends
<1>13. ClientWire(w, c)' /\ ReaderWire(w, st, c, at)'
  BY <1>10, <1>11, <1>12, ClientFrame
<1>14. TransitWire(w, c, d)'
  <2>1. Transit' = Transit
    BY <1>2, TransitUnchanged
  <2> QED BY <1>3, <1>10, <1>12, <2>1, TransitFrame
<1>15. TracerWire(w, st)'
  <2>1. End(trc_sent', st, L + 1) = Len(w) /\ L + 1 # 0 /\ L + 1 > 0
    BY <1>4, <1>10, <1>11, SMTT(30) DEF End
  <2>2. <<SIZE>> # <<"flush">> /\ <<>> # <<"flush">>
    BY DEF SIZE
  <2>3. CASE m = EOS
    <3>1. trc_calls' = <<"flush">> /\ qem_tracing_state' = {}
      BY <1>2, <1>5, <2>3, RecordsAssumption DEF EOS, VERSION, SIZE
    <3>2. Expect(trc_sent', L + 1) = "version"
      BY <1>11, <2>1, <2>3 DEF Expect
    <3> QED BY <1>2, <1>11, <2>1, <2>3, <3>1, <3>2 DEF TracerWire, FlushDue, Progress
  <2>4. CASE m # EOS
    <3>1. trc_calls' = (IF m = VERSION THEN <<SIZE>> ELSE <<>>) /\ qem_tracing_state' # {}
      BY <1>2, <1>5, <2>4, RecordsAssumption DEF VERSION, SIZE
    <3>2. Expect(trc_sent', L + 1) = IF m = VERSION THEN "size" ELSE "record"
      BY <1>11, <2>1, <2>4 DEF Expect
    <3>3. Follows(Len(w), trc_sent', st, L + 1)
      BY <1>11, <2>1, <2>4 DEF Follows
    <3> QED BY <1>11, <2>2, <3>1, <3>2, <3>3 DEF TracerWire, FlushDue, Progress
  <2> QED BY <2>3, <2>4
<1>16. ServerWire(w, d)'
  <2>1. srv_call = "none" /\ srv_rest = <<>> /\ ~Publishing /\ ~Publishing'
    BY <1>2, <1>3 DEF RingInv, Calls, ServerWire, Publishing
  <2>2. /\ Len(wire) = SrvPos(d) /\ SrvPos(d) = Base(d) + srv_index /\ SrvPos(d)' = SrvPos(d)
        /\ Image' = Image /\ Base(d) \in Nat /\ srv_index \in Nat
    <3>1. Base(d) \in Nat /\ srv_index \in 0..BLOCK_SIZE /\ BLOCK_SIZE \in Nat
      BY <1>3, BaseNext, BlockSizeAssumption DEF TypeOK
    <3>2. SrvPos(d) = Base(d) + srv_index /\ SrvPos(d)' = SrvPos(d)
      BY <1>2, <2>1 DEF SrvPos
    <3>3. Image' = Image
      BY <1>2, <2>1 DEF Image
    <3>4. Len(srv_rest) = 0
      BY <2>1
    <3>5. Len(wire) = SrvPos(d) + Len(srv_rest)
      BY <1>3 DEF ServerWire
    <3> QED BY <3>1, <3>2, <3>3, <3>4, <3>5
  <2>3. ASSUME NEW o \in Offsets, o < srv_index
        PROVE  w[Base(d) + o + 1] = Image[o]
    <3>1. Base(d) + o + 1 \in 1..Len(wire)
      BY <2>2, <2>3, BlockSizeAssumption, SMTT(30) DEF Offsets
    <3> QED BY <1>3, <1>10, <2>3, <3>1 DEF ServerWire
  <2>4. srv_rest' # <<>>
    BY <1>2, <1>4
  <2>5. srv_rest' = Cells(m) /\ Len(srv_rest') = ItemSize(m)
    BY <1>2, <1>4
  <2> QED BY <1>2, <1>4, <1>10, <2>1, <2>2, <2>3, <2>4, <2>5 DEF ServerWire
<1> QED BY <1>9, <1>10, <1>11, <1>13, <1>14, <1>15, <1>16 DEF Stream, StreamInv

(* qem_smi_client_flush is entered: the wire grows by zeros up to the end of the
   sender's block, which is not empty, since the end record was just sent.  *)
LEMMA FlushStream ==
    ASSUME TracingTypeOK, RingInv, NEW wire \in Seq(Cell), NEW start \in Seq(Nat),
           NEW c \in Nat, NEW d \in Nat, NEW at \in Nat, Stream(wire, start, c, d, at),
           CallFlush, UNCHANGED cliVars, UNCHANGED readerVars
    PROVE  StreamInv'
<1> DEFINE L == Len(trc_sent)
<1>1. /\ trc_calls # <<>> /\ Head(trc_calls) = "flush" /\ trc_calls' = Tail(trc_calls)
      /\ srv_pc = "idle" /\ UNCHANGED <<qem_tracing_state, trc_sent>>
      /\ srv_index # 0 => srv_pc' = "lock" /\ srv_call' = "flush"
      /\ UNCHANGED <<srv_rest, srv_local, srv_index, srv_next, block_mask, shared_buffer_data, cli_next>>
  BY DEF CallFlush, Flush, sharedVars, cliVars
<1>2. /\ TypeOK /\ trc_sent \in Seq(Items) /\ ServerWire(wire, d) /\ TransitWire(wire, c, d)
      /\ ItemsOK(wire, start, trc_sent) /\ TracerWire(wire, start)
  BY DEF TracingTypeOK, Stream
<1>3. trc_calls = <<"flush">> /\ Expect(trc_sent, L) = "version" /\ qem_tracing_state = {}
  <2>1. Progress(trc_calls, qem_tracing_state # {}, Expect(trc_sent, L))
    BY <1>2 DEF TracerWire
  <2>2. /\ Head(InitSequence) # "flush" /\ Head(CloseSequence) # "flush" /\ Head(<<SIZE>>) # "flush"
        /\ \A r \in Records : Head(<<r>>) # "flush"
    BY RecordsAssumption DEF InitSequence, CloseSequence, VERSION, SIZE, EOS
  <2> QED BY <1>1, <2>1, <2>2 DEF Progress
<1>4. /\ L > 0 /\ trc_sent[L] = EOS /\ Len(wire) = End(trc_sent, start, L) /\ srv_index > 0
  BY <1>1, <1>2, <1>3 DEF TracerWire, FlushDue
<1>5. /\ srv_call = "none" /\ srv_rest = <<>> /\ ~Publishing /\ Publishing'
      /\ srv_call' = "flush" /\ srv_pc' = "lock" /\ trc_calls' = <<>>
  <2>1. srv_index # 0
    BY <1>2, <1>4, BlockSizeAssumption DEF TypeOK
  <2> QED BY <1>1, <1>2, <1>3, <2>1 DEF RingInv, Calls, ServerWire, Publishing
<1>6. /\ Base(d) \in Nat /\ srv_index \in 1..BLOCK_SIZE /\ BLOCK_SIZE \in Nat
      /\ Len(wire) = Base(d) + srv_index
  <2>1. Base(d) \in Nat /\ srv_index \in 1..BLOCK_SIZE /\ BLOCK_SIZE \in Nat
    BY <1>2, <1>4, BaseNext, BlockSizeAssumption DEF TypeOK
  <2>2. SrvPos(d) = Base(d) + srv_index /\ Len(srv_rest) = 0
    BY <1>5 DEF SrvPos
  <2> QED BY <1>2, <2>1, <2>2 DEF ServerWire
<1>7. PICK w \in Seq(Cell) :
        /\ Len(w) = Base(d) + BLOCK_SIZE
        /\ \A i \in 1..Len(w) : w[i] = IF i <= Len(wire) THEN wire[i] ELSE Zero
  <2> DEFINE n == Base(d) + BLOCK_SIZE
             f == [i \in 1..n |-> IF i <= Len(wire) THEN wire[i] ELSE Zero]
  <2>1. n \in Nat
    BY <1>6
  <2>2. f \in [1..n -> Cell]
    <3>1. ASSUME NEW i \in 1..n, i <= Len(wire) PROVE wire[i] \in Cell
      BY <3>1, <2>1
    <3> QED BY <3>1, CellAssumption
  <2>3. f \in Seq(Cell) /\ Len(f) = n
    BY <2>1, <2>2, SeqDef, SMTT(30)
  <2> HIDE DEF n
  <2>4. \A i \in 1..Len(f) : f[i] = IF i <= Len(wire) THEN wire[i] ELSE Zero
    BY <2>3
  <2> QED BY <2>3, <2>4 DEF n
<1>8. /\ Len(wire) <= Len(w)
      /\ \A i \in 1..Len(wire) : w[i] = wire[i]
      /\ \A i \in 1..Len(w) : i > Len(wire) => w[i] = Zero
  BY <1>6, <1>7
<1>9. Extends(w, wire) /\ Extends(start, start) /\ Extends(trc_sent', trc_sent)
  BY <1>1, <1>2, <1>8 DEF Extends
<1>10. ItemsOK(w, start, trc_sent')
  BY <1>1, <1>2, <1>8, ItemsPad
<1>11. ClientWire(w, c)' /\ ReaderWire(w, start, c, at)'
  BY <1>1, <1>2, <1>9, ClientFrame
<1>12. TransitWire(w, c, d)'
  <2>1. Transit' = Transit
    BY <1>1, TransitUnchanged
  <2> QED BY <1>2, <1>9, <2>1, TransitFrame
<1>13. TracerWire(w, start)'
  <2>1. Cut(d, End(trc_sent, start, L))
    BY <1>4, <1>6 DEF Cut
  <2>2. Follows(Len(w), trc_sent, start, L)
    BY <1>2, <1>4, <1>7, <2>1 DEF Follows
  <2>3. <<>> # <<"flush">>
    OBVIOUS
  <2> QED BY <1>1, <1>3, <1>5, <2>2, <2>3 DEF TracerWire, FlushDue, Progress
<1>14. ServerWire(w, d)'
  <2>1. SrvPos(d)' = Base(d) + BLOCK_SIZE /\ srv_rest' = <<>> /\ Len(srv_rest') = 0
    BY <1>1, <1>5 DEF SrvPos
  <2>2. ASSUME NEW o \in Offsets
        PROVE  w[Base(d) + o + 1] = Image'[o]
    <3>1. Image'[o] = IF o >= srv_index THEN Zero ELSE srv_local[o]
      BY <1>1, <1>5 DEF Image
    <3>2. o \in Nat /\ o < BLOCK_SIZE /\ Base(d) + o + 1 \in 1..Len(w)
      BY <1>6, <1>7, SMTT(30) DEF Offsets
    <3>3. CASE o >= srv_index
      BY <1>6, <1>8, <3>1, <3>2, <3>3
    <3>4. CASE o < srv_index
      <4>1. Base(d) + o + 1 \in 1..Len(wire)
        BY <1>6, <3>2, <3>4
      <4>2. Image[o] = srv_local[o] /\ wire[Base(d) + o + 1] = Image[o]
        BY <1>2, <1>5, <3>4 DEF Image, ServerWire
      <4> QED BY <1>6, <1>8, <3>1, <3>2, <3>4, <4>1, <4>2
    <3> QED BY <1>6, <3>2, <3>3, <3>4
  <2> QED BY <1>5, <1>6, <1>7, <2>1, <2>2 DEF ServerWire
<1> QED BY <1>10, <1>11, <1>12, <1>13, <1>14 DEF Stream, StreamInv

(* What send copies into its block are the cells of the wire at that place. *)
LEMMA CopyToBlock ==
    ASSUME TypeOK, RingInv, NEW wire \in Seq(Cell), NEW d \in Nat, ServerWire(wire, d), srv_pc = "send",
           NEW n \in 0..Len(srv_rest), srv_index + n <= BLOCK_SIZE,
           NEW o \in Offsets, o < srv_index + n
    PROVE  Write(srv_local, srv_index, SubSeq(srv_rest, 1, n))[o] = wire[Base(d) + o + 1]
<1>1. /\ srv_index \in 0..BLOCK_SIZE /\ BLOCK_SIZE \in Nat /\ srv_rest \in Seq(Cell) /\ Base(d) \in Nat
      /\ srv_call = "send" /\ ~Publishing /\ o \in Nat /\ Len(srv_rest) \in Nat
  BY BlockSizeAssumption, BaseNext DEF TypeOK, RingInv, Calls, Publishing, Offsets
<1>2. SrvPos(d) = Base(d) + srv_index
  BY <1>1 DEF SrvPos
<1>3. Len(SubSeq(srv_rest, 1, n)) = n /\ \A i \in 1..n : SubSeq(srv_rest, 1, n)[i] = srv_rest[i]
  <2>1. n \in Nat /\ 1 \in Int /\ \A i \in 1..n : srv_rest[i] \in Cell
    BY <1>1
  <2> QED BY <1>1, <2>1, SubSeqProperties
<1>4. CASE o < srv_index
  <2>1. Write(srv_local, srv_index, SubSeq(srv_rest, 1, n))[o] = srv_local[o]
    BY <1>1, <1>3, <1>4 DEF Write
  <2>2. Image[o] = srv_local[o]
    BY <1>1 DEF Image
  <2>3. wire[Base(d) + o + 1] = Image[o]
    BY <1>4 DEF ServerWire
  <2> QED BY <2>1, <2>2, <2>3
<1>5. CASE srv_index <= o
  <2>1. /\ o - srv_index + 1 \in 1..n /\ o - srv_index + 1 \in 1..Len(srv_rest)
        /\ SrvPos(d) + (o - srv_index + 1) = Base(d) + o + 1
    BY <1>1, <1>2, <1>5
  <2>2. Write(srv_local, srv_index, SubSeq(srv_rest, 1, n))[o] = srv_rest[o - srv_index + 1]
    BY <1>1, <1>3, <1>5, <2>1 DEF Write
  <2>3. wire[SrvPos(d) + (o - srv_index + 1)] = srv_rest[o - srv_index + 1]
    BY <2>1 DEF ServerWire
  <2> QED BY <2>1, <2>2, <2>3
<1> QED BY <1>1, <1>4, <1>5

(* The two ends of send's loop: a full block, or the rest of the message.   *)
LEMMA FillStream ==
    ASSUME TracingTypeOK, RingInv, NEW wire \in Seq(Cell), NEW start \in Seq(Nat),
           NEW c \in Nat, NEW d \in Nat, NEW at \in Nat, Stream(wire, start, c, d, at),
           SendFill \/ SendReturn, UNCHANGED cliVars, UNCHANGED tracingVars, UNCHANGED readerVars
    PROVE  Stream(wire, start, c, d, at)'
<1>1. /\ TypeOK /\ ServerWire(wire, d) /\ TransitWire(wire, c, d) /\ ItemsOK(wire, start, trc_sent)
      /\ TracerWire(wire, start) /\ srv_pc = "send"
      /\ UNCHANGED <<block_mask, shared_buffer_data, srv_next, cli_next>>
      /\ UNCHANGED <<qem_tracing_state, trc_calls, trc_sent>>
  BY DEF TracingTypeOK, Stream, SendFill, SendReturn, sharedVars, cliVars, tracingVars
<1>2. /\ srv_index \in 0..BLOCK_SIZE /\ BLOCK_SIZE \in Nat /\ srv_rest \in Seq(Cell) /\ Base(d) \in Nat
      /\ srv_call = "send" /\ ~Publishing /\ Len(srv_rest) \in Nat /\ srv_rest # <<>>
  BY <1>1, BlockSizeAssumption, BaseNext DEF TypeOK, RingInv, Calls, Publishing, ServerWire
<1>3. /\ SrvPos(d) = Base(d) + srv_index /\ Len(wire) = SrvPos(d) + Len(srv_rest)
      /\ \A i \in 1..Len(srv_rest) : wire[SrvPos(d) + i] = srv_rest[i]
  BY <1>1, <1>2 DEF SrvPos, ServerWire
<1>4. TransitWire(wire, c, d)' /\ ItemsOK(wire, start, trc_sent)'
  BY <1>1, TransitUnchanged DEF TransitWire
<1>5. ClientWire(wire, c)' /\ ReaderWire(wire, start, c, at)'
  <2>1. Extends(wire, wire) /\ Extends(start, start) /\ Extends(trc_sent', trc_sent)
    BY <1>1 DEF Extends, TracingTypeOK
  <2> QED BY <1>1, <2>1, ClientFrame DEF TracingTypeOK
<1>6. ASSUME SendFill
      PROVE  ServerWire(wire, d)' /\ TracerWire(wire, start)'
  <2> DEFINE n == BLOCK_SIZE - srv_index
  <2>1. /\ srv_index + Len(srv_rest) > BLOCK_SIZE /\ srv_index' = 0 /\ srv_pc' = "lock"
        /\ srv_call' = srv_call
        /\ srv_local' = Write(srv_local, srv_index, SubSeq(srv_rest, 1, n))
        /\ srv_rest' = SubSeq(srv_rest, n + 1, Len(srv_rest))
    BY <1>6 DEF SendFill
  <2>2. n \in 0..Len(srv_rest) /\ n \in Nat /\ srv_index + n = BLOCK_SIZE /\ Len(srv_rest) - n > 0
    BY <1>2, <2>1
  <2> HIDE DEF n
  <2>3. /\ Len(srv_rest') = Len(srv_rest) - n
        /\ \A i \in 1..(Len(srv_rest) - n) : srv_rest'[i] = srv_rest[n + i]
    <3>1. /\ n + 1 \in Int /\ Len(srv_rest) \in Int /\ n + 1 <= Len(srv_rest) + 1
          /\ \A i \in (n + 1)..Len(srv_rest) : srv_rest[i] \in Cell
      BY <1>2, <2>2
    <3>2. Len(srv_rest') = Len(srv_rest) - (n + 1) + 1
      BY <2>1, <2>2, <3>1, SubSeqProperties
    <3>3. \A i \in 1..(Len(srv_rest) - (n + 1) + 1) : srv_rest'[i] = srv_rest[(n + 1) + i - 1]
      BY <2>1, <2>2, <3>1, SubSeqProperties
    <3>4. ASSUME NEW i \in 1..(Len(srv_rest) - n) PROVE srv_rest'[i] = srv_rest[n + i]
      <4>1. i \in 1..(Len(srv_rest) - (n + 1) + 1) /\ (n + 1) + i - 1 = n + i
        BY <1>2, <2>2
      <4> QED BY <3>3, <4>1
    <3> QED BY <1>2, <2>2, <3>2, <3>4
  <2>4. Publishing' /\ SrvPos(d)' = Base(d) + BLOCK_SIZE
    BY <2>1 DEF Publishing, SrvPos
  <2>5. ASSUME NEW o \in Offsets PROVE wire[Base(d) + o + 1] = Image'[o]
    <3>1. Image'[o] = srv_local'[o]
      BY <1>2, <2>1 DEF Image
    <3>2. o < srv_index + n /\ srv_index + n <= BLOCK_SIZE
      BY <1>2, <2>2 DEF Offsets
    <3> QED BY <1>1, <2>1, <2>2, <3>1, <3>2, CopyToBlock
  <2>6. ASSUME NEW i \in 1..Len(srv_rest') PROVE wire[Base(d) + BLOCK_SIZE + i] = srv_rest'[i]
    <3>1. i \in 1..(Len(srv_rest) - n) /\ n + i \in 1..Len(srv_rest)
      BY <1>2, <2>2, <2>3
    <3>2. Base(d) + srv_index + (n + i) = Base(d) + (srv_index + n) + i
      <4>1. Base(d) \in Nat /\ srv_index \in Nat /\ n \in Nat /\ i \in Nat
        BY <1>2, <2>2, <3>1
      <4> QED BY ONLY <4>1
    <3> QED BY <1>3, <2>2, <2>3, <3>1, <3>2
  <2>7. srv_rest' # <<>> /\ Len(wire) = Base(d) + BLOCK_SIZE + Len(srv_rest')
    <3>1. Len(srv_rest') # 0
      BY <1>2, <2>2, <2>3
    <3>2. srv_rest' # <<>>
      BY <3>1
    <3>3. Len(wire) = Base(d) + (srv_index + n) + (Len(srv_rest) - n)
      <4>1. /\ Base(d) \in Nat /\ srv_index \in Nat /\ n \in Nat /\ Len(srv_rest) \in Nat
            /\ Len(wire) = (Base(d) + srv_index) + Len(srv_rest)
        BY <1>2, <1>3, <2>2
      <4> QED BY ONLY <4>1
    <3> QED BY <2>2, <2>3, <3>2, <3>3
  <2>8. ServerWire(wire, d)'
    BY <1>2, <2>1, <2>4, <2>5, <2>6, <2>7 DEF ServerWire
  <2>9. TracerWire(wire, start)'
    BY <1>1, <2>1 DEF TracerWire, FlushDue
  <2> QED BY <2>8, <2>9
<1>7. ASSUME SendReturn
      PROVE  ServerWire(wire, d)' /\ TracerWire(wire, start)'
  <2>1. /\ srv_index + Len(srv_rest) <= BLOCK_SIZE /\ srv_index' = srv_index + Len(srv_rest)
        /\ srv_pc' = "idle" /\ srv_call' = "none" /\ srv_rest' = <<>>
        /\ srv_local' = Write(srv_local, srv_index, srv_rest)
    BY <1>7 DEF SendReturn
  <2>2. Len(srv_rest) > 0 /\ SubSeq(srv_rest, 1, Len(srv_rest)) = srv_rest /\ Len(srv_rest') = 0
    BY <1>2, <2>1
  <2>3. ~Publishing' /\ SrvPos(d)' = Base(d) + srv_index'
    BY <2>1 DEF Publishing, SrvPos
  <2>4. ASSUME NEW o \in Offsets, o < srv_index' PROVE wire[Base(d) + o + 1] = Image'[o]
    <3>1. Image'[o] = srv_local'[o]
      BY <2>1 DEF Image
    <3>2. Len(srv_rest) \in 0..Len(srv_rest)
      BY <1>2
    <3>3. Write(srv_local, srv_index, SubSeq(srv_rest, 1, Len(srv_rest)))[o] = wire[Base(d) + o + 1]
      BY <1>1, <2>1, <2>4, <3>2, CopyToBlock
    <3> QED BY <2>1, <2>2, <3>1, <3>3
  <2>5. Len(wire) = SrvPos(d)' + Len(srv_rest') /\ srv_index' > 0
    BY <1>2, <1>3, <2>1, <2>2, <2>3
  <2>6. \A i \in 1..Len(srv_rest') : FALSE
    BY <2>2
  <2>7. ServerWire(wire, d)'
    BY <2>1, <2>3, <2>4, <2>5, <2>6 DEF ServerWire
  <2>8. TracerWire(wire, start)'
    BY <1>1, <2>1, <2>5 DEF TracerWire, FlushDue
  <2> QED BY <2>7, <2>8
<1> QED BY <1>4, <1>5, <1>6, <1>7 DEF Stream

(* Publishing moves the sender to the next block of the wire.               *)
LEMMA PublishStream ==
    ASSUME TracingTypeOK, RingInv, NEW wire \in Seq(Cell), NEW start \in Seq(Nat),
           NEW c \in Nat, NEW d \in Nat, NEW at \in Nat, Stream(wire, start, c, d, at),
           ServerPublish, UNCHANGED cliVars, UNCHANGED tracingVars, UNCHANGED readerVars
    PROVE  Stream(wire, start, c, d + 1, at)'
<1>1. /\ TypeOK /\ ServerWire(wire, d) /\ TransitWire(wire, c, d) /\ ItemsOK(wire, start, trc_sent)
      /\ TracerWire(wire, start) /\ srv_pc = "publish"
      /\ UNCHANGED <<qem_tracing_state, trc_calls, trc_sent, srv_rest, srv_local>>
      /\ \/ srv_call = "send" /\ srv_pc' = "send" /\ UNCHANGED <<srv_call, srv_index>>
         \/ srv_call = "flush" /\ srv_pc' = "idle" /\ srv_call' = "none" /\ srv_index' = 0
  BY DEF TracingTypeOK, Stream, ServerPublish, tracingVars
<1>2. /\ BLOCK_SIZE \in Nat /\ Base(d) \in Nat /\ Base(d + 1) = Base(d) + BLOCK_SIZE
      /\ Publishing /\ ~Publishing'
  <2>1. Publishing /\ ~Publishing'
    BY <1>1 DEF Publishing
  <2> QED BY <2>1, BlockSizeAssumption, BaseNext
<1>3. srv_index' = 0
  BY <1>1, <1>2 DEF ServerWire
<1>4. SrvPos(d) = Base(d) + BLOCK_SIZE /\ SrvPos(d + 1)' = SrvPos(d)
  BY <1>2, <1>3 DEF SrvPos
<1>5. ServerWire(wire, d + 1)'
  <2>1. \A o \in Offsets : ~(o < srv_index')
    BY <1>2, <1>3 DEF Offsets
  <2> QED BY <1>1, <1>2, <1>4, <2>1 DEF ServerWire
<1>6. TransitWire(wire, c, d + 1)'
  <2>1. Transit' = Append(Transit, Image) /\ Transit \in Seq(Block)
    BY <1>1, PublishAppends
  <2>2. /\ Len(Transit) \in Nat /\ Len(Transit') = Len(Transit) + 1
        /\ \A i \in 1..Len(Transit) : Transit'[i] = Transit[i]
        /\ Transit'[Len(Transit) + 1] = Image
    BY <2>1, AppendProperties
  <2>3. d = c + (Len(Transit) + 1)
    BY <1>1, <2>2 DEF TransitWire
  <2>4. ASSUME NEW i \in 1..Len(Transit'), NEW o \in Offsets
        PROVE  wire[Base(c + i) + o + 1] = Transit'[i][o]
    <3>1. CASE i \in 1..Len(Transit)
      BY <1>1, <2>2, <3>1 DEF TransitWire
    <3>2. CASE i = Len(Transit) + 1
      BY <1>1, <1>2, <2>2, <2>3, <3>2 DEF ServerWire
    <3> QED BY <2>2, <3>1, <3>2
  <2>5. d + 1 = c + Len(Transit') + 1
    BY <2>2, <2>3
  <2> QED BY <2>4, <2>5 DEF TransitWire
<1>7. TracerWire(wire, start)' /\ ItemsOK(wire, start, trc_sent)'
  BY <1>1 DEF TracerWire, FlushDue
<1>8. ClientWire(wire, c)' /\ ReaderWire(wire, start, c, at)'
  <2>1. Extends(wire, wire) /\ Extends(start, start) /\ Extends(trc_sent', trc_sent)
    BY <1>1 DEF Extends, TracingTypeOK
  <2> QED BY <1>1, <2>1, ClientFrame DEF TracingTypeOK
<1> QED BY <1>5, <1>6, <1>7, <1>8 DEF Stream

(* The client's steps around the mutex, and its copy out of shared memory, leave
   the stream as it is.                                                     *)
LEMMA QuietClient ==
    ASSUME TracingTypeOK, RingInv, NEW wire \in Seq(Cell), NEW start \in Seq(Nat),
           NEW c \in Nat, NEW d \in Nat, NEW at \in Nat, Stream(wire, start, c, d, at),
           \/ ClientLock \/ ClientWait \/ ClientWake \/ ClientReady
           \/ ClientCopy \/ ClientLoad \/ ClientSpurious,
           UNCHANGED srvVars, UNCHANGED tracingVars, UNCHANGED readerVars
    PROVE  Stream(wire, start, c, d, at)'
<1>1. /\ UNCHANGED <<cli_want, cli_got, cli_index>>
      /\ Taking' <=> Taking
      /\ ~Taking => cli_local' = cli_local
      /\ cli_pc' = "idle" <=> cli_pc = "idle"
  BY DEF ClientLock, ClientWait, ClientWake, ClientReady, ClientCopy, ClientLoad, ClientSpurious,
         cliVars, Taking
<1>2. UNCHANGED <<block_mask, shared_buffer_data, srv_next, cli_next>>
  BY DEF ClientLock, ClientWait, ClientWake, ClientReady, ClientCopy, ClientLoad, ClientSpurious,
         cliVars, srvVars, sharedVars
<1>3. UNCHANGED <<trc_sent, rdr_state, rdr_called, rdr_seen>> /\ ReaderSize' = ReaderSize /\ CliPos(c)' = CliPos(c)
  BY <1>1 DEF tracingVars, readerVars, ReaderSize, CliPos
<1>4. TransitWire(wire, c, d)'
  BY <1>2, TransitUnchanged DEF Stream, TransitWire
<1>5. ClientWire(wire, c)'
  BY <1>1 DEF Stream, ClientWire
<1>6. ReaderWire(wire, start, c, at)'
  BY <1>1, <1>3 DEF Stream, ReaderWire
<1>7. ServerWire(wire, d)' /\ ItemsOK(wire, start, trc_sent)' /\ TracerWire(wire, start)'
  BY ServerFrame
<1> QED BY <1>4, <1>5, <1>6, <1>7 DEF Stream

(* qem_smi_receive is entered for the item that is due.                     *)
LEMMA ReceiveStream ==
    ASSUME TracingTypeOK, RingInv, NEW wire \in Seq(Cell), NEW start \in Seq(Nat),
           NEW c \in Nat, NEW d \in Nat, NEW at \in Nat, Stream(wire, start, c, d, at),
           ReaderReceive, UNCHANGED srvVars, UNCHANGED tracingVars
    PROVE  Stream(wire, start, c, d, at)'
<1>1. /\ cli_pc = "idle" /\ cli_pc' = "receive" /\ cli_want' = ReaderSize /\ cli_got' = <<>>
      /\ ~rdr_called /\ rdr_called' /\ UNCHANGED <<rdr_state, rdr_seen, trc_sent, cli_local, cli_index>>
      /\ UNCHANGED <<block_mask, shared_buffer_data, srv_next, cli_next>>
  BY DEF ReaderReceive, Receive, sharedVars, srvVars, tracingVars
<1>2. ~Taking /\ ~Taking' /\ CliPos(c)' = CliPos(c) /\ ReaderSize' = ReaderSize
  BY <1>1 DEF Taking, CliPos, ReaderSize
<1>3. TransitWire(wire, c, d)'
  BY <1>1, TransitUnchanged DEF Stream, TransitWire
<1>4. ClientWire(wire, c)'
  BY <1>1, <1>2 DEF Stream, ClientWire
<1>5. ReaderWire(wire, start, c, at)'
  <2>1. Len(cli_got') = 0 /\ \A i \in 1..Len(cli_got') : FALSE
    BY <1>1
  <2>2. ReaderSize \in Nat /\ ReaderSize > 0
    BY SizesAssumption DEF ReaderSize
  <2>3. at = at + Len(cli_got') /\ Len(cli_got') + cli_want' = ReaderSize /\ cli_want' > 0
    BY <1>1, <2>1, <2>2
  <2>4. CliPos(c)' = at + Len(cli_got')
    BY <1>1, <1>2, <2>3 DEF Stream, ReaderWire
  <2>5. Follows(at, trc_sent, start, Len(rdr_seen))
    BY DEF Stream, ReaderWire
  <2>6. Follows(at, trc_sent, start, Len(rdr_seen))'
    BY <1>1, <2>5
  <2> QED BY <1>1, <1>2, <2>1, <2>3, <2>4, <2>6 DEF Stream, ReaderWire
<1>6. ServerWire(wire, d)' /\ ItemsOK(wire, start, trc_sent)' /\ TracerWire(wire, start)'
  BY ServerFrame
<1> QED BY <1>3, <1>4, <1>5, <1>6 DEF Stream

(* With g the caller has n cells more, and they are the next ones of the wire. *)
Delivers(wire, c, at, n, g) ==
    /\ Len(g) = Len(cli_got) + n
    /\ \A i \in 1..Len(g) : g[i] = wire[at + i]
    /\ Base(c) + (cli_index + n) = at + Len(g)

(* A part of the client's block that goes to the caller continues what he has. *)
LEMMA ReadDelivers ==
    ASSUME TracingTypeOK, NEW wire \in Seq(Cell), NEW start \in Seq(Nat),
           NEW c \in Nat, NEW d \in Nat, NEW at \in Nat, Stream(wire, start, c, d, at),
           cli_pc = "receive", NEW n \in Nat, cli_index + n <= BLOCK_SIZE,
           NEW g \in Seq(Cell), g = cli_got \o Read(cli_local, cli_index, n)
    PROVE  Delivers(wire, c, at, n, g)
<1> DEFINE r == Read(cli_local, cli_index, n)
<1>1. TypeOK /\ ClientWire(wire, c) /\ ReaderWire(wire, start, c, at) /\ rdr_called /\ ~Taking
  BY DEF TracingTypeOK, Stream, ReaderWire, Taking
<1>2. PICK l \in Nat : l = Len(cli_got)
  BY <1>1 DEF TypeOK
<1>3. /\ cli_index \in Nat /\ cli_local \in Block /\ cli_got \in Seq(Cell) /\ Base(c) \in Nat
  BY <1>1, BaseNext, BlockSizeAssumption DEF TypeOK
<1>4. r \in Seq(Cell) /\ Len(r) = n /\ \A k \in 1..n : r[k] = cli_local[cli_index + k - 1]
  <2>1. r \in Seq(Cell)
    BY <1>3, ReadType
  <2>2. DOMAIN r = 1..n
    BY DEF Read
  <2>3. Len(r) = n
    BY <2>1, <2>2, LenProperties
  <2> QED BY <2>1, <2>3 DEF Read
<1>5. Base(c) + cli_index = at + l /\ \A i \in 1..l : cli_got[i] = wire[at + i]
  BY <1>2, <1>1 DEF ReaderWire, CliPos
<1> HIDE DEF r
<1>6. /\ Len(g) = l + n
      /\ \A i \in 1..l + n : g[i] = IF i <= l THEN cli_got[i] ELSE r[i - l]
  <2>1. g = cli_got \o r
    BY DEF r
  <2>2. Len(cli_got \o r) = Len(cli_got) + Len(r)
    BY <1>3, <1>4, ConcatProperties
  <2>3. \A i \in 1..Len(cli_got) + Len(r) :
           (cli_got \o r)[i] = IF i <= Len(cli_got) THEN cli_got[i] ELSE r[i - Len(cli_got)]
    BY <1>3, <1>4, ConcatProperties
  <2>4. Len(cli_got) = l /\ Len(r) = n
    BY <1>2, <1>4
  <2> QED BY ONLY <2>1, <2>2, <2>3, <2>4
<1>7. ASSUME NEW i \in 1..Len(g) PROVE g[i] = wire[at + i]
  <2>1. CASE i <= l
    BY <1>3, <1>5, <1>6, <2>1, SMTT(30)
  <2>2. CASE i > l
    <3>1. i \in 1..l + n /\ i - l \in 1..n /\ ~(i <= l)
      BY <1>3, <1>6, <2>2, SMTT(30)
    <3>2. PICK k \in 1..n : k = i - l
      BY <3>1
    <3>3. i = l + k /\ k \in Nat
      BY <1>3, <3>1, <3>2
    <3>4. cli_index + k - 1 \in Offsets
      BY <1>3, BlockSizeAssumption DEF Offsets
    <3>5. wire[Base(c) + (cli_index + k - 1) + 1] = cli_local[cli_index + k - 1]
      BY <1>1, <3>4 DEF ClientWire
    <3>6. Base(c) + (cli_index + k - 1) + 1 = (Base(c) + cli_index) + k /\ at + i = (at + l) + k
      <4>1. Base(c) \in Nat /\ cli_index \in Nat /\ k \in Nat /\ l \in Nat /\ at \in Nat /\ i = l + k
        BY <1>3, <3>3
      <4> QED BY ONLY <4>1
    <3> QED BY <1>4, <1>5, <1>6, <3>1, <3>2, <3>5, <3>6
  <2> QED BY <1>3, <1>6, <2>1, <2>2, SMTT(30)
<1>8. Base(c) + (cli_index + n) = at + (l + n)
  <2>1. Base(c) \in Nat /\ cli_index \in Nat /\ l \in Nat /\ at \in Nat /\ n \in Nat /\ Base(c) + cli_index = at + l
    BY <1>3, <1>5
  <2>2. Base(c) + (cli_index + n) = (Base(c) + cli_index) + n
    BY ONLY <2>1
  <2>3. (at + l) + n = at + (l + n)
    BY ONLY <2>1
  <2> QED BY <2>1, <2>2, <2>3, Zenon
<1> QED BY <1>2, <1>6, <1>7, <1>8 DEF Delivers

(* The two ends of receive's loop: the end of the block, or the rest of the item. *)
LEMMA DeliverStream ==
    ASSUME TracingTypeOK, TypeOK', RingInv, NEW wire \in Seq(Cell), NEW start \in Seq(Nat),
           NEW c \in Nat, NEW d \in Nat, NEW at \in Nat, Stream(wire, start, c, d, at),
           ReceiveDrain \/ ReceiveReturn, UNCHANGED srvVars, UNCHANGED tracingVars, UNCHANGED readerVars
    PROVE  Stream(wire, start, c, d, at)'
<1>1. /\ TypeOK /\ TransitWire(wire, c, d) /\ ClientWire(wire, c) /\ ReaderWire(wire, start, c, at)
      /\ cli_pc = "receive" /\ cli_pc' \in {"lock", "idle"} /\ cli_local' = cli_local
      /\ UNCHANGED <<block_mask, shared_buffer_data, srv_next, cli_next>>
      /\ UNCHANGED <<trc_sent, rdr_state, rdr_called, rdr_seen>>
  BY DEF TracingTypeOK, Stream, ReceiveDrain, ReceiveReturn, sharedVars, srvVars, tracingVars, readerVars
<1>2. /\ cli_index \in 0..BLOCK_SIZE /\ BLOCK_SIZE \in Nat /\ cli_want \in Nat /\ cli_got \in Seq(Cell)
      /\ Len(cli_got) \in Nat /\ Base(c) \in Nat /\ cli_got' \in Seq(Cell)
  BY <1>1, BlockSizeAssumption, BaseNext DEF TypeOK
<1>3. /\ rdr_called /\ cli_want > 0 /\ Len(cli_got) + cli_want = ReaderSize /\ ~Taking
  BY <1>1 DEF ReaderWire, Taking
<1>4. PICK n \in Nat :
        /\ cli_index + n <= BLOCK_SIZE /\ n <= cli_want
        /\ cli_got' = cli_got \o Read(cli_local, cli_index, n)
        /\ cli_want' = cli_want - n
        /\ \/ cli_pc' = "lock" /\ cli_index' = 0 /\ n < cli_want /\ cli_index + n = BLOCK_SIZE
           \/ cli_pc' = "idle" /\ cli_index' = cli_index + n /\ n = cli_want
  <2>1. CASE ReceiveDrain
    <3>1. /\ cli_index + cli_want > BLOCK_SIZE /\ cli_pc' = "lock" /\ cli_index' = 0
          /\ cli_got' = cli_got \o Read(cli_local, cli_index, BLOCK_SIZE - cli_index)
          /\ cli_want' = cli_want - (BLOCK_SIZE - cli_index)
      BY <2>1 DEF ReceiveDrain
    <3>2. /\ BLOCK_SIZE - cli_index \in Nat /\ cli_index + (BLOCK_SIZE - cli_index) = BLOCK_SIZE
          /\ BLOCK_SIZE - cli_index < cli_want
      BY <1>2, <3>1
    <3>3. PICK n \in Nat : n = BLOCK_SIZE - cli_index
      BY <3>2
    <3>4. cli_index + n <= BLOCK_SIZE /\ n < cli_want /\ n <= cli_want /\ cli_index + n = BLOCK_SIZE
      BY <1>2, <3>2, <3>3
    <3>5. cli_got' = cli_got \o Read(cli_local, cli_index, n) /\ cli_want' = cli_want - n
      BY <3>1, <3>3
    <3> QED BY ONLY <3>1, <3>4, <3>5, n \in Nat
  <2>2. CASE ReceiveReturn
    <3>1. /\ cli_index + cli_want <= BLOCK_SIZE /\ cli_pc' = "idle" /\ cli_index' = cli_index + cli_want
          /\ cli_got' = cli_got \o Read(cli_local, cli_index, cli_want) /\ cli_want' = 0
      BY <2>2 DEF ReceiveReturn
    <3> QED BY <1>2, <3>1, SMTT(30)
  <2> QED BY <2>1, <2>2
<1>5. /\ Len(cli_got') = Len(cli_got) + n
      /\ \A i \in 1..Len(cli_got') : cli_got'[i] = wire[at + i]
      /\ Base(c) + (cli_index + n) = at + Len(cli_got')
  <2>1. PICK g \in Seq(Cell) : g = cli_got'
    BY <1>2
  <2>2. g = cli_got \o Read(cli_local, cli_index, n) /\ cli_index + n <= BLOCK_SIZE
    BY <1>4, <2>1
  <2>3. Delivers(wire, c, at, n, g)
    BY <1>1, <2>2, ReadDelivers
  <2> QED BY <2>1, <2>3 DEF Delivers
<1>6. CliPos(c)' = Base(c) + (cli_index + n) /\ (Taking' => cli_index' = 0)
      /\ IF cli_pc' = "idle" THEN cli_want' = 0 /\ cli_index' > 0 ELSE cli_want' > 0
  <2>1. CASE cli_pc' = "lock"
    <3>1. cli_want' > 0 /\ cli_index' = 0 /\ cli_index + n = BLOCK_SIZE
      BY <1>2, <1>4, <2>1
    <3> QED BY <2>1, <3>1 DEF CliPos, Taking
  <2>2. CASE cli_pc' = "idle"
    <3>1. cli_want' = 0 /\ cli_index' > 0 /\ cli_index' = cli_index + n
      BY <1>2, <1>3, <1>4, <2>2
    <3> QED BY <2>2, <3>1 DEF CliPos, Taking
  <2> QED BY <1>1, <2>1, <2>2
<1>7. ReaderSize' = ReaderSize /\ Len(cli_got') + cli_want' = ReaderSize
  <2>1. ReaderSize' = ReaderSize
    BY <1>1 DEF ReaderSize
  <2>2. (Len(cli_got) + n) + (cli_want - n) = Len(cli_got) + cli_want
    BY <1>2
  <2> QED BY <1>3, <1>4, <1>5, <2>1, <2>2
<1>8. ReaderWire(wire, start, c, at)'
  BY <1>1, <1>3, <1>5, <1>6, <1>7 DEF ReaderWire
<1>9. TransitWire(wire, c, d)' /\ ClientWire(wire, c)'
  BY <1>1, <1>3, <1>6, TransitUnchanged DEF TransitWire, ClientWire
<1>10. ServerWire(wire, d)' /\ ItemsOK(wire, start, trc_sent)' /\ TracerWire(wire, start)'
  BY ServerFrame
<1> QED BY <1>8, <1>9, <1>10 DEF Stream

(* Releasing moves the client to the next block of the wire.                *)
LEMMA ReleaseStream ==
    ASSUME TracingTypeOK, RingInv, NEW wire \in Seq(Cell), NEW start \in Seq(Nat),
           NEW c \in Nat, NEW d \in Nat, NEW at \in Nat, Stream(wire, start, c, d, at),
           ClientRelease, UNCHANGED srvVars, UNCHANGED tracingVars, UNCHANGED readerVars
    PROVE  Stream(wire, start, c + 1, d, at)'
<1>1. /\ TypeOK /\ TransitWire(wire, c, d) /\ ClientWire(wire, c) /\ ReaderWire(wire, start, c, at)
      /\ cli_pc = "release" /\ cli_pc' = "receive" /\ UNCHANGED <<cli_want, cli_got, cli_local, cli_index>>
      /\ UNCHANGED <<trc_sent, rdr_state, rdr_called, rdr_seen>>
  BY DEF TracingTypeOK, Stream, ClientRelease, tracingVars, readerVars
<1>2. Taking /\ ~Taking' /\ ReaderSize' = ReaderSize /\ cli_index' = 0
  BY <1>1 DEF Taking, ReaderSize, ClientWire
<1>3. CliPos(c + 1)' = CliPos(c)
  <2>1. CliPos(c) = Base(c) + BLOCK_SIZE /\ CliPos(c + 1)' = Base(c + 1) + 0
    BY <1>2 DEF CliPos
  <2>2. Base(c) \in Nat /\ Base(c + 1) = Base(c) + BLOCK_SIZE /\ BLOCK_SIZE \in Nat
    BY BaseNext, BlockSizeAssumption
  <2> QED BY <2>1, <2>2
<1>4. Transit \in Seq(Block) /\ Transit # <<>> /\ Head(Transit) = cli_local /\ Transit' = Tail(Transit)
  BY <1>1, ReleaseDrops
<1>5. /\ Len(Transit) \in Nat \ {0} /\ Len(Transit') = Len(Transit) - 1 /\ Transit[1] = cli_local
      /\ \A i \in 1..Len(Transit') : Transit'[i] = Transit[i + 1]
  BY <1>4
<1>6. TransitWire(wire, c + 1, d)'
  <2>1. d = (c + 1) + Len(Transit') + 1
    BY <1>1, <1>5 DEF TransitWire
  <2>2. ASSUME NEW i \in 1..Len(Transit'), NEW o \in Offsets
        PROVE  wire[Base((c + 1) + i) + o + 1] = Transit'[i][o]
    <3>1. i + 1 \in 1..Len(Transit) /\ (c + 1) + i = c + (i + 1)
      BY <1>5
    <3> QED BY <1>1, <1>5, <3>1 DEF TransitWire
  <2> QED BY <2>1, <2>2 DEF TransitWire
<1>7. ClientWire(wire, c + 1)'
  <2>1. 1 \in 1..Len(Transit)
    BY <1>5
  <2> QED BY <1>1, <1>2, <1>5, <2>1 DEF TransitWire, ClientWire
<1>8. ReaderWire(wire, start, c + 1, at)'
  BY <1>1, <1>2, <1>3 DEF ReaderWire
<1>9. ServerWire(wire, d)' /\ ItemsOK(wire, start, trc_sent)' /\ TracerWire(wire, start)'
  BY ServerFrame
<1> QED BY <1>6, <1>7, <1>8, <1>9 DEF Stream

(* The client has received the n-th item as a whole.                        *)
HasRead(start, c, at, n) ==
    /\ n = Len(rdr_seen) + 1 /\ n \in 1..Len(trc_sent)
    /\ cli_got = Cells(trc_sent[n])
    /\ at = start[n] /\ CliPos(c) = End(trc_sent, start, n)
    /\ Fits(trc_sent[n], rdr_state)

(* When receive has returned, the caller has exactly one item, and it is the one
   he asked for: a flush has not put padding there, and the sizes agree.    *)
LEMMA ItemArrived ==
    ASSUME TracingTypeOK, RingInv, NEW wire \in Seq(Cell), NEW start \in Seq(Nat),
           NEW c \in Nat, NEW d \in Nat, NEW at \in Nat, Stream(wire, start, c, d, at),
           rdr_called = TRUE, cli_pc = "idle"
    PROVE  HasRead(start, c, at, Len(rdr_seen) + 1)
<1> DEFINE n == Len(rdr_seen)
           L == Len(trc_sent)
<1>1. /\ TypeOK /\ trc_sent \in Seq(Items) /\ ServerWire(wire, d) /\ TransitWire(wire, c, d)
      /\ ItemsOK(wire, start, trc_sent) /\ TracerWire(wire, start) /\ ReaderWire(wire, start, c, at)
      /\ Len(start) = L
  BY DEF TracingTypeOK, Stream, ItemsOK
<1>2. n \in Nat /\ L \in Nat /\ n <= L /\ cli_got \in Seq(Cell) /\ Len(wire) \in Nat
  <2>1. n \in Nat /\ L \in Nat /\ cli_got \in Seq(Cell) /\ Len(wire) \in Nat
    BY <1>1 DEF TracingTypeOK, TypeOK
  <2>2. n <= L
    BY <1>1 DEF ReaderWire
  <2> QED BY <2>1, <2>2
<1>3. /\ cli_want = 0 /\ Len(cli_got) + cli_want = ReaderSize /\ CliPos(c) = at + Len(cli_got)
      /\ \A i \in 1..Len(cli_got) : cli_got[i] = wire[at + i]
      /\ Follows(at, trc_sent, start, n) /\ rdr_state = Expect(trc_sent, n)
  BY <1>1 DEF ReaderWire
<1>4. ReaderSize \in Nat \ {0} /\ Len(cli_got) = ReaderSize
  <2>1. ReaderSize \in Nat \ {0}
    BY SizesAssumption DEF ReaderSize
  <2>2. Len(cli_got) \in Nat
    BY <1>2
  <2> QED BY <1>3, <2>1, <2>2
<1>5. at + ReaderSize <= Len(wire)
  <2>1. /\ CliPos(c) \in Nat /\ CliPos(c) <= Base(c) + BLOCK_SIZE /\ Base(c) + BLOCK_SIZE <= Base(d)
        /\ Base(d) <= SrvPos(d) /\ SrvPos(d) <= Len(wire) /\ Base(c) \in Nat /\ Base(d) \in Nat
        /\ SrvPos(d) \in Nat
    BY <1>1, StreamBounds
  <2>2. BLOCK_SIZE \in Nat
    BY BlockSizeAssumption
  <2> QED BY <1>2, <1>3, <1>4, <2>1, <2>2
<1>6. n < L
  <2> SUFFICES ASSUME n = L PROVE FALSE
    BY <1>2
  <2>1. CASE ~FlushDue
    <3>1. Follows(Len(wire), trc_sent, start, L) /\ Follows(at, trc_sent, start, L) /\ L \in 0..Len(trc_sent)
      BY <1>1, <1>2, <1>3, <2>1 DEF TracerWire
    <3>2. at = Len(wire)
      BY <1>1, <3>1, FollowsOnce
    <3> QED BY <1>2, <1>4, <1>5, <3>2
  <2>2. CASE FlushDue
    <3>1. L > 0 /\ Len(wire) = End(trc_sent, start, L)
      BY <1>1, <2>2 DEF TracerWire
    <3>2. L \in 1..Len(trc_sent) /\ Follows(at, trc_sent, start, L)
      BY <1>2, <1>3, <3>1
    <3>3. End(trc_sent, start, L) <= at
      BY <1>1, <3>2, FollowsBehind
    <3> QED BY <1>2, <1>4, <1>5, <3>1, <3>3
  <2> QED BY <2>1, <2>2
<1>7. n + 1 \in 1..L /\ (n + 1) - 1 = n /\ n \in 0..Len(trc_sent)
  BY <1>2, <1>6
<1>8. ItemOK(wire, start, trc_sent, n + 1)
  BY <1>1, <1>7 DEF ItemsOK
<1>9. at = start[n + 1]
  <2>1. Follows(start[n + 1], trc_sent, start, n)
    BY <1>7, <1>8 DEF ItemOK
  <2> QED BY <1>1, <1>3, <1>7, <2>1, FollowsOnce
<1>10. Fits(trc_sent[n + 1], rdr_state) /\ trc_sent[n + 1] \in Items
  BY <1>1, <1>3, <1>7, <1>8 DEF ItemOK
<1>11. ItemSize(trc_sent[n + 1]) = ReaderSize
  <2>1. rdr_state \in {"version", "size", "record"}
    BY <1>3 DEF Expect
  <2> QED BY <1>10, <2>1 DEF Fits, ItemSize, ReaderSize, VERSION, SIZE
<1>12. cli_got = Cells(trc_sent[n + 1])
  <2>1. \A i \in 1..ReaderSize : cli_got[i] = Cells(trc_sent[n + 1])[i]
    BY <1>3, <1>4, <1>8, <1>9, <1>11 DEF ItemOK
  <2>2. Cells(trc_sent[n + 1]) \in Seq(Cell) /\ Len(Cells(trc_sent[n + 1])) = ReaderSize
    BY <1>10, <1>11, CellsType
  <2> QED BY <1>2, <1>4, <2>1, <2>2, SeqEqual
<1>13. CliPos(c) = End(trc_sent, start, n + 1)
  BY <1>3, <1>4, <1>9, <1>11 DEF End
<1> QED BY <1>7, <1>9, <1>10, <1>12, <1>13 DEF HasRead

(* Having looked at the item, the client program expects the one behind it. *)
LEMMA LooksAtItem ==
    ASSUME TracingTypeOK, RingInv, NEW wire \in Seq(Cell), NEW start \in Seq(Nat),
           NEW c \in Nat, NEW d \in Nat, NEW at \in Nat, Stream(wire, start, c, d, at),
           NEW n, HasRead(start, c, at, n), NEW x \in Nat, CliPos(c)' = x, Follows(x, trc_sent, start, n),
           UNCHANGED srvVars, UNCHANGED tracingVars, UNCHANGED sharedVars,
           UNCHANGED <<cli_pc, cli_local, cli_next>>, cli_pc = "idle",
           rdr_state' = Expect(trc_sent, n), rdr_called' = FALSE, rdr_seen' = Append(rdr_seen, cli_got)
    PROVE  Stream(wire, start, c, d, x)'
<1>1. /\ UNCHANGED <<block_mask, shared_buffer_data, srv_next, cli_next>> /\ trc_sent' = trc_sent
      /\ ~Taking /\ ~Taking'
  BY DEF srvVars, sharedVars, tracingVars, Taking
<1>2. TransitWire(wire, c, d)' /\ ClientWire(wire, c)'
  BY <1>1, TransitUnchanged DEF Stream, TransitWire, ClientWire
<1>3. /\ Len(rdr_seen) \in Nat /\ Len(rdr_seen') = n /\ rdr_seen'[n] = cli_got /\ n \in 1..Len(trc_sent)
      /\ \A i \in 1..Len(rdr_seen) : rdr_seen'[i] = rdr_seen[i]
      /\ n = Len(rdr_seen) + 1 /\ cli_got = Cells(trc_sent[n]) /\ Len(trc_sent) \in Nat
  <2>1. rdr_seen \in Seq(Seq(Cell)) /\ cli_got \in Seq(Cell) /\ trc_sent \in Seq(Items)
    BY DEF TracingTypeOK, TypeOK
  <2>2. n = Len(rdr_seen) + 1 /\ n \in 1..Len(trc_sent) /\ cli_got = Cells(trc_sent[n])
    BY DEF HasRead
  <2>3. /\ Len(rdr_seen') = Len(rdr_seen) + 1 /\ rdr_seen'[Len(rdr_seen) + 1] = cli_got
        /\ \A i \in 1..Len(rdr_seen) : rdr_seen'[i] = rdr_seen[i]
    BY <2>1, AppendProperties
  <2> QED BY <2>1, <2>2, <2>3
<1>4. ASSUME NEW i \in 1..n PROVE rdr_seen'[i] = Cells(trc_sent[i])
  <2>1. CASE i = n
    BY <1>3, <2>1
  <2>2. CASE i # n
    <3>1. i \in 1..Len(rdr_seen)
      BY <1>3, <2>2
    <3> QED BY <1>3, <3>1 DEF Stream, ReaderWire
  <2> QED BY <2>1, <2>2
<1>5. n <= Len(trc_sent)
  BY <1>3
<1>6. ReaderWire(wire, start, c, x)'
  BY <1>1, <1>3, <1>4, <1>5 DEF ReaderWire
<1>7. ServerWire(wire, d)' /\ ItemsOK(wire, start, trc_sent)' /\ TracerWire(wire, start)'
  BY ServerFrame
<1> QED BY <1>2, <1>6, <1>7 DEF Stream

(* The version, the size and the records pass the client program's tests.   *)
LEMMA WordStream ==
    ASSUME TracingTypeOK, RingInv, NEW wire \in Seq(Cell), NEW start \in Seq(Nat),
           NEW c \in Nat, NEW d \in Nat, NEW at \in Nat, Stream(wire, start, c, d, at),
           ReaderWord \/ ReaderRecord, UNCHANGED srvVars, UNCHANGED tracingVars
    PROVE  StreamInv'
<1>1. /\ cli_pc = "idle" /\ rdr_called = TRUE /\ UNCHANGED cliVars /\ UNCHANGED sharedVars
      /\ rdr_called' = FALSE /\ rdr_seen' = Append(rdr_seen, cli_got)
  BY DEF ReaderWord, ReaderRecord, AtRecord, TracingTypeOK
<1>2. PICK n : n = Len(rdr_seen) + 1
  OBVIOUS
<1>3. HasRead(start, c, at, n)
  BY <1>1, <1>2, ItemArrived
<1>4. /\ n \in 1..Len(trc_sent) /\ cli_got = Cells(trc_sent[n]) /\ Fits(trc_sent[n], rdr_state)
      /\ CliPos(c) = End(trc_sent, start, n)
  BY <1>3 DEF HasRead
<1>5. trc_sent[n] # EOS /\ rdr_state' = Expect(trc_sent, n)
  <2>1. n # 0
    BY <1>4
  <2>2. CASE ReaderWord
    BY <1>4, <2>1, <2>2 DEF ReaderWord, Fits, Expect, VERSION, SIZE, EOS
  <2>3. CASE ReaderRecord
    <3>1. rdr_state = "record" /\ cli_got # Cells(EOS) /\ rdr_state' = rdr_state
      BY <2>3 DEF ReaderRecord, AtEndOfStream, AtRecord
    <3> QED BY <1>4, <2>1, <3>1 DEF Fits, Expect
  <2> QED BY <2>2, <2>3
<1>6. Follows(CliPos(c), trc_sent, start, n)
  <2>1. n # 0
    BY <1>4
  <2> QED BY <1>4, <1>5, <2>1 DEF Follows
<1>7. PICK x \in Nat : x = CliPos(c)
  BY StreamBounds DEF Stream, TracingTypeOK
<1>8. CliPos(c)' = x /\ UNCHANGED <<cli_pc, cli_local, cli_next>>
  BY <1>1, <1>7 DEF CliPos, Taking, cliVars
<1>9. Stream(wire, start, c, d, x)'
  BY <1>1, <1>3, <1>5, <1>6, <1>7, <1>8, LooksAtItem
<1> QED BY <1>9 DEF StreamInv

(* What looks like the end record is the end record, and it ends in the client's
   private block.                                                           *)
LEMMA EndRecord ==
    ASSUME TracingTypeOK, RingInv, NEW wire \in Seq(Cell), NEW start \in Seq(Nat),
           NEW c \in Nat, NEW d \in Nat, NEW at \in Nat, Stream(wire, start, c, d, at),
           AtEndOfStream
    PROVE  \E n \in 1..Len(trc_sent) :
              HasRead(start, c, at, n) /\ trc_sent[n] = EOS /\ Cut(c, End(trc_sent, start, n))
<1>1. cli_pc = "idle" /\ rdr_called = TRUE /\ rdr_state = "record" /\ cli_got = Cells(EOS)
  BY DEF AtEndOfStream, AtRecord, TracingTypeOK
<1>2. PICK n : n = Len(rdr_seen) + 1
  OBVIOUS
<1>3. HasRead(start, c, at, n)
  BY <1>1, <1>2, ItemArrived
<1>4. /\ n \in 1..Len(trc_sent) /\ cli_got = Cells(trc_sent[n]) /\ Fits(trc_sent[n], rdr_state)
      /\ CliPos(c) = End(trc_sent, start, n) /\ trc_sent[n] \in Items
  BY <1>3 DEF HasRead, TracingTypeOK
<1>5. trc_sent[n] = EOS
  BY <1>1, <1>4, RecordsAssumption DEF Fits, Items
<1>6. Cut(c, CliPos(c))
  <2>1. cli_index > 0 /\ CliPos(c) = Base(c) + cli_index
    BY <1>1 DEF Stream, ReaderWire, CliPos, Taking
  <2>2. cli_index \in 0..BLOCK_SIZE /\ Base(c) \in Nat /\ BLOCK_SIZE \in Nat
    BY BaseNext, BlockSizeAssumption DEF TracingTypeOK, TypeOK
  <2> QED BY <2>1, <2>2 DEF Cut
<1> QED BY <1>3, <1>4, <1>5, <1>6

(* Behind the end record the client goes on with the next block, as the sender
   does after its flush.                                                    *)
LEMMA EndStream ==
    ASSUME TracingTypeOK, RingInv, NEW wire \in Seq(Cell), NEW start \in Seq(Nat),
           NEW c \in Nat, NEW d \in Nat, NEW at \in Nat, Stream(wire, start, c, d, at),
           ReaderEndOfStream, UNCHANGED srvVars, UNCHANGED tracingVars
    PROVE  StreamInv'
<1>1. /\ AtEndOfStream /\ cli_pc = "idle" /\ cli_index' = BLOCK_SIZE
      /\ UNCHANGED <<cli_pc, cli_local, cli_next>> /\ UNCHANGED sharedVars
      /\ rdr_state' = "version" /\ rdr_called' = FALSE /\ rdr_seen' = Append(rdr_seen, cli_got)
  BY DEF ReaderEndOfStream, PostServerFlush, AtEndOfStream, AtRecord
<1>2. PICK n \in 1..Len(trc_sent) :
        HasRead(start, c, at, n) /\ trc_sent[n] = EOS /\ Cut(c, End(trc_sent, start, n))
  BY <1>1, EndRecord
<1>3. PICK x \in Nat : x = Base(c) + BLOCK_SIZE
  <2>1. Base(c) + BLOCK_SIZE \in Nat
    BY BaseNext, BlockSizeAssumption
  <2> QED BY <2>1
<1>4. CliPos(c)' = x
  BY <1>1, <1>3 DEF CliPos, Taking
<1>5. n # 0
  OBVIOUS
<1>6. Follows(x, trc_sent, start, n) /\ rdr_state' = Expect(trc_sent, n)
  BY <1>1, <1>2, <1>3, <1>5 DEF Follows, Expect
<1>7. Stream(wire, start, c, d, x)'
  BY <1>1, <1>2, <1>4, <1>6, LooksAtItem
<1> QED BY <1>7 DEF StreamInv

(* Initially the wire is the block malloc gave the client, all of it used up. *)
LEMMA InitStream == InitTracing => StreamInv
<1> SUFFICES ASSUME InitTracing PROVE StreamInv
  OBVIOUS
<1>1. /\ srv_pc = "idle" /\ srv_call = "none" /\ srv_rest = <<>> /\ srv_index = 0
      /\ cli_pc = "idle" /\ cli_index = BLOCK_SIZE /\ cli_local \in Block
      /\ block_mask = {} /\ srv_next = 0 /\ cli_next = 0
      /\ qem_tracing_state = {} /\ trc_calls = <<>> /\ trc_sent = <<>>
      /\ rdr_state = "version" /\ rdr_called = FALSE /\ rdr_seen = <<>>
  BY JunkAssumption DEF InitTracing, Init, InitShared, InitEngine, InitClient
<1>2. BLOCK_SIZE \in Nat \ {0} /\ Base(0) = 0 /\ Base(1) = BLOCK_SIZE
  BY BlockSizeAssumption DEF Base
<1>3. PICK wire \in Seq(Cell) : Len(wire) = BLOCK_SIZE /\ \A i \in 1..BLOCK_SIZE : wire[i] = cli_local[i - 1]
  <2> DEFINE f == [i \in 1..BLOCK_SIZE |-> cli_local[i - 1]]
  <2>1. \A i \in 1..BLOCK_SIZE : i - 1 \in Offsets
    BY <1>2 DEF Offsets
  <2>2. f \in [1..BLOCK_SIZE -> Cell]
    BY <1>1, <2>1 DEF Block
  <2>3. f \in Seq(Cell) /\ Len(f) = BLOCK_SIZE
    BY <1>2, <2>2, SeqDef
  <2> QED BY <2>3
<1>4. ~Publishing /\ ~Taking /\ SrvPos(1) = BLOCK_SIZE + 0 /\ CliPos(0) = 0 + BLOCK_SIZE
  BY <1>1, <1>2 DEF Publishing, Taking, SrvPos, CliPos
<1>5. SrvPos(1) = BLOCK_SIZE /\ CliPos(0) = BLOCK_SIZE
  BY <1>2, <1>4
<1>6. ServerWire(wire, 1)
  <2>1. \A o \in Offsets : ~(o < srv_index)
    BY <1>1, <1>2 DEF Offsets
  <2>2. Len(srv_rest) = 0 /\ \A i \in 1..Len(srv_rest) : FALSE
    BY <1>1
  <2>3. Len(wire) = SrvPos(1) + Len(srv_rest)
    BY <1>2, <1>3, <1>5, <2>2
  <2> QED BY <1>1, <1>4, <2>1, <2>2, <2>3 DEF ServerWire
<1>7. TransitWire(wire, 0, 1)
  <2>1. Pending = 0
    BY <1>1 DEF Pending, ArcLength
  <2>2. Transit = <<>>
    BY <2>1 DEF Transit
  <2>3. Len(Transit) = 0 /\ \A i \in 1..Len(Transit) : FALSE
    BY <2>2
  <2>4. 1 = 0 + Len(Transit) + 1
    BY <2>3
  <2> QED BY <2>3, <2>4 DEF TransitWire
<1>8. ClientWire(wire, 0)
  <2>1. ASSUME NEW o \in Offsets PROVE wire[Base(0) + o + 1] = cli_local[o]
    <3>1. Base(0) + o + 1 = o + 1 /\ o + 1 \in 1..BLOCK_SIZE /\ (o + 1) - 1 = o
      BY <1>2 DEF Offsets
    <3> QED BY <1>3, <3>1
  <2> QED BY <1>4, <2>1 DEF ClientWire
<1>9. Len(trc_sent) = 0 /\ Len(rdr_seen) = 0 /\ <<>> \in Seq(Nat)
  BY <1>1
<1>10. Follows(BLOCK_SIZE, trc_sent, <<>>, 0) /\ Expect(trc_sent, 0) = "version"
  BY DEF Follows, Expect
<1>11. ItemsOK(wire, <<>>, trc_sent)
  BY <1>1, <1>9 DEF ItemsOK
<1>12. TracerWire(wire, <<>>)
  <2>1. <<>> # <<"flush">>
    OBVIOUS
  <2> QED BY <1>1, <1>3, <1>9, <1>10, <2>1 DEF TracerWire, FlushDue, Progress
<1>13. ReaderWire(wire, <<>>, 0, BLOCK_SIZE)
  BY <1>1, <1>5, <1>9, <1>10 DEF ReaderWire
<1>14. Stream(wire, <<>>, 0, 1, BLOCK_SIZE)
  BY <1>6, <1>7, <1>8, <1>11, <1>12, <1>13 DEF Stream
<1> QED BY <1>2, <1>9, <1>14 DEF StreamInv

(* Every step keeps the stream.                                             *)
LEMMA StreamStep ==
    ASSUME TracingTypeOK, TypeOK', RingInv, StreamInv, [NextTracing]_allVars
    PROVE  StreamInv'
<1>1. PICK wire \in Seq(Cell), start \in Seq(Nat), c \in Nat, d \in Nat, at \in Nat :
        Stream(wire, start, c, d, at)
  BY DEF StreamInv
<1>2. ASSUME NEW c2 \in Nat, NEW d2 \in Nat, Stream(wire, start, c2, d2, at)' PROVE StreamInv'
  BY <1>2 DEF StreamInv
<1>3. c + 1 \in Nat /\ d + 1 \in Nat
  OBVIOUS
<1>4. CASE Guest /\ UNCHANGED <<cliVars, readerVars>>
  BY <1>1, <1>2, <1>4, GuestStream
<1>5. CASE CallSend /\ UNCHANGED <<cliVars, readerVars>>
  BY <1>1, <1>5, SendStream
<1>6. CASE CallFlush /\ UNCHANGED <<cliVars, readerVars>>
  BY <1>1, <1>6, FlushStream
<1>7. CASE EngineStep /\ UNCHANGED tracingVars /\ UNCHANGED <<cliVars, readerVars>>
  <2>1. CASE SendFill \/ SendReturn
    BY <1>1, <1>2, <1>7, <2>1, FillStream
  <2>2. CASE ServerPublish
    BY <1>1, <1>2, <1>3, <1>7, <2>2, PublishStream
  <2>3. CASE ServerLock \/ ServerWait \/ ServerWake \/ ServerFree \/ ServerCopy \/ ServerLoad
    BY <1>1, <1>2, <1>7, <2>3, QuietServer
  <2> QED BY <1>7, <2>1, <2>2, <2>3 DEF EngineStep
<1>8. CASE (ReaderReceive \/ ReaderWord \/ ReaderRecord \/ ReaderEndOfStream)
           /\ UNCHANGED <<srvVars, tracingVars>>
  BY <1>1, <1>2, <1>8, ReceiveStream, WordStream, EndStream
<1>9. CASE ClientStep /\ UNCHANGED readerVars /\ UNCHANGED <<srvVars, tracingVars>>
  <2>1. CASE ReceiveDrain \/ ReceiveReturn
    BY <1>1, <1>2, <1>9, <2>1, DeliverStream
  <2>2. CASE ClientRelease
    BY <1>1, <1>2, <1>3, <1>9, <2>2, ReleaseStream
  <2>3. CASE ClientLock \/ ClientWait \/ ClientWake \/ ClientReady \/ ClientCopy \/ ClientLoad
    BY <1>1, <1>2, <1>9, <2>3, QuietClient
  <2> QED BY <1>9, <2>1, <2>2, <2>3 DEF ClientStep
<1>10. CASE ServerSpurious /\ UNCHANGED <<cliVars, tracingVars, readerVars>>
  BY <1>1, <1>2, <1>10, QuietServer
<1>11. CASE ClientSpurious /\ UNCHANGED <<srvVars, tracingVars, readerVars>>
  BY <1>1, <1>2, <1>11, QuietClient
<1>12. CASE UNCHANGED allVars
  <2>1. UNCHANGED sharedVars /\ UNCHANGED srvVars /\ UNCHANGED cliVars /\ UNCHANGED tracingVars /\ UNCHANGED readerVars
    BY <1>12 DEF allVars, vars
  <2>2. ServerWire(wire, d)' /\ ItemsOK(wire, start, trc_sent)' /\ TracerWire(wire, start)'
    BY <1>1, <2>1, ServerFrame
  <2>3. ClientWire(wire, c)' /\ ReaderWire(wire, start, c, at)'
    <3>1. trc_sent' = trc_sent /\ trc_sent \in Seq(Items)
      BY <2>1 DEF tracingVars, TracingTypeOK
    <3>2. Extends(wire, wire) /\ Extends(start, start) /\ Extends(trc_sent', trc_sent)
      BY <3>1 DEF Extends
    <3> QED BY <1>1, <2>1, <3>1, <3>2, ClientFrame
  <2>4. TransitWire(wire, c, d)'
    BY <1>1, <2>1, TransitUnchanged DEF Stream, TransitWire, sharedVars, srvVars, cliVars
  <2> QED BY <1>2, <2>2, <2>3, <2>4 DEF Stream
<1> QED BY <1>4, <1>5, <1>6, <1>7, <1>8, <1>9, <1>10, <1>11, <1>12
        DEF NextTracing, Tracer, Reader

(* At any time there is one sequence of cells of which the sender's block, the
   blocks in transit, the client's block and the caller's buffer are consecutive
   parts, and in which the items lie as qem_trace_smi.c sent them.          *)
THEOREM StreamInvariant == TracingSpec => []StreamInv
<1>1. TracingTypeOK /\ TracingTypeOK' /\ RingInv /\ StreamInv /\ [NextTracing]_allVars => StreamInv'
  BY StreamStep DEF TracingTypeOK
<1> QED BY <1>1, InitStream, TracingTyping, TracingUsesChannel, RingInvariant, PTL DEF TracingSpec

(* The client program (test_smi_client.c) reads, item by item, what the tracer
   sent: nothing is lost, repeated, torn at a block boundary or taken from the
   padding, for any block size, ring size and item sizes.                   *)
THEOREM StreamIsFaithful == TracingSpec => []ReaderSeesWhatWasSent
<1>1. TracingTypeOK /\ StreamInv => ReaderSeesWhatWasSent
  <2> SUFFICES ASSUME TracingTypeOK, StreamInv PROVE ReaderSeesWhatWasSent
    OBVIOUS
  <2>1. PICK wire \in Seq(Cell), start \in Seq(Nat), c \in Nat, d \in Nat, at \in Nat :
          Stream(wire, start, c, d, at)
    BY DEF StreamInv
  <2>2. DOMAIN rdr_seen = 1..Len(rdr_seen)
    BY DEF TracingTypeOK
  <2> QED BY <2>1, <2>2 DEF Stream, ReaderWire, ReaderSeesWhatWasSent
<1> QED BY <1>1, TracingTyping, StreamInvariant, PTL

(* The client program never meets "Wrong stream version" or "Wrong trace size". *)
THEOREM ReaderDoesNotFail == TracingSpec => []ReaderNeverFails
<1>1. StreamInv => ReaderNeverFails
  BY DEF StreamInv, Stream, ReaderWire, Expect, ReaderNeverFails
<1> QED BY <1>1, StreamInvariant, PTL

(* qem_smi_post_server_flush, called at the end record, drops the zeros of the
   flush and nothing else.                                                  *)
THEOREM OnlyPaddingIsDropped == TracingSpec => []FlushDropsOnlyPadding
<1>1. TracingTypeOK /\ RingInv /\ StreamInv => FlushDropsOnlyPadding
  <2> SUFFICES ASSUME TracingTypeOK, RingInv, StreamInv, AtEndOfStream, NEW i \in Offsets, i >= cli_index
               PROVE  cli_local[i] = Zero
    BY DEF FlushDropsOnlyPadding
  <2>1. PICK wire \in Seq(Cell), start \in Seq(Nat), c \in Nat, d \in Nat, at \in Nat :
          Stream(wire, start, c, d, at)
    BY DEF StreamInv
  <2>2. PICK n \in 1..Len(trc_sent) :
          HasRead(start, c, at, n) /\ trc_sent[n] = EOS /\ Cut(c, End(trc_sent, start, n))
    BY <2>1, EndRecord
  <2>3. End(trc_sent, start, n) = Base(c) + cli_index /\ cli_local[i] = wire[Base(c) + i + 1]
    BY <2>1, <2>2 DEF HasRead, CliPos, Taking, AtEndOfStream, AtRecord, Stream, ClientWire
  <2>4. /\ Base(c) \in Nat /\ BLOCK_SIZE \in Nat /\ cli_index \in Nat /\ i \in Nat /\ i < BLOCK_SIZE
        /\ Base(c) + BLOCK_SIZE <= Len(wire) /\ Len(wire) \in Nat
    <3>1. TypeOK /\ ServerWire(wire, d) /\ TransitWire(wire, c, d) /\ Len(wire) \in Nat
      BY <2>1 DEF TracingTypeOK, Stream
    <3>2. /\ Base(c) \in Nat /\ Base(c) + BLOCK_SIZE <= Base(d) /\ Base(d) \in Nat
          /\ Base(d) <= SrvPos(d) /\ SrvPos(d) <= Len(wire) /\ SrvPos(d) \in Nat
      BY <3>1, StreamBounds
    <3>3. BLOCK_SIZE \in Nat /\ cli_index \in Nat /\ i \in Nat /\ i < BLOCK_SIZE
      BY <3>1, BlockSizeAssumption DEF TypeOK, Offsets
    <3> QED BY <3>1, <3>2, <3>3
  <2>5. PICK x \in Nat : x = Base(c) + i + 1
    BY <2>4
  <2>6. End(trc_sent, start, n) < x /\ x <= Base(c) + BLOCK_SIZE /\ x <= Len(wire)
    BY <2>3, <2>4, <2>5
  <2>7. ItemOK(wire, start, trc_sent, n)
    BY <2>1 DEF Stream, ItemsOK
  <2>8. wire[x] = Zero
    BY <2>2, <2>6, <2>7 DEF ItemOK
  <2> QED BY <2>3, <2>5, <2>8
<1> QED BY <1>1, TracingTyping, TracingUsesChannel, RingInvariant, StreamInvariant, PTL
=============================================================================
