------------------------- MODULE TraceStreamProofs -------------------------
(***************************************************************************)
(* Facts about the stream that the proofs of both file back ends use: what *)
(* fwrite does at the end of the stream and at its start, and how the log  *)
(* is cut into what is in the file and what is missing from it.            *)
(***************************************************************************)
EXTENDS TraceStream, SequenceTheorems, TLAPS

(* A record of the log gives a slot of the stream.                          *)
LEMMA SlotType ==
    /\ \A r \in Record : RecordSlot(r) \in Slot /\ RecordSlot(r)[2] = r
    /\ \A n \in Nat : HeaderSlot(n) \in Slot /\ HeaderSlot(n)[1] = "header"
  BY DEF Slot, RecordSlot, HeaderSlot

(* A function on the first n numbers is a sequence of length n.             *)
LEMMA FunctionIsSeq ==
    ASSUME NEW S, NEW n \in Nat, NEW f \in [1..n -> S]
    PROVE  f \in Seq(S) /\ Len(f) = n
  BY SeqDef

(* A sequence is a function on the first numbers.                           *)
LEMMA SeqIsFunction ==
    ASSUME NEW S, NEW n \in Nat, NEW f \in Seq(S), Len(f) = n
    PROVE  f \in [1..n -> S]
  OBVIOUS

(* What Fwrite makes of a stream f that stands at pos, given n slots: the
   length and the slots.                                                    *)
LEMMA WriteAt ==
    ASSUME NEW f \in Seq(Slot), NEW pos \in 0..Len(f),
           NEW n \in Nat, NEW slots \in [1..n -> Slot],
           NEW len, len = (IF pos + n > Len(f) THEN pos + n ELSE Len(f)),
           NEW g, g = [i \in 1..len |->
                         IF pos < i /\ i <= pos + n THEN slots[i - pos] ELSE f[i]]
    PROVE  /\ g \in Seq(Slot)
           /\ Len(g) = len
           /\ \A i \in 1..len :
                 g[i] = IF pos < i /\ i <= pos + n THEN slots[i - pos] ELSE f[i]
<1>1. len \in Nat /\ pos \in Nat /\ Len(f) \in Nat
  OBVIOUS
<1>2. ASSUME NEW i \in 1..len
      PROVE  (IF pos < i /\ i <= pos + n THEN slots[i - pos] ELSE f[i]) \in Slot
  <2>1. CASE pos < i /\ i <= pos + n
    <3>1. i - pos \in 1..n
      BY <1>1, <2>1
    <3> QED BY <2>1, <3>1
  <2>2. CASE ~(pos < i /\ i <= pos + n)
    <3>1. i \in 1..Len(f)
      BY <1>1, <2>2
    <3> QED BY <2>2, <3>1
  <2> QED BY <2>1, <2>2
<1>3. g \in [1..len -> Slot]
  BY <1>2
<1> QED BY <1>1, <1>3, FunctionIsSeq

(* fwrite of the next records of the log at the end of the stream: the file
   stays a header and the first records, and it grows by as many.           *)
LEMMA FwriteRecords ==
    ASSUME StreamOK, logged \in Seq(Record), logged' \in Seq(Record),
           file # <<>>, file_pos = Len(file),
           NEW n \in Nat, Written + n <= Len(logged),
           NEW slots \in [1..n -> Slot],
           \A i \in 1..n : slots[i] = RecordSlot(logged[Written + i]),
           Len(logged) <= Len(logged'), \A i \in 1..Len(logged) : logged'[i] = logged[i],
           Fwrite(slots)
    PROVE  /\ StreamOK'
           /\ file' # <<>> /\ file_pos' = Len(file')
           /\ Written' = Written + n
           /\ file'[1] = file[1]
<1>1. Len(file) \in Nat /\ Len(file) >= 1 /\ Written = Len(file) - 1
  BY DEF StreamOK, Written
<1>2. /\ file' \in Seq(Slot)
      /\ file_pos' = Len(file) + n
      /\ Len(file') = Len(file) + n
      /\ \A i \in 1..Len(file') :
            file'[i] = IF Len(file) < i /\ i <= Len(file) + n
                         THEN slots[i - Len(file)] ELSE file[i]
  <2>1. Len(slots) = n
    BY FunctionIsSeq
  <2>2. /\ file_pos' = Len(file) + n
        /\ file' = [i \in 1..(Len(file) + n) |-> IF Len(file) < i /\ i <= Len(file) + n
                                                  THEN slots[i - Len(file)] ELSE file[i]]
    BY <1>1, <2>1 DEF Fwrite
  <2>3. Len(file) + n = IF Len(file) + n > Len(file) THEN Len(file) + n ELSE Len(file)
    BY <1>1
  <2> QED BY <1>1, <2>2, <2>3, WriteAt DEF StreamOK
<1>3. file' # <<>> /\ file'[1] = file[1] /\ file_pos' = Len(file') /\ Written' = Written + n
  BY <1>1, <1>2 DEF Written
<1>4. ASSUME NEW i \in 2..Len(file')
      PROVE  i - 1 <= Len(logged') /\ file'[i] = RecordSlot(logged'[i - 1])
  <2>1. CASE i <= Len(file)
    <3>1. i - 1 <= Len(logged) /\ file[i] = RecordSlot(logged[i - 1])
      BY <1>1, <2>1 DEF StreamOK, FileIsPrefix
    <3> QED BY <1>1, <1>2, <2>1, <3>1
  <2>2. CASE i > Len(file)
    <3> DEFINE k == i - Len(file)
    <3>1. k \in 1..n /\ Written + k = i - 1 /\ i - 1 \in 1..Len(logged)
      BY <1>1, <1>2, <2>2
    <3>2. file'[i] = slots[k]
      BY <1>1, <1>2, <2>2
    <3>3. slots[k] = RecordSlot(logged[i - 1])
      BY <3>1
    <3> QED BY <3>1, <3>2, <3>3
  <2> QED BY <1>1, <1>2, <2>1, <2>2
<1>5. file'[1][1] = "header"
  BY <1>3 DEF StreamOK, FileIsPrefix
<1> QED BY <1>2, <1>3, <1>4, <1>5 DEF StreamOK, FileIsPrefix

(* fwrite of the header to an empty stream.                                 *)
LEMMA FwriteFirst ==
    ASSUME file = <<>>, file_pos = 0, NEW size \in Nat, Fwrite(<<HeaderSlot(size)>>)
    PROVE  StreamOK' /\ file' # <<>> /\ Len(file') = 1 /\ file_pos' = 1 /\ Written' = 0
<1> DEFINE slots == <<HeaderSlot(size)>>
<1>1. slots \in [1..1 -> Slot] /\ slots[1] = HeaderSlot(size) /\ Len(slots) = 1
  BY SlotType
<1>2. /\ file_pos' = 1
      /\ file' = [i \in 1..1 |-> IF 0 < i /\ i <= 1 THEN slots[i - 0] ELSE file[i]]
  BY <1>1 DEF Fwrite
<1>3. /\ file' \in Seq(Slot) /\ Len(file') = 1
      /\ \A i \in 1..1 : file'[i] = IF 0 < i /\ i <= 1 THEN slots[i - 0] ELSE file[i]
  <2>1. file \in Seq(Slot) /\ 0 \in 0..Len(file) /\ 1 = IF 0 + 1 > Len(file) THEN 0 + 1 ELSE Len(file)
    OBVIOUS
  <2> QED BY <1>1, <1>2, <2>1, WriteAt
<1>4. file'[1] = HeaderSlot(size)
  BY <1>1, <1>3
<1>5. file' # <<>> /\ Written' = 0
  <2>1. file' \in Seq(Slot) /\ Len(file') = 1
    BY <1>3
  <2> QED BY ONLY <2>1, SMTT(30) DEF Written
<1>6. file'[1][1] = "header"
  BY <1>4, SlotType
<1> QED BY <1>2, <1>3, <1>5, <1>6 DEF StreamOK, FileIsPrefix

(* fwrite of the header at the start of a stream that has one.              *)
LEMMA FwriteHeader ==
    ASSUME StreamOK, file # <<>>, file_pos = 0, NEW size \in Nat, UNCHANGED logged,
           Fwrite(<<HeaderSlot(size)>>)
    PROVE  /\ StreamOK'
           /\ file' # <<>> /\ Len(file') = Len(file) /\ Written' = Written
           /\ file'[1] = HeaderSlot(size)
           /\ \A i \in 2..Len(file) : file'[i] = file[i]
           /\ file_pos' = 1
<1> DEFINE slots == <<HeaderSlot(size)>>
<1>1. slots \in [1..1 -> Slot] /\ slots[1] = HeaderSlot(size)
  BY SlotType
<1>2. Len(file) \in Nat /\ Len(file) >= 1
  BY DEF StreamOK
<1>3. /\ file' \in Seq(Slot)
      /\ file_pos' = 1
      /\ Len(file') = Len(file)
      /\ \A i \in 1..Len(file') :
            file'[i] = IF 0 < i /\ i <= 1 THEN slots[i - 0] ELSE file[i]
  <2>1. Len(slots) = 1
    OBVIOUS
  <2>2. /\ file_pos' = 1
        /\ file' = [i \in 1..Len(file) |-> IF 0 < i /\ i <= 1 THEN slots[i - 0] ELSE file[i]]
    BY <1>2, <2>1 DEF Fwrite
  <2> QED BY <1>1, <1>2, <2>2, WriteAt DEF StreamOK
<1>4. file'[1] = HeaderSlot(size)
  BY <1>1, <1>2, <1>3
<1>5. \A i \in 2..Len(file) : file'[i] = file[i]
  BY <1>2, <1>3
<1>6. file' # <<>> /\ Written' = Written
  BY <1>2, <1>3 DEF Written
<1>7. file'[1][1] = "header"
  BY <1>4, SlotType
<1> QED BY <1>2, <1>3, <1>4, <1>5, <1>6, <1>7 DEF StreamOK, FileIsPrefix

(* A record is added to the log and none to the file.                       *)
LEMMA StreamGrows ==
    ASSUME StreamOK, logged \in Seq(Record), NEW r \in Record,
           logged' = Append(logged, r), UNCHANGED file
    PROVE  /\ StreamOK' /\ Written' = Written
           /\ logged' \in Seq(Record) /\ Len(logged') = Len(logged) + 1
           /\ \A i \in 1..Len(logged) : logged'[i] = logged[i]
           /\ logged'[Len(logged) + 1] = r
<1>1. /\ logged' \in Seq(Record) /\ Len(logged') = Len(logged) + 1
      /\ \A i \in 1..Len(logged) : logged'[i] = logged[i]
      /\ logged'[Len(logged) + 1] = r
  BY AppendProperties
<1>2. ASSUME NEW i \in 2..Len(file), file # <<>>
      PROVE  i - 1 <= Len(logged') /\ file[i] = RecordSlot(logged'[i - 1])
  <2>1. i - 1 <= Len(logged) /\ file[i] = RecordSlot(logged[i - 1]) /\ i - 1 >= 1
    BY <1>2 DEF StreamOK, FileIsPrefix
  <2> QED BY <1>1, <2>1
<1> QED BY <1>1, <1>2 DEF StreamOK, FileIsPrefix, Written

(* The file and the log stay as they are.                                   *)
LEMMA StreamStays ==
    ASSUME StreamOK, UNCHANGED <<file, logged>>
    PROVE  StreamOK' /\ Written' = Written
  BY DEF StreamOK, FileIsPrefix, Written

(* A short fwrite stores the first slots of the ones it was given.          *)
LEMMA ShortSlots ==
    ASSUME NEW n \in Nat, NEW slots \in [1..n -> Slot], FwriteShort(slots)
    PROVE  \E k \in Nat :
              /\ k < n
              /\ SubSeq(slots, 1, k) \in [1..k -> Slot]
              /\ \A i \in 1..k : SubSeq(slots, 1, k)[i] = slots[i]
              /\ Fwrite(SubSeq(slots, 1, k))
<1>1. slots \in Seq(Slot) /\ Len(slots) = n
  BY FunctionIsSeq
<1>2. PICK k \in 0..(n - 1) : Fwrite(SubSeq(slots, 1, k))
  BY <1>1 DEF FwriteShort
<1>3. k \in Nat /\ k < n /\ \A i \in 1..k : slots[i] \in Slot
  BY <1>2
<1>4. /\ SubSeq(slots, 1, k) \in Seq(Slot)
      /\ Len(SubSeq(slots, 1, k)) = k
      /\ \A i \in 1..k : SubSeq(slots, 1, k)[i] = slots[i]
  BY <1>3, SubSeqProperties
<1>5. SubSeq(slots, 1, k) \in [1..k -> Slot]
  BY <1>3, <1>4, SeqIsFunction
<1> QED BY <1>2, <1>3, <1>4, <1>5

(* ------------------------------ the log --------------------------------- *)

(* The file holds the first records of the log, the rest is missing.        *)
LEMMA StoredIsPrefix ==
    ASSUME StreamOK, logged \in Seq(Record)
    PROVE  /\ Written \in Nat /\ Written <= Len(logged)
           /\ Stored \in Seq(Record) /\ Len(Stored) = Written
           /\ Stored = SubSeq(logged, 1, Written)
           /\ Missing = SubSeq(logged, Written + 1, Len(logged))
<1>1. Written \in Nat /\ Written <= Len(logged)
  <2>1. CASE file = <<>>
    BY <2>1 DEF Written
  <2>2. CASE file # <<>>
    <3>1. Len(file) \in Nat /\ Len(file) >= 1 /\ Written = Len(file) - 1
      BY <2>2 DEF StreamOK, Written
    <3>2. Len(file) \in 2..Len(file) => Len(file) - 1 <= Len(logged)
      BY <2>2 DEF StreamOK, FileIsPrefix
    <3> QED BY <3>1, <3>2
  <2> QED BY <2>1, <2>2
<1>2. ASSUME NEW i \in 1..Written
      PROVE  file[i + 1][2] = logged[i] /\ logged[i] \in Record
  <2>1. file # <<>> /\ Written = Len(file) - 1
    BY <1>1 DEF Written
  <2>2. i + 1 \in 2..Len(file)
    BY <2>1 DEF StreamOK
  <2>3. logged[i] \in Record
    BY <1>1
  <2>4. file[i + 1] = RecordSlot(logged[i])
    <3>1. (i + 1) - 1 = i
      BY <1>1
    <3> QED BY <2>1, <2>2, <3>1 DEF StreamOK, FileIsPrefix
  <2> QED BY <2>3, <2>4, SlotType
<1>3. Stored \in [1..Written -> Record]
  BY <1>2 DEF Stored
<1>4. Stored \in Seq(Record) /\ Len(Stored) = Written
  BY <1>1, <1>3, SeqDef
<1>5. \A i \in 1..Written : logged[i] \in Record
  BY <1>2
<1>6. /\ SubSeq(logged, 1, Written) \in Seq(Record)
      /\ Len(SubSeq(logged, 1, Written)) = Written
      /\ \A i \in 1..Written : SubSeq(logged, 1, Written)[i] = logged[i]
  BY <1>1, <1>5, SubSeqProperties
<1>7. \A i \in 1..Written : Stored[i] = logged[i]
  BY <1>2 DEF Stored
<1>8. Stored = SubSeq(logged, 1, Written)
  BY <1>4, <1>6, <1>7, SeqEqual
<1> QED BY <1>1, <1>4, <1>8 DEF Missing

(* Moving the cut between what is stored and what is missing from n to m
   moves the oldest m - n missing records.                                  *)
LEMMA CutMoves ==
    ASSUME NEW s \in Seq(Record), NEW n \in Nat, NEW m \in Nat, n <= m, m <= Len(s),
           NEW p, p = SubSeq(s, n + 1, Len(s))
    PROVE  /\ p \in Seq(Record) /\ Len(p) = Len(s) - n
           /\ SubSeq(s, 1, m) = SubSeq(s, 1, n) \o SubSeq(p, 1, m - n)
           /\ SubSeq(s, m + 1, Len(s)) = SubSeq(p, (m - n) + 1, Len(p))
<1>1. Len(s) \in Nat /\ \A i \in 1..Len(s) : s[i] \in Record
  OBVIOUS
<1>2. /\ p \in Seq(Record) /\ Len(p) = Len(s) - n
      /\ \A i \in 1..(Len(s) - n) : p[i] = s[n + i]
  <2>1. \A i \in (n + 1)..Len(s) : s[i] \in Record
    BY <1>1
  <2> QED BY <1>1, <2>1, SubSeqProperties
<1>3. /\ SubSeq(s, 1, m) \in Seq(Record) /\ Len(SubSeq(s, 1, m)) = m
      /\ \A i \in 1..m : SubSeq(s, 1, m)[i] = s[i]
  <2>1. \A i \in 1..m : s[i] \in Record
    BY <1>1
  <2> QED BY <2>1, SubSeqProperties
<1>4. /\ SubSeq(s, 1, n) \in Seq(Record) /\ Len(SubSeq(s, 1, n)) = n
      /\ \A i \in 1..n : SubSeq(s, 1, n)[i] = s[i]
  <2>1. \A i \in 1..n : s[i] \in Record
    BY <1>1
  <2> QED BY <2>1, SubSeqProperties
<1>5. /\ SubSeq(p, 1, m - n) \in Seq(Record) /\ Len(SubSeq(p, 1, m - n)) = m - n
      /\ \A i \in 1..(m - n) : SubSeq(p, 1, m - n)[i] = s[n + i]
  <2>1. m - n \in Nat /\ \A i \in 1..(m - n) : p[i] \in Record /\ p[i] = s[n + i]
    BY <1>1, <1>2
  <2>2. /\ SubSeq(p, 1, m - n) \in Seq(Record) /\ Len(SubSeq(p, 1, m - n)) = m - n
        /\ \A i \in 1..(m - n) : SubSeq(p, 1, m - n)[i] = p[i]
    BY <2>1, SubSeqProperties
  <2> QED BY <2>1, <2>2
<1>6. SubSeq(s, 1, m) = SubSeq(s, 1, n) \o SubSeq(p, 1, m - n)
  <2> DEFINE cat == SubSeq(s, 1, n) \o SubSeq(p, 1, m - n)
  <2>1. /\ cat \in Seq(Record) /\ Len(cat) = m
        /\ \A i \in 1..m : cat[i] = IF i <= n THEN SubSeq(s, 1, n)[i]
                                      ELSE SubSeq(p, 1, m - n)[i - n]
    BY <1>4, <1>5, ConcatProperties
  <2>2. ASSUME NEW i \in 1..m PROVE cat[i] = s[i]
    <3>1. CASE i <= n
      BY <1>4, <2>1, <3>1
    <3>2. CASE i > n
      <4>1. i - n \in 1..(m - n) /\ n + (i - n) = i
        BY <3>2
      <4> QED BY <1>5, <2>1, <3>2, <4>1
    <3> QED BY <3>1, <3>2
  <2> QED BY <1>3, <2>1, <2>2, SeqEqual
<1>7. SubSeq(s, m + 1, Len(s)) = SubSeq(p, (m - n) + 1, Len(p))
  <2> DEFINE a == SubSeq(s, m + 1, Len(s))
             b == SubSeq(p, (m - n) + 1, Len(p))
  <2>1. /\ a \in Seq(Record) /\ Len(a) = Len(s) - m
        /\ \A i \in 1..(Len(s) - m) : a[i] = s[m + i]
    <3>1. \A i \in (m + 1)..Len(s) : s[i] \in Record
      BY <1>1
    <3> QED BY <1>1, <3>1, SubSeqProperties
  <2>2. /\ b \in Seq(Record) /\ Len(b) = Len(s) - m
        /\ \A i \in 1..(Len(s) - m) : b[i] = p[(m - n) + i]
    <3>1. (m - n) + 1 \in Int /\ Len(p) \in Int
          /\ \A i \in ((m - n) + 1)..Len(p) : p[i] \in Record
      BY <1>1, <1>2
    <3> QED BY <1>1, <1>2, <3>1, SubSeqProperties
  <2>3. ASSUME NEW i \in 1..(Len(s) - m) PROVE b[i] = a[i]
    <3>1. (m - n) + i \in 1..(Len(s) - n) /\ n + ((m - n) + i) = m + i
      BY <1>1
    <3> QED BY <1>2, <2>1, <2>2, <3>1
  <2> QED BY <2>1, <2>2, <2>3, SeqEqual
<1> QED BY <1>2, <1>6, <1>7

(* A record added to the log is the newest one missing.                     *)
LEMMA CutGrows ==
    ASSUME NEW s \in Seq(Record), NEW r \in Record, NEW n \in Nat, n <= Len(s)
    PROVE  /\ SubSeq(Append(s, r), 1, n) = SubSeq(s, 1, n)
           /\ SubSeq(Append(s, r), n + 1, Len(Append(s, r)))
                = Append(SubSeq(s, n + 1, Len(s)), r)
<1> DEFINE t == Append(s, r)
<1>1. Len(s) \in Nat /\ \A i \in 1..Len(s) : s[i] \in Record
  OBVIOUS
<1>2. /\ t \in Seq(Record) /\ Len(t) = Len(s) + 1
      /\ \A i \in 1..Len(s) : t[i] = s[i]
      /\ t[Len(s) + 1] = r
  BY AppendProperties
<1>3. \A i \in 1..Len(t) : t[i] \in Record
  BY <1>2
<1>4. SubSeq(t, 1, n) = SubSeq(s, 1, n)
  <2>1. /\ SubSeq(s, 1, n) \in Seq(Record) /\ Len(SubSeq(s, 1, n)) = n
        /\ \A i \in 1..n : SubSeq(s, 1, n)[i] = s[i]
    <3>1. \A i \in 1..n : s[i] \in Record
      BY <1>1
    <3> QED BY <3>1, SubSeqProperties
  <2>2. /\ SubSeq(t, 1, n) \in Seq(Record) /\ Len(SubSeq(t, 1, n)) = n
        /\ \A i \in 1..n : SubSeq(t, 1, n)[i] = t[i]
    <3>1. \A i \in 1..n : t[i] \in Record
      BY <1>1, <1>2, <1>3
    <3> QED BY <3>1, SubSeqProperties
  <2>3. \A i \in 1..n : t[i] = s[i]
    BY <1>1, <1>2
  <2> QED BY <2>1, <2>2, <2>3, SeqEqual
<1>5. SubSeq(t, n + 1, Len(t)) = Append(SubSeq(s, n + 1, Len(s)), r)
  <2> DEFINE a == SubSeq(t, n + 1, Len(t))
             b == SubSeq(s, n + 1, Len(s))
  <2>1. /\ b \in Seq(Record) /\ Len(b) = Len(s) - n
        /\ \A i \in 1..(Len(s) - n) : b[i] = s[n + i]
    <3>1. \A i \in (n + 1)..Len(s) : s[i] \in Record
      BY <1>1
    <3> QED BY <1>1, <3>1, SubSeqProperties
  <2>2. /\ a \in Seq(Record) /\ Len(a) = (Len(s) - n) + 1
        /\ \A i \in 1..((Len(s) - n) + 1) : a[i] = t[n + i]
    <3>1. \A i \in (n + 1)..Len(t) : t[i] \in Record
      BY <1>2, <1>3
    <3> QED BY <1>1, <1>2, <3>1, SubSeqProperties
  <2>3. /\ Append(b, r) \in Seq(Record) /\ Len(Append(b, r)) = (Len(s) - n) + 1
        /\ \A i \in 1..(Len(s) - n) : Append(b, r)[i] = b[i]
        /\ Append(b, r)[(Len(s) - n) + 1] = r
    BY <2>1, AppendProperties
  <2>4. ASSUME NEW i \in 1..((Len(s) - n) + 1) PROVE a[i] = Append(b, r)[i]
    <3>1. CASE i = (Len(s) - n) + 1
      BY <1>1, <1>2, <2>2, <2>3, <3>1
    <3>2. CASE i # (Len(s) - n) + 1
      <4>1. i \in 1..(Len(s) - n) /\ n + i \in 1..Len(s)
        BY <1>1, <3>2
      <4> QED BY <1>2, <2>1, <2>2, <2>3, <4>1
    <3> QED BY <3>1, <3>2
  <2> QED BY <2>2, <2>3, <2>4, SeqEqual
<1> QED BY <1>4, <1>5

(* The cut, before and after a step.                                        *)
LEMMA StoredIsPrefixNext ==
    (StreamOK /\ logged \in Seq(Record))' =>
        (/\ Written \in Nat /\ Written <= Len(logged)
         /\ Stored = SubSeq(logged, 1, Written)
         /\ Missing = SubSeq(logged, Written + 1, Len(logged)))'
<1>1. StreamOK /\ logged \in Seq(Record) =>
          /\ Written \in Nat /\ Written <= Len(logged)
          /\ Stored = SubSeq(logged, 1, Written)
          /\ Missing = SubSeq(logged, Written + 1, Len(logged))
  BY StoredIsPrefix
<1> QED BY <1>1, PTL

(* A step that leaves the log and the length of the file alone.             *)
LEMMA StoreStays ==
    ASSUME StreamOK, logged \in Seq(Record), StreamOK', UNCHANGED logged, Written' = Written
    PROVE  Stored' = Stored /\ Missing' = Missing
  BY StoredIsPrefix, StoredIsPrefixNext

(* A step that leaves the log alone and adds to the file stores the oldest of
   the missing records.                                                     *)
LEMMA StoreMoves ==
    ASSUME StreamOK, logged \in Seq(Record), StreamOK', UNCHANGED logged, Written < Written'
    PROVE  \E k \in 1..Len(Missing) :
              /\ Stored' = Stored \o SubSeq(Missing, 1, k)
              /\ Missing' = SubSeq(Missing, k + 1, Len(Missing))
<1>1. PICK n \in Nat : /\ n = Written /\ n <= Len(logged)
                       /\ Stored = SubSeq(logged, 1, n)
                       /\ Missing = SubSeq(logged, n + 1, Len(logged))
  BY StoredIsPrefix
<1> DEFINE p == SubSeq(logged, n + 1, Len(logged))
<1> HIDE DEF p
<1>2. PICK m \in Nat : /\ m = Written' /\ m <= Len(logged)
                       /\ Stored' = SubSeq(logged, 1, m)
                       /\ Missing' = SubSeq(logged, m + 1, Len(logged))
  BY StoredIsPrefixNext
<1>3. n < m /\ n <= m /\ m <= Len(logged)
  BY <1>1, <1>2
<1>4. /\ Len(p) = Len(logged) - n
      /\ SubSeq(logged, 1, m) = SubSeq(logged, 1, n) \o SubSeq(p, 1, m - n)
      /\ SubSeq(logged, m + 1, Len(logged)) = SubSeq(p, (m - n) + 1, Len(p))
  BY ONLY n \in Nat, m \in Nat, <1>3, logged \in Seq(Record), CutMoves DEF p
<1>5. m - n \in 1..Len(p)
  BY ONLY n \in Nat, m \in Nat, <1>3, <1>4, logged \in Seq(Record)
<1>6. Missing = p
  BY <1>1 DEF p
<1> QED BY <1>1, <1>2, <1>4, <1>5, <1>6

(* A step that adds a record to the log and stores some of the earlier ones. *)
LEMMA LogMoves ==
    ASSUME StreamOK, logged \in Seq(Record), StreamOK',
           NEW r \in Record, logged' = Append(logged, r),
           Written <= Written', Written' <= Len(logged)
    PROVE  \E k \in 0..Len(Missing) :
              /\ Stored' = Stored \o SubSeq(Missing, 1, k)
              /\ Missing' = Append(SubSeq(Missing, k + 1, Len(Missing)), r)
<1>1. PICK n \in Nat : /\ n = Written /\ n <= Len(logged)
                       /\ Stored = SubSeq(logged, 1, n)
                       /\ Missing = SubSeq(logged, n + 1, Len(logged))
  BY StoredIsPrefix
<1> DEFINE p == SubSeq(logged, n + 1, Len(logged))
<1> HIDE DEF p
<1>2. logged' \in Seq(Record)
  BY AppendProperties
<1>3. PICK m \in Nat : /\ m = Written'
                       /\ Stored' = SubSeq(logged', 1, m)
                       /\ Missing' = SubSeq(logged', m + 1, Len(logged'))
  BY <1>2, StoredIsPrefixNext
<1>4. n <= m /\ m <= Len(logged)
  BY <1>1, <1>3
<1>5. /\ Stored' = SubSeq(logged, 1, m)
      /\ Missing' = Append(SubSeq(logged, m + 1, Len(logged)), r)
  BY <1>3, <1>4, CutGrows
<1>6. /\ Len(p) = Len(logged) - n
      /\ SubSeq(logged, 1, m) = SubSeq(logged, 1, n) \o SubSeq(p, 1, m - n)
      /\ SubSeq(logged, m + 1, Len(logged)) = SubSeq(p, (m - n) + 1, Len(p))
  BY ONLY <1>1, <1>4, logged \in Seq(Record), CutMoves, SMTT(30) DEF p
<1>7. m - n \in 0..Len(p)
  BY ONLY n \in Nat, m \in Nat, <1>4, <1>6, logged \in Seq(Record)
<1>8. Missing = p
  BY <1>1 DEF p
<1> QED BY <1>1, <1>5, <1>6, <1>7, <1>8

(* When all that was output is in the file, nothing is missing.             *)
LEMMA NothingMissing ==
    ASSUME StreamOK, logged \in Seq(Record), Written = Len(logged)
    PROVE  Missing = <<>>
<1>1. Missing = SubSeq(logged, Len(logged) + 1, Len(logged)) /\ Len(logged) \in Nat
  BY StoredIsPrefix
<1> QED BY <1>1, SubSeqEmpty

(* A step after which all that was output is in the file.                   *)
LEMMA CloseMoves ==
    ASSUME StreamOK, logged \in Seq(Record), StreamOK', UNCHANGED logged,
           Written' = Len(logged)
    PROVE  Stored' = Stored \o Missing /\ Missing' = <<>>
<1>1. PICK n \in Nat : /\ n <= Len(logged)
                       /\ Stored = SubSeq(logged, 1, n)
                       /\ Missing = SubSeq(logged, n + 1, Len(logged))
  BY StoredIsPrefix
<1> DEFINE p == SubSeq(logged, n + 1, Len(logged))
<1> HIDE DEF p
<1>2. /\ Stored' = SubSeq(logged, 1, Len(logged))
      /\ Missing' = SubSeq(logged, Len(logged) + 1, Len(logged))
  BY StoredIsPrefixNext
<1>3. /\ p \in Seq(Record) /\ Len(p) = Len(logged) - n
      /\ SubSeq(logged, 1, Len(logged)) = SubSeq(logged, 1, n) \o SubSeq(p, 1, Len(logged) - n)
  <2>1. PICK m \in Nat : m = Len(logged)
    OBVIOUS
  <2>2. n <= m /\ m <= Len(logged)
    BY <1>1, <2>1
  <2>3. /\ p \in Seq(Record) /\ Len(p) = Len(logged) - n
        /\ SubSeq(logged, 1, m) = SubSeq(logged, 1, n) \o SubSeq(p, 1, m - n)
    BY ONLY <2>2, logged \in Seq(Record), n \in Nat, m \in Nat, CutMoves DEF p
  <2> QED BY <2>1, <2>3
<1>4. SubSeq(p, 1, Len(logged) - n) = p
  BY <1>3, SubSeqFull
<1>5. SubSeq(logged, Len(logged) + 1, Len(logged)) = <<>>
  BY SubSeqEmpty
<1>6. Missing = p
  BY <1>1 DEF p
<1> QED BY <1>1, <1>2, <1>3, <1>4, <1>5, <1>6

(* A step to a new session.                                                 *)
LEMMA OpenMoves ==
    ASSUME StreamOK', logged' = <<>>, Written' = 0
    PROVE  Stored' = <<>> /\ Missing' = <<>>
<1>1. logged' \in Seq(Record) /\ Len(logged') = 0
  OBVIOUS
<1>2. Stored' = SubSeq(logged', 1, 0) /\ Missing' = SubSeq(logged', 1, 0)
  BY <1>1, StoredIsPrefixNext
<1> QED BY <1>2, SubSeqEmpty

(* Multiplication distributes: bytes of n + m records.                      *)
LEMMA BytesAdd ==
    ASSUME NEW n \in Nat, NEW m \in Nat
    PROVE  (n + m) * RECORD_BYTES = n * RECORD_BYTES + m * RECORD_BYTES
           /\ n * RECORD_BYTES \in Nat
  BY BytesAssumption
=============================================================================
