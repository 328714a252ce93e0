---------------------------- MODULE ValuesProofs ----------------------------
(***************************************************************************)
(* The circular buffers of Values implement RecentSamples, for any number  *)
(* of instances, any memory and any vectors.                               *)
(*                                                                         *)
(* Every operation on a buffer does one of three things to it: it takes    *)
(* the next place (Advanced), it changes the newest sample where it is     *)
(* (Touched), or it leaves it alone.  The first pushes a sample onto the   *)
(* history, the second amends the newest.  All arithmetic modulo the size  *)
(* of the buffer is in lemma IndexAt.                                      *)
(***************************************************************************)
EXTENDS ValuesProps, TLAPS

(* The place after that of b. *)
NextPos(b, m) == IF b.pos + 1 >= m THEN 0 ELSE b.pos + 1

SameBut(b, c, m, p) ==
  \A k \in 0 .. m - 1 : k # p => c.samps[k] = b.samps[k] /\ c.times[k] = b.times[k]

Advanced(b, c, m) ==
  /\ c.pos = NextPos(b, m)
  /\ c.full <=> b.full \/ b.pos + 1 >= m
  /\ SameBut(b, c, m, c.pos)

Touched(b, c, m) ==
  /\ b.pos >= 0 /\ c.pos = b.pos /\ c.full = b.full
  /\ SameBut(b, c, m, b.pos)

-----------------------------------------------------------------------------
(* The remainder of a number less than twice the divisor. *)
LEMMA Remainder ==
  ASSUME NEW m \in Nat \ {0}, NEW a \in 0 .. 2 * m - 1
  PROVE  a % m = IF a < m THEN a ELSE a - m
  OBVIOUS

(* Where the sample k - 1 places before the newest is. *)
LEMMA IndexAt ==
  ASSUME NEW m \in Nat \ {0}, NEW b \in Buffer(m), b.pos >= 0, NEW k \in 1 .. m
  PROVE  /\ Index(b, m, 1 - k) = IF k - 1 <= b.pos THEN b.pos - (k - 1) ELSE b.pos + m - (k - 1)
         /\ Index(b, m, 1 - k) \in 0 .. m - 1
<1>1. b.pos \in 0 .. m - 1 BY DEF Buffer
<1>2. DEFINE a == b.pos + m + (1 - k)
<1>3. a \in 0 .. 2 * m - 1 BY <1>1
<1>4. a % m = IF a < m THEN a ELSE a - m BY <1>3, Remainder
<1> QED BY <1>1, <1>4 DEF Index

-----------------------------------------------------------------------------
(* What the three kinds of change do to a history of n samples             *)

Remembered(b, m, n) == Shorter(GetNumSamps(b, m), n)

LEMMA RememberedType ==
  ASSUME NEW m \in Nat \ {0}, NEW n \in 0 .. m, NEW b \in Buffer(m)
  PROVE  /\ Remembered(b, m, n) \in 0 .. n
         /\ b.pos >= 0 /\ n > 0 => Remembered(b, m, n) > 0
         /\ b.pos >= 0 \/ Remembered(b, m, n) = 0
  BY DEF Remembered, Shorter, GetNumSamps, Buffer

LEMMA HistoryType ==
  ASSUME NEW m \in Nat \ {0}, NEW n \in 0 .. m, NEW b \in Buffer(m)
  PROVE  /\ History(b, m, n) \in Seq(Sample)
         /\ Len(History(b, m, n)) = Remembered(b, m, n)
         /\ DOMAIN History(b, m, n) = 1 .. Remembered(b, m, n)
<1> DEFINE h == History(b, m, n)
           r == Remembered(b, m, n)
<1>1. h = [k \in 1 .. r |-> SampleAt(b, m, k)] BY DEF History, Remembered
<1>2. r \in 0 .. n /\ (b.pos >= 0 \/ r = 0) BY RememberedType
<1>3. ASSUME NEW k \in 1 .. r PROVE SampleAt(b, m, k) \in Sample
  <2>1. b.pos >= 0 /\ k \in 1 .. m BY <1>2, <1>3
  <2>2. Index(b, m, 1 - k) \in 0 .. m - 1 BY <2>1, IndexAt
  <2>3. b.samps[Index(b, m, 1 - k)] \in Vector /\ b.times[Index(b, m, 1 - k)] \in Times
    BY <2>2 DEF Buffer
  <2> QED BY <2>1, <2>3 DEF SampleAt, Sample, GetValue, GetTime
<1> HIDE DEF h, r
<1>4. h \in [1 .. r -> Sample] BY <1>1, <1>3
<1>5. r \in Nat BY <1>2
<1> QED BY <1>4, <1>5 DEF h, r

LEMMA AdvancedPushes ==
  ASSUME NEW m \in Nat \ {0}, NEW n \in 1 .. m,
         NEW b \in Buffer(m), NEW c \in Buffer(m), Advanced(b, c, m)
  PROVE  \E x \in Sample : History(c, m, n) = Memory!Pushed(History(b, m, n), x, n)
<1> DEFINE x == SampleAt(c, m, 1)
           r == Remembered(b, m, n)
           q == Remembered(c, m, n)
<1>1. b.pos \in -1 .. m - 1 /\ c.pos \in 0 .. m - 1 BY DEF Buffer, Advanced, NextPos
<1>2. q = Shorter(r + 1, n) /\ r \in 0 .. n /\ q \in 1 .. n /\ (b.pos >= 0 \/ r = 0)
  <2>1. b.full \in BOOLEAN /\ (b.pos = -1 => ~b.full) BY DEF Buffer
  <2>5. GetNumSamps(c, m) = IF b.full \/ b.pos + 1 >= m THEN m ELSE b.pos + 2
    BY <1>1 DEF GetNumSamps, Advanced, NextPos
  <2>6. GetNumSamps(b, m) = IF b.full THEN m ELSE b.pos + 1 BY DEF GetNumSamps
  <2>2. CASE b.full
    BY <1>1, <2>1, <2>5, <2>6, <2>2 DEF Remembered, Shorter
  <2>3. CASE ~b.full /\ b.pos + 1 >= m
    BY <1>1, <2>1, <2>5, <2>6, <2>3 DEF Remembered, Shorter
  <2>4. CASE ~b.full /\ b.pos + 1 < m
    BY <1>1, <2>1, <2>5, <2>6, <2>4 DEF Remembered, Shorter
  <2> QED BY <1>1, <2>2, <2>3, <2>4
<1>3. x \in Sample
  <2>1. Index(c, m, 1 - 1) \in 0 .. m - 1 BY <1>1, IndexAt
  <2>2. c.samps[Index(c, m, 1 - 1)] \in Vector /\ c.times[Index(c, m, 1 - 1)] \in Times
    BY <2>1 DEF Buffer
  <2> QED BY <1>1, <2>2 DEF SampleAt, Sample, GetValue, GetTime
<1>4. ASSUME NEW k \in 2 .. q PROVE SampleAt(c, m, k) = SampleAt(b, m, k - 1)
  <2>1. k - 1 \in 1 .. r /\ k \in 1 .. m /\ k - 1 \in 1 .. m /\ b.pos >= 0
    BY <1>2, <1>4 DEF Shorter
  <2>2. Index(c, m, 1 - k) = IF k - 1 <= c.pos THEN c.pos - (k - 1) ELSE c.pos + m - (k - 1)
    BY <1>1, <2>1, IndexAt
  <2>3. Index(b, m, 1 - (k - 1)) = IF k - 2 <= b.pos THEN b.pos - (k - 2) ELSE b.pos + m - (k - 2)
    BY <1>1, <2>1, IndexAt
  <2>4. c.pos = IF b.pos + 1 >= m THEN 0 ELSE b.pos + 1 BY DEF Advanced, NextPos
  <2>5. /\ Index(c, m, 1 - k) = Index(b, m, 1 - (k - 1))
        /\ Index(c, m, 1 - k) \in 0 .. m - 1 /\ Index(c, m, 1 - k) # c.pos
    BY <1>1, <2>1, <2>2, <2>3, <2>4
  <2> QED BY <1>1, <2>1, <2>5 DEF SampleAt, GetValue, GetTime, Advanced, SameBut
<1>5. /\ History(c, m, n) = [k \in 1 .. q |-> SampleAt(c, m, k)]
      /\ History(b, m, n) = [k \in 1 .. r |-> SampleAt(b, m, k)]
      /\ Len(History(b, m, n)) = r
  <2>1. n \in 0 .. m OBVIOUS
  <2>2. Len(History(b, m, n)) = r BY <2>1, HistoryType
  <2> QED BY <2>2 DEF History, Remembered
<1>6. Memory!Pushed(History(b, m, n), x, n) =
        [k \in 1 .. q |-> IF k = 1 THEN x ELSE History(b, m, n)[k - 1]]
  <2>1. Memory!Shorter(r + 1, n) = q BY <1>2 DEF Memory!Shorter, Shorter
  <2> QED BY <1>5, <2>1 DEF Memory!Pushed
<1>7. ASSUME NEW k \in 2 .. q PROVE History(b, m, n)[k - 1] = SampleAt(b, m, k - 1)
  <2>1. k - 1 \in 1 .. r BY <1>2, <1>7 DEF Shorter
  <2> QED BY <1>5, <2>1
<1>8. ASSUME NEW k \in 1 .. q
      PROVE  SampleAt(c, m, k) = IF k = 1 THEN x ELSE History(b, m, n)[k - 1]
  <2>1. CASE k = 1 BY <2>1
  <2>2. CASE k # 1
    <3>1. k \in 2 .. q BY <1>2, <1>8, <2>2
    <3> QED BY <1>4, <1>7, <2>2, <3>1
  <2> QED BY <2>1, <2>2
<1>9. History(c, m, n) = Memory!Pushed(History(b, m, n), x, n) BY <1>5, <1>6, <1>8
<1> QED BY <1>3, <1>9

LEMMA TouchedAmends ==
  ASSUME NEW m \in Nat \ {0}, NEW n \in 1 .. m,
         NEW b \in Buffer(m), NEW c \in Buffer(m), Touched(b, c, m)
  PROVE  /\ History(b, m, n) # <<>>
         /\ \E x \in Sample : History(c, m, n) = [History(b, m, n) EXCEPT ![1] = x]
<1> DEFINE x == SampleAt(c, m, 1)
           r == Remembered(b, m, n)
<1>1. b.pos \in 0 .. m - 1 /\ c.pos = b.pos BY DEF Buffer, Touched
<1>2. r \in 1 .. n /\ Remembered(c, m, n) = r
  <2>1. r \in 1 .. n BY <1>1, RememberedType
  <2>2. Remembered(c, m, n) = r
    BY DEF Touched, Remembered, GetNumSamps
  <2> QED BY <2>1, <2>2
<1>3. x \in Sample
  <2>1. Index(c, m, 1 - 1) \in 0 .. m - 1 BY <1>1, IndexAt
  <2>2. c.samps[Index(c, m, 1 - 1)] \in Vector /\ c.times[Index(c, m, 1 - 1)] \in Times
    BY <2>1 DEF Buffer
  <2> QED BY <1>1, <2>2 DEF SampleAt, Sample, GetValue, GetTime
<1>4. ASSUME NEW k \in 2 .. r PROVE SampleAt(c, m, k) = SampleAt(b, m, k)
  <2>1. k \in 1 .. m BY <1>2
  <2>2. /\ Index(c, m, 1 - k) = Index(b, m, 1 - k)
        /\ Index(c, m, 1 - k) \in 0 .. m - 1 /\ Index(c, m, 1 - k) # b.pos
    <3>1. Index(c, m, 1 - k) = IF k - 1 <= c.pos THEN c.pos - (k - 1) ELSE c.pos + m - (k - 1)
      BY <1>1, <2>1, IndexAt
    <3>2. Index(b, m, 1 - k) = IF k - 1 <= b.pos THEN b.pos - (k - 1) ELSE b.pos + m - (k - 1)
      BY <1>1, <2>1, IndexAt
    <3> QED BY <1>1, <1>4, <2>1, <3>1, <3>2
  <2> QED BY <1>1, <2>2 DEF SampleAt, GetValue, GetTime, Touched, SameBut
<1>5. /\ History(c, m, n) = [k \in 1 .. r |-> SampleAt(c, m, k)]
      /\ History(b, m, n) = [k \in 1 .. r |-> SampleAt(b, m, k)]
      /\ Len(History(b, m, n)) = r
  BY <1>2, HistoryType DEF History, Remembered
<1>6. [History(b, m, n) EXCEPT ![1] = x] =
        [k \in 1 .. r |-> IF k = 1 THEN x ELSE SampleAt(b, m, k)]
  BY <1>5
<1>7. ASSUME NEW k \in 1 .. r
      PROVE  SampleAt(c, m, k) = IF k = 1 THEN x ELSE SampleAt(b, m, k)
  <2>1. CASE k = 1 BY <2>1
  <2>2. CASE k # 1
    <3>1. k \in 2 .. r BY <1>2, <1>7, <2>2
    <3> QED BY <1>4, <2>2, <3>1
  <2> QED BY <2>1, <2>2
<1>8. History(c, m, n) = [History(b, m, n) EXCEPT ![1] = x] BY <1>5, <1>6, <1>7
<1>9. History(b, m, n) # <<>> BY <1>2, <1>5
<1> QED BY <1>3, <1>8, <1>9

-----------------------------------------------------------------------------
(* Operations on a buffer                                                  *)

Raw(m) ==    \* a buffer, or one that an operation is half way through
  [samps : [0 .. m - 1 -> Vector], times : [0 .. m - 1 -> Times],
   known : SUBSET Elements, pos : -1 .. m - 1, full : BOOLEAN]

LEMMA PlacedIsBuffer ==
  ASSUME NEW m \in Nat \ {0}, NEW b \in Raw(m), b.pos >= 0
  PROVE  b \in Buffer(m)
  BY DEF Raw, Buffer

LEMMA BufferIsRaw ==
  ASSUME NEW m \in Nat \ {0}, NEW b \in Buffer(m)
  PROVE  b \in Raw(m) /\ b.pos \in -1 .. m - 1
  BY DEF Raw, Buffer

LEMMA IncrIdxSteps ==
  ASSUME NEW m \in Nat \ {0}, NEW b \in Raw(m), NEW t \in Times,
         NEW c, c = IncrIdx(b, m, t)
  PROVE  /\ c \in Raw(m) /\ c.pos \in 0 .. m - 1 /\ c.known = b.known
         /\ b.pos >= 0 /\ ~AllKnown(b) => c = b
         /\ b.pos < 0 \/ AllKnown(b) => Advanced(b, c, m)
<1>0. b.pos \in -1 .. m - 1 /\ b.full \in BOOLEAN BY DEF Raw
<1>1. PICK T \in [0 .. m - 1 -> Times] :
        T = [b.times EXCEPT ![0] = IF b.pos < 0 THEN t ELSE b.times[0]]
  BY DEF Raw
<1>2. /\ \A k \in 0 .. m - 1 : k # 0 => T[k] = b.times[k]
      /\ b.pos >= 0 => \A k \in 0 .. m - 1 : T[k] = b.times[k]
  BY <1>1 DEF Raw
<1>3. CASE b.pos >= 0 /\ ~AllKnown(b)
  BY <1>0, <1>3 DEF IncrIdx
<1>4. CASE ~(b.pos >= 0 /\ ~AllKnown(b)) /\ b.pos + 1 >= m
  <2>1. c = [b EXCEPT !.times = T, !.pos = 0, !.full = TRUE] BY <1>1, <1>4 DEF IncrIdx
  <2>0. c = [samps |-> b.samps, times |-> T, known |-> b.known, pos |-> 0, full |-> TRUE]
    BY <2>1 DEF Raw
  <2>2. c \in Raw(m) /\ c.samps = b.samps /\ c.times = T /\ c.known = b.known /\ c.pos = 0
        /\ c.full = TRUE
    BY <1>0, <2>0 DEF Raw
  <2>3. Advanced(b, c, m) BY <1>2, <1>4, <2>2 DEF Advanced, NextPos, SameBut
  <2> QED BY <1>4, <2>2, <2>3
<1>5. CASE ~(b.pos >= 0 /\ ~AllKnown(b)) /\ ~(b.pos + 1 >= m)
  <2>1. c = [b EXCEPT !.times = T, !.pos = b.pos + 1] BY <1>1, <1>5 DEF IncrIdx
  <2>2. c = [samps |-> b.samps, times |-> T, known |-> b.known, pos |-> b.pos + 1,
             full |-> b.full]
    BY <2>1 DEF Raw
  <2>3. b.pos + 1 \in 0 .. m - 1 BY <1>0, <1>5
  <2>4. c \in Raw(m) /\ c.samps = b.samps /\ c.times = T /\ c.known = b.known
        /\ c.pos = b.pos + 1 /\ c.full = b.full
    BY <1>0, <2>2, <2>3 DEF Raw
  <2>5. SameBut(b, c, m, c.pos) BY <1>0, <1>2, <2>4 DEF SameBut
  <2>6. Advanced(b, c, m) BY <1>0, <1>5, <2>4, <2>5 DEF Advanced, NextPos
  <2> QED BY <1>5, <2>3, <2>4, <2>6
<1> QED BY <1>3, <1>4, <1>5

(* A sample is written where a buffer stands, or has just advanced to. *)
LEMMA Written ==
  ASSUME NEW m \in Nat \ {0}, NEW b \in Raw(m), b.pos >= 0,
         NEW s \in Vector, NEW t \in Times, NEW E \in SUBSET Elements,
         NEW d, d = [b EXCEPT !.samps[b.pos] = s, !.times[b.pos] = t, !.known = E]
  PROVE  d \in Buffer(m) /\ Touched(b, d, m)
<1>1. b.pos \in 0 .. m - 1 BY DEF Raw
<1>2. /\ d.samps = [b.samps EXCEPT ![b.pos] = s] /\ d.times = [b.times EXCEPT ![b.pos] = t]
      /\ d.known = E /\ d.pos = b.pos /\ d.full = b.full
  BY DEF Raw
<1>3. d \in Raw(m) BY <1>1, <1>2 DEF Raw
<1>4. d \in Buffer(m) BY <1>1, <1>2, <1>3, PlacedIsBuffer
<1>5. Touched(b, d, m) BY <1>1, <1>2 DEF Touched, SameBut, Raw
<1> QED BY <1>4, <1>5

LEMMA AdvancedThenTouched ==
  ASSUME NEW m, NEW b, NEW c, NEW d, Touched(c, d, m)
  PROVE  Advanced(b, c, m) => Advanced(b, d, m)
  BY DEF Advanced, Touched, SameBut

LEMMA SetNextSteps ==
  ASSUME NEW m \in Nat \ {0}, NEW b \in Buffer(m), NEW s \in Vector, NEW t \in Times,
         NEW d, d = SetNext(b, m, s, t)
  PROVE  d \in Buffer(m) /\ Advanced(b, d, m) /\ d.pos \in 0 .. m - 1
<1>0. b \in Raw(m) BY BufferIsRaw
<1>1. PICK a \in Raw(m) : a = [b EXCEPT !.known = Elements] BY <1>0 DEF Raw
<1>2. AllKnown(a) /\ a.pos = b.pos /\ a.full = b.full /\ a.samps = b.samps /\ a.times = b.times
  BY <1>0, <1>1 DEF Raw, AllKnown
<1>3. PICK c : c = IncrIdx(a, m, t) OBVIOUS
<1>4. c \in Raw(m) /\ c.pos \in 0 .. m - 1 /\ c.known = Elements /\ Advanced(a, c, m)
  BY <1>2, <1>3, IncrIdxSteps DEF AllKnown
<1>5. d = [c EXCEPT !.samps[c.pos] = s, !.times[c.pos] = t] BY <1>1, <1>3 DEF SetNext
<1>6. d = [c EXCEPT !.samps[c.pos] = s, !.times[c.pos] = t, !.known = Elements]
  BY <1>4, <1>5 DEF Raw
<1>7. d \in Buffer(m) /\ Touched(c, d, m)
  <2>1. c.pos >= 0 /\ Elements \in SUBSET Elements BY <1>4
  <2> QED BY <1>4, <1>6, <2>1, Written
<1>8. Advanced(b, c, m) BY <1>2, <1>4 DEF Advanced, NextPos, SameBut
<1> QED BY <1>4, <1>7, <1>8, AdvancedThenTouched DEF Touched

LEMMA CoercedSteps ==
  ASSUME NEW m \in Nat \ {0}, NEW b \in Buffer(m), NEW s \in Vector, NEW t \in Times,
         NEW d, d = SetNextCoerced(b, m, s, t)
  PROVE  d \in Buffer(m) /\ (Advanced(b, d, m) \/ Touched(b, d, m))
<1>0. b \in Raw(m) /\ b.pos \in -1 .. m - 1 BY BufferIsRaw
<1>1. PICK c : c = IncrIdx(b, m, t) OBVIOUS
<1>2. c \in Raw(m) /\ c.pos \in 0 .. m - 1 /\ (c = b \/ Advanced(b, c, m))
  BY <1>0, <1>1, IncrIdxSteps
<1>3. d = [c EXCEPT !.samps[c.pos] = s, !.times[c.pos] = t, !.known = Elements]
  BY <1>1 DEF SetNextCoerced
<1>4. d \in Buffer(m) /\ Touched(c, d, m)
  <2>1. c.pos >= 0 /\ Elements \in SUBSET Elements BY <1>2
  <2> QED BY <1>2, <1>3, <2>1, Written
<1> QED BY <1>2, <1>4, AdvancedThenTouched

LEMMA CpyNextSteps ==
  ASSUME NEW m \in Nat \ {0}, NEW b \in Buffer(m), NEW t \in Times,
         NEW c, c = CpyNext(b, m, t)
  PROVE  /\ c \in Buffer(m) /\ c.pos \in 0 .. m - 1
         /\ c = b \/ Advanced(b, c, m)
         /\ GetHasValue(b) => Advanced(b, c, m)
<1>1. b \in Raw(m) /\ b.pos \in -1 .. m - 1 BY BufferIsRaw
<1>2. CASE b.pos < 0
  <2>0. ~(b.pos >= 0) BY <1>1, <1>2
  <2>1. c = IncrIdx(b, m, t) BY <1>2, <2>0 DEF CpyNext
  <2>2. c \in Raw(m) /\ c.pos \in 0 .. m - 1 /\ Advanced(b, c, m)
    BY <1>1, <1>2, <2>1, IncrIdxSteps
  <2>3. c.pos >= 0 BY <2>2
  <2> QED BY <2>2, <2>3, PlacedIsBuffer
<1>3. CASE b.pos >= 0 /\ AllKnown(b)
  <2>1. b.samps[b.pos] \in Vector BY <1>1, <1>3 DEF Raw
  <2>2. c = SetNext(b, m, b.samps[b.pos], t) BY <1>1, <1>3 DEF CpyNext
  <2> QED BY <2>1, <2>2, SetNextSteps
<1>4. CASE b.pos >= 0 /\ ~AllKnown(b)
  <2>1. c = b BY <1>1, <1>4 DEF CpyNext
  <2> QED BY <1>1, <1>4, <2>1 DEF GetHasValue
<1> QED BY <1>1, <1>2, <1>3, <1>4

LEMMA SetElementsSteps ==
  ASSUME NEW m \in Nat \ {0}, NEW c \in Raw(m), c.pos >= 0, NEW new \in Partial,
         NEW d, d = SetElements(c, new)
  PROVE  d \in Buffer(m) /\ Touched(c, d, m)
<1>1. PICK s \in Vector : s = Overwrite(c.samps[c.pos], new)
  <2>1. c.samps[c.pos] \in Vector BY DEF Raw
  <2>2. PICK E \in SUBSET Elements : new \in [E -> Numbers] BY DEF Partial
  <2> QED BY <2>1, <2>2 DEF Overwrite, Vector
<1>2. c.known \cup DOMAIN new \in SUBSET Elements
  <2>1. PICK E \in SUBSET Elements : new \in [E -> Numbers] BY DEF Partial
  <2> QED BY <2>1 DEF Raw
<1>3. c.pos \in 0 .. m - 1 /\ c.times[c.pos] \in Times BY DEF Raw
<1>4. ~(c.pos < 0) BY <1>3
<1>5. d = [c EXCEPT !.samps[c.pos] = s, !.known = c.known \cup DOMAIN new]
  BY <1>1, <1>4 DEF SetElements
<1>6. d = [c EXCEPT !.samps[c.pos] = s, !.times[c.pos] = c.times[c.pos],
                    !.known = c.known \cup DOMAIN new]
  <2>1. [c.times EXCEPT ![c.pos] = c.times[c.pos]] = c.times BY DEF Raw
  <2> QED BY <1>5, <2>1 DEF Raw
<1> QED BY <1>2, <1>3, <1>6, Written

LEMMA ReceiveSteps ==
  ASSUME NEW m \in Nat \ {0}, NEW b \in Buffer(m), NEW new \in Partial, NEW t \in Times,
         NEW c, c = IF GetHasValue(b) THEN CpyNext(b, m, t) ELSE IncrIdx(b, m, t),
         NEW d, d = SetElements(c, new)
  PROVE  d \in Buffer(m) /\ (Advanced(b, d, m) \/ Touched(b, d, m))
<1>1. b \in Raw(m) /\ b.pos \in -1 .. m - 1 BY BufferIsRaw
<1>2. c \in Raw(m) /\ c.pos \in 0 .. m - 1 /\ (c = b \/ Advanced(b, c, m))
  <2>1. CASE GetHasValue(b)
    <3>1. c = CpyNext(b, m, t) BY <2>1
    <3>2. c \in Buffer(m) /\ c.pos \in 0 .. m - 1 /\ (c = b \/ Advanced(b, c, m))
      BY <3>1, CpyNextSteps
    <3> QED BY <3>2, BufferIsRaw
  <2>2. CASE ~GetHasValue(b)
    <3>1. c = IncrIdx(b, m, t) BY <2>2
    <3> QED BY <1>1, <3>1, IncrIdxSteps
  <2> QED BY <2>1, <2>2
<1>3. c.pos >= 0 BY <1>2
<1>4. d \in Buffer(m) /\ Touched(c, d, m) BY <1>2, <1>3, SetElementsSteps
<1> QED BY <1>2, <1>4, AdvancedThenTouched

LEMMA Retimed ==
  ASSUME NEW m \in Nat \ {0}, NEW c \in Raw(m), c.pos >= 0, NEW t \in Times,
         NEW d, d = [c EXCEPT !.times[c.pos] = t]
  PROVE  d \in Buffer(m) /\ Touched(c, d, m)
<1>1. PICK T \in [0 .. m - 1 -> Times] : T = [c.times EXCEPT ![c.pos] = t] BY DEF Raw
<1>2. d = [samps |-> c.samps, times |-> T, known |-> c.known, pos |-> c.pos, full |-> c.full]
  BY <1>1 DEF Raw
<1>3. d \in Raw(m) BY <1>1, <1>2 DEF Raw
<1>4. Touched(c, d, m) BY <1>1, <1>2 DEF Touched, SameBut, Raw
<1>5. d.pos >= 0 BY <1>2
<1> QED BY <1>3, <1>4, <1>5, PlacedIsBuffer

LEMMA EvaluateSteps ==
  ASSUME NEW m \in Nat \ {0}, NEW b \in Buffer(m), NEW new \in Partial, NEW t \in Times,
         NEW c, c = SetElements(CpyNext(b, m, t), new),
         NEW d, d = IF DOMAIN new = {} THEN c ELSE [c EXCEPT !.times[c.pos] = t]
  PROVE  d \in Buffer(m) /\ (Advanced(b, d, m) \/ Touched(b, d, m))
<1>1. PICK a : a = CpyNext(b, m, t) OBVIOUS
<1>2. a \in Buffer(m) /\ a.pos \in 0 .. m - 1 /\ (a = b \/ Advanced(b, a, m))
  BY <1>1, CpyNextSteps
<1>3. c \in Buffer(m) /\ Touched(a, c, m)
  <2>1. a \in Raw(m) /\ a.pos >= 0 BY <1>2, BufferIsRaw
  <2> QED BY <1>1, <2>1, SetElementsSteps
<1>4. Advanced(b, c, m) \/ Touched(b, c, m) BY <1>2, <1>3, AdvancedThenTouched
<1>5. CASE DOMAIN new = {} BY <1>3, <1>4, <1>5
<1>6. CASE DOMAIN new # {}
  <2>1. c \in Raw(m) /\ c.pos >= 0 BY <1>2, <1>3, BufferIsRaw DEF Touched
  <2>2. d = [c EXCEPT !.times[c.pos] = t] BY <1>6
  <2>3. d \in Buffer(m) /\ Touched(c, d, m) BY <2>1, <2>2, Retimed
  <2>4. Touched(b, c, m) => Touched(b, d, m) BY <2>3 DEF Touched, SameBut
  <2> QED BY <1>4, <2>3, <2>4, AdvancedThenTouched
<1> QED BY <1>5, <1>6

(* Giving back a place shows the samples there were, but for the oldest of *)
(* a full buffer: the one that expressions may not ask for.                *)
LEMMA UndoKeeps ==
  ASSUME NEW m \in Nat \ {0}, m > 1, NEW b \in Buffer(m), GetHasValue(b), NEW t \in Times,
         NEW d, d = DecrIdx(CpyNext(b, m, t), m)
  PROVE  d \in Buffer(m) /\ History(d, m, m - 1) = History(b, m, m - 1)
<1>1. PICK c : c = CpyNext(b, m, t) OBVIOUS
<1>2. c \in Buffer(m) /\ c.pos \in 0 .. m - 1 /\ Advanced(b, c, m) BY <1>1, CpyNextSteps
<1>3. b.pos \in 0 .. m - 1 BY DEF GetHasValue, Buffer
<1>4. /\ d.pos = b.pos /\ (d.full <=> c.full) /\ d.samps = c.samps /\ d.times = c.times
      /\ d.known = c.known
  <2>1. d = [c EXCEPT !.pos = IF c.pos - 1 < 0 THEN m - 1 ELSE c.pos - 1] BY <1>1 DEF DecrIdx
  <2>2. c.pos = IF b.pos + 1 >= m THEN 0 ELSE b.pos + 1 BY <1>2 DEF Advanced, NextPos
  <2>3. (IF c.pos - 1 < 0 THEN m - 1 ELSE c.pos - 1) = b.pos BY <1>3, <2>2
  <2>4. d = [c EXCEPT !.pos = b.pos] BY <2>1, <2>3
  <2> QED BY <1>2, <2>4 DEF Buffer
<1>5. d \in Buffer(m)
  <2>1. d = [c EXCEPT !.pos = b.pos]
    <3>1. d = [c EXCEPT !.pos = IF c.pos - 1 < 0 THEN m - 1 ELSE c.pos - 1] BY <1>1 DEF DecrIdx
    <3>2. d.pos = IF c.pos - 1 < 0 THEN m - 1 ELSE c.pos - 1 BY <1>2, <3>1 DEF Buffer
    <3> QED BY <1>4, <3>1, <3>2
  <2>2. c \in Raw(m) BY <1>2, BufferIsRaw
  <2>3. d = [samps |-> c.samps, times |-> c.times, known |-> c.known, pos |-> b.pos,
             full |-> c.full]
    BY <2>1, <2>2 DEF Raw
  <2>4. d \in Raw(m) /\ d.pos >= 0 BY <1>3, <2>2, <2>3 DEF Raw
  <2> QED BY <2>4, PlacedIsBuffer
<1> DEFINE r == Remembered(b, m, m - 1)
<1>6. Remembered(d, m, m - 1) = r /\ r \in 0 .. m - 1 /\ (~b.full => r <= b.pos + 1)
  <2>1. GetNumSamps(b, m) = IF b.full THEN m ELSE b.pos + 1 BY DEF GetNumSamps
  <2>2. GetNumSamps(d, m) = IF b.full \/ b.pos + 1 >= m THEN m ELSE b.pos + 1
    BY <1>2, <1>4 DEF GetNumSamps, Advanced
  <2>3. CASE b.full BY <2>1, <2>2, <2>3 DEF Remembered, Shorter
  <2>4. CASE ~b.full BY <1>3, <2>1, <2>2, <2>4 DEF Remembered, Shorter
  <2> QED BY <2>3, <2>4
<1>7. ASSUME NEW k \in 1 .. r PROVE SampleAt(d, m, k) = SampleAt(b, m, k)
  <2>1. k \in 1 .. m /\ k \in 1 .. m - 1 BY <1>6
  <2>2. Index(b, m, 1 - k) = IF k - 1 <= b.pos THEN b.pos - (k - 1) ELSE b.pos + m - (k - 1)
    BY <1>3, <2>1, IndexAt
  <2>3. Index(d, m, 1 - k) = Index(b, m, 1 - k) BY <1>4 DEF Index
  <2>4. c.pos = IF b.pos + 1 >= m THEN 0 ELSE b.pos + 1 BY <1>2 DEF Advanced, NextPos
  <2>5. Index(b, m, 1 - k) \in 0 .. m - 1 BY <1>3, <2>1, IndexAt
  <2>6. Index(b, m, 1 - k) # c.pos BY <1>3, <1>6, <2>1, <2>2, <2>4
  <2>7. /\ c.samps[Index(b, m, 1 - k)] = b.samps[Index(b, m, 1 - k)]
        /\ c.times[Index(b, m, 1 - k)] = b.times[Index(b, m, 1 - k)]
    BY <1>2, <2>5, <2>6 DEF Advanced, SameBut
  <2> QED BY <1>3, <1>4, <2>3, <2>7 DEF SampleAt, GetValue, GetTime
<1>8. /\ History(d, m, m - 1) = [k \in 1 .. r |-> SampleAt(d, m, k)]
      /\ History(b, m, m - 1) = [k \in 1 .. r |-> SampleAt(b, m, k)]
  BY <1>6 DEF History, Remembered
<1> QED BY <1>5, <1>7, <1>8

LEMMA NewIsEmpty ==
  ASSUME NEW m \in Nat \ {0}, NEW n \in 0 .. m, NEW t \in Times
  PROVE  NewBuffer(m, t) \in Buffer(m) /\ History(NewBuffer(m, t), m, n) = <<>>
<1>1. PICK b : b = NewBuffer(m, t) OBVIOUS
<1>2. b \in Buffer(m)
  <2>1. Cleared \in Vector BY DataAssumption DEF Cleared, Vector
  <2> QED BY <1>1, <2>1, DataAssumption DEF NewBuffer, Buffer
<1>3. b.pos = -1 BY <1>1 DEF NewBuffer
<1>4. Remembered(b, m, n) = 0 BY <1>2, <1>3, RememberedType
<1>5. History(b, m, n) = <<>> BY <1>2, <1>4, HistoryType
<1> QED BY <1>1, <1>2, <1>5

(* More memory for a buffer that was never full. *)
LEMMA GrowKeeps ==
  ASSUME NEW m \in Nat \ {0}, NEW to \in Nat, to >= m, NEW b \in Buffer(m), ~b.full,
         NEW c, c = Resized(b, m, to)
  PROVE  /\ c \in Buffer(to)
         /\ \A n \in 0 .. m, p \in 0 .. to : p >= n =>
              /\ Remembered(b, m, n) <= Remembered(c, to, p)
              /\ Remembered(c, to, p) <= Remembered(b, m, n) + (m - n)
              /\ \A k \in 1 .. Remembered(b, m, n) :
                   History(c, to, p)[k] = History(b, m, n)[k]
<1>0. b \in Raw(m) /\ b.pos \in -1 .. m - 1 BY BufferIsRaw
<1>1. CASE to = m
  <2>1. c = b BY <1>1 DEF Resized
  <2> SUFFICES ASSUME NEW n \in 0 .. m, NEW p \in 0 .. to, p >= n
               PROVE  /\ Remembered(b, m, n) <= Remembered(b, m, p)
                      /\ Remembered(b, m, p) <= Remembered(b, m, n) + (m - n)
                      /\ \A k \in 1 .. Remembered(b, m, n) :
                           History(b, m, p)[k] = History(b, m, n)[k]
    BY <1>1, <2>1
  <2>2. GetNumSamps(b, m) = b.pos + 1 BY DEF GetNumSamps
  <2>3. /\ Remembered(b, m, n) <= Remembered(b, m, p)
        /\ Remembered(b, m, p) <= Remembered(b, m, n) + (m - n)
        /\ Remembered(b, m, n) \in Nat /\ Remembered(b, m, p) \in Nat
    BY <1>0, <1>1, <2>2 DEF Remembered, Shorter
  <2>4. \A k \in 1 .. Remembered(b, m, n) : History(b, m, p)[k] = History(b, m, n)[k]
    BY <2>3 DEF History, Remembered
  <2> QED BY <2>3, <2>4
<1>2. CASE to > m /\ b.pos < 0
  <2>1. c = NewBuffer(to, b.times[0]) BY <1>2 DEF Resized, Grow
  <2>2. b.times[0] \in Times BY <1>0 DEF Raw
  <2>3. to \in Nat \ {0} BY <1>2
  <2>4. c \in Buffer(to) /\ c.pos = -1 BY SMTT(30), <2>1, <2>2, <2>3, NewIsEmpty DEF NewBuffer
  <2>5. ASSUME NEW n \in 0 .. m PROVE Remembered(b, m, n) = 0 BY <1>2, <1>0, RememberedType
  <2>6. ASSUME NEW p \in 0 .. to PROVE Remembered(c, to, p) = 0 BY <2>3, <2>4, RememberedType
  <2> QED BY <2>4, <2>5, <2>6
<1>3. CASE to > m /\ b.pos >= 0
  <2>1. PICK S \in [0 .. to - 1 -> Vector] :
          S = [k \in 0 .. to - 1 |-> IF k <= b.pos THEN b.samps[k] ELSE Cleared]
    <3>1. Cleared \in Vector BY DataAssumption DEF Cleared, Vector
    <3>2. ASSUME NEW k \in 0 .. to - 1
          PROVE  (IF k <= b.pos THEN b.samps[k] ELSE Cleared) \in Vector
      <4>1. CASE k <= b.pos
        <5>1. k \in 0 .. m - 1 BY <1>0, <4>1
        <5> QED BY <1>0, <4>1, <5>1 DEF Raw
      <4>2. CASE ~(k <= b.pos) BY <3>1, <4>2
      <4> QED BY <4>1, <4>2
    <3> QED BY <3>2
  <2>2. PICK T \in [0 .. to - 1 -> Times] :
          T = [k \in 0 .. to - 1 |-> IF k <= b.pos THEN b.times[k] ELSE 0]
    <3>1. ASSUME NEW k \in 0 .. to - 1
          PROVE  (IF k <= b.pos THEN b.times[k] ELSE 0) \in Times
      <4>1. CASE k <= b.pos
        <5>1. k \in 0 .. m - 1 BY <1>0, <4>1
        <5> QED BY <1>0, <4>1, <5>1 DEF Raw
      <4>2. CASE ~(k <= b.pos) BY <4>2, DataAssumption
      <4> QED BY <4>1, <4>2
    <3> QED BY <3>1
  <2>3. c = [b EXCEPT !.samps = S, !.times = T, !.pos = b.pos, !.full = FALSE]
    <3>1. Resized(b, m, to) = Grow(b, m, to) BY <1>3 DEF Resized
    <3>2. ~(b.pos < 0) BY <1>0, <1>3
    <3>3. c = [b EXCEPT
              !.samps = [k \in 0 .. to - 1 |->
                           IF k < 0 THEN b.samps[b.pos + k]
                           ELSE IF k <= 0 + b.pos THEN b.samps[k - 0] ELSE Cleared],
              !.times = [k \in 0 .. to - 1 |->
                           IF k < 0 THEN b.times[b.pos + k]
                           ELSE IF k <= 0 + b.pos THEN b.times[k - 0] ELSE 0],
              !.pos = b.pos + 0, !.full = FALSE]
      BY <3>1, <3>2 DEF Grow
    <3>4. S = [k \in 0 .. to - 1 |->
                 IF k < 0 THEN b.samps[b.pos + k]
                 ELSE IF k <= 0 + b.pos THEN b.samps[k - 0] ELSE Cleared]
      BY <1>0, <2>1
    <3>5. T = [k \in 0 .. to - 1 |->
                 IF k < 0 THEN b.times[b.pos + k]
                 ELSE IF k <= 0 + b.pos THEN b.times[k - 0] ELSE 0]
      BY <1>0, <2>2
    <3>6. b.pos + 0 = b.pos BY <1>0
    <3> QED BY <3>3, <3>4, <3>5, <3>6
  <2>4. c = [samps |-> S, times |-> T, known |-> b.known, pos |-> b.pos, full |-> FALSE]
    BY <1>0, <2>3 DEF Raw
  <2>5. to \in Nat \ {0} /\ b.pos \in 0 .. m - 1 /\ b.pos \in 0 .. to - 1 BY <1>0, <1>3
  <2>6. c \in Buffer(to)
    <3>1. c \in Raw(to) /\ c.pos >= 0 BY <1>0, <2>4, <2>5 DEF Raw
    <3> QED BY <2>5, <3>1, PlacedIsBuffer
  <2> SUFFICES ASSUME NEW n \in 0 .. m, NEW p \in 0 .. to, p >= n
               PROVE  /\ Remembered(b, m, n) <= Remembered(c, to, p)
                      /\ Remembered(c, to, p) <= Remembered(b, m, n) + (m - n)
                      /\ \A k \in 1 .. Remembered(b, m, n) :
                           History(c, to, p)[k] = History(b, m, n)[k]
    BY <2>6
  <2>7. GetNumSamps(b, m) = b.pos + 1 /\ GetNumSamps(c, to) = b.pos + 1
    BY <2>4 DEF GetNumSamps
  <2>8. /\ Remembered(b, m, n) <= Remembered(c, to, p)
        /\ Remembered(c, to, p) <= Remembered(b, m, n) + (m - n)
        /\ Remembered(b, m, n) \in 0 .. b.pos + 1 /\ Remembered(b, m, n) \in 0 .. m
        /\ Remembered(c, to, p) \in Nat
    BY SMTT(30), <2>5, <2>7 DEF Remembered, Shorter
  <2>9. ASSUME NEW k \in 1 .. Remembered(b, m, n)
        PROVE  SampleAt(c, to, k) = SampleAt(b, m, k)
    <3>1. k \in 1 .. m /\ k \in 1 .. to /\ k - 1 <= b.pos BY <1>3, <2>5, <2>8
    <3>2. Index(b, m, 1 - k) = b.pos - (k - 1) BY <2>5, <3>1, IndexAt
    <3>3. Index(c, to, 1 - k) = b.pos - (k - 1)
      <4>1. c.pos = b.pos /\ c.pos >= 0 BY <2>4, <2>5
      <4> QED BY <2>5, <2>6, <3>1, <4>1, IndexAt
    <3>4. b.pos - (k - 1) \in 0 .. to - 1 /\ b.pos - (k - 1) <= b.pos BY <2>5, <3>1
    <3>5. c.samps[b.pos - (k - 1)] = b.samps[b.pos - (k - 1)]
          /\ c.times[b.pos - (k - 1)] = b.times[b.pos - (k - 1)]
      BY <2>1, <2>2, <2>4, <3>4
    <3>6. c.pos = b.pos /\ b.pos >= 0 BY <2>4, <2>5
    <3> QED BY <3>2, <3>3, <3>5, <3>6 DEF SampleAt, GetValue, GetTime
  <2>10. \A k \in 1 .. Remembered(b, m, n) : History(c, to, p)[k] = History(b, m, n)[k]
    <3>1. History(c, to, p) = [k \in 1 .. Remembered(c, to, p) |-> SampleAt(c, to, k)]
          /\ History(b, m, n) = [k \in 1 .. Remembered(b, m, n) |-> SampleAt(b, m, k)]
      BY DEF History, Remembered
    <3> QED BY <2>8, <2>9, <3>1
  <2> QED BY <2>8, <2>10
<1> QED BY <1>0, <1>1, <1>2, <1>3

-----------------------------------------------------------------------------
(* The specification                                                       *)

LEMMA RoomType ==
  ASSUME TypeOK
  PROVE  /\ v.mlen \in Nat \ {0} /\ room \in 1 .. v.mlen
         /\ v.inst \in Seq(Buffer(v.mlen)) /\ v.num_active_inst \in Int
         /\ \A i \in DOMAIN v.inst : v.inst[i] \in Buffer(v.mlen)
  BY DEF TypeOK, room

LEMMA RecentType ==
  ASSUME TypeOK
  PROVE  /\ recent \in Seq(Seq(Sample)) /\ DOMAIN recent = DOMAIN v.inst
         /\ Len(recent) = Len(v.inst)
         /\ \A i \in DOMAIN v.inst : recent[i] = History(v.inst[i], v.mlen, room)
<1>1. v.mlen \in Nat \ {0} /\ room \in 0 .. v.mlen /\ v.inst \in Seq(Buffer(v.mlen))
      /\ \A i \in DOMAIN v.inst : v.inst[i] \in Buffer(v.mlen)
  BY RoomType
<1>2. \A i \in DOMAIN v.inst : History(v.inst[i], v.mlen, room) \in Seq(Sample)
  BY <1>1, HistoryType
<1>3. DOMAIN v.inst = 1 .. Len(v.inst) /\ Len(v.inst) \in Nat BY <1>1
<1>4. recent = [i \in 1 .. Len(v.inst) |-> History(v.inst[i], v.mlen, room)]
  BY <1>3 DEF recent
<1>5. recent \in [1 .. Len(v.inst) -> Seq(Sample)] BY <1>2, <1>3, <1>4
<1>6. recent \in Seq(Seq(Sample)) /\ Len(recent) = Len(v.inst) BY <1>3, <1>5
<1> QED BY <1>3, <1>4, <1>6

(* Instance i gets buffer c. *)
LEMMA BufferStored ==
  ASSUME TypeOK, NEW i \in DOMAIN v.inst, NEW c \in Buffer(v.mlen),
         NEW n \in Int, use' = use, v' = [v EXCEPT !.inst[i] = c, !.num_active_inst = n]
  PROVE  /\ TypeOK' /\ room' = room
         /\ recent' = [recent EXCEPT ![i] = History(c, v.mlen, room)]
<1>1. v.inst \in Seq(Buffer(v.mlen)) /\ v \in [mlen : {v.mlen}, num_active_inst : Int,
                                                inst : Seq(Buffer(v.mlen))]
  BY DEF TypeOK
<1>2. PICK f \in Seq(Buffer(v.mlen)) : f = [v.inst EXCEPT ![i] = c]
  <2>1. v.inst \in [1 .. Len(v.inst) -> Buffer(v.mlen)] /\ Len(v.inst) \in Nat BY <1>1
  <2>2. [v.inst EXCEPT ![i] = c] \in [1 .. Len(v.inst) -> Buffer(v.mlen)] BY <2>1
  <2>3. [v.inst EXCEPT ![i] = c] \in Seq(Buffer(v.mlen)) BY <2>1, <2>2
  <2> QED BY <2>3
<1>3. v' = [mlen |-> v.mlen, num_active_inst |-> n, inst |-> f] BY <1>1, <1>2
<1>4. Len(f) = Len(v.inst) /\ DOMAIN f = DOMAIN v.inst BY <1>1, <1>2
<1>5. v'.mlen = v.mlen /\ v'.inst = f /\ v'.num_active_inst = n BY ONLY <1>3
<1>6. TypeOK' BY <1>3, <1>4, <1>5 DEF TypeOK
<1>7. room' = room BY <1>5 DEF room
<1>8. recent' = [j \in DOMAIN v.inst |-> History(f[j], v.mlen, room)]
  BY <1>4, <1>5, <1>7 DEF recent
<1>9. recent = [j \in DOMAIN v.inst |-> History(v.inst[j], v.mlen, room)] BY DEF recent
<1>10. recent' = [recent EXCEPT ![i] = History(c, v.mlen, room)] BY <1>1, <1>2, <1>8, <1>9
<1> QED BY <1>6, <1>7, <1>10

LEMMA StoredStep ==
  ASSUME TypeOK, NEW i \in DOMAIN v.inst, NEW c \in Buffer(v.mlen),
         Advanced(v.inst[i], c, v.mlen) \/ Touched(v.inst[i], c, v.mlen),
         Becomes(Stored(v, i, c))
  PROVE  TypeOK' /\ Memory!Next
<1> DEFINE n == IF v.inst[i].pos < 0 /\ c.pos >= 0 THEN v.num_active_inst + 1
                ELSE v.num_active_inst
<1>1. v.mlen \in Nat \ {0} /\ room \in 1 .. v.mlen /\ v.num_active_inst \in Int
      /\ v.inst[i] \in Buffer(v.mlen)
  BY RoomType
<1>2. n \in Int BY <1>1
<1>3. v' = [v EXCEPT !.inst[i] = c, !.num_active_inst = n] /\ use' = use
  <2>1. v' = Stored(v, i, c) /\ use' = use BY DEF Becomes
  <2> QED BY <2>1 DEF Stored, TypeOK
<1> HIDE DEF n
<1>4. TypeOK' /\ room' = room /\ recent' = [recent EXCEPT ![i] = History(c, v.mlen, room)]
  BY <1>2, <1>3, BufferStored
<1>5. recent[i] = History(v.inst[i], v.mlen, room) /\ i \in DOMAIN recent BY RecentType
<1>6. CASE Advanced(v.inst[i], c, v.mlen)
  <2>1. PICK x \in Sample : History(c, v.mlen, room)
                              = Memory!Pushed(History(v.inst[i], v.mlen, room), x, room)
    BY <1>1, <1>6, AdvancedPushes
  <2>2. Memory!Push(i, x) BY <1>4, <1>5, <2>1 DEF Memory!Push
  <2> QED BY <1>4, <1>5, <2>2 DEF Memory!Next
<1>7. CASE Touched(v.inst[i], c, v.mlen)
  <2>1. /\ History(v.inst[i], v.mlen, room) # <<>>
        /\ \E x \in Sample : History(c, v.mlen, room)
                               = [History(v.inst[i], v.mlen, room) EXCEPT ![1] = x]
    BY <1>1, <1>7, TouchedAmends
  <2>2. PICK x \in Sample : History(c, v.mlen, room)
                              = [History(v.inst[i], v.mlen, room) EXCEPT ![1] = x]
    BY <2>1
  <2>3. Memory!Amend(i, x) BY <1>4, <1>5, <2>1, <2>2 DEF Memory!Amend
  <2> QED BY <1>4, <1>5, <2>3 DEF Memory!Next
<1> QED BY <1>6, <1>7

LEMMA ResetStep ==
  ASSUME TypeOK, NEW i \in DOMAIN v.inst, NEW t \in Times, Reset(i, t)
  PROVE  TypeOK' /\ Memory!Next
<1> DEFINE n == IF v.inst[i].pos >= 0 THEN v.num_active_inst - 1 ELSE v.num_active_inst
           c == NewBuffer(v.mlen, t)
<1>1. v.mlen \in Nat \ {0} /\ room \in 0 .. v.mlen /\ v.num_active_inst \in Int BY RoomType
<1>2. n \in Int BY <1>1
<1>3. v' = [v EXCEPT !.inst[i] = c, !.num_active_inst = n] /\ use' = use
  <2>1. v' = ResetInst(v, i, t) /\ use' = use BY DEF Becomes, Reset
  <2> QED BY <2>1 DEF ResetInst, TypeOK
<1>4. c \in Buffer(v.mlen) /\ History(c, v.mlen, room) = <<>> BY <1>1, NewIsEmpty
<1> HIDE DEF n, c
<1>5. TypeOK' /\ room' = room /\ recent' = [recent EXCEPT ![i] = History(c, v.mlen, room)]
  BY <1>2, <1>3, <1>4, BufferStored
<1>6. Memory!Clear(i) BY <1>4, <1>5 DEF Memory!Clear
<1> QED BY <1>5, <1>6, RecentType DEF Memory!Next

LEMMA UndoStep ==
  ASSUME TypeOK, NEW i \in DOMAIN v.inst, NEW t \in Times, Undo(i, t), ~Careless
  PROVE  TypeOK' /\ UNCHANGED <<recent, room>>
<1>1. PICK c : c = DecrIdx(CpyNext(v.inst[i], v.mlen, t), v.mlen) OBVIOUS
<1>2. use = "dst" /\ GetHasValue(v.inst[i]) /\ Becomes(Stored(v, i, c))
  BY <1>1 DEF Undo, Undoable
<1>3. v.mlen \in Nat \ {0} /\ v.mlen > 1 /\ room = v.mlen - 1 /\ v.inst[i] \in Buffer(v.mlen)
      /\ v.num_active_inst \in Int
  BY <1>2, RoomType DEF TypeOK, room
<1>4. c \in Buffer(v.mlen) /\ History(c, v.mlen, v.mlen - 1) = History(v.inst[i], v.mlen, v.mlen - 1)
  BY <1>1, <1>2, <1>3, UndoKeeps
<1>5. ~(v.inst[i].pos < 0) BY <1>2, <1>3 DEF GetHasValue, Buffer
<1>6. v' = [v EXCEPT !.inst[i] = c, !.num_active_inst = v.num_active_inst] /\ use' = use
  <2>1. v' = Stored(v, i, c) /\ use' = use BY <1>2 DEF Becomes
  <2> QED BY <1>5, <2>1 DEF Stored, TypeOK
<1>7. TypeOK' /\ room' = room /\ recent' = [recent EXCEPT ![i] = History(c, v.mlen, room)]
  BY <1>3, <1>4, <1>6, BufferStored
<1>8. recent[i] = History(v.inst[i], v.mlen, room) BY RecentType
<1>9. recent' = recent BY <1>3, <1>4, <1>7, <1>8, RecentType
<1> QED BY <1>7, <1>9

(* The whole store becomes u. *)
LEMMA StoreBecomes ==
  ASSUME TypeOK, NEW m \in Nat \ {0}, use = "dst" => m > 1, NEW a \in Int,
         NEW f \in Seq(Buffer(m)), Len(f) <= MaxInst,
         use' = use, v' = [mlen |-> m, num_active_inst |-> a, inst |-> f]
  PROVE  /\ TypeOK' /\ room' = IF use = "dst" THEN m - 1 ELSE m
         /\ recent' = [j \in 1 .. Len(f) |-> History(f[j], m, room')]
         /\ recent' \in Seq(Seq(Sample)) /\ Len(recent') = Len(f)
<1>1. v'.mlen = m /\ v'.inst = f /\ v'.num_active_inst = a OBVIOUS
<1>2. TypeOK' BY <1>1 DEF TypeOK
<1>3. room' = IF use = "dst" THEN m - 1 ELSE m BY <1>1 DEF room
<1>4. DOMAIN f = 1 .. Len(f) /\ Len(f) \in Nat OBVIOUS
<1>5. recent' = [j \in 1 .. Len(f) |-> History(f[j], m, room')]
  BY <1>1, <1>4 DEF recent
<1>6. room' \in 0 .. m BY <1>3
<1>7. \A j \in 1 .. Len(f) : History(f[j], m, room') \in Seq(Sample)
  <2>1. PICK p \in 0 .. m : p = room' BY <1>6
  <2>2. \A j \in 1 .. Len(f) : f[j] \in Buffer(m) OBVIOUS
  <2>3. \A j \in 1 .. Len(f) : History(f[j], m, p) \in Seq(Sample) BY <2>2, HistoryType
  <2> QED BY <2>1, <2>3
<1>8. recent' \in [1 .. Len(f) -> Seq(Sample)] BY <1>5, <1>7
<1>9. recent' \in Seq(Seq(Sample)) /\ Len(recent') = Len(f) BY <1>4, <1>8
<1> QED BY <1>2, <1>3, <1>5, <1>9

LEMMA RemoveStep ==
  ASSUME TypeOK, NEW i \in DOMAIN v.inst, Remove(i)
  PROVE  TypeOK' /\ Memory!Next
<1> DEFINE a == IF v.inst[i].pos >= 0 THEN v.num_active_inst - 1 ELSE v.num_active_inst
           m == v.mlen
<1>1. /\ m \in Nat \ {0} /\ room \in 1 .. m /\ v.inst \in Seq(Buffer(m))
      /\ \A j \in DOMAIN v.inst : v.inst[j] \in Buffer(m)
  BY RoomType
<1>2. a \in Int BY RoomType
<1>3. Len(v.inst) \in Nat /\ DOMAIN v.inst = 1 .. Len(v.inst) /\ i \in 1 .. Len(v.inst)
      /\ Len(v.inst) <= MaxInst
  BY <1>1 DEF TypeOK
<1>4. PICK f \in Seq(Buffer(m)) :
        /\ f = [j \in 1 .. Len(v.inst) - 1 |-> IF j < i THEN v.inst[j] ELSE v.inst[j + 1]]
        /\ Len(f) = Len(v.inst) - 1
  <2> DEFINE g == [j \in 1 .. Len(v.inst) - 1 |-> IF j < i THEN v.inst[j] ELSE v.inst[j + 1]]
  <2>1. \A j \in 1 .. Len(v.inst) - 1 : j \in DOMAIN v.inst /\ j + 1 \in DOMAIN v.inst
    BY <1>3
  <2>2. g \in [1 .. Len(v.inst) - 1 -> Buffer(m)] BY <1>1, <2>1
  <2>3. Len(v.inst) - 1 \in Nat BY <1>3
  <2> HIDE DEF g
  <2>4. g \in Seq(Buffer(m)) /\ Len(g) = Len(v.inst) - 1 BY <2>2, <2>3
  <2> QED BY <2>4 DEF g
<1>5. v' = [mlen |-> m, num_active_inst |-> a, inst |-> f] /\ use' = use
  <2>1. v' = RemoveInst(v, i) /\ use' = use BY DEF Becomes, Remove
  <2> QED BY <1>4, <2>1 DEF RemoveInst, TypeOK
<1>6. use = "dst" => m > 1 BY DEF TypeOK
<1>7. Len(f) <= MaxInst BY <1>3, <1>4, BoundsAssumption
<1> HIDE DEF a
<1>8. /\ TypeOK' /\ room' = IF use = "dst" THEN m - 1 ELSE m
      /\ recent' = [j \in 1 .. Len(f) |-> History(f[j], m, room')]
  BY <1>1, <1>2, <1>5, <1>6, <1>7, StoreBecomes
<1>9. room' = room BY <1>8 DEF room
<1>10. ASSUME NEW j \in 1 .. Len(f)
       PROVE  History(f[j], m, room) = IF j < i THEN recent[j] ELSE recent[j + 1]
  <2>1. j \in DOMAIN v.inst /\ j + 1 \in DOMAIN v.inst BY <1>3, <1>4, <1>10
  <2>2. /\ recent[j] = History(v.inst[j], m, room)
        /\ recent[j + 1] = History(v.inst[j + 1], m, room)
    BY <2>1, RecentType
  <2>3. f[j] = IF j < i THEN v.inst[j] ELSE v.inst[j + 1] BY <1>4, <1>10
  <2> QED BY <2>2, <2>3
<1>11. Len(recent) = Len(v.inst) /\ DOMAIN recent = DOMAIN v.inst BY RecentType
<1>12. recent' = [j \in 1 .. Len(recent) - 1 |-> IF j < i THEN recent[j] ELSE recent[j + 1]]
  BY <1>4, <1>8, <1>9, <1>10, <1>11
<1>13. Memory!Drop(i) BY <1>9, <1>12 DEF Memory!Drop
<1> QED BY <1>8, <1>11, <1>13 DEF Memory!Next

LEMMA AllocStep ==
  ASSUME TypeOK, NEW m \in 1 .. MaxMem, NEW n \in 0 .. MaxInst, Alloc(m, n), ~Careless
  PROVE  TypeOK' /\ Memory!Next
<1> DEFINE reset == use = "src"
           a == IF reset THEN 0 ELSE v.num_active_inst
<1>1. /\ v.mlen \in Nat \ {0} /\ room \in 1 .. v.mlen /\ v.inst \in Seq(Buffer(v.mlen))
      /\ \A j \in DOMAIN v.inst : v.inst[j] \in Buffer(v.mlen)
      /\ DOMAIN v.inst = 1 .. Len(v.inst) /\ Len(v.inst) \in Nat
  BY RoomType
<1>2. /\ m \in Nat \ {0} /\ n \in Nat /\ n <= MaxInst /\ a \in Int /\ n >= Len(v.inst)
      /\ (use = "dst" => m > 1)
  BY RoomType, BoundsAssumption DEF Alloc
<1>3. ~reset => m = v.mlen \/ (m > v.mlen /\ \A j \in DOMAIN v.inst : ~v.inst[j].full)
  BY DEF Alloc, Resizable, TypeOK
<1>4. ASSUME NEW j \in 1 .. n
      PROVE  (IF j > Len(v.inst) \/ reset THEN NewBuffer(m, 0)
              ELSE Resized(v.inst[j], v.mlen, m)) \in Buffer(m)
  <2>1. CASE j > Len(v.inst) \/ reset BY <1>2, <2>1, NewIsEmpty, DataAssumption
  <2>2. CASE ~(j > Len(v.inst) \/ reset)
    <3>1. j \in DOMAIN v.inst BY <1>1, <1>2, <1>4, <2>2
    <3>2. CASE m = v.mlen BY <1>1, <2>2, <3>1, <3>2 DEF Resized
    <3>3. CASE m # v.mlen
      <4>1. m >= v.mlen /\ m \in Nat /\ ~v.inst[j].full BY <1>1, <1>2, <1>3, <2>2, <3>1, <3>3
      <4>2. PICK c : c = Resized(v.inst[j], v.mlen, m) OBVIOUS
      <4>3. c \in Buffer(m) BY <1>1, <3>1, <4>1, <4>2, GrowKeeps
      <4> QED BY <2>2, <4>2, <4>3
    <3> QED BY <3>2, <3>3
  <2> QED BY <2>1, <2>2
<1>5. PICK f \in Seq(Buffer(m)) :
        /\ f = [j \in 1 .. n |-> IF j > Len(v.inst) \/ reset THEN NewBuffer(m, 0)
                                 ELSE Resized(v.inst[j], v.mlen, m)]
        /\ Len(f) = n
  <2> DEFINE g == [j \in 1 .. n |-> IF j > Len(v.inst) \/ reset THEN NewBuffer(m, 0)
                                   ELSE Resized(v.inst[j], v.mlen, m)]
  <2>1. g \in [1 .. n -> Buffer(m)] BY <1>4
  <2> HIDE DEF g
  <2>2. g \in Seq(Buffer(m)) /\ Len(g) = n BY <1>2, <2>1
  <2> QED BY <2>2 DEF g
<1>6. v' = [mlen |-> m, num_active_inst |-> a, inst |-> f] /\ use' = use
  <2>1. v' = Realloc(v, m, n, reset) /\ use' = use BY DEF Becomes, Alloc
  <2> QED BY <1>5, <2>1 DEF Realloc
<1>7. Len(f) <= MaxInst BY <1>2, <1>5
<1>8. /\ TypeOK' /\ room' = IF use = "dst" THEN m - 1 ELSE m
      /\ recent' = [j \in 1 .. n |-> History(f[j], m, room')]
      /\ recent' \in Seq(Seq(Sample)) /\ Len(recent') = n
  <2> HIDE DEF a
  <2> QED BY <1>2, <1>5, <1>6, <1>7, StoreBecomes
<1>9. room' \in 1 .. m BY <1>2, <1>8
<1>10. Len(recent) = Len(v.inst) /\ DOMAIN recent = DOMAIN v.inst BY RecentType
<1>11. n \in Len(recent) .. MaxInst BY <1>1, <1>2, <1>10
<1>12. History(NewBuffer(m, 0), m, room') = <<>>
  <2>1. room' \in 0 .. m /\ 0 \in Times BY <1>9, DataAssumption
  <2> QED BY <1>2, <2>1, NewIsEmpty
<1>13. CASE reset
  <2>1. \A j \in 1 .. n : f[j] = NewBuffer(m, 0) BY <1>5, <1>13
  <2>2. recent' = [j \in 1 .. n |-> <<>>] BY <1>8, <1>12, <2>1
  <2>3. Memory!Restart(n) BY <1>2, <1>9, <2>2 DEF Memory!Restart
  <2> QED BY <1>8, <1>11, <2>3 DEF Memory!Next
<1>14. CASE ~reset
  <2>1. room' >= room /\ room' - room = m - v.mlen
    <3>1. room = IF use = "dst" THEN v.mlen - 1 ELSE v.mlen BY DEF room
    <3>2. room' = IF use = "dst" THEN m - 1 ELSE m BY <1>8
    <3>3. PICK old \in Nat : old = v.mlen BY <1>1
    <3>4. m \in Nat /\ m >= old BY <1>2, <1>3, <1>14, <3>3
    <3>5. CASE use = "dst"
      <4>1. room = old - 1 /\ room' = m - 1 BY <3>1, <3>2, <3>3, <3>5
      <4>2. room' >= room /\ room' - room = m - old BY <3>4, <4>1
      <4> QED BY <3>3, <4>2
    <3>6. CASE use # "dst"
      <4>1. room = old /\ room' = m BY <3>1, <3>2, <3>3, <3>6
      <4>2. room' >= room /\ room' - room = m - old BY <3>4, <4>1
      <4> QED BY <3>3, <4>2
    <3> QED BY <3>5, <3>6
  <2>2. ASSUME NEW j \in DOMAIN recent
        PROVE  /\ Len(recent'[j]) \in {Len(recent[j]), Len(recent[j]) + 1}
               /\ \A k \in DOMAIN recent[j] : recent'[j][k] = recent[j][k]
    <3>1. j \in DOMAIN v.inst /\ j \in 1 .. n BY <1>1, <1>2, <1>10
    <3>2. recent[j] = History(v.inst[j], v.mlen, room) BY <3>1, RecentType
    <3>3. recent'[j] = History(f[j], m, room') BY <1>8, <3>1
    <3>4. f[j] = Resized(v.inst[j], v.mlen, m) BY <1>1, <1>5, <1>14, <3>1
    <3>5. CASE m = v.mlen
      <4>1. f[j] = v.inst[j] BY <3>4, <3>5 DEF Resized
      <4>2. room' = room BY <1>1, <1>9, <2>1, <3>5
      <4> QED BY <3>2, <3>3, <3>5, <4>1, <4>2
    <3>6. CASE m # v.mlen
      <4>1. m >= v.mlen /\ m \in Nat /\ ~v.inst[j].full BY <1>1, <1>2, <1>3, <1>14, <3>1, <3>6
      <4>2. room \in 0 .. v.mlen /\ room' \in 0 .. m /\ v.mlen - room \in {0, 1}
        BY <1>1, <1>9 DEF room
      <4>3. PICK c : c = Resized(v.inst[j], v.mlen, m) OBVIOUS
      <4>4. /\ c \in Buffer(m)
            /\ Remembered(v.inst[j], v.mlen, room) <= Remembered(c, m, room')
            /\ Remembered(c, m, room') <= Remembered(v.inst[j], v.mlen, room) + (v.mlen - room)
            /\ \A k \in 1 .. Remembered(v.inst[j], v.mlen, room) :
                 History(c, m, room')[k] = History(v.inst[j], v.mlen, room)[k]
        <5>1. PICK p \in 0 .. m : p = room' BY <4>2
        <5>2. PICK q \in 0 .. v.mlen : q = room BY <4>2
        <5>3. p >= q /\ v.inst[j] \in Buffer(v.mlen) BY <1>1, <2>1, <3>1, <5>1, <5>2
        <5>4. /\ c \in Buffer(m)
              /\ Remembered(v.inst[j], v.mlen, q) <= Remembered(c, m, p)
              /\ Remembered(c, m, p) <= Remembered(v.inst[j], v.mlen, q) + (v.mlen - q)
              /\ \A k \in 1 .. Remembered(v.inst[j], v.mlen, q) :
                   History(c, m, p)[k] = History(v.inst[j], v.mlen, q)[k]
          BY <1>1, <4>1, <4>3, <5>3, GrowKeeps
        <5> QED BY <5>1, <5>2, <5>4
      <4>5. /\ Len(recent[j]) = Remembered(v.inst[j], v.mlen, room)
            /\ DOMAIN recent[j] = 1 .. Remembered(v.inst[j], v.mlen, room)
            /\ Remembered(v.inst[j], v.mlen, room) \in Nat
        BY <1>1, <3>1, <3>2, <4>2, HistoryType, RememberedType
      <4>6. Len(recent'[j]) = Remembered(c, m, room') /\ Remembered(c, m, room') \in Nat
        BY <1>2, <3>3, <3>4, <4>2, <4>3, <4>4, HistoryType, RememberedType
      <4>7. Remembered(c, m, room') \in {Remembered(v.inst[j], v.mlen, room),
                                         Remembered(v.inst[j], v.mlen, room) + 1}
        BY <4>2, <4>4, <4>5, <4>6
      <4> QED BY <3>2, <3>3, <3>4, <4>3, <4>4, <4>5, <4>6, <4>7
    <3> QED BY <3>5, <3>6
  <2>3. ASSUME NEW j \in (DOMAIN recent') \ DOMAIN recent PROVE recent'[j] = <<>>
    <3>1. j \in 1 .. n /\ j > Len(v.inst) BY <1>1, <1>8, <1>10
    <3>2. f[j] = NewBuffer(m, 0) BY <1>5, <3>1
    <3> QED BY <1>8, <1>12, <3>1, <3>2
  <2>4. room' \in Nat BY <1>9
  <2>5. Memory!Extend(n) BY <1>8, <2>1, <2>2, <2>3, <2>4 DEF Memory!Extend
  <2> QED BY <1>8, <1>11, <2>5 DEF Memory!Next
<1> QED BY <1>13, <1>14

(* An operation that stores a buffer. *)
LEMMA SetStep ==
  ASSUME TypeOK, NEW i \in DOMAIN v.inst, NEW s \in Vector, NEW t \in Times,
         Set(i, s, t) \/ SetCoerced(i, s, t)
  PROVE  TypeOK' /\ Memory!Next
<1>1. v.mlen \in Nat \ {0} /\ v.inst[i] \in Buffer(v.mlen) BY RoomType
<1>2. CASE Set(i, s, t)
  <2>1. PICK d : d = SetNext(v.inst[i], v.mlen, s, t) OBVIOUS
  <2>2. d \in Buffer(v.mlen) /\ Advanced(v.inst[i], d, v.mlen) BY <1>1, <2>1, SetNextSteps
  <2>3. Becomes(Stored(v, i, d)) BY <1>2, <2>1 DEF Set
  <2> QED BY <2>2, <2>3, StoredStep
<1>3. CASE SetCoerced(i, s, t)
  <2>1. PICK d : d = SetNextCoerced(v.inst[i], v.mlen, s, t) OBVIOUS
  <2>2. d \in Buffer(v.mlen) /\ (Advanced(v.inst[i], d, v.mlen) \/ Touched(v.inst[i], d, v.mlen))
    BY <1>1, <2>1, CoercedSteps
  <2>3. Becomes(Stored(v, i, d)) BY <1>3, <2>1 DEF SetCoerced
  <2> QED BY <2>2, <2>3, StoredStep
<1> QED BY <1>2, <1>3

LEMMA VectorStep ==
  ASSUME TypeOK, NEW i \in DOMAIN v.inst, NEW new \in Partial, NEW t \in Times,
         Receive(i, new, t) \/ Evaluate(i, new, t)
  PROVE  TypeOK' /\ Memory!Next
<1>1. v.mlen \in Nat \ {0} /\ v.inst[i] \in Buffer(v.mlen) BY RoomType
<1>2. CASE Receive(i, new, t)
  <2>1. PICK c : c = IF GetHasValue(v.inst[i]) THEN CpyNext(v.inst[i], v.mlen, t)
                     ELSE IncrIdx(v.inst[i], v.mlen, t)
    OBVIOUS
  <2>2. PICK d : d = SetElements(c, new) OBVIOUS
  <2>3. d \in Buffer(v.mlen) /\ (Advanced(v.inst[i], d, v.mlen) \/ Touched(v.inst[i], d, v.mlen))
    BY <1>1, <2>1, <2>2, ReceiveSteps
  <2>4. Becomes(Stored(v, i, d)) BY <1>2, <2>1, <2>2 DEF Receive
  <2> QED BY <2>3, <2>4, StoredStep
<1>3. CASE Evaluate(i, new, t)
  <2>1. PICK c : c = SetElements(CpyNext(v.inst[i], v.mlen, t), new) OBVIOUS
  <2>2. PICK d : d = IF DOMAIN new = {} THEN c ELSE [c EXCEPT !.times[c.pos] = t] OBVIOUS
  <2>3. d \in Buffer(v.mlen) /\ (Advanced(v.inst[i], d, v.mlen) \/ Touched(v.inst[i], d, v.mlen))
    BY <1>1, <2>1, <2>2, EvaluateSteps
  <2>4. Becomes(Stored(v, i, d)) BY <1>3, <2>1, <2>2 DEF Evaluate
  <2> QED BY <2>3, <2>4, StoredStep
<1> QED BY <1>2, <1>3

LEMMA InitStep ==
  ASSUME Init
  PROVE  TypeOK /\ Memory!Init
<1>1. v.inst = <<>> /\ v.mlen = (IF use = "dst" THEN 2 ELSE 1) /\ v.num_active_inst = 0
      /\ use \in {"sig", "src", "dst"}
  BY UsesAssumption DEF Init
<1>2. v = [mlen |-> v.mlen, num_active_inst |-> 0, inst |-> <<>>] BY <1>1 DEF Init
<1>3. <<>> \in Seq(Buffer(v.mlen)) /\ Len(<<>>) = 0 OBVIOUS
<1>4. TypeOK
  <2>1. v.mlen \in Nat \ {0} /\ (use = "dst" => v.mlen > 1) BY <1>1
  <2>2. PICK m : m = v.mlen OBVIOUS
  <2>3. v \in [mlen : {m}, num_active_inst : Int, inst : Seq(Buffer(m))]
    <3>1. v = [mlen |-> m, num_active_inst |-> 0, inst |-> <<>>] BY <1>2, <2>2
    <3>2. <<>> \in Seq(Buffer(m)) OBVIOUS
    <3> QED BY ONLY <3>1, <3>2
  <2>4. Len(v.inst) <= MaxInst BY <1>1, BoundsAssumption
  <2> QED BY <1>1, <2>1, <2>2, <2>3, <2>4 DEF TypeOK
<1>5. recent = <<>> BY <1>1 DEF recent
<1>6. room \in Nat \ {0} BY <1>1 DEF room
<1> QED BY <1>4, <1>5, <1>6 DEF Memory!Init

LEMMA NextStep ==
  ASSUME TypeOK, [Next]_vars, ~Careless
  PROVE  TypeOK' /\ [Memory!Next]_<<recent, room>>
<1>1. CASE UNCHANGED vars
  <2>1. use' = use /\ v' = v BY <1>1 DEF vars
  <2>2. TypeOK' BY <2>1 DEF TypeOK
  <2>3. room' = room BY <2>1 DEF room
  <2>4. recent' = recent BY <2>1, <2>3 DEF recent
  <2> QED BY <2>2, <2>3, <2>4
<1>2. CASE Next
  <2>1. CASE \E i \in DOMAIN v.inst, t \in Times :
               \/ \E s \in Vector : Set(i, s, t) \/ SetCoerced(i, s, t)
               \/ \E new \in Partial : Receive(i, new, t) \/ Evaluate(i, new, t)
               \/ Reset(i, t) \/ Undo(i, t)
    <3>1. PICK i \in DOMAIN v.inst, t \in Times :
               \/ \E s \in Vector : Set(i, s, t) \/ SetCoerced(i, s, t)
               \/ \E new \in Partial : Receive(i, new, t) \/ Evaluate(i, new, t)
               \/ Reset(i, t) \/ Undo(i, t)
      BY <2>1
    <3>2. CASE \E s \in Vector : Set(i, s, t) \/ SetCoerced(i, s, t) BY <3>2, SetStep
    <3>3. CASE \E new \in Partial : Receive(i, new, t) \/ Evaluate(i, new, t)
      BY <3>3, VectorStep
    <3>4. CASE Reset(i, t) BY <3>4, ResetStep
    <3>5. CASE Undo(i, t) BY <3>5, UndoStep
    <3> QED BY <3>1, <3>2, <3>3, <3>4, <3>5
  <2>2. CASE \E i \in DOMAIN v.inst : Remove(i) BY <2>2, RemoveStep
  <2>3. CASE \E m \in 1 .. MaxMem, n \in 0 .. MaxInst : Alloc(m, n) BY <2>3, AllocStep
  <2> QED BY <1>2, <2>1, <2>2, <2>3 DEF Next
<1> QED BY <1>1, <1>2

-----------------------------------------------------------------------------
(* A position is always inside of its buffer, whatever the order in which  *)
(* samples are set, received, evaluated and given back and memory is       *)
(* changed (value.c: every access is at inst->pos).                        *)
THEOREM TypeCorrect ==
  ASSUME ~Careless
  PROVE  Spec => []TypeOK
<1>1. Init => TypeOK BY InitStep
<1>2. TypeOK /\ [Next]_vars => TypeOK' BY NextStep
<1> QED BY <1>1, <1>2, PTL DEF Spec

(* The circular buffers implement the memory of the most recent samples:   *)
(* what expressions can ask for is what there was, in its order, as long   *)
(* as an evaluation is given back only where the position it took is known *)
(* and the memory of a destination only grows before it was full.          *)
THEOREM RemembersRecentSamples ==
  ASSUME ~Careless
  PROVE  Spec => Implements
<1>1. Init => Memory!Init BY InitStep
<1>2. TypeOK /\ [Next]_vars => [Memory!Next]_<<recent, room>> BY NextStep
<1>3. Spec => []TypeOK BY TypeCorrect
<1> QED BY <1>1, <1>2, <1>3, PTL DEF Spec, Implements, Memory!Spec
=============================================================================
