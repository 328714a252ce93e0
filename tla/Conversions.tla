---------------------------- MODULE Conversions ----------------------------
(***************************************************************************)
(* Small functions the rest leans on: arithmetic of times (src/time.c),    *)
(* conversion between types (src/mpr_set_coerced.c, the getters of         *)
(* src/object.c), names with wildcards (src/path.c), and keys and words    *)
(* for enumerations (src/property.c).                                      *)
(*                                                                         *)
(* A time is seconds modulo CvS and a fraction modulo CvF, for 2^32 both.  *)
(* Numbers are counted in quarters of such a fraction and are exact; a     *)
(* fraction times the constant multiplier, which is a bit less than 2^-32, *)
(* falls short of what it stands for by one quarter.  Where C leaves a     *)
(* result undefined, every outcome is possible: functions that have such   *)
(* inputs are defined as the set of what they may return.                  *)
(***************************************************************************)
EXTENDS Integers, Sequences, FiniteSets, SequencesExt

CONSTANTS
  CvS, CvF,      \* moduli of seconds and fractions
  CvDbl,         \* numbers that are added to times
  CvNum,         \* values that are converted, in halves
  CvText, CvPattern,   \* texts and patterns, as sequences of characters
  CvKeys,        \* longest table of property keys
  CvMay          \* {} or {"past"}: the number of protocols is taken for one of them
ASSUME CvAssumption == CvS \in Nat \ {0} /\ CvF \in Nat \ {0}

VARIABLES cvCase, cvOut    \* what is computed, and the result once it is
cvVars == <<cvCase, cvOut>>

CvFloor(x, n) == x \div n
CvTruncated(x, n) == IF x < 0 THEN -((-x) \div n) ELSE x \div n
CvAtLeast0(x) == IF x < 0 THEN 0 ELSE x

-----------------------------------------------------------------------------
CvTime == [sec : 0..CvS - 1, frac : 0..CvF - 1]
CvWhole == 4 * CvF
CvUnits(t) == t.sec * CvF + t.frac                      \* what a time stands for
CvZero == [sec |-> 0, frac |-> 0]
(* mpr_time_as_dbl, mpr_time_get_diff *)
CvFracAsDbl(f) == IF f > 0 THEN 4 * f - 1 ELSE 0
CvAsDbl(t) == t.sec * CvWhole + CvFracAsDbl(t.frac)
CvDiff(l, r) ==
  (l.sec - r.sec) * CvWhole
    + (IF l.frac >= r.frac THEN CvFracAsDbl(l.frac - r.frac) ELSE -CvFracAsDbl(r.frac - l.frac))
(* a number as seconds: undefined if it is too large *)
CvAsSeconds(n) == IF n < CvS THEN {n} ELSE 0..CvS - 1
(* mpr_time_set_dbl: what the seconds leave over is the fraction *)
CvSetDbl(v) ==
  IF v <= 0 THEN {CvZero}
  ELSE IF CvFloor(v, CvWhole) >= CvS THEN CvTime
  ELSE {[sec |-> CvFloor(v, CvWhole), frac |-> (v % CvWhole) \div 4]}
(* mpr_time_add_dbl *)
CvAddDbl(t, d) ==
  LET sum == d + CvFracAsDbl(t.frac)
      whole == CvFloor(sum, CvWhole)
  IN IF d = 0 THEN {t}
     ELSE IF sum < 0 /\ -whole > t.sec THEN {CvZero}
     ELSE {[sec |-> s, frac |-> (sum - whole * CvWhole) \div 4] : s \in CvAsSeconds(t.sec + whole)}
(* mpr_time_mul *)
CvMul(t, n) == IF n > 0 THEN CvSetDbl(n * CvAsDbl(t)) ELSE {CvZero}
(* mpr_time_add *)
CvAdd(t, a) ==
  LET f == (t.frac + a.frac) % CvF
  IN [sec |-> (t.sec + a.sec + IF f < a.frac THEN 1 ELSE 0) % CvS, frac |-> f]
(* mpr_time_sub *)
CvSubUnborrowed(t, s) ==                 \* mistake: nothing is borrowed from the seconds
  IF t.sec > s.sec THEN [sec |-> t.sec - s.sec, frac |-> (t.frac - s.frac) % CvF]
  ELSE [sec |-> 0, frac |-> CvAtLeast0(t.frac - s.frac)]
CvSub(t, s) ==
  IF t.sec > s.sec
  THEN [sec |-> t.sec - s.sec - (IF t.frac < s.frac THEN 1 ELSE 0),
        frac |-> (t.frac - s.frac) % CvF]
  ELSE [sec |-> 0, frac |-> CvAtLeast0(t.frac - s.frac)]
(* mpr_time_cmp: MPR_NOW is what the clock says, which is asked once for each *)
CvNow == [sec |-> 0, frac |-> 1]
CvRead(t, clock) == IF t = CvNow THEN clock ELSE t
CvSign(a, b) == IF a > b THEN 1 ELSE IF a < b THEN -1 ELSE 0
CvCmp(left, right, clock) ==
  LET l == CvRead(left, clock[1])
      r == CvRead(right, clock[2])
  IN IF l.sec = r.sec THEN CvSign(l.frac, r.frac) ELSE CvSign(l.sec, r.sec)
CvClocks(l, r) ==                      \* what the clock may say, first and then
  IF CvNow \in {l, r} THEN {c \in CvTime \X CvTime : CvUnits(c[1]) <= CvUnits(c[2])}
  ELSE {<<CvZero, CvZero>>}

-----------------------------------------------------------------------------
(* Values are numbers of halves; a float has no odd integer beyond four. *)
CvType == {"bool", "int", "long", "float", "double", "time", "str"}
CvFloat(x) == IF x \in -8..8 THEN x ELSE 4 * CvTruncated(x, 4)
CvInt(x) == 2 * CvTruncated(x, 2)
CvOf(type, x) ==                                        \* what a variable of a type can hold
  CASE type = "bool" -> IF x = 0 THEN 0 ELSE 2
    [] type \in {"int", "long"} -> CvInt(x)
    [] type = "float" -> CvFloat(x)
    [] type = "time" -> CvAtLeast0(x)
    [] OTHER -> x
(* mpr_set_coerced: one element; "no" if the types do not go together, and *)
(* "none" if the destination is left as it is; a string stands for whether *)
(* it begins like true *)
CvConverted(src, dst, x) ==
  CASE dst = "float" /\ src \in {"bool", "int", "double"} -> <<CvFloat(x)>>
    [] dst = "int" /\ src \in {"float", "double"} -> <<CvInt(x)>>
    [] dst = "double" /\ src = "int" -> <<CvFloat(x)>>
    [] dst = "double" /\ src = "float" -> <<x>>
    [] dst = "bool" /\ src \in {"int", "str"} -> <<CvOf("bool", x)>>
    [] dst = "bool" /\ src \in {"float", "double"} -> <<CvOf("bool", CvInt(x))>>
    [] dst = "time" /\ src \in {"int", "long"} -> IF x < 0 THEN <<>> ELSE <<x>>
    [] dst = "time" /\ src \in {"float", "double"} -> <<CvAtLeast0(x)>>
    [] OTHER -> <<>>
CvRefused(src, dst) ==
  \/ dst \in {"long", "str"}
  \/ dst = "float" /\ src \in {"long", "str", "time"}
  \/ dst \in {"int", "double"} /\ src \notin {"int", "float", "double"}
CvSame(src, dst, from, to) ==            \* chunks of the source, until the destination is full
  LET least(a, b) == IF a < b THEN a ELSE b
      copy[i \in 0..Len(to), some \in 0..Len(to)] ==
        IF i >= Len(to) THEN <<>>
        ELSE LET n == least(some, Len(to) - i) IN SubSeq(from, 1, n) \o copy[i + n, n]
  IN copy[0, least(Len(from), Len(to))]
CvEach(src, dst, from, to) ==
  LET place[i \in 1..Len(to)] ==
        IF i = 1 THEN 1 ELSE IF place[i - 1] + 1 > Len(from) THEN 1 ELSE place[i - 1] + 1
      got(i) == CvConverted(src, dst, from[place[i]])
  IN [i \in DOMAIN to |-> IF got(i) = <<>> THEN to[i] ELSE got(i)[1]]
CvCoerce(src, dst, from, to) ==
  LET new == IF src = dst THEN CvSame(src, dst, from, to)
             ELSE IF CvRefused(src, dst) THEN to ELSE CvEach(src, dst, from, to)
  IN [val |-> new, ret |-> IF src # dst /\ CvRefused(src, dst) THEN -1
                           ELSE IF new # to THEN 0 ELSE 1]

(* mpr_obj_get_prop_as_int32, int64, flt, dbl: of the first element *)
CvGetNum(as, type, x) ==
  CASE type = "str" -> 0
    [] as \in {"int", "long"} -> CvInt(x)
    [] as = "float" -> CvFloat(x)
    [] OTHER -> x
(* mpr_obj_get_prop_as_str, ptr, obj, list: of one value of that type only *)
CvGetOne(as, type, len, x) == IF as = type /\ len = 1 THEN <<x>> ELSE <<>>

-----------------------------------------------------------------------------
(* mpr_path_match: strtok and strstr *)
CvStar == "*"
CvTokens(p) ==
  LET next(acc, c) ==
        IF c = CvStar THEN [acc EXCEPT !.open = FALSE]
        ELSE IF acc.open THEN [acc EXCEPT !.toks = Append(Front(@), Append(Last(@), c))]
        ELSE [open |-> TRUE, toks |-> Append(acc.toks, <<c>>)]
  IN FoldLeft(next, [open |-> FALSE, toks |-> <<>>], p).toks
CvFound(s, tok) ==                                      \* where the token begins in the text
  {i \in 1..Len(s) : i + Len(tok) - 1 <= Len(s) /\ SubSeq(s, i, i + Len(tok) - 1) = tok}
CvFrom(s, n) == SubSeq(s, n, Len(s))
CvMatch(s, p) ==
  LET toks == CvTokens(p)
      wild == p # <<>> /\ Last(p) = CvStar
      match[k \in 1..Len(toks) + 1, n \in 1..Len(s) + 1] ==   \* from the nth character on
        IF n > Len(s) THEN TRUE
        ELSE IF k > Len(toks) THEN wild
        ELSE LET found == {i \in CvFound(s, toks[k]) : i >= n}
             IN found # {} /\ match[k + 1, (CHOOSE i \in found : \A j \in found : i <= j)
                                             + Len(toks[k])]
  IN IF Contains(p, CvStar) THEN match[1, 1] ELSE s = p
(* what a pattern means *)
CvMeans(s, p) ==
  LET means[i \in 1..Len(p) + 1, n \in 1..Len(s) + 1] ==
        IF i > Len(p) THEN n > Len(s)
        ELSE IF p[i] = CvStar THEN \E m \in n..Len(s) + 1 : means[i + 1, m]
        ELSE n <= Len(s) /\ s[n] = p[i] /\ means[i + 1, n + 1]
  IN means[1, 1]

(* mpr_prop_from_str: the keys are 2, 4, 6, ... in this order, 0 is none of them *)
CvSearch(n, key) ==
  LET find[beg \in 1..n + 1, end \in 0..n] ==
        IF beg > end THEN 0
        ELSE LET mid == (beg + end) \div 2
             IN IF key > 2 * mid THEN find[mid + 1, end]
                ELSE IF key = 2 * mid THEN mid ELSE find[beg, mid - 1]
  IN find[1, n]
(* mpr_dir_as_str, mpr_loc_as_str, mpr_proto_as_str and their inverses *)
CvWords(kind) ==
  CASE kind = "dir" -> ("input" :> 1 @@ "output" :> 2 @@ "any" :> 3 @@ "both" :> 7)
    [] kind = "loc" -> ("src" :> 1 @@ "dst" :> 2 @@ "any" :> 3 @@ "both" :> 7)
    [] OTHER -> ("osc.udp" :> 1 @@ "osc.tcp" :> 2)
CvNumProto == 3                                         \* MPR_NUM_PROTO
(* one protocol too many is let through and read from behind the words: *)
(* that may be any word, or no text at all *)
CvBehind == UNION {DOMAIN CvWords(kind) : kind \in {"dir", "loc", "proto"}} \cup {"none", "no text"}
CvAsStr(kind, x) ==
  LET words == {w \in DOMAIN CvWords(kind) : CvWords(kind)[w] = x}
  IN IF kind = "proto" /\ x = CvNumProto THEN CvBehind
     ELSE IF words = {} THEN {"unknown"} ELSE words
CvFromStr(kind, w) ==
  IF w \in DOMAIN CvWords(kind) \ {"any"} THEN CvWords(kind)[w] ELSE 0

-----------------------------------------------------------------------------
CvVectors(type, nums, len) == UNION {[1..n -> {CvOf(type, x) : x \in nums}] : n \in 1..len}
CvIsCase(c) == cvCase = c
CvInit ==
  /\ cvOut = <<>>
  /\ \/ \E do \in {"add", "sub", "diff"}, l, r \in CvTime :
           CvIsCase([do |-> do, l |-> l, r |-> r])
     \/ \E l, r \in CvTime : \E clock \in CvClocks(l, r) :
           CvIsCase([do |-> "cmp", l |-> l, r |-> r, clock |-> clock])
     \/ \E t \in CvTime : \/ \E d \in CvDbl : CvIsCase([do |-> "add dbl", l |-> t, d |-> d])
                          \/ \E n \in -1..3 : CvIsCase([do |-> "mul", l |-> t, d |-> n])
     \/ \E src, dst \in CvType :
           \E from \in CvVectors(src, CvNum, 2), to \in CvVectors(dst, {0, 2}, 3) :
             CvIsCase([do |-> "coerce", src |-> src, dst |-> dst, from |-> from, to |-> to])
     \/ \E as, type \in CvType, x \in CvNum, len \in 1..2 :
           CvIsCase([do |-> "get", as |-> as, type |-> type, x |-> x, len |-> len])
     \/ \E s \in CvText, p \in CvPattern : CvIsCase([do |-> "match", s |-> s, p |-> p])
     \/ \E n \in 1..CvKeys, key \in 1..2 * CvKeys + 1 :
           CvIsCase([do |-> "find", n |-> n, key |-> key])
     \/ \E kind \in {"dir", "loc", "proto"}, x \in -1..8 :
           /\ kind = "proto" /\ x = CvNumProto => "past" \in CvMay
           /\ CvIsCase([do |-> "word", kind |-> kind, x |-> x])
CvResults(c) ==                        \* what may be returned: one thing, unless it is undefined
  CASE c.do = "add" -> {<<CvAdd(c.l, c.r)>>} [] c.do = "sub" -> {<<CvSub(c.l, c.r)>>}
    [] c.do = "cmp" -> {<<CvCmp(c.l, c.r, c.clock)>>} [] c.do = "diff" -> {<<CvDiff(c.l, c.r)>>}
    [] c.do = "add dbl" -> {<<t>> : t \in CvAddDbl(c.l, c.d)}
    [] c.do = "mul" -> {<<t>> : t \in CvMul(c.l, c.d)}
    [] c.do = "coerce" -> {<<CvCoerce(c.src, c.dst, c.from, c.to)>>}
    [] c.do = "get" -> {<<CvGetNum(c.as, c.type, CvOf(c.type, c.x)),
                          CvGetOne(c.as, c.type, c.len, c.x)>>}
    [] c.do = "match" -> {<<CvMatch(c.s, c.p)>>} [] c.do = "find" -> {<<CvSearch(c.n, c.key)>>}
    [] c.do = "word" -> {<<w, CvFromStr(c.kind, w)>> : w \in CvAsStr(c.kind, c.x)}
CvNext == cvOut = <<>> /\ cvOut' \in CvResults(cvCase) /\ UNCHANGED cvCase

-----------------------------------------------------------------------------
(* Sums of times wrap around; what is taken from the same or a later second leaves    *)
(* the difference, at least zero.  The difference as a number has the right sign.     *)
(* Adding and multiplying by numbers loses at most one whole fraction and never       *)
(* gains any, while the seconds do not overflow.  The order of times is that of what  *)
(* they stand for, which for MPR_NOW is what the clock said when it was asked.        *)
CvBelow(t, x) == x < CvS * CvWhole => x - CvUnits(t) * 4 \in 0..4
CvRightTime(c, out) ==
  CASE c.do = "add" -> CvUnits(out) = (CvUnits(c.l) + CvUnits(c.r)) % (CvS * CvF)
    [] c.do = "sub" ->
         c.l.sec >= c.r.sec => CvUnits(out) = CvAtLeast0(CvUnits(c.l) - CvUnits(c.r))
    [] c.do = "cmp" ->
         LET l == IF c.l = CvNow THEN c.clock[1] ELSE c.l
             r == IF c.r = CvNow THEN c.clock[2] ELSE c.r
         IN out = CvSign(CvUnits(l), CvUnits(r))
    [] c.do = "diff" -> LET d == 4 * (CvUnits(c.l) - CvUnits(c.r))
                        IN out - d \in -1..1 /\ (out > 0 <=> d > 0)
    [] c.do = "add dbl" -> CvBelow(out, CvAtLeast0(CvUnits(c.l) * 4 + c.d))
    [] c.do = "mul" -> CvBelow(out, CvAtLeast0(CvUnits(c.l) * 4 * c.d))
(* A vector is filled with the source over and over; what the new type holds is kept; *)
(* nothing is touched if the types do not go together; and 0 says that it changed.    *)
CvRightCoerced(c, out) ==
  /\ out.ret = 0 <=> out.val # c.to
  /\ out.ret = -1 => out.val = c.to
  /\ Len(out.val) = Len(c.to)
  /\ out.ret # -1 => \A i \in DOMAIN c.to :
       LET x == c.from[1 + ((i - 1) % Len(c.from))] IN
       CvOf(c.dst, x) = x /\ CvFloat(x) = x /\ (c.src = c.dst \/ CvConverted(c.src, c.dst, x) # <<>>)
         => out.val[i] = x
(* A pattern that ends in a star misses nothing it should match. *)
CvRightMatch(c, out) ==
  /\ ~Contains(c.p, CvStar) => out = (c.s = c.p)
  /\ c.p # <<>> /\ Last(c.p) = CvStar /\ CvMeans(c.s, c.p) => out

(* A word is read back as what it stands for, "any" excepted; what has no word is unknown. *)
CvRightWord(c, word, back) ==
  LET named == \E w \in DOMAIN CvWords(c.kind) : CvWords(c.kind)[w] = c.x
  IN IF named THEN word # "any" => back = c.x ELSE word = "unknown" /\ back = 0

(* The functions compute what their callers take them to compute. *)
CvExact ==
  cvOut # <<>> =>
    CASE cvCase.do \in {"add", "sub", "cmp", "diff", "add dbl", "mul"} ->
           CvRightTime(cvCase, cvOut[1])
      [] cvCase.do = "coerce" -> CvRightCoerced(cvCase, cvOut[1])
      [] cvCase.do = "match" -> CvRightMatch(cvCase, cvOut[1])
      [] cvCase.do = "find" ->
           cvOut[1] = IF cvCase.key % 2 = 0 /\ cvCase.key <= 2 * cvCase.n THEN cvCase.key \div 2 ELSE 0
      [] cvCase.do = "word" -> CvRightWord(cvCase, cvOut[1], cvOut[2])
      [] OTHER ->
           LET x == CvOf(cvCase.type, cvCase.x) IN
           /\ cvCase.type # "str" /\ CvOf(cvCase.as, x) = x /\ CvFloat(x) = x => cvOut[1] = x
           /\ cvOut[2] # <<>> => cvCase.as = cvCase.type
=============================================================================
