------------------------- MODULE SessionState_proofs ------------------------
(***************************************************************************)
(* Proofs about SessionState for any number of calls, requests, variables  *)
(* and values, of native and of mock sessions: what an operation told its  *)
(* caller stays in the cache, and true, until another one touches it; and  *)
(* the cache never becomes older than it was.                              *)
(*                                                                         *)
(* Both rest on one order: callers resume in the order in which their      *)
(* commands touched the state (InTurn), also when some were cancelled,     *)
(* withdrawn or failed.                                                    *)
(***************************************************************************)
EXTENDS SessionState, SequenceTheorems, TLAPS

Stages == {"idle", "checking", "queued", "ran", "settled", "cached", "left"}
Done   == {"cached", "left"}
States == [Parts -> Values \cup {Missing}]

Types ==
  /\ mock \in BOOLEAN
  /\ request \in [Operations -> Requests \cup {NoRequest}]
  /\ shell \in States /\ observed \in [Operations -> States]
  /\ stage \in [Operations -> Stages]
  /\ line \in Seq(Operations) /\ settled \in Seq(Operations) /\ ran \in Seq(Operations)
  /\ success \in [Operations -> BOOLEAN]
  /\ source \in [Parts -> Operations \cup {0}]

\* Who runs is the first in line.
Line ==
  /\ \A i, j \in DOMAIN line : line[i] = line[j] => i = j
  /\ \A i \in DOMAIN line : stage[line[i]] \in {"queued", "ran"}
  /\ \A o \in Operations : stage[o] = "ran" => line # <<>> /\ line[1] = o

\* Each caller whose command has settled resumes once.
Resuming ==
  /\ \A i, j \in DOMAIN settled : settled[i] = settled[j] => i = j
  /\ \A i \in DOMAIN settled : stage[settled[i]] = "settled"
  /\ \A o \in Operations : stage[o] = "settled" => \E i \in DOMAIN settled : settled[i] = o

\* The callers of a native session resume in the order in which their commands ran.
InTurn ==
  /\ \A i, j \in DOMAIN ran : ran[i] = ran[j] => i = j
  /\ \A i \in DOMAIN ran : stage[ran[i]] \in {"ran", "settled"} \cup Done
  /\ \A i, j \in DOMAIN ran : i < j =>
       /\ stage[ran[i]] # "ran"
       /\ \A a, b \in DOMAIN settled : settled[a] = ran[i] /\ settled[b] = ran[j] => a < b
       /\ ~mock /\ stage[ran[i]] = "settled" => stage[ran[j]] \notin Done

\* An operation that succeeds has touched the state.
Succeeds ==
  \A o \in Operations : success[o] =>
    stage[o] \in {"ran", "settled"} \cup Done /\ \E i \in DOMAIN ran : ran[i] = o

\* A mock session's cache is its state.
MockCache ==
  mock => /\ \A p \in Parts : Cached(p) = shell[p]
          /\ \A o \in Operations : stage[o] \in {"ran", "settled"} => IsScript(o)

\* What the last operation on a part will remember of it is its value.
NativeCache ==
  ~mock => /\ \A o \in Operations, p \in Parts : IsLast(o, p) /\ ~IsScript(o) => shell[p] = Known(o)[p]
           /\ \A p \in Parts : source[p] # 0 => stage[source[p]] = "cached"

Order == Types /\ Line /\ Resuming /\ InTurn /\ Succeeds
Inv   == Order /\ MockCache /\ NativeCache /\ CacheIsCurrent

\* RemoveAt removes one position and keeps the others in order.
LEMMA RemoveAtIsRemoval ==
  ASSUME NEW S, NEW s \in Seq(S), NEW k \in DOMAIN s
  PROVE  /\ RemoveAt(s, k) \in Seq(S)
         /\ Len(RemoveAt(s, k)) = Len(s) - 1
         /\ \A i \in 1..(Len(s) - 1) :
              RemoveAt(s, k)[i] = IF i < k THEN s[i] ELSE s[i + 1]
<1> DEFINE front == SubSeq(s, 1, k - 1)
           back  == SubSeq(s, k + 1, Len(s))
<1>1. Len(s) \in Nat /\ k \in 1..Len(s) /\ \A i \in 1..Len(s) : s[i] \in S
  BY LenProperties, ElementOfSeq
<1>2. front \in Seq(S) /\ Len(front) = k - 1 /\ \A i \in 1..(k - 1) : front[i] = s[i]
  <2>1. \A i \in 1..(k - 1) : s[i] \in S
    BY <1>1
  <2>2. /\ front \in Seq(S)
        /\ Len(front) = IF 1 <= k - 1 THEN (k - 1) - 1 + 1 ELSE 0
        /\ \A i \in 1..((k - 1) - 1 + 1) : front[i] = s[1 + i - 1]
    <3>1. 1 \in Int /\ k - 1 \in Int
      BY <1>1
    <3> QED BY <2>1, <3>1, SubSeqProperties
  <2> QED BY <1>1, <2>2
<1>3. back \in Seq(S) /\ Len(back) = Len(s) - k /\ \A i \in 1..(Len(s) - k) : back[i] = s[k + i]
  <2>1. \A i \in (k + 1)..Len(s) : s[i] \in S
    BY <1>1
  <2>2. /\ back \in Seq(S)
        /\ Len(back) = IF k + 1 <= Len(s) THEN Len(s) - (k + 1) + 1 ELSE 0
        /\ \A i \in 1..(Len(s) - (k + 1) + 1) : back[i] = s[(k + 1) + i - 1]
    <3>1. k + 1 \in Int /\ Len(s) \in Int
      BY <1>1
    <3> QED BY <2>1, <3>1, SubSeqProperties
  <2> QED BY <1>1, <2>2
<1> HIDE DEF front, back
<1>4. /\ front \o back \in Seq(S)
      /\ Len(front \o back) = Len(front) + Len(back)
      /\ \A i \in 1..(Len(front) + Len(back)) :
           (front \o back)[i] = IF i <= Len(front) THEN front[i] ELSE back[i - Len(front)]
  BY <1>2, <1>3, ConcatProperties
<1>5. RemoveAt(s, k) = front \o back
  BY DEF RemoveAt, front, back
<1> QED
  <2>1. Len(front) + Len(back) = Len(s) - 1
    BY <1>1, <1>2, <1>3
  <2>2. ASSUME NEW i \in 1..(Len(s) - 1)
        PROVE  (front \o back)[i] = IF i < k THEN s[i] ELSE s[i + 1]
    <3>1. (front \o back)[i] = IF i <= k - 1 THEN front[i] ELSE back[i - (k - 1)]
      BY <1>2, <1>4, <2>1
    <3>2. CASE i < k
      BY <1>1, <1>2, <3>1, <3>2
    <3>3. CASE ~(i < k)
      <4>1. i - (k - 1) \in 1..(Len(s) - k) /\ k + (i - (k - 1)) = i + 1
        BY <1>1, <3>3
      <4>2. (front \o back)[i] = back[i - (k - 1)]
        BY <1>1, <3>1, <3>3
      <4>3. back[i - (k - 1)] = s[k + (i - (k - 1))]
        BY <1>3, <4>1
      <4> QED BY <3>3, <4>1, <4>2, <4>3
    <3> QED BY <3>2, <3>3
  <2> QED BY <1>4, <1>5, <2>1, <2>2

LEMMA SeqFacts ==
  ASSUME Types
  PROVE  /\ Len(line) \in Nat /\ DOMAIN line = 1..Len(line)
         /\ \A i \in DOMAIN line : line[i] \in Operations
         /\ Len(settled) \in Nat /\ DOMAIN settled = 1..Len(settled)
         /\ \A i \in DOMAIN settled : settled[i] \in Operations
         /\ Len(ran) \in Nat /\ DOMAIN ran = 1..Len(ran)
         /\ \A i \in DOMAIN ran : ran[i] \in Operations
BY LenProperties, ElementOfSeq DEF Types

LEMMA AppendFacts ==
  ASSUME NEW s \in Seq(Operations), NEW o \in Operations
  PROVE  /\ Append(s, o) \in Seq(Operations) /\ Len(Append(s, o)) = Len(s) + 1
         /\ Len(s) \in Nat /\ DOMAIN s = 1..Len(s) /\ DOMAIN Append(s, o) = 1..(Len(s) + 1)
         /\ \A i \in 1..Len(s) : Append(s, o)[i] = s[i]
         /\ Append(s, o)[Len(s) + 1] = o
OBVIOUS

LEMMA TailFacts ==
  ASSUME NEW s \in Seq(Operations), s # <<>>
  PROVE  /\ Tail(s) \in Seq(Operations) /\ Len(Tail(s)) = Len(s) - 1
         /\ Len(s) \in Nat \ {0} /\ DOMAIN s = 1..Len(s) /\ DOMAIN Tail(s) = 1..(Len(s) - 1)
         /\ \A i \in 1..(Len(s) - 1) : Tail(s)[i] = s[i + 1]
         /\ Head(s) = s[1] /\ s[1] \in Operations
<1>1. /\ Tail(s) \in Seq(Operations) /\ Len(Tail(s)) = Len(s) - 1
      /\ \A i \in 1..Len(Tail(s)) : Tail(s)[i] = s[i + 1]
  BY HeadTailProperties
<1>2. Len(s) \in Nat \ {0} /\ DOMAIN s = 1..Len(s) /\ Head(s) = s[1] /\ s[1] \in Operations
  BY EmptySeq, LenProperties, ElementOfSeq
<1>3. DOMAIN Tail(s) = 1..(Len(s) - 1)
  BY <1>1, LenProperties
<1> QED BY <1>1, <1>2, <1>3

-----------------------------------------------------------------------------
(* The line.                                                                *)

LEMMA LineJoins ==
  ASSUME Types, Line, NEW o \in Operations, stage[o] \notin {"queued", "ran"},
         line' = Append(line, o), stage' = [stage EXCEPT ![o] = "queued"]
  PROVE  Line' /\ line' \in Seq(Operations)
<1>1. /\ line' \in Seq(Operations) /\ Len(line') = Len(line) + 1
      /\ Len(line) \in Nat /\ DOMAIN line = 1..Len(line) /\ DOMAIN line' = 1..(Len(line) + 1)
      /\ \A i \in 1..Len(line) : line'[i] = line[i]
      /\ line'[Len(line) + 1] = o
  BY AppendFacts DEF Types
<1>2. \A i \in 1..Len(line) : line[i] \in Operations /\ line[i] # o
  BY <1>1, SeqFacts DEF Line
<1>3. \A i \in 1..(Len(line) + 1) : i \in 1..Len(line) \/ i = Len(line) + 1
  BY <1>1
<1>4. stage'[o] = "queued" /\ \A q \in Operations : q # o => stage'[q] = stage[q]
  BY DEF Types
<1>5. ASSUME NEW i \in DOMAIN line', NEW j \in DOMAIN line', line'[i] = line'[j] PROVE i = j
  BY <1>1, <1>2, <1>3, <1>5 DEF Line
<1>6. \A i \in DOMAIN line' : stage'[line'[i]] \in {"queued", "ran"}
  BY <1>1, <1>2, <1>3, <1>4 DEF Line
<1>7. ASSUME NEW q \in Operations, stage'[q] = "ran" PROVE line' # <<>> /\ line'[1] = q
  <2>1. line # <<>> /\ line[1] = q
    BY <1>4, <1>7 DEF Line
  <2>2. Len(line) >= 1
    BY <1>1, <2>1, EmptySeq DEF Types
  <2> QED BY <1>1, <2>1, <2>2
<1> QED BY <1>1, <1>5, <1>6, <1>7 DEF Line

LEMMA LineLeaves ==
  ASSUME Types, Line, NEW o \in Operations, NEW next \in Stages, stage[o] = "queued", next # "ran",
         LeavesLine(o), stage' = [stage EXCEPT ![o] = next]
  PROVE  Line' /\ line' \in Seq(Operations)
<1>1. PICK k \in DOMAIN line : line[k] = o /\ line' = RemoveAt(line, k)
  BY DEF LeavesLine
<1>2. Len(line) \in Nat /\ DOMAIN line = 1..Len(line) /\ \A i \in DOMAIN line : line[i] \in Operations
  BY SeqFacts
<1>3. /\ line' \in Seq(Operations) /\ Len(line') = Len(line) - 1
      /\ \A i \in 1..(Len(line) - 1) : line'[i] = IF i < k THEN line[i] ELSE line[i + 1]
  BY <1>1, RemoveAtIsRemoval DEF Types
<1>4. DOMAIN line' = 1..(Len(line) - 1)
  BY <1>3, LenProperties
<1> DEFINE old(n) == IF n < k THEN n ELSE n + 1
<1>5. \A i \in DOMAIN line' : old(i) \in DOMAIN line /\ old(i) # k /\ line'[i] = line[old(i)]
  BY <1>1, <1>2, <1>3, <1>4
<1>6. \A q \in Operations : q # o => stage'[q] = stage[q]
  BY DEF Types
<1>7. ASSUME NEW i \in DOMAIN line', NEW j \in DOMAIN line', line'[i] = line'[j] PROVE i = j
  <2>1. old(i) = old(j)
    <3> HIDE DEF old
    <3> QED BY <1>5, <1>7 DEF Line
  <2> QED BY <1>2, <1>4, <2>1
<1>8. \A i \in DOMAIN line' : stage'[line'[i]] \in {"queued", "ran"}
  <2> HIDE DEF old
  <2>1. \A i \in DOMAIN line' : line[old(i)] # o /\ line[old(i)] \in Operations
    BY <1>1, <1>2, <1>5 DEF Line
  <2> QED BY <1>5, <1>6, <2>1 DEF Line
<1>9. ASSUME NEW q \in Operations, stage'[q] = "ran" PROVE line' # <<>> /\ line'[1] = q
  <2>1. q # o /\ stage[q] = "ran"
    BY <1>6, <1>9 DEF Types
  <2>2. line[1] = q /\ k # 1
    BY <1>1, <2>1 DEF Line
  <2>3. 1 \in 1..(Len(line) - 1) /\ 1 < k
    BY <1>1, <1>2, <2>2
  <2>4. line'[1] = line[1] /\ Len(line') # 0
    BY <1>2, <1>3, <2>3
  <2> QED BY <2>2, <2>4
<1> QED BY <1>3, <1>7, <1>8, <1>9 DEF Line

LEMMA LineMovesUp ==
  ASSUME Types, Line, NEW o \in Operations, NEW next \in Stages, next # "ran",
         line # <<>>, line[1] = o, line' = Tail(line), stage' = [stage EXCEPT ![o] = next]
  PROVE  Line' /\ line' \in Seq(Operations)
<1>1. /\ line' \in Seq(Operations) /\ Len(line) \in Nat \ {0}
      /\ DOMAIN line = 1..Len(line) /\ DOMAIN line' = 1..(Len(line) - 1)
      /\ \A i \in 1..(Len(line) - 1) : line'[i] = line[i + 1]
  BY TailFacts DEF Types
<1>2. stage'[o] = next /\ \A q \in Operations : q # o => stage'[q] = stage[q]
  BY DEF Types
<1>3. \A i \in 1..(Len(line) - 1) : i + 1 \in DOMAIN line /\ i + 1 # 1
  BY <1>1
<1>4. \A i \in 1..(Len(line) - 1) : line[i + 1] \in Operations /\ line[i + 1] # o
  BY <1>1, <1>3, SeqFacts DEF Line
<1>5. ASSUME NEW i \in DOMAIN line', NEW j \in DOMAIN line', line'[i] = line'[j] PROVE i = j
  <2>1. i + 1 = j + 1
    BY <1>1, <1>3, <1>5 DEF Line
  <2> QED BY <1>1, <2>1
<1>6. \A i \in DOMAIN line' : stage'[line'[i]] \in {"queued", "ran"}
  BY <1>1, <1>2, <1>3, <1>4 DEF Line
<1>7. ASSUME NEW q \in Operations, stage'[q] = "ran" PROVE FALSE
  BY <1>2, <1>7 DEF Line
<1> QED BY <1>1, <1>5, <1>6, <1>7 DEF Line

-----------------------------------------------------------------------------
(* The last operation on a part, and the steps that leave the cache alone.  *)

\* What has run was asked for.
LEMMA RanFacts ==
  ASSUME Types, InTurn
  PROVE  \A i \in DOMAIN ran : ran[i] \in Operations /\ stage[ran[i]] \notin {"idle", "checking", "queued"}
BY SeqFacts DEF InTurn, Done

LEMMA LastFrame ==
  ASSUME Types, InTurn, ran' = ran,
         \A q \in Operations : stage[q] # "idle" => request'[q] = request[q],
         NEW o \in Operations, NEW p \in Parts
  PROVE  IsLast(o, p)' <=> IsLast(o, p)
<1>1. \A i \in DOMAIN ran : request'[ran[i]] = request[ran[i]]
  BY RanFacts
<1>2. \A i \in DOMAIN ran : Touches(ran[i])' = Touches(ran[i])
  BY <1>1 DEF Touches
<1>3. \A i \in DOMAIN ran : ran[i] = o => Touches(o)' = Touches(o)
  BY <1>1 DEF Touches
<1> QED BY <1>2, <1>3 DEF IsLast

LEMMA Appends ==
  ASSUME Types, InTurn, NEW o \in Operations, stage[o] = "queued",
         ran' = Append(ran, o), request' = request,
         NEW q \in Operations, NEW p \in Parts
  PROVE  IsLast(q, p)' <=> IF p \in Touches(o) THEN q = o ELSE IsLast(q, p)
<1>1. /\ Len(ran) \in Nat /\ DOMAIN ran = 1..Len(ran) /\ DOMAIN ran' = 1..(Len(ran) + 1)
      /\ \A i \in 1..Len(ran) : ran'[i] = ran[i]
      /\ ran'[Len(ran) + 1] = o
  BY AppendFacts DEF Types
<1>2. \A i \in DOMAIN ran : ran[i] # o
  BY RanFacts
<1>3. PICK n \in Nat : n = Len(ran)
  BY <1>1
<1>4. \A r : Touches(r)' = Touches(r)
  BY DEF Touches
<1>5. IsLast(q, p)' <=> \E i \in 1..(n + 1) :
        /\ ran'[i] = q /\ p \in Touches(q)
        /\ \A j \in 1..(n + 1) : p \in Touches(ran'[j]) => j <= i
  BY <1>1, <1>3, <1>4 DEF IsLast
<1>6. IsLast(q, p) <=> \E i \in 1..n :
        /\ ran[i] = q /\ p \in Touches(q)
        /\ \A j \in 1..n : p \in Touches(ran[j]) => j <= i
  BY <1>1, <1>3 DEF IsLast
<1> DEFINE touches(r) == p \in Touches(r)
<1>7. /\ \A i \in 1..n : ran'[i] = ran[i] /\ ran[i] # o
      /\ ran'[n + 1] = o
  BY <1>1, <1>2, <1>3
<1>8. IsLast(q, p)' <=> \E i \in 1..(n + 1) :
        /\ ran'[i] = q /\ touches(q)
        /\ \A j \in 1..(n + 1) : touches(ran'[j]) => j <= i
  BY <1>5
<1>9. IsLast(q, p) <=> \E i \in 1..n :
        /\ ran[i] = q /\ touches(q)
        /\ \A j \in 1..n : touches(ran[j]) => j <= i
  BY <1>6
<1>10. touches(o) <=> p \in Touches(o)
  OBVIOUS
<1> HIDE DEF touches
<1>11. CASE touches(o)
  <2>1. ASSUME IsLast(q, p)' PROVE q = o
    BY <1>7, <1>8, <1>11, <2>1
  <2>2. ASSUME q = o PROVE IsLast(q, p)'
    <3>1. n + 1 \in 1..(n + 1) /\ \A j \in 1..(n + 1) : j <= n + 1
      OBVIOUS
    <3> QED BY <1>7, <1>8, <1>11, <2>2, <3>1
  <2> QED BY <1>10, <1>11, <2>1, <2>2
<1>12. CASE ~touches(o)
  <2>1. \A i \in 1..(n + 1) : i \in 1..n \/ i = n + 1
    OBVIOUS
  <2>2. \A i \in 1..n : i \in 1..(n + 1)
    OBVIOUS
  <2>3. ASSUME IsLast(q, p)' PROVE IsLast(q, p)
    <3>1. PICK i \in 1..(n + 1) :
            /\ ran'[i] = q /\ touches(q) /\ \A j \in 1..(n + 1) : touches(ran'[j]) => j <= i
      BY <1>8, <2>3
    <3>2. i \in 1..n
      BY <1>7, <1>12, <2>1, <3>1
    <3>3. \A j \in 1..n : touches(ran[j]) => j <= i
      BY <1>7, <2>2, <3>1
    <3> QED BY <1>7, <1>9, <3>1, <3>2, <3>3
  <2>4. ASSUME IsLast(q, p) PROVE IsLast(q, p)'
    <3>1. PICK i \in 1..n : /\ ran[i] = q /\ touches(q) /\ \A j \in 1..n : touches(ran[j]) => j <= i
      BY <1>9, <2>4
    <3>2. ASSUME NEW j \in 1..(n + 1), touches(ran'[j]) PROVE j <= i
      <4>1. j \in 1..n
        BY <1>7, <1>12, <2>1, <3>2
      <4> QED BY <1>7, <3>1, <3>2, <4>1
    <3> QED BY <1>7, <1>8, <2>2, <3>1, <3>2
  <2> QED BY <1>10, <1>12, <2>3, <2>4
<1> QED BY <1>11, <1>12

LEMMA CacheFrame ==
  ASSUME Types, InTurn, MockCache, NativeCache, CacheIsCurrent,
         mock' = mock, ran' = ran, shell' = shell, UNCHANGED cached, observed' = observed,
         \A q \in Operations : stage[q] # "idle" => request'[q] = request[q],
         \A q \in Operations : stage'[q] = "cached" <=> stage[q] = "cached",
         \A q \in Operations : stage'[q] \in {"ran", "settled"} =>
            \/ stage[q] \in {"ran", "settled"}
            \/ mock => IsScript(q)'
  PROVE  MockCache' /\ NativeCache' /\ CacheIsCurrent'
<1>1. \A o \in Operations, p \in Parts : IsLast(o, p)' <=> IsLast(o, p)
  BY LastFrame
<1>2. \A p : Cached(p)' = Cached(p)
  BY DEF Cached, cached
<1>3. CacheIsCurrent'
  BY <1>1, <1>2 DEF CacheIsCurrent
<1>4. \A q \in Operations : stage[q] # "idle" => /\ IsScript(q)' = IsScript(q)
                                                 /\ Known(q)' = Known(q)
  BY DEF IsScript, Known, Reads
<1>5. MockCache'
  <2>1. ASSUME mock, NEW q \in Operations, stage'[q] \in {"ran", "settled"} PROVE IsScript(q)'
    BY <1>4, <2>1 DEF MockCache
  <2> QED BY <1>2, <2>1 DEF MockCache
<1>6. NativeCache'
  <2>1. ASSUME ~mock, NEW o \in Operations, NEW p \in Parts, IsLast(o, p)', ~IsScript(o)'
        PROVE  shell'[p] = Known(o)'[p]
    <3>1. IsLast(o, p) /\ stage[o] # "idle"
      BY <1>1, <2>1, RanFacts DEF IsLast
    <3> QED BY <1>4, <2>1, <3>1 DEF NativeCache
  <2>2. ASSUME ~mock, NEW p \in Parts, source'[p] # 0 PROVE stage'[source'[p]] = "cached"
    <3>1. source' = source /\ source[p] \in Operations
      BY <2>2 DEF cached, Types
    <3> QED BY <2>2, <3>1 DEF NativeCache
  <2> QED BY <2>1, <2>2 DEF NativeCache
<1> QED BY <1>3, <1>5, <1>6

\* Nothing of what has run changes.
LEMMA TurnFrame ==
  ASSUME Types, InTurn, Succeeds, mock' = mock, ran' = ran,
         \A i \in DOMAIN ran : stage'[ran[i]] = stage[ran[i]],
         \A q \in Operations : success'[q] => success[q],
         \/ settled' = settled
         \/ \E o \in Operations : settled' = Append(settled, o) /\ stage[o] = "queued"
  PROVE  InTurn' /\ Succeeds'
<1>1. ASSUME NEW i \in DOMAIN ran, NEW j \in DOMAIN ran,
             NEW a \in DOMAIN settled', NEW b \in DOMAIN settled',
             settled'[a] = ran[i], settled'[b] = ran[j]
      PROVE  /\ a \in DOMAIN settled /\ b \in DOMAIN settled
             /\ settled[a] = ran[i] /\ settled[b] = ran[j]
  <2>1. CASE settled' = settled
    BY <1>1, <2>1
  <2>2. ASSUME NEW o \in Operations, settled' = Append(settled, o), stage[o] = "queued"
        PROVE  /\ a \in DOMAIN settled /\ b \in DOMAIN settled
               /\ settled[a] = ran[i] /\ settled[b] = ran[j]
    <3>1. ran[i] # o /\ ran[j] # o
      BY <2>2, RanFacts
    <3>2. /\ DOMAIN settled = 1..Len(settled) /\ DOMAIN settled' = 1..(Len(settled) + 1)
          /\ Len(settled) \in Nat /\ settled'[Len(settled) + 1] = o
          /\ \A n \in 1..Len(settled) : settled'[n] = settled[n]
      BY <2>2, AppendFacts DEF Types
    <3>3. a # Len(settled) + 1 /\ b # Len(settled) + 1
      BY <1>1, <3>1, <3>2
    <3>4. a \in 1..Len(settled) /\ b \in 1..Len(settled)
      BY <3>2, <3>3
    <3> QED BY <1>1, <3>2, <3>4
  <2> QED BY <2>1, <2>2
<1>2. InTurn'
  <2>1. ASSUME NEW i \in DOMAIN ran, NEW j \in DOMAIN ran, i < j
        PROVE  /\ stage'[ran[i]] # "ran"
               /\ \A a, b \in DOMAIN settled' : settled'[a] = ran[i] /\ settled'[b] = ran[j] => a < b
               /\ ~mock /\ stage'[ran[i]] = "settled" => stage'[ran[j]] \notin Done
    BY <1>1, <2>1 DEF InTurn
  <2> QED BY <2>1 DEF InTurn
<1>3. Succeeds'
  BY DEF Succeeds
<1> QED BY <1>2, <1>3

-----------------------------------------------------------------------------
(* The callers, and the order in which they resume.                         *)

LEMMA LineFrame ==
  ASSUME Types, Line, line' = line,
         \A i \in DOMAIN line : stage'[line[i]] \in {"queued", "ran"},
         \A q \in Operations : stage'[q] = "ran" =>
            \/ stage[q] = "ran"
            \/ line # <<>> /\ line[1] = q
  PROVE  Line'
BY DEF Line

LEMMA ResumingFrame ==
  ASSUME Types, Resuming, settled' = settled,
         \A q \in Operations : stage'[q] = "settled" <=> stage[q] = "settled"
  PROVE  Resuming'
BY SeqFacts DEF Resuming

LEMMA ResumesLater ==
  ASSUME Types, Resuming, NEW o \in Operations, stage[o] # "settled",
         settled' = Append(settled, o), stage' = [stage EXCEPT ![o] = "settled"]
  PROVE  Resuming' /\ settled' \in Seq(Operations)
<1>1. /\ settled' \in Seq(Operations) /\ Len(settled) \in Nat
      /\ DOMAIN settled = 1..Len(settled) /\ DOMAIN settled' = 1..(Len(settled) + 1)
      /\ \A i \in 1..Len(settled) : settled'[i] = settled[i]
      /\ settled'[Len(settled) + 1] = o
  BY AppendFacts DEF Types
<1>2. \A i \in 1..Len(settled) : settled[i] \in Operations /\ settled[i] # o
  BY <1>1, SeqFacts DEF Resuming
<1>3. stage'[o] = "settled" /\ \A q \in Operations : q # o => stage'[q] = stage[q]
  BY DEF Types
<1>4. \A i \in 1..(Len(settled) + 1) : i \in 1..Len(settled) \/ i = Len(settled) + 1
  BY <1>1
<1>5. /\ Len(settled) + 1 \in 1..(Len(settled) + 1)
      /\ \A i \in 1..Len(settled) : i \in 1..(Len(settled) + 1)
  BY <1>1
<1>6. ASSUME NEW i \in DOMAIN settled', NEW j \in DOMAIN settled', settled'[i] = settled'[j]
      PROVE  i = j
  BY <1>1, <1>2, <1>4, <1>6 DEF Resuming
<1>7. \A i \in DOMAIN settled' : stage'[settled'[i]] = "settled"
  BY <1>1, <1>2, <1>3, <1>4 DEF Resuming
<1>8. ASSUME NEW q \in Operations, stage'[q] = "settled"
      PROVE  \E i \in DOMAIN settled' : settled'[i] = q
  <2>1. CASE q = o
    BY <1>1, <1>5, <2>1
  <2>2. CASE q # o
    <3>1. PICK i \in 1..Len(settled) : settled[i] = q
      BY <1>1, <1>3, <1>8, <2>2 DEF Resuming
    <3> QED BY <1>1, <1>5, <3>1
  <2> QED BY <2>1, <2>2
<1> QED BY <1>1, <1>6, <1>7, <1>8 DEF Resuming

LEMMA Resumes ==
  ASSUME Types, Resuming, settled # <<>>, NEW next \in Done,
         settled' = Tail(settled), stage' = [stage EXCEPT ![settled[1]] = next]
  PROVE  Resuming' /\ settled' \in Seq(Operations)
<1>1. /\ settled' \in Seq(Operations) /\ Len(settled) \in Nat \ {0}
      /\ DOMAIN settled = 1..Len(settled) /\ DOMAIN settled' = 1..(Len(settled) - 1)
      /\ \A i \in 1..(Len(settled) - 1) : settled'[i] = settled[i + 1]
      /\ settled[1] \in Operations
  BY TailFacts DEF Types
<1>2. \A i \in 1..(Len(settled) - 1) : i + 1 \in DOMAIN settled /\ i + 1 # 1
  BY <1>1
<1>3. \A i \in DOMAIN settled : i = 1 \/ (i - 1 \in DOMAIN settled' /\ (i - 1) + 1 = i)
  BY <1>1
<1>4. \A i \in 1..(Len(settled) - 1) : settled[i + 1] \in Operations /\ settled[i + 1] # settled[1]
  <2>1. 1 \in DOMAIN settled
    BY <1>1
  <2> QED BY <1>1, <1>2, <2>1, SeqFacts DEF Resuming
<1>5. /\ stage'[settled[1]] = next /\ next # "settled"
      /\ \A q \in Operations : q # settled[1] => stage'[q] = stage[q]
  BY <1>1 DEF Types, Done
<1>6. ASSUME NEW i \in DOMAIN settled', NEW j \in DOMAIN settled', settled'[i] = settled'[j]
      PROVE  i = j
  <2>1. i + 1 = j + 1
    BY <1>1, <1>2, <1>6 DEF Resuming
  <2> QED BY <1>1, <2>1
<1>7. \A i \in DOMAIN settled' : stage'[settled'[i]] = "settled"
  BY <1>1, <1>2, <1>4, <1>5 DEF Resuming
<1>8. ASSUME NEW q \in Operations, stage'[q] = "settled"
      PROVE  \E i \in DOMAIN settled' : settled'[i] = q
  <2>1. q # settled[1] /\ stage[q] = "settled"
    BY <1>5, <1>8
  <2>2. PICK i \in DOMAIN settled : settled[i] = q
    BY <2>1 DEF Resuming
  <2>3. i - 1 \in DOMAIN settled' /\ (i - 1) + 1 = i
    BY <1>3, <2>1, <2>2
  <2>4. settled'[i - 1] = settled[(i - 1) + 1]
    BY <1>1, <2>3
  <2> QED BY <2>2, <2>3, <2>4
<1> QED BY <1>1, <1>6, <1>7, <1>8 DEF Resuming

\* Only the head of the line touches the state, and nobody else runs then.
LEMMA TurnGrows ==
  ASSUME Types, Line, Resuming, InTurn, Succeeds, mock' = mock, settled' = settled,
         NEW o \in Operations, stage[o] = "queued", line # <<>>, line[1] = o,
         ran' = Append(ran, o), NEW next, next = "ran" \/ (mock /\ next = "cached"),
         stage' = [stage EXCEPT ![o] = next],
         \A q \in Operations : q # o /\ success'[q] => success[q]
  PROVE  InTurn' /\ Succeeds' /\ ran' \in Seq(Operations)
<1>1. /\ ran' \in Seq(Operations) /\ Len(ran) \in Nat
      /\ DOMAIN ran = 1..Len(ran) /\ DOMAIN ran' = 1..(Len(ran) + 1)
      /\ \A i \in 1..Len(ran) : ran'[i] = ran[i]
      /\ ran'[Len(ran) + 1] = o
  BY AppendFacts DEF Types
<1>2. \A i \in 1..Len(ran) : ran[i] \in Operations /\ ran[i] # o
  BY <1>1, RanFacts
<1>3. stage'[o] = next /\ \A q \in Operations : q # o => stage'[q] = stage[q]
  BY DEF Types
<1>4. \A i \in 1..(Len(ran) + 1) : i \in 1..Len(ran) \/ i = Len(ran) + 1
  BY <1>1
<1>5. /\ Len(ran) + 1 \in 1..(Len(ran) + 1)
      /\ \A i \in 1..Len(ran) : i \in 1..(Len(ran) + 1)
  BY <1>1
<1>6. \A q \in Operations : stage[q] # "ran"
  BY DEF Line
<1>7. \A a \in DOMAIN settled : settled[a] # o
  BY DEF Resuming
<1>8. ASSUME NEW i \in DOMAIN ran', NEW j \in DOMAIN ran', ran'[i] = ran'[j] PROVE i = j
  BY <1>1, <1>2, <1>4, <1>8 DEF InTurn
<1>9. \A i \in DOMAIN ran' : stage'[ran'[i]] \in {"ran", "settled"} \cup Done
  BY <1>1, <1>2, <1>3, <1>4 DEF InTurn, Done
<1>10. ASSUME NEW i \in DOMAIN ran', NEW j \in DOMAIN ran', i < j
       PROVE  /\ stage'[ran'[i]] # "ran"
              /\ \A a, b \in DOMAIN settled : settled[a] = ran'[i] /\ settled[b] = ran'[j] => a < b
              /\ ~mock /\ stage'[ran'[i]] = "settled" => stage'[ran'[j]] \notin Done
  <2>1. i \in 1..Len(ran)
    BY <1>1, <1>10
  <2>2. stage'[ran'[i]] = stage[ran[i]] /\ ran'[i] = ran[i]
    BY <1>1, <1>2, <1>3, <2>1
  <2>3. CASE j \in 1..Len(ran)
    <3>1. stage'[ran'[j]] = stage[ran[j]] /\ ran'[j] = ran[j]
      BY <1>1, <1>2, <1>3, <2>3
    <3> QED BY <1>1, <1>10, <2>1, <2>2, <2>3, <3>1 DEF InTurn
  <2>4. CASE j = Len(ran) + 1
    <3>1. ran'[j] = o /\ stage'[ran'[j]] = next
      BY <1>1, <1>3, <2>4
    <3> QED BY <1>2, <1>6, <1>7, <2>1, <2>2, <3>1 DEF Done
  <2> QED BY <1>1, <1>4, <2>3, <2>4
<1>11. InTurn'
  BY <1>8, <1>9, <1>10 DEF InTurn
<1>12. ASSUME NEW q \in Operations, success'[q]
       PROVE  /\ stage'[q] \in {"ran", "settled"} \cup Done
              /\ \E i \in DOMAIN ran' : ran'[i] = q
  <2>1. CASE q = o
    BY <1>1, <1>3, <1>5, <2>1 DEF Done
  <2>2. CASE q # o
    <3>1. stage'[q] \in {"ran", "settled"} \cup Done /\ \E i \in 1..Len(ran) : ran[i] = q
      BY <1>1, <1>3, <1>12, <2>2 DEF Succeeds
    <3> QED BY <1>1, <1>5, <3>1
  <2> QED BY <2>1, <2>2
<1> QED BY <1>1, <1>11, <1>12 DEF Succeeds

\* What settles is the last that ran, so its caller resumes after the earlier ones.
LEMMA TurnSettles ==
  ASSUME Types, Line, Resuming, InTurn, Succeeds, mock' = mock, ran' = ran,
         NEW o \in Operations, stage[o] = "ran",
         settled' = Append(settled, o), stage' = [stage EXCEPT ![o] = "settled"],
         \A q \in Operations : success'[q] => success[q]
  PROVE  InTurn' /\ Succeeds'
<1>1. /\ Len(settled) \in Nat
      /\ DOMAIN settled = 1..Len(settled) /\ DOMAIN settled' = 1..(Len(settled) + 1)
      /\ \A i \in 1..Len(settled) : settled'[i] = settled[i]
      /\ settled'[Len(settled) + 1] = o
  BY AppendFacts DEF Types
<1>2. stage'[o] = "settled" /\ \A q \in Operations : q # o => stage'[q] = stage[q]
  BY DEF Types
<1>3. \A i \in DOMAIN ran : ran[i] \in Operations
  BY RanFacts
<1>4. \A i \in 1..(Len(settled) + 1) : i \in 1..Len(settled) \/ i = Len(settled) + 1
  BY <1>1
<1>5. \A i \in DOMAIN ran : stage'[ran[i]] \in {"ran", "settled"} \cup Done
  BY <1>2, <1>3 DEF InTurn
<1>6. ASSUME NEW i \in DOMAIN ran, NEW j \in DOMAIN ran, i < j
      PROVE  /\ stage'[ran[i]] # "ran"
             /\ \A a, b \in DOMAIN settled' : settled'[a] = ran[i] /\ settled'[b] = ran[j] => a < b
             /\ ~mock /\ stage'[ran[i]] = "settled" => stage'[ran[j]] \notin Done
  <2>1. stage[ran[i]] # "ran" /\ ran[i] # o
    BY <1>6 DEF InTurn
  <2>2. stage'[ran[i]] = stage[ran[i]]
    BY <1>2, <1>3, <2>1
  <2>3. ASSUME NEW a \in DOMAIN settled', NEW b \in DOMAIN settled',
               settled'[a] = ran[i], settled'[b] = ran[j]
        PROVE  a < b
    <3>1. a \in 1..Len(settled) /\ settled[a] = ran[i]
      BY <1>1, <1>4, <2>1, <2>3
    <3>2. CASE b = Len(settled) + 1
      BY <1>1, <3>1, <3>2
    <3>3. CASE b \in 1..Len(settled)
      BY <1>1, <1>6, <2>3, <3>1, <3>3 DEF InTurn
    <3> QED BY <1>1, <1>4, <3>2, <3>3
  <2>4. ASSUME ~mock, stage'[ran[i]] = "settled" PROVE stage'[ran[j]] \notin Done
    <3>1. stage[ran[j]] \notin Done
      BY <1>6, <2>2, <2>4 DEF InTurn
    <3> QED BY <1>2, <1>3, <3>1 DEF Done
  <2> QED BY <2>1, <2>2, <2>3, <2>4
<1>7. InTurn'
  BY <1>5, <1>6 DEF InTurn
<1>8. Succeeds'
  BY <1>2 DEF Succeeds
<1> QED BY <1>7, <1>8

\* No caller resumes before that of an earlier command.
LEMMA TurnResumes ==
  ASSUME Types, Resuming, InTurn, Succeeds, mock' = mock, ran' = ran, success' = success,
         settled # <<>>, NEW next \in Done,
         settled' = Tail(settled), stage' = [stage EXCEPT ![settled[1]] = next]
  PROVE  InTurn' /\ Succeeds'
<1>1. /\ Len(settled) \in Nat \ {0}
      /\ DOMAIN settled = 1..Len(settled) /\ DOMAIN settled' = 1..(Len(settled) - 1)
      /\ \A i \in 1..(Len(settled) - 1) : settled'[i] = settled[i + 1]
      /\ settled[1] \in Operations
  BY TailFacts DEF Types
<1>2. /\ stage'[settled[1]] = next
      /\ \A q \in Operations : q # settled[1] => stage'[q] = stage[q]
  BY <1>1 DEF Types
<1>3. \A i \in DOMAIN ran : ran[i] \in Operations
  BY RanFacts
<1>4. \A i \in DOMAIN ran : stage'[ran[i]] \in {"ran", "settled"} \cup Done
  BY <1>2, <1>3 DEF InTurn
<1>5. 1 \in DOMAIN settled /\ \A a \in DOMAIN settled : ~(a < 1)
  BY <1>1
<1>6. ASSUME NEW i \in DOMAIN ran, NEW j \in DOMAIN ran, i < j
      PROVE  /\ stage'[ran[i]] # "ran"
             /\ \A a, b \in DOMAIN settled' : settled'[a] = ran[i] /\ settled'[b] = ran[j] => a < b
             /\ ~mock /\ stage'[ran[i]] = "settled" => stage'[ran[j]] \notin Done
  <2>1. stage'[ran[i]] # "ran"
    BY <1>2, <1>3, <1>6 DEF InTurn, Done
  <2>2. ASSUME NEW a \in DOMAIN settled', NEW b \in DOMAIN settled',
               settled'[a] = ran[i], settled'[b] = ran[j]
        PROVE  a < b
    <3>1. a + 1 \in DOMAIN settled /\ b + 1 \in DOMAIN settled
      BY <1>1
    <3>2. settled[a + 1] = ran[i] /\ settled[b + 1] = ran[j]
      BY <1>1, <2>2
    <3>3. a + 1 < b + 1
      BY <1>6, <3>1, <3>2 DEF InTurn
    <3> QED BY <1>1, <3>3
  <2>3. ASSUME ~mock, stage'[ran[i]] = "settled" PROVE stage'[ran[j]] \notin Done
    <3>1. ran[i] # settled[1] /\ stage[ran[i]] = "settled"
      BY <1>2, <1>3, <2>3 DEF Done
    <3>2. stage[ran[j]] \notin Done
      BY <1>6, <2>3, <3>1 DEF InTurn
    <3>3. PICK a \in DOMAIN settled : settled[a] = ran[i]
      BY <1>3, <3>1 DEF Resuming
    <3>4. ran[j] # settled[1]
      BY <1>5, <1>6, <3>3 DEF InTurn
    <3> QED BY <1>2, <1>3, <3>2, <3>4
  <2> QED BY <2>1, <2>2, <2>3
<1>7. InTurn'
  BY <1>4, <1>6 DEF InTurn
<1>8. Succeeds'
  BY <1>2 DEF Succeeds
<1> QED BY <1>7, <1>8

-----------------------------------------------------------------------------
(* Each action.                                                             *)

LEMMA EffectFacts ==
  ASSUME Types, NEW o \in Operations
  PROVE  /\ Effect(o) \in States
         /\ \A p \in Parts :
              Effect(o)[p] = IF ~Reads(o) /\ p = request[o].name THEN request[o].value ELSE shell[p]
<1>1. request[o].value \in Values \cup {Missing}
  BY StateAssumption DEF Types, NoRequest
<1> QED BY <1>1 DEF Types, Effect, States

LEMMA SubmitKeepsInv ==
  ASSUME Inv, NEW o \in Operations, Submit(o)
  PROVE  Inv'
<1> USE DEF Inv, Order
<1>1. /\ stage[o] = "idle" /\ (~mock \/ IsScript(o)')
      /\ mock' = mock /\ shell' = shell /\ UNCHANGED cached /\ success' = success
      /\ observed' = observed /\ settled' = settled /\ ran' = ran
  BY DEF Submit, Asks, configuration
<1>2. PICK r \in Requests : request' = [request EXCEPT ![o] = r]
  BY DEF Submit, Asks
<1>3. \A q \in Operations : q # o => request'[q] = request[q]
  BY <1>2 DEF Types
<1>4. request' \in [Operations -> Requests \cup {NoRequest}]
  BY <1>2 DEF Types
<1>5. PICK next \in {"queued", "left"} : Moves(o, next)
  BY DEF Submit
<1>6. stage' = [stage EXCEPT ![o] = next] /\ stage' \in [Operations -> Stages]
  BY <1>5 DEF Moves, Types, Stages
<1>7. stage'[o] = next /\ \A q \in Operations : q # o => stage'[q] = stage[q]
  BY <1>6 DEF Types
<1>8. Line' /\ line' \in Seq(Operations)
  <2>1. CASE Moves(o, "queued") /\ line' = Append(line, o)
    BY <1>1, <2>1, LineJoins DEF Moves
  <2>2. CASE Moves(o, "left") /\ line' = line
    <3>1. \A q \in Operations : q # o => stage'[q] = stage[q]
      BY <1>7
    <3>2. stage'[o] = "left"
      BY <2>2 DEF Moves, Types
    <3>3. \A i \in DOMAIN line : line[i] # o /\ line[i] \in Operations
      BY <1>1, SeqFacts DEF Line
    <3> QED BY <2>2, <3>1, <3>2, <3>3, LineFrame DEF Types, Line
  <2> QED BY <2>1, <2>2 DEF Submit
<1>9. Types'
  BY <1>1, <1>4, <1>6, <1>8 DEF Types, cached
<1>10. Resuming'
  BY <1>1, <1>7, ResumingFrame
<1>11. InTurn' /\ Succeeds'
  <2>1. \A i \in DOMAIN ran : stage'[ran[i]] = stage[ran[i]]
    BY <1>1, <1>7, RanFacts
  <2> QED BY <1>1, <2>1, TurnFrame
<1>12. MockCache' /\ NativeCache' /\ CacheIsCurrent'
  <2>1. \A q \in Operations : stage[q] # "idle" => request'[q] = request[q]
    BY <1>1, <1>3
  <2>2. \A q \in Operations : /\ stage'[q] = "cached" <=> stage[q] = "cached"
                              /\ stage'[q] \in {"ran", "settled"} => stage[q] \in {"ran", "settled"}
    BY <1>1, <1>7
  <2> QED BY <1>1, <2>1, <2>2, CacheFrame
<1> QED BY <1>8, <1>9, <1>10, <1>11, <1>12

LEMMA MockBeginsKeepsInv ==
  ASSUME Inv, NEW o \in Operations, MockBegins(o)
  PROVE  Inv'
<1> USE DEF Inv, Order
<1>1. /\ stage[o] = "idle"
      /\ mock' = mock /\ shell' = shell /\ UNCHANGED cached /\ success' = success
      /\ observed' = observed /\ settled' = settled /\ ran' = ran /\ line' = line
  BY DEF MockBegins, Asks, configuration
<1>2. PICK r \in Requests : request' = [request EXCEPT ![o] = r]
  BY DEF MockBegins, Asks
<1>3. \A q \in Operations : q # o => request'[q] = request[q]
  BY <1>2 DEF Types
<1>4. request' \in [Operations -> Requests \cup {NoRequest}]
  BY <1>2 DEF Types
<1>5. PICK next \in {"checking", "left"} : Moves(o, next)
  BY DEF MockBegins
<1>6. stage' = [stage EXCEPT ![o] = next] /\ stage' \in [Operations -> Stages]
  BY <1>5 DEF Moves, Types, Stages
<1>7. stage'[o] = next /\ \A q \in Operations : q # o => stage'[q] = stage[q]
  BY <1>6 DEF Types
<1>8. Line'
  <2>1. \A i \in DOMAIN line : line[i] # o /\ line[i] \in Operations
    BY <1>1, SeqFacts DEF Line
  <2> QED BY <1>1, <1>7, <2>1, LineFrame DEF Line
<1>9. Types'
  BY <1>1, <1>4, <1>6 DEF Types, cached
<1>10. Resuming'
  BY <1>1, <1>7, ResumingFrame
<1>11. InTurn' /\ Succeeds'
  <2>1. \A i \in DOMAIN ran : stage'[ran[i]] = stage[ran[i]]
    BY <1>1, <1>7, RanFacts
  <2> QED BY <1>1, <2>1, TurnFrame
<1>12. MockCache' /\ NativeCache' /\ CacheIsCurrent'
  <2>1. \A q \in Operations : stage[q] # "idle" => request'[q] = request[q]
    BY <1>1, <1>3
  <2>2. \A q \in Operations : /\ stage'[q] = "cached" <=> stage[q] = "cached"
                              /\ stage'[q] \in {"ran", "settled"} => stage[q] \in {"ran", "settled"}
    BY <1>1, <1>7
  <2> QED BY <1>1, <2>1, <2>2, CacheFrame
<1> QED BY <1>8, <1>9, <1>10, <1>11, <1>12

LEMMA MockQueuesKeepsInv ==
  ASSUME Inv, NEW o \in Operations, MockQueues(o)
  PROVE  Inv'
<1> USE DEF Inv, Order
<1>1. /\ stage[o] = "checking" /\ line' = Append(line, o) /\ stage' = [stage EXCEPT ![o] = "queued"]
      /\ mock' = mock /\ shell' = shell /\ UNCHANGED cached /\ success' = success /\ request' = request
      /\ observed' = observed /\ settled' = settled /\ ran' = ran
  BY DEF MockQueues, Moves, configuration
<1>2. /\ stage' \in [Operations -> Stages] /\ stage'[o] = "queued"
      /\ \A q \in Operations : q # o => stage'[q] = stage[q]
  BY <1>1 DEF Types, Stages
<1>3. Line' /\ line' \in Seq(Operations)
  BY <1>1, LineJoins
<1>4. Types'
  BY <1>1, <1>2, <1>3 DEF Types, cached
<1>5. Resuming'
  BY <1>1, <1>2, ResumingFrame
<1>6. InTurn' /\ Succeeds'
  <2>1. \A i \in DOMAIN ran : stage'[ran[i]] = stage[ran[i]]
    BY <1>1, <1>2, RanFacts
  <2> QED BY <1>1, <2>1, TurnFrame
<1>7. MockCache' /\ NativeCache' /\ CacheIsCurrent'
  <2>1. \A q \in Operations : /\ stage'[q] = "cached" <=> stage[q] = "cached"
                              /\ stage'[q] \in {"ran", "settled"} => stage[q] \in {"ran", "settled"}
    BY <1>1, <1>2
  <2> QED BY <1>1, <2>1, CacheFrame
<1> QED BY <1>3, <1>4, <1>5, <1>6, <1>7

LEMMA WithdrawKeepsInv ==
  ASSUME Inv, NEW o \in Operations, Withdraw(o)
  PROVE  Inv'
<1> USE DEF Inv, Order
<1>1. /\ stage[o] = "queued" /\ o \in Pending /\ LeavesLine(o)
      /\ stage' = [stage EXCEPT ![o] = "settled"] /\ settled' = Append(settled, o)
      /\ mock' = mock /\ shell' = shell /\ UNCHANGED cached /\ success' = success /\ request' = request
      /\ observed' = observed /\ ran' = ran
  BY DEF Withdraw, Moves, configuration
<1>2. /\ stage' \in [Operations -> Stages] /\ stage'[o] = "settled"
      /\ \A q \in Operations : q # o => stage'[q] = stage[q]
  BY <1>1 DEF Types, Stages
<1>3. Line' /\ line' \in Seq(Operations)
  BY <1>1, LineLeaves DEF Stages
<1>4. Resuming' /\ settled' \in Seq(Operations)
  BY <1>1, ResumesLater
<1>5. Types'
  BY <1>1, <1>2, <1>3, <1>4 DEF Types, cached
<1>6. InTurn' /\ Succeeds'
  <2>1. \A i \in DOMAIN ran : stage'[ran[i]] = stage[ran[i]]
    BY <1>1, <1>2, RanFacts
  <2> QED BY <1>1, <2>1, TurnFrame
<1>7. MockCache' /\ NativeCache' /\ CacheIsCurrent'
  <2>1. mock => IsScript(o)'
    BY <1>1 DEF Pending, IsScript
  <2>2. \A q \in Operations : stage'[q] = "cached" <=> stage[q] = "cached"
    BY <1>1, <1>2
  <2>3. \A q \in Operations : stage'[q] \in {"ran", "settled"} =>
           \/ stage[q] \in {"ran", "settled"}
           \/ mock => IsScript(q)'
    BY <1>2, <2>1
  <2> QED BY <1>1, <2>2, <2>3, CacheFrame
<1> QED BY <1>3, <1>4, <1>5, <1>6, <1>7

LEMMA MockLeavesKeepsInv ==
  ASSUME Inv, NEW o \in Operations, MockLeaves(o)
  PROVE  Inv'
<1> USE DEF Inv, Order
<1>1. /\ stage[o] \in {"checking", "queued"} /\ stage' = [stage EXCEPT ![o] = "left"]
      /\ mock' = mock /\ shell' = shell /\ UNCHANGED cached /\ success' = success /\ request' = request
      /\ observed' = observed /\ settled' = settled /\ ran' = ran
  BY DEF MockLeaves, Moves, configuration
<1>2. /\ stage' \in [Operations -> Stages] /\ stage'[o] = "left"
      /\ \A q \in Operations : q # o => stage'[q] = stage[q]
  BY <1>1 DEF Types, Stages
<1>3. Line' /\ line' \in Seq(Operations)
  <2>1. CASE stage[o] = "queued"
    BY <1>1, <2>1, LineLeaves DEF Stages, MockLeaves
  <2>2. CASE stage[o] = "checking"
    <3>1. line' = line
      BY <2>2 DEF MockLeaves
    <3>2. \A i \in DOMAIN line : line[i] # o /\ line[i] \in Operations
      BY <2>2, SeqFacts DEF Line
    <3> QED BY <1>2, <3>1, <3>2, LineFrame DEF Line, Types
  <2> QED BY <1>1, <2>1, <2>2
<1>4. Types'
  BY <1>1, <1>2, <1>3 DEF Types, cached
<1>5. Resuming'
  BY <1>1, <1>2, ResumingFrame
<1>6. InTurn' /\ Succeeds'
  <2>1. \A i \in DOMAIN ran : stage'[ran[i]] = stage[ran[i]]
    BY <1>1, <1>2, RanFacts
  <2> QED BY <1>1, <2>1, TurnFrame
<1>7. MockCache' /\ NativeCache' /\ CacheIsCurrent'
  <2>1. \A q \in Operations : /\ stage'[q] = "cached" <=> stage[q] = "cached"
                              /\ stage'[q] \in {"ran", "settled"} => stage[q] \in {"ran", "settled"}
    BY <1>1, <1>2
  <2> QED BY <1>1, <2>1, CacheFrame
<1> QED BY <1>3, <1>4, <1>5, <1>6, <1>7

LEMMA SettleKeepsInv ==
  ASSUME Inv, NEW o \in Operations, Settle(o)
  PROVE  Inv'
<1> USE DEF Inv, Order
<1>1. /\ stage[o] = "ran" /\ line' = Tail(line)
      /\ stage' = [stage EXCEPT ![o] = "settled"] /\ settled' = Append(settled, o)
      /\ mock' = mock /\ shell' = shell /\ UNCHANGED cached /\ request' = request
      /\ observed' = observed /\ ran' = ran
  BY DEF Settle, Moves, configuration
<1>2. /\ stage' \in [Operations -> Stages] /\ stage'[o] = "settled"
      /\ \A q \in Operations : q # o => stage'[q] = stage[q]
  BY <1>1 DEF Types, Stages
<1>3. /\ success' \in [Operations -> BOOLEAN]
      /\ \A q \in Operations : success'[q] => success[q]
  BY DEF Settle, Types
<1>4. Line' /\ line' \in Seq(Operations)
  <2>1. line # <<>> /\ line[1] = o
    BY <1>1 DEF Line
  <2> QED BY <1>1, <2>1, LineMovesUp DEF Stages
<1>5. Resuming' /\ settled' \in Seq(Operations)
  BY <1>1, ResumesLater
<1>6. Types'
  BY <1>1, <1>2, <1>3, <1>4, <1>5 DEF Types, cached
<1>7. InTurn' /\ Succeeds'
  BY <1>1, <1>3, TurnSettles
<1>8. MockCache' /\ NativeCache' /\ CacheIsCurrent'
  <2>1. \A q \in Operations : /\ stage'[q] = "cached" <=> stage[q] = "cached"
                              /\ stage'[q] \in {"ran", "settled"} => stage[q] \in {"ran", "settled"}
    BY <1>1, <1>2
  <2> QED BY <1>1, <2>1, CacheFrame
<1> QED BY <1>4, <1>5, <1>6, <1>7, <1>8

\* Neither a cancelled caller nor a step of nobody's changes what the invariant is about.
LEMMA OthersKeepInv ==
  ASSUME Inv, UNCHANGED <<mock, request, shell, cached, stage, line, success, observed, settled, ran>>
  PROVE  Inv'
BY DEF Inv, Order, Types, Line, Resuming, InTurn, Succeeds, MockCache, NativeCache, CacheIsCurrent,
       Cached, IsLast, Touches, Known, Reads, IsScript, cached

LEMMA RunsKeepsInv ==
  ASSUME Inv, NEW o \in Operations, Runs(o)
  PROVE  Inv'
<1> USE DEF Inv, Order
<1>1. /\ stage[o] = "queued" /\ line # <<>> /\ line[1] = o /\ o \in Pending
      /\ stage' = [stage EXCEPT ![o] = "ran"]
      /\ mock' = mock /\ line' = line /\ request' = request /\ settled' = settled
  <2>1. Head(line) = line[1]
    BY TailFacts DEF Runs, Types
  <2> QED BY <2>1 DEF Runs, Moves, configuration
<1>2. /\ stage' \in [Operations -> Stages] /\ stage'[o] = "ran"
      /\ \A q \in Operations : q # o => stage'[q] = stage[q]
  BY <1>1 DEF Types, Stages
<1>3. Line'
  <2>1. \A i \in DOMAIN line : stage'[line[i]] \in {"queued", "ran"}
    BY <1>2, SeqFacts DEF Line
  <2>2. \A q \in Operations : stage'[q] = "ran" => stage[q] = "ran" \/ (line # <<>> /\ line[1] = q)
    BY <1>1, <1>2
  <2> QED BY <1>1, <2>1, <2>2, LineFrame
<1>4. Resuming'
  BY <1>1, <1>2, ResumingFrame
<1>5. PICK works \in BOOLEAN :
        /\ success' = [success EXCEPT ![o] = works]
        /\ IF works \/ IsScript(o)
           THEN shell' = Effect(o) /\ ran' = Append(ran, o)
           ELSE shell' = shell /\ ran' = ran
  BY DEF Runs
<1>6. /\ success' \in [Operations -> BOOLEAN] /\ success'[o] = works
      /\ \A q \in Operations : q # o => success'[q] = success[q]
  BY <1>5 DEF Types
<1>7. /\ observed' \in [Operations -> States]
      /\ Reads(o) => observed'[o] = shell
      /\ \A q \in Operations : q # o => observed'[q] = observed[q]
  BY DEF Runs, Types
<1>8. mock => works \/ IsScript(o)
  BY <1>1 DEF Pending
<1>9. IF mock THEN /\ cwd' = shell'["cwd"] /\ environment' = [n \in Names |-> shell'[n]]
                   /\ source' = [source EXCEPT ![request[o].name] = o]
              ELSE UNCHANGED cached
  BY DEF Runs
<1>10. /\ source' \in [Parts -> Operations \cup {0}]
       /\ mock => \A p \in Parts : Cached(p)' = shell'[p]
       /\ ~mock => source' = source /\ \A p : Cached(p)' = Cached(p)
  <2>1. CASE mock
    BY <1>9, <2>1 DEF Types, Cached, Parts
  <2>2. CASE ~mock
    BY <1>9, <2>2 DEF Types, Cached, cached
  <2> QED BY <2>1, <2>2
<1>11. ASSUME mock PROVE MockCache'
  <2>1. IsScript(o)' /\ \A q : IsScript(q)' = IsScript(q)
    BY <1>1, <1>11 DEF Pending, IsScript
  <2>2. \A q \in Operations : stage'[q] \in {"ran", "settled"} => IsScript(q)'
    BY <1>2, <1>11, <2>1 DEF MockCache
  <2> QED BY <1>10, <1>11, <2>2 DEF MockCache
<1>12. CASE works \/ IsScript(o)
  <2>1. shell' = Effect(o) /\ ran' = Append(ran, o)
    BY <1>5, <1>12
  <2>2. InTurn' /\ Succeeds' /\ ran' \in Seq(Operations)
    BY <1>1, <1>6, <2>1, TurnGrows
  <2>3. /\ shell' \in States
        /\ \A p \in Parts :
             shell'[p] = IF ~Reads(o) /\ p = request[o].name THEN request[o].value ELSE shell[p]
    BY <2>1, EffectFacts
  <2>4. Types'
    BY <1>1, <1>2, <1>6, <1>7, <1>10, <2>2, <2>3 DEF Types
  <2>5. \A q \in Operations, p \in Parts :
           IsLast(q, p)' <=> IF p \in Touches(o) THEN q = o ELSE IsLast(q, p)
    BY <1>1, <2>1, Appends
  <2>6. \A q \in Operations, p \in Parts : IsLast(q, p) => q # o
    BY <1>1, RanFacts DEF IsLast
  <2>7. \A p \in Parts : p \notin Touches(o) => shell'[p] = shell[p]
    BY <2>3 DEF Touches, Reads
  <2>8. ASSUME ~mock PROVE NativeCache' /\ MockCache' /\ CacheIsCurrent'
    <3>1. \A q \in Operations : /\ IsScript(q)' = IsScript(q)
                                /\ q # o => Known(q)' = Known(q)
      BY <1>1, <1>7 DEF IsScript, Known, Reads
    <3>2. ASSUME NEW p \in Parts, p \in Touches(o), ~IsScript(o) PROVE shell'[p] = Known(o)'[p]
      <4>1. CASE Reads(o)
        <5>1. Known(o)' = shell
          BY <1>1, <1>7, <4>1 DEF Known, Reads
        <5> QED BY <2>3, <4>1, <5>1
      <4>2. CASE ~Reads(o)
        <5>1. p = request[o].name
          BY <3>2, <4>2 DEF Touches, Reads
        <5>2. Known(o)' = [n \in Parts |-> request[o].value]
          BY <1>1, <4>2 DEF Known, Reads
        <5> QED BY <2>3, <4>2, <5>1, <5>2
      <4> QED BY <4>1, <4>2
    <3>3. ASSUME NEW q \in Operations, NEW p \in Parts, IsLast(q, p)', ~IsScript(q)'
          PROVE  shell'[p] = Known(q)'[p]
      <4>1. CASE p \in Touches(o)
        BY <2>5, <3>1, <3>2, <3>3, <4>1
      <4>2. CASE p \notin Touches(o)
        <5>1. IsLast(q, p) /\ q # o /\ ~IsScript(q)
          BY <2>5, <2>6, <3>1, <3>3, <4>2
        <5>2. shell[p] = Known(q)[p] /\ Known(q)' = Known(q)
          BY <2>8, <3>1, <5>1 DEF NativeCache
        <5> QED BY <2>7, <4>2, <5>2
      <4> QED BY <4>1, <4>2
    <3>4. ASSUME NEW p \in Parts, source'[p] # 0 PROVE stage'[source'[p]] = "cached"
      <4>1. source' = source /\ source[p] \in Operations
        BY <1>10, <2>8, <3>4 DEF Types
      <4> QED BY <1>1, <1>2, <2>8, <3>4, <4>1 DEF NativeCache
    <3>5. ASSUME NEW p \in Parts, NEW q \in Operations, IsLast(q, p)', stage'[q] = "cached"
          PROVE  Cached(p)' = shell'[p]
      <4>1. q # o /\ stage[q] = "cached"
        BY <1>2, <3>5
      <4>2. p \notin Touches(o) /\ IsLast(q, p)
        BY <2>5, <3>5, <4>1
      <4> QED BY <1>10, <2>7, <2>8, <4>1, <4>2 DEF CacheIsCurrent
    <3>6. NativeCache'
      BY <3>3, <3>4 DEF NativeCache
    <3>7. CacheIsCurrent'
      BY <3>5 DEF CacheIsCurrent
    <3> QED BY <1>1, <2>8, <3>6, <3>7 DEF MockCache
  <2>9. ASSUME mock PROVE NativeCache' /\ MockCache' /\ CacheIsCurrent'
    BY <1>1, <1>10, <1>11, <2>9 DEF NativeCache, CacheIsCurrent
  <2> QED BY <1>3, <1>4, <2>2, <2>4, <2>8, <2>9
<1>13. CASE ~(works \/ IsScript(o))
  <2>1. ~mock /\ shell' = shell /\ ran' = ran /\ UNCHANGED cached
    BY <1>5, <1>8, <1>9, <1>13
  <2>2. Types'
    BY <1>1, <1>2, <1>6, <1>7, <1>10, <2>1 DEF Types
  <2>3. InTurn' /\ Succeeds'
    <3>1. \A i \in DOMAIN ran : stage'[ran[i]] = stage[ran[i]]
      BY <1>1, <1>2, RanFacts
    <3>2. \A q \in Operations : success'[q] => success[q]
      BY <1>6, <1>13
    <3> QED BY <1>1, <2>1, <3>1, <3>2, TurnFrame
  <2>4. \A q \in Operations, p \in Parts : IsLast(q, p)' <=> IsLast(q, p)
    BY <1>1, <2>1, LastFrame
  <2>5. \A q \in Operations, p \in Parts : IsLast(q, p) => q # o
    BY <1>1, RanFacts DEF IsLast
  <2>6. \A q \in Operations : /\ IsScript(q)' = IsScript(q)
                              /\ q # o => Known(q)' = Known(q)
    BY <1>1, <1>7 DEF IsScript, Known, Reads
  <2>7. NativeCache'
    <3>1. ASSUME NEW q \in Operations, NEW p \in Parts, IsLast(q, p)', ~IsScript(q)'
          PROVE  shell'[p] = Known(q)'[p]
      BY <2>1, <2>4, <2>5, <2>6, <3>1 DEF NativeCache
    <3>2. ASSUME NEW p \in Parts, source'[p] # 0 PROVE stage'[source'[p]] = "cached"
      <4>1. source' = source /\ source[p] \in Operations
        BY <1>10, <2>1, <3>2 DEF Types
      <4> QED BY <1>1, <1>2, <2>1, <3>2, <4>1 DEF NativeCache
    <3> QED BY <3>1, <3>2 DEF NativeCache
  <2>8. CacheIsCurrent'
    <3>1. ASSUME NEW p \in Parts, NEW q \in Operations, IsLast(q, p)', stage'[q] = "cached"
          PROVE  Cached(p)' = shell'[p]
      BY <1>2, <1>10, <2>1, <2>4, <3>1 DEF CacheIsCurrent
    <3> QED BY <3>1 DEF CacheIsCurrent
  <2>9. MockCache'
    BY <1>1, <2>1 DEF MockCache
  <2> QED BY <1>3, <1>4, <2>2, <2>3, <2>7, <2>8, <2>9
<1> QED BY <1>12, <1>13

LEMMA MockPerformsKeepsInv ==
  ASSUME Inv, NEW o \in Operations, MockPerforms(o)
  PROVE  Inv'
<1> USE DEF Inv, Order
<1>1. /\ stage[o] = "queued" /\ line # <<>> /\ line[1] = o /\ line' = Tail(line)
      /\ mock' = mock /\ request' = request /\ settled' = settled
      /\ success' = success /\ observed' = observed
  <2>1. Head(line) = line[1]
    BY TailFacts DEF MockPerforms, Types
  <2> QED BY <2>1 DEF MockPerforms, configuration
<1>2. mock
  <2>1. line[1] \in Operations /\ 1 \in DOMAIN line
    BY <1>1, TailFacts DEF Types
  <2>2. o \in ToSet(line)
    BY <1>1, <2>1 DEF ToSet
  <2> QED BY <2>2 DEF MockPerforms, Pending
<1>3. PICK next \in Done : stage' = [stage EXCEPT ![o] = next]
  BY DEF MockPerforms, Moves, Done
<1>4. /\ stage' \in [Operations -> Stages] /\ stage'[o] = next /\ next \in {"cached", "left"}
      /\ \A q \in Operations : q # o => stage'[q] = stage[q]
  BY <1>3 DEF Types, Stages, Done
<1>5. Line' /\ line' \in Seq(Operations)
  BY <1>1, <1>3, <1>4, LineMovesUp DEF Stages
<1>6. Resuming'
  BY <1>1, <1>4, ResumingFrame
<1>7. \A q \in Operations : stage'[q] \in {"ran", "settled"} => IsScript(q)'
  BY <1>1, <1>2, <1>4 DEF MockCache, IsScript
<1>8. CASE Valid(o) /\ Accepts
  <2>1. /\ stage' = [stage EXCEPT ![o] = "cached"] /\ shell' = Effect(o) /\ ran' = Append(ran, o)
        /\ cwd' = shell'["cwd"] /\ environment' = [n \in Names |-> shell'[n]]
        /\ source' = [p \in Parts |-> IF p \in Touches(o) THEN o ELSE source[p]]
    BY <1>8 DEF MockPerforms, Moves
  <2>2. InTurn' /\ Succeeds' /\ ran' \in Seq(Operations)
    BY <1>1, <1>2, <2>1, TurnGrows
  <2>3. shell' \in States
    BY <2>1, EffectFacts
  <2>4. source' \in [Parts -> Operations \cup {0}]
    BY <2>1 DEF Types
  <2>5. Types'
    BY <1>1, <1>4, <1>5, <2>2, <2>3, <2>4 DEF Types
  <2>6. MockCache'
    BY <1>7, <2>1 DEF MockCache, Cached, Parts
  <2> QED BY <1>1, <1>2, <1>5, <1>6, <2>2, <2>5, <2>6 DEF NativeCache, MockCache, CacheIsCurrent
<1>9. CASE ~(Valid(o) /\ Accepts)
  <2>1. shell' = shell /\ ran' = ran /\ UNCHANGED cached
    BY <1>9 DEF MockPerforms
  <2>2. Types'
    BY <1>1, <1>4, <1>5, <2>1 DEF Types, cached
  <2>3. InTurn' /\ Succeeds'
    <3>1. \A i \in DOMAIN ran : stage'[ran[i]] = stage[ran[i]]
      BY <1>1, <1>4, RanFacts
    <3> QED BY <1>1, <2>1, <3>1, TurnFrame
  <2>4. MockCache'
    <3>1. \A p \in Parts : Cached(p)' = shell'[p]
      BY <1>2, <2>1 DEF MockCache, Cached, cached
    <3> QED BY <1>7, <3>1 DEF MockCache
  <2> QED BY <1>1, <1>2, <1>5, <1>6, <2>2, <2>3, <2>4 DEF NativeCache, MockCache, CacheIsCurrent
<1> QED BY <1>8, <1>9

\* Whom the caller that resumes follows, if it remembers anything.
LEMMA ItsTurn ==
  ASSUME Order, MockCache, settled # <<>>, Remembers(settled[1])
  PROVE  /\ ~mock /\ settled[1] \in Operations /\ stage[settled[1]] = "settled"
         /\ \E i \in DOMAIN ran :
              /\ ran[i] = settled[1]
              /\ \A j \in DOMAIN ran : stage[ran[j]] = "cached" => j < i
<1> USE DEF Order
<1>1. settled[1] \in Operations /\ 1 \in DOMAIN settled
  BY TailFacts DEF Types
<1>2. stage[settled[1]] = "settled"
  BY <1>1 DEF Resuming
<1>3. ~mock
  BY <1>1, <1>2 DEF MockCache, Remembers
<1>4. PICK i \in DOMAIN ran : ran[i] = settled[1]
  BY <1>1 DEF Remembers, Succeeds
<1>5. ASSUME NEW j \in DOMAIN ran, stage[ran[j]] = "cached" PROVE j < i
  <2>1. i # j
    BY <1>2, <1>4, <1>5
  <2>2. ~(i < j)
    BY <1>2, <1>3, <1>4, <1>5 DEF InTurn, Done
  <2> QED BY <2>1, <2>2, SeqFacts
<1> QED BY <1>1, <1>2, <1>3, <1>4, <1>5

LEMMA AnswerKeepsInv ==
  ASSUME Inv, Answer
  PROVE  Inv'
<1> USE DEF Inv, Order
<1> DEFINE o == settled[1]
<1>1. /\ settled # <<>> /\ settled' = Tail(settled) /\ mock' = mock /\ request' = request
      /\ shell' = shell /\ line' = line /\ success' = success /\ observed' = observed /\ ran' = ran
  BY DEF Answer, configuration
<1>2. Head(settled) = o /\ o \in Operations /\ 1 \in DOMAIN settled
  BY <1>1, TailFacts DEF Types
<1>3. stage[o] = "settled"
  BY <1>2 DEF Resuming
<1> HIDE DEF o
<1>4. PICK next \in Done : stage' = [stage EXCEPT ![o] = next]
  BY <1>2 DEF Answer, Moves, Done
<1>5. /\ stage' \in [Operations -> Stages] /\ stage'[o] = next /\ next \in {"cached", "left"}
      /\ \A q \in Operations : q # o => stage'[q] = stage[q]
  BY <1>2, <1>4 DEF Types, Stages, Done
<1>6. Line'
  <2>1. \A i \in DOMAIN line : line[i] # o /\ line[i] \in Operations
    BY <1>3, SeqFacts DEF Line
  <2> QED BY <1>1, <1>5, <2>1, LineFrame DEF Line
<1>7. Resuming' /\ settled' \in Seq(Operations)
  BY <1>1, <1>4, Resumes DEF o
<1>8. InTurn' /\ Succeeds'
  BY <1>1, <1>4, TurnResumes DEF o
<1>9. CASE UNCHANGED cached /\ stage' = [stage EXCEPT ![o] = "left"]
  <2>1. \A q \in Operations : /\ stage'[q] = "cached" <=> stage[q] = "cached"
                              /\ stage'[q] \in {"ran", "settled"} => stage[q] \in {"ran", "settled"}
    BY <1>2, <1>3, <1>5, <1>9
  <2>2. MockCache' /\ NativeCache' /\ CacheIsCurrent'
    BY <1>1, <1>9, <2>1, CacheFrame
  <2>3. Types'
    BY <1>1, <1>5, <1>7, <1>9 DEF Types, cached
  <2> QED BY <1>6, <1>7, <1>8, <2>2, <2>3
<1>10. CASE /\ Remembers(o) /\ stage' = [stage EXCEPT ![o] = "cached"]
            /\ cwd' = IF "cwd" \in Touches(o) THEN Known(o)["cwd"] ELSE cwd
            /\ environment' = [n \in Names |-> IF n \in Touches(o) THEN Known(o)[n]
                                              ELSE environment[n]]
            /\ source' = [p \in Parts |-> IF p \in Touches(o) THEN o ELSE source[p]]
  <2>1. PICK i \in DOMAIN ran : /\ ran[i] = o
                                /\ \A j \in DOMAIN ran : stage[ran[j]] = "cached" => j < i
    BY <1>1, <1>10, ItsTurn DEF o
  <2>2. ~mock
    BY <1>1, <1>10, ItsTurn DEF o
  <2>3. stage'[o] = "cached"
    BY <1>2, <1>10 DEF Types
  <2>4. source' \in [Parts -> Operations \cup {0}]
    BY <1>2, <1>10 DEF Types
  <2>5. Types'
    BY <1>1, <1>5, <1>7, <2>4 DEF Types
  <2>6. \A q \in Operations, p \in Parts : IsLast(q, p)' <=> IsLast(q, p)
    BY <1>1, LastFrame
  <2>7. \A q : IsScript(q)' = IsScript(q) /\ Known(q)' = Known(q)
    BY <1>1 DEF IsScript, Known, Reads
  <2>8. \A p \in Parts : Cached(p)' = IF p \in Touches(o) THEN Known(o)[p] ELSE Cached(p)
    BY <1>10 DEF Cached, Parts
  <2>9. NativeCache'
    <3>1. \A q \in Operations, p \in Parts :
             IsLast(q, p)' /\ ~IsScript(q)' => shell'[p] = Known(q)'[p]
      BY <1>1, <2>2, <2>6, <2>7 DEF NativeCache
    <3>2. ASSUME NEW p \in Parts, source'[p] # 0 PROVE stage'[source'[p]] = "cached"
      <4>1. CASE p \in Touches(o)
        BY <1>10, <2>3, <4>1
      <4>2. CASE p \notin Touches(o)
        <5>1. source'[p] = source[p] /\ source[p] \in Operations
          BY <1>10, <3>2, <4>2 DEF Types
        <5> QED BY <1>5, <2>2, <2>3, <3>2, <5>1 DEF NativeCache
      <4> QED BY <4>1, <4>2
    <3> QED BY <3>1, <3>2 DEF NativeCache
  <2>10. CacheIsCurrent'
    <3>1. ASSUME NEW p \in Parts, NEW q \in Operations, IsLast(q, p)', stage'[q] = "cached"
          PROVE  Cached(p)' = shell'[p]
      <4>1. PICK k \in DOMAIN ran : /\ ran[k] = q /\ p \in Touches(q)
                                    /\ \A j \in DOMAIN ran : p \in Touches(ran[j]) => j <= k
        BY <2>6, <3>1 DEF IsLast
      <4>2. CASE p \in Touches(o)
        <5>1. i <= k
          BY <2>1, <4>1, <4>2
        <5>2. q = o
          <6>1. q # o => k < i
            BY <1>5, <2>1, <3>1, <4>1
          <6> QED BY <2>1, <4>1, <5>1, <6>1, SeqFacts
        <5>3. ~IsScript(o) /\ IsLast(o, p)
          BY <1>10, <2>6, <3>1, <5>2 DEF Remembers
        <5>4. shell[p] = Known(o)[p]
          BY <1>2, <2>2, <5>3 DEF NativeCache
        <5> QED BY <1>1, <2>8, <4>2, <5>4
      <4>3. CASE p \notin Touches(o)
        <5>1. q # o /\ IsLast(q, p)
          BY <2>6, <3>1, <4>1, <4>3
        <5>2. stage[q] = "cached"
          BY <1>5, <3>1, <5>1
        <5> QED BY <1>1, <2>8, <4>3, <5>1, <5>2 DEF CacheIsCurrent
      <4> QED BY <4>2, <4>3
    <3> QED BY <3>1 DEF CacheIsCurrent
  <2>11. MockCache'
    BY <1>1, <2>2 DEF MockCache
  <2> QED BY <1>6, <1>7, <1>8, <2>5, <2>9, <2>10, <2>11
<1> QED BY <1>2, <1>9, <1>10 DEF Answer, Moves

-----------------------------------------------------------------------------
(* The theorems.                                                            *)

LEMMA InvInit ==
  ASSUME Init
  PROVE  Inv
<1>1. Inherited \in Values \cup {Missing}
  BY StateAssumption
<1>2. shell \in States /\ observed \in [Operations -> States] /\ Missing \in Values \cup {Missing}
  BY <1>1 DEF Init, States
<1>3. Types
  <2>1. request \in [Operations -> Requests \cup {NoRequest}] /\ stage \in [Operations -> Stages]
    BY DEF Init, Stages
  <2>2. line = <<>> /\ settled = <<>> /\ ran = <<>> /\ <<>> \in Seq(Operations)
    BY DEF Init
  <2>3. success \in [Operations -> BOOLEAN] /\ source \in [Parts -> Operations \cup {0}]
    BY DEF Init
  <2> QED BY <1>2, <2>1, <2>2, <2>3 DEF Types, Init
<1>4. Line /\ Resuming
  <2>1. /\ line = <<>> /\ settled = <<>>
        /\ \A o \in Operations : stage[o] = "idle"
    BY DEF Init
  <2> QED BY <2>1 DEF Line, Resuming
<1>5. InTurn /\ Succeeds
  <2>1. ran = <<>> /\ \A o \in Operations : ~success[o]
    BY DEF Init
  <2> QED BY <2>1 DEF InTurn, Succeeds
<1>6. MockCache
  <2>1. \A o \in Operations : stage[o] = "idle"
    BY DEF Init
  <2>2. ASSUME mock, NEW p \in Parts PROVE Cached(p) = shell[p]
    BY <2>2 DEF Init, Cached, Parts
  <2> QED BY <2>1, <2>2 DEF MockCache
<1>7. NativeCache /\ CacheIsCurrent
  <2>1. ran = <<>> /\ (\A p \in Parts : source[p] = 0) /\ \A o \in Operations : stage[o] = "idle"
    BY DEF Init
  <2>2. \A o \in Operations, p \in Parts : ~IsLast(o, p)
    BY <2>1 DEF IsLast
  <2> QED BY <2>1, <2>2 DEF NativeCache, CacheIsCurrent
<1> QED BY <1>3, <1>4, <1>5, <1>6, <1>7 DEF Inv, Order

LEMMA InvNext ==
  ASSUME Inv, [Next]_vars
  PROVE  Inv'
<1>1. ASSUME UNCHANGED vars PROVE Inv'
  BY <1>1, OthersKeepInv DEF vars, configuration
<1>2. ASSUME NEW o \in Operations, Cancel(o) PROVE Inv'
  BY <1>2, OthersKeepInv DEF Cancel, configuration
<1> QED BY <1>1, <1>2, AnswerKeepsInv, SubmitKeepsInv, RunsKeepsInv, SettleKeepsInv,
           WithdrawKeepsInv, MockBeginsKeepsInv, MockQueuesKeepsInv, MockPerformsKeepsInv,
           MockLeavesKeepsInv DEF Next

LEMMA Invariance == Spec => []Inv
<1>1. Init => Inv
  BY InvInit
<1>2. Inv /\ [Next]_vars => Inv'
  BY InvNext
<1> QED BY <1>1, <1>2, PTL DEF Spec

\* What an operation told its caller stays in the cache of its session, and true, until
\* another operation or a script touches it (operations.py:58-77, results.py:163-168).
THEOREM CacheStaysTrue == Spec => []CacheIsCurrent
<1>1. Inv => CacheIsCurrent
  BY DEF Inv
<1> QED BY <1>1, Invariance, PTL

\* A part of the cache moves on to what a later command saw or set.
Advances ==
  \A p \in Parts : source'[p] # source[p] =>
    \E j \in DOMAIN ran' :
      /\ ran'[j] = source'[p]
      /\ \A i \in DOMAIN ran' : ran'[i] = source[p] => i < j

\* A mock session's cache changes with its state.
LEMMA AdvancesAtEnd ==
  ASSUME Types, NEW o \in Operations, ran' = Append(ran, o),
         \A p \in Parts : source'[p] = source[p] \/ source'[p] = o
  PROVE  Advances
<1>1. /\ Len(ran) \in Nat /\ DOMAIN ran' = 1..(Len(ran) + 1) /\ ran'[Len(ran) + 1] = o
  BY AppendFacts DEF Types
<1>2. ASSUME NEW p \in Parts, source'[p] # source[p]
      PROVE  \E j \in DOMAIN ran' :
               /\ ran'[j] = source'[p]
               /\ \A i \in DOMAIN ran' : ran'[i] = source[p] => i < j
  <2>1. source'[p] = o /\ o # source[p]
    BY <1>2
  <2>2. \A i \in 1..(Len(ran) + 1) : i < Len(ran) + 1 \/ i = Len(ran) + 1
    BY <1>1
  <2>3. \A i \in DOMAIN ran' : ran'[i] = source[p] => i < Len(ran) + 1
    BY <1>1, <2>1, <2>2
  <2>4. Len(ran) + 1 \in DOMAIN ran'
    BY <1>1
  <2> QED BY <1>1, <2>1, <2>3, <2>4
<1> QED BY <1>2 DEF Advances

LEMMA EachStepAdvances ==
  ASSUME Inv, [Next]_vars
  PROVE  Advances
<1>1. Types
  BY DEF Inv, Order
<1>2. CASE source' = source
  BY <1>2 DEF Advances
<1>3. ASSUME NEW o \in Operations, Runs(o) PROVE Advances
  <2>1. CASE mock
    <3>1. ran' = Append(ran, o)
      BY <1>3, <2>1 DEF Runs, Pending
    <3>2. \A p \in Parts : source'[p] = source[p] \/ source'[p] = o
      BY <1>1, <1>3, <2>1 DEF Runs, Types
    <3> QED BY <1>1, <3>1, <3>2, AdvancesAtEnd
  <2>2. CASE ~mock
    BY <1>2, <1>3, <2>2 DEF Runs, cached
  <2> QED BY <2>1, <2>2
<1>4. ASSUME NEW o \in Operations, MockPerforms(o) PROVE Advances
  <2>1. CASE Valid(o) /\ Accepts
    BY <1>1, <1>4, <2>1, AdvancesAtEnd DEF MockPerforms
  <2>2. CASE ~(Valid(o) /\ Accepts)
    BY <1>2, <1>4, <2>2 DEF MockPerforms, cached
  <2> QED BY <2>1, <2>2
<1>5. ASSUME Answer PROVE Advances
  <2>1. settled # <<>> /\ Head(settled) = settled[1] /\ ran' = ran
    BY <1>1, <1>5, TailFacts DEF Answer, Types
  <2>2. CASE /\ Remembers(settled[1])
             /\ source' = [p \in Parts |-> IF p \in Touches(settled[1]) THEN settled[1] ELSE source[p]]
    <3>1. ~mock
      BY <2>1, <2>2, ItsTurn DEF Inv
    <3>2. PICK i \in DOMAIN ran : /\ ran[i] = settled[1]
                                  /\ \A j \in DOMAIN ran : stage[ran[j]] = "cached" => j < i
      BY <2>1, <2>2, ItsTurn DEF Inv
    <3>3. ASSUME NEW p \in Parts, source'[p] # source[p]
          PROVE  /\ ran[i] = source'[p]
                 /\ \A j \in DOMAIN ran : ran[j] = source[p] => j < i
      <4>1. source'[p] = settled[1]
        BY <2>2, <3>3
      <4>2. ASSUME NEW j \in DOMAIN ran, ran[j] = source[p] PROVE stage[ran[j]] = "cached"
        <5>1. ran[j] # 0
          BY <1>1, SeqFacts, StateAssumption
        <5> QED BY <3>1, <4>2, <5>1 DEF Inv, NativeCache
      <4> QED BY <3>2, <4>1, <4>2
    <3> QED BY <2>1, <3>3 DEF Advances
  <2>3. CASE UNCHANGED cached
    BY <1>2, <2>3 DEF cached
  <2> QED BY <1>5, <2>1, <2>2, <2>3 DEF Answer
<1>6. ASSUME NEW o \in Operations, Submit(o) \/ Settle(o) \/ Withdraw(o) \/ Cancel(o) \/ MockBegins(o)
                                   \/ MockQueues(o) \/ MockLeaves(o)
      PROVE  Advances
  BY <1>2, <1>6 DEF Submit, Settle, Withdraw, Cancel, MockBegins, MockQueues, MockLeaves, cached
<1>7. ASSUME UNCHANGED vars PROVE Advances
  BY <1>2, <1>7 DEF vars, cached
<1> QED BY <1>3, <1>4, <1>5, <1>6, <1>7 DEF Next

\* The cache never becomes older than it was, whoever was cancelled and whatever failed
\* between the commands (operations.py:39-46, 70-77).
THEOREM CacheMovesOn == Spec => CacheOnlyAdvances
<1>1. Inv /\ [Next]_vars => [Advances]_vars
  BY EachStepAdvances
<1>2. Spec => [][Advances]_vars
  BY <1>1, Invariance, PTL DEF Spec
<1> QED BY <1>2 DEF CacheOnlyAdvances, Advances
=============================================================================
