------------------------------ MODULE LineFacts ------------------------------
(***************************************************************************)
(* What it means for a waiter to give up its place: facts about RemoveAt   *)
(* that the proofs about the waiting lines of AgentTasks and ExecPool use. *)
(***************************************************************************)
EXTENDS Integers, SequencesExt, SequenceTheorems, TLAPS

\* Taking one waiter out of a line leaves a line.
LEMMA RemoveAtType ==
  ASSUME NEW S, NEW s \in Seq(S), NEW i \in 1..Len(s)
  PROVE  RemoveAt(s, i) \in Seq(S)
<1>1. SubSeq(s, 1, i - 1) \in Seq(S) /\ SubSeq(s, i + 1, Len(s)) \in Seq(S)
  <2>1. \A j \in 1..(i - 1) : s[j] \in S
    BY ElementOfSeq, LenProperties
  <2>2. \A j \in (i + 1)..Len(s) : s[j] \in S
    BY ElementOfSeq, LenProperties
  <2>3. QED
    BY <2>1, <2>2, SubSeqProperties, LenProperties
<1>2. QED
  BY <1>1, ConcatProperties DEF RemoveAt

\* Those before it keep their places, those behind it move up by one.
LEMMA RemoveAtPlaces ==
  ASSUME NEW S, NEW s \in Seq(S), NEW i \in 1..Len(s)
  PROVE  /\ Len(RemoveAt(s, i)) = Len(s) - 1
         /\ \A j \in 1..(Len(s) - 1) :
              RemoveAt(s, i)[j] = s[IF j < i THEN j ELSE j + 1]
<1>1. /\ \A j \in 1..(i - 1) : s[j] \in S
      /\ \A j \in (i + 1)..Len(s) : s[j] \in S
      /\ Len(s) \in Nat
  BY ElementOfSeq, LenProperties
<1>2. /\ SubSeq(s, 1, i - 1) \in Seq(S)
      /\ Len(SubSeq(s, 1, i - 1)) = i - 1
      /\ \A j \in 1..(i - 1) : SubSeq(s, 1, i - 1)[j] = s[j]
  BY <1>1, SubSeqProperties
<1>3. /\ SubSeq(s, i + 1, Len(s)) \in Seq(S)
      /\ Len(SubSeq(s, i + 1, Len(s))) = Len(s) - i
      /\ \A j \in 1..(Len(s) - i) : SubSeq(s, i + 1, Len(s))[j] = s[i + j]
  BY <1>1, SubSeqProperties
<1> DEFINE front == SubSeq(s, 1, i - 1)
<1> DEFINE back == SubSeq(s, i + 1, Len(s))
<1> DEFINE whole == front \o back
<1>4. /\ Len(whole) = Len(front) + Len(back)
      /\ \A j \in 1..(Len(front) + Len(back)) :
           whole[j] = IF j <= Len(front) THEN front[j] ELSE back[j - Len(front)]
  BY <1>2, <1>3, ConcatProperties
<1>5. whole = RemoveAt(s, i)
  BY DEF RemoveAt
<1>6. /\ Len(front) = i - 1 /\ \A j \in 1..(i - 1) : front[j] = s[j]
      /\ Len(back) = Len(s) - i /\ \A j \in 1..(Len(s) - i) : back[j] = s[i + j]
  BY <1>2, <1>3
<1> HIDE DEF whole, front, back
<1>7. /\ Len(whole) = Len(s) - 1
      /\ \A j \in 1..(Len(s) - 1) :
           whole[j] = IF j < i THEN front[j] ELSE back[j - (i - 1)]
  BY <1>1, <1>4, <1>6
<1>8. ASSUME NEW j \in 1..(Len(s) - 1)
      PROVE  whole[j] = s[IF j < i THEN j ELSE j + 1]
  <2>1. CASE j < i
    BY <2>1, <1>1, <1>7, <1>6
  <2>2. CASE ~(j < i)
    <3>1. j - (i - 1) \in 1..(Len(s) - i) /\ i + (j - (i - 1)) = j + 1
      BY <2>2, <1>1
    <3>2. QED
      BY <2>2, <3>1, <1>7, <1>6
  <2>3. QED
    BY <2>1, <2>2
<1>9. QED
  BY <1>7, <1>8, <1>5

\* A line without repetitions stays one, and he who left is no longer in it.
LEMMA RemoveAtDistinct ==
  ASSUME NEW S, NEW s \in Seq(S), NEW i \in 1..Len(s),
         \A j, k \in 1..Len(s) : s[j] = s[k] => j = k
  PROVE  /\ \A j, k \in 1..Len(RemoveAt(s, i)) :
              RemoveAt(s, i)[j] = RemoveAt(s, i)[k] => j = k
         /\ \A j \in 1..Len(RemoveAt(s, i)) :
              \E k \in 1..Len(s) : k # i /\ RemoveAt(s, i)[j] = s[k]
<1>1. Len(s) \in Nat
  BY LenProperties
<1> DEFINE place(j) == IF j < i THEN j ELSE j + 1
<1>2. Len(RemoveAt(s, i)) = Len(s) - 1
  BY RemoveAtPlaces
<1>3. \A j \in 1..(Len(s) - 1) :
        place(j) \in 1..Len(s) /\ place(j) # i /\ RemoveAt(s, i)[j] = s[place(j)]
  <2>1. ASSUME NEW j \in 1..(Len(s) - 1)
        PROVE  place(j) \in 1..Len(s) /\ place(j) # i
    BY <1>1
  <2>2. \A j \in 1..(Len(s) - 1) : RemoveAt(s, i)[j] = s[place(j)]
    BY RemoveAtPlaces
  <2>3. QED
    BY <2>1, <2>2
<1>4. \A j, k \in 1..(Len(s) - 1) : place(j) = place(k) => j = k
  BY <1>1
<1> HIDE DEF place
<1>5. QED
  BY <1>2, <1>3, <1>4
=============================================================================
