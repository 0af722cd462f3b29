------------------------- MODULE WordPipelineProofs -------------------------
(***************************************************************************)
(* Proofs about WordPipeline for every number of rounds.                   *)
(***************************************************************************)
EXTENDS WordPipeline, TLAPS

(***************************************************************************)
(* Type correctness of the two tasks' loops.  TypeOK bounds what the       *)
(* counter records by Rounds, which needs the length of the vector: one    *)
(* word per selector round completed, plus the one just pushed.            *)
(***************************************************************************)
Pushed == IF spc \in {"sleep", "done"} THEN si + 1 ELSE si

TypeInv ==
    /\ TypeOK
    /\ Len(selected) = Pushed

LEMMA TypeInit == Init => TypeInv
<1> SUFFICES ASSUME Init PROVE TypeInv
  OBVIOUS
<1>1. 0 \in Rnd
  BY RoundsAssumption DEF Rnd
<1>2. <<>> \in Seq(Rnd) /\ <<>> \in Seq(0 .. Rounds)
  OBVIOUS
<1>3. joined \in BOOLEAN
  BY DEF Init
<1>4. TypeOK
  BY <1>1, <1>2, <1>3 DEF Init, TypeOK
<1>5. Len(selected) = Pushed
  BY DEF Init, Pushed
<1>6. QED
  BY <1>4, <1>5 DEF TypeInv

LEMMA TypeStep == TypeInv /\ [Next]_vars => TypeInv'
<1> SUFFICES ASSUME TypeInv, [Next]_vars PROVE TypeInv'
  OBVIOUS
<1> USE RoundsAssumption DEF TypeInv, TypeOK, Rnd, Pushed
<1>1. CASE SelectWord
  BY <1>1 DEF SelectWord
<1>2. CASE PushWord \/ QueuedPush
  <2>1. spc \in {"write", "queued"} /\ spc' = "sleep" /\ si' = si
        /\ selected' = Append(selected, picked)
    BY <1>2 DEF PushWord, QueuedPush
  <2>2. selected' \in Seq(Rnd) /\ Len(selected') = si + 1
    BY <2>1
  <2>3. QED
    BY <1>2, <2>1, <2>2 DEF PushWord, QueuedPush
<1>3. CASE WriteQueued
  BY <1>3 DEF WriteQueued
<1>4. CASE SelectorSleep
  BY <1>4 DEF SelectorSleep, NextRound
<1>5. CASE ReadLast
  <2>1. Len(selected) \in 0 .. Rounds
    OBVIOUS
  <2>2. seen' \in Seq(0 .. Rounds)
    BY <1>5, <2>1 DEF ReadLast
  <2>3. QED
    BY <1>5, <2>2 DEF ReadLast
<1>6. CASE ReadEmpty
  BY <1>6 DEF ReadEmpty
<1>7. CASE CountWord
  BY <1>7 DEF CountWord
<1>8. CASE CounterSleep
  BY <1>8 DEF CounterSleep, NextRound
<1>9. CASE Join \/ Finished \/ UNCHANGED vars
  BY <1>9 DEF Join, Finished, vars
<1>10. QED
  BY <1>1, <1>2, <1>3, <1>4, <1>5, <1>6, <1>7, <1>8, <1>9 DEF Next

(***************************************************************************)
(* The selector and the counter only ever reach states of their loops,     *)
(* the vector holds words of this run's rounds, and the counter's read     *)
(* guard is one at most: for every Rounds.                                 *)
(***************************************************************************)
THEOREM TypeCorrect == Spec => []TypeOK
<1>1. TypeInv => TypeOK
  BY DEF TypeInv
<1>2. QED
  BY TypeInit, TypeStep, <1>1, PTL DEF Spec

-----------------------------------------------------------------------------
(***************************************************************************)
(* CountedWordIsLast is not inductive alone: a push while the counter      *)
(* counts would break it.  The read guard excludes that push, so the       *)
(* strengthening says the counter holds the guard exactly while counting,  *)
(* and that the push needs readers = 0.                                    *)
(***************************************************************************)
LastInv ==
    /\ TypeInv
    /\ readers = 1 <=> cpc = "count"
    /\ cpc = "count" => Len(seen) > 0 /\ seen[Len(seen)] = Len(selected)

LEMMA LastInit == Init => LastInv
BY TypeInit DEF Init, LastInv

LEMMA LastStep == LastInv /\ [Next]_vars => LastInv'
<1> SUFFICES ASSUME LastInv, [Next]_vars PROVE LastInv'
  OBVIOUS
<1>0. TypeInv'
  BY TypeStep DEF LastInv
<1> USE DEF LastInv
<1>1. CASE SelectWord \/ WriteQueued \/ SelectorSleep
  BY <1>0, <1>1 DEF SelectWord, WriteQueued, SelectorSleep
<1>2. CASE PushWord \/ QueuedPush
  \* the selector writes only when no read guard is held
  <2>1. cpc # "count" /\ cpc' = cpc /\ readers' = readers
    BY <1>2 DEF PushWord, QueuedPush
  <2>2. QED
    BY <1>0, <2>1
<1>3. CASE ReadLast
  <2>1. seen \in Seq(0 .. Rounds) /\ seen' = Append(seen, Len(selected))
        /\ selected' = selected
    BY <1>3 DEF ReadLast, TypeInv, TypeOK
  <2>2. Len(seen') > 0 /\ seen'[Len(seen')] = Len(selected')
    BY <2>1
  <2>3. QED
    BY <1>0, <1>3, <2>2 DEF ReadLast
<1>4. CASE ReadEmpty \/ CountWord \/ CounterSleep
  BY <1>0, <1>4 DEF ReadEmpty, CountWord, CounterSleep
<1>5. CASE Join \/ Finished \/ UNCHANGED vars
  BY <1>0, <1>5 DEF Join, Finished, vars
<1>6. QED
  BY <1>1, <1>2, <1>3, <1>4, <1>5 DEF Next

(***************************************************************************)
(* The word the counter counts is the last word pushed, for every Rounds:  *)
(* the read guard borrowed by `word` keeps the selector's push waiting     *)
(* until count_word_occurrences has finished.                              *)
(***************************************************************************)
THEOREM CountedWordIsLastHolds == Spec => []CountedWordIsLast
<1>1. LastInv => CountedWordIsLast
  BY DEF LastInv, CountedWordIsLast
<1>2. QED
  BY LastInit, LastStep, <1>1, PTL DEF Spec
=============================================================================
