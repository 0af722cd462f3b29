---------------------------- MODULE WordPipeline ----------------------------
(***************************************************************************)
(* The word-selection workflow of src/runtime/src/lib.rs (tokio_executor   *)
(* and commonware_executor, which run the same code on two runtimes): a    *)
(* selector task pushes Rounds seeded words into a shared                  *)
(* tokio::sync::RwLock<Vec<String>>, a counter task reads the last word    *)
(* Rounds times, and the root task joins both.                             *)
(*                                                                         *)
(* Steps are cut at the points where the two tasks can interleave on the   *)
(* multi-threaded Tokio runtime: lock acquisition and release and the      *)
(* sleeps.  The deterministic runtime is single-threaded and polls one     *)
(* task until it awaits, so its behaviours are a subset of these.          *)
(* The corpus and the counting are abstracted: select_random_word with    *)
(* Some(rand_seed[i]) always returns the same word, so a word is named by  *)
(* the round i whose seed chose it, and what the counter reports is which  *)
(* pushed word it saw.                                                     *)
(***************************************************************************)
EXTENDS Naturals, Sequences

CONSTANT Rounds    \* iterations of both loops (`for i in 0..5`)

ASSUME RoundsAssumption == Rounds \in Nat \ {0}

Rnd == 0 .. (Rounds - 1)

VARIABLES
    selected,   \* the Vec<String> behind the RwLock, words named by round
    readers,    \* read guards held (the counter's only)
    si, spc,    \* selector: loop index and position
    picked,     \* selector: selected_word (the round whose seed chose it)
    ci, cpc,    \* counter: loop index and position
    seen,       \* counter: Len(selected) at each read; 0 when it skipped
    joined      \* tokio::join! of the root task has returned

vars == <<selected, readers, si, spc, picked, ci, cpc, seen, joined>>

Init ==
    /\ selected = <<>>
    /\ readers = 0
    /\ si = 0
    /\ spc = "select"
    /\ picked = 0
    /\ ci = 0
    /\ cpc = "read"
    /\ seen = <<>>
    /\ joined = FALSE

\* Loop test at the bottom of each task's `for`: next round or finish.
NextRound(k) == IF k + 1 < Rounds THEN "again" ELSE "done"

(***************************************************************************)
(* Selector task.                                                          *)
(***************************************************************************)

\* select_random_word(&words, Some(rand_seed[i])): a seeded choice.
SelectWord ==
    /\ spc = "select"
    /\ picked' = si
    /\ spc' = "write"
    /\ UNCHANGED <<selected, readers, si, ci, cpc, seen, joined>>

(***************************************************************************)
(* .write().await.push(selected_word): with no read guard held the write   *)
(* guard is taken, the word pushed and the guard dropped in one poll.      *)
(* Otherwise the task queues on the lock's fair semaphore.                 *)
(***************************************************************************)
PushWord ==
    /\ spc = "write"
    /\ readers = 0
    /\ selected' = Append(selected, picked)
    /\ spc' = "sleep"
    /\ UNCHANGED <<readers, si, picked, ci, cpc, seen, joined>>

WriteQueued ==
    /\ spc = "write"
    /\ readers > 0
    /\ spc' = "queued"
    /\ UNCHANGED <<selected, readers, si, picked, ci, cpc, seen, joined>>

\* The queued writer is handed the lock when the read guard is dropped.
QueuedPush ==
    /\ spc = "queued"
    /\ readers = 0
    /\ selected' = Append(selected, picked)
    /\ spc' = "sleep"
    /\ UNCHANGED <<readers, si, picked, ci, cpc, seen, joined>>

\* Mutant of SelectorSleep: `for i in 0..=5`, one round too many.
SelectorSleepLong ==
    /\ spc = "sleep"
    /\ si' = IF si < Rounds THEN si + 1 ELSE si
    /\ spc' = IF si < Rounds THEN "select" ELSE "done"
    /\ UNCHANGED <<selected, readers, picked, ci, cpc, seen, joined>>

\* sleep(10ms).await, then the loop test.
SelectorSleep ==
    /\ spc = "sleep"
    /\ si' = IF NextRound(si) = "again" THEN si + 1 ELSE si
    /\ spc' = IF NextRound(si) = "again" THEN "select" ELSE "done"
    /\ UNCHANGED <<selected, readers, picked, ci, cpc, seen, joined>>

(***************************************************************************)
(* Counter task.                                                           *)
(***************************************************************************)

\* Mutant of ReadLast: the guard is dropped right after last() (the word
\* cloned out) instead of at the end of the if-let.
ReadLastEarlyDrop ==
    /\ cpc = "read"
    /\ spc # "queued"
    /\ Len(selected) > 0
    /\ seen' = Append(seen, Len(selected))
    /\ cpc' = "count"
    /\ UNCHANGED <<selected, readers, si, spc, picked, ci, joined>>

(***************************************************************************)
(* if let Some(word) = ....read().await.last(): the read guard is granted  *)
(* unless a writer is queued ahead (the lock is fair); `word` borrows from *)
(* the guard, which lives to the end of the if-let body.                   *)
(***************************************************************************)
ReadLast ==
    /\ cpc = "read"
    /\ spc # "queued"
    /\ Len(selected) > 0
    /\ readers' = 1
    /\ seen' = Append(seen, Len(selected))
    /\ cpc' = "count"
    /\ UNCHANGED <<selected, si, spc, picked, ci, joined>>

\* ... else: "No word selected yet, skipping count." and the guard dropped.
ReadEmpty ==
    /\ cpc = "read"
    /\ spc # "queued"
    /\ Len(selected) = 0
    /\ seen' = Append(seen, 0)
    /\ cpc' = "sleep"
    /\ UNCHANGED <<selected, readers, si, spc, picked, ci, joined>>

\* count_word_occurrences(word, ..).await, then the guard is dropped.
CountWord ==
    /\ cpc = "count"
    /\ readers' = 0
    /\ cpc' = "sleep"
    /\ UNCHANGED <<selected, si, spc, picked, ci, seen, joined>>

\* Mutant of CounterSleep: the counter's loop bound off by one.
CounterSleepShort ==
    /\ cpc = "sleep"
    /\ ci' = IF ci + 2 < Rounds THEN ci + 1 ELSE ci
    /\ cpc' = IF ci + 2 < Rounds THEN "read" ELSE "done"
    /\ UNCHANGED <<selected, readers, si, spc, picked, seen, joined>>

\* sleep(10ms).await, then the loop test.
CounterSleep ==
    /\ cpc = "sleep"
    /\ ci' = IF NextRound(ci) = "again" THEN ci + 1 ELSE ci
    /\ cpc' = IF NextRound(ci) = "again" THEN "read" ELSE "done"
    /\ UNCHANGED <<selected, readers, si, spc, picked, seen, joined>>

\* join!(select_word_task, count_word_task) returns.
Join ==
    /\ spc = "done"
    /\ cpc = "done"
    /\ ~joined
    /\ joined' = TRUE
    /\ UNCHANGED <<selected, readers, si, spc, picked, ci, cpc, seen>>

\* block_on / start has returned: nothing happens any more.
Finished ==
    /\ joined
    /\ UNCHANGED vars

Next ==
    \/ SelectWord \/ PushWord \/ WriteQueued \/ QueuedPush \/ SelectorSleep
    \/ ReadLast \/ ReadEmpty \/ CountWord \/ CounterSleep
    \/ Join \/ Finished

(***************************************************************************)
(* Both runtimes poll every task that is ready: the Tokio worker pool and  *)
(* the deterministic executor's run queue never skip a ready task forever, *)
(* and the timers of the sleeps fire.                                      *)
(***************************************************************************)
Spec ==
    /\ Init /\ [][Next]_vars
    /\ WF_vars(SelectWord \/ PushWord \/ WriteQueued \/ QueuedPush \/ SelectorSleep)
    /\ WF_vars(ReadLast \/ ReadEmpty \/ CountWord \/ CounterSleep)
    /\ WF_vars(Join)

-----------------------------------------------------------------------------
\* Type invariant.
TypeOK ==
    /\ selected \in Seq(Rnd)
    /\ readers \in 0 .. 1
    /\ si \in Rnd /\ ci \in Rnd
    /\ spc \in {"select", "write", "queued", "sleep", "done"}
    /\ cpc \in {"read", "count", "sleep", "done"}
    /\ picked \in Rnd
    /\ seen \in Seq(0 .. Rounds)
    /\ joined \in BOOLEAN

(***************************************************************************)
(* The word being counted is never stale: from the read of last() to the   *)
(* end of count_word_occurrences no word is pushed, because the read guard *)
(* that `word` borrows from keeps the selector's write waiting.            *)
(***************************************************************************)
CountedWordIsLast ==
    cpc = "count" => seen[Len(seen)] = Len(selected)

(***************************************************************************)
(* Both loops run to the end and the root task's join returns: the         *)
(* selector never waits forever for the counter's read guard, nor the      *)
(* counter for the queued writer.                                          *)
(***************************************************************************)
WorkflowCompletes == <>(joined /\ Len(selected) = Rounds /\ Len(seen) = Rounds)
=============================================================================
