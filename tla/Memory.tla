------------------------------- MODULE Memory -------------------------------
(***************************************************************************)
(* What a model is shown of the past: build_thread_history of chat.py,     *)
(* which decides whose turns of a thread a new run gets and whose are      *)
(* summed up, and _trim_old_tool_output of executor.py, which shortens old *)
(* tool output before each request.  A step is one round of a loop, or the *)
(* code between two loops.  A turn is its place in the thread, a message   *)
(* its place in the talk.                                                  *)
(***************************************************************************)
EXTENDS Integers, Sequences, FiniteSets

CONSTANTS
  Threads,          \* sequences of the run of each turn
  Talks,            \* sequences of messages [role, size]
  Threshold, Keep,  \* THREAD_SUMMARY_THRESHOLD, THREAD_SUMMARY_KEEP_RUNS
  MaxChars, Kept, Suffix   \* local_llm_max_history_chars, 300, the length of the mark

Roles == {"system", "user", "assistant", "tool"}

ASSUME ThreadsAssumption == Threads \subseteq Seq(Nat)
ASSUME KeepAssumption    == Keep \in Nat \ {0} /\ Threshold \in Nat /\ Threshold >= Keep
ASSUME SizesAssumption   == {MaxChars, Kept, Suffix} \subseteq Nat

\* An output of a tool follows the message that called it.
ASSUME TalksAssumption ==
  /\ Talks \subseteq Seq([role: Roles, size: Nat])
  /\ \A t \in Talks : \A i \in DOMAIN t :
       t[i].role = "tool" => \E j \in 1..(i - 1) : t[j].role = "assistant"

VARIABLES
  doing,
  cursor,    \* where the loop at hand is
  turns,     \* of a thread: the run of each turn
  runOrder,  \* the runs in the order of their first turns
  cutoff,    \* the runs too old to be replayed
  summed,    \* the turns the summary stands for
  shown,     \* the turns that are replayed
  talk,      \* of a talk: the messages
  total,
  cut        \* those that are shortened

threadVars == <<turns, runOrder, cutoff, summed, shown>>
talkVars   == <<talk, total, cut>>
memoryVars == <<doing, cursor, threadVars, talkVars>>

NothingToRecall ==
  /\ doing = "nothing" /\ cursor = 1
  /\ turns = <<>> /\ runOrder = <<>> /\ cutoff = {} /\ summed = {} /\ shown = <<>>
  /\ talk = <<>> /\ total = 0 /\ cut = {}

---------------------------------------------------------------------------
(* A new run of a thread                                                    *)

ContinuesThread ==
  /\ doing = "nothing" /\ doing' = "order"
  /\ turns' \in Threads
  /\ UNCHANGED <<cursor, runOrder, cutoff, summed, shown, talkVars>>

\* dict.fromkeys: each run where its first turn is.
SeesRun ==
  /\ doing = "order" /\ cursor <= Len(turns)
  /\ runOrder' = IF \E i \in DOMAIN runOrder : runOrder[i] = turns[cursor] THEN runOrder
                 ELSE Append(runOrder, turns[cursor])
  /\ cursor' = cursor + 1
  /\ UNCHANGED <<doing, turns, cutoff, summed, shown, talkVars>>

IsLong == Len(runOrder) > Threshold
Oldest == {runOrder[i] : i \in 1..(Len(runOrder) - Keep)}

Cuts ==
  /\ doing = "order" /\ cursor > Len(turns)
  /\ cutoff' = IF IsLong THEN Oldest ELSE {}
  /\ doing' = IF IsLong THEN "summarise" ELSE "replay"
  /\ cursor' = 1
  /\ UNCHANGED <<turns, runOrder, summed, shown, talkVars>>

\* summarize_thread gives a text, or none.
Summarises ==
  /\ doing = "summarise" /\ doing' = "replay"
  /\ summed' \in {{}, {i \in DOMAIN turns : turns[i] \in cutoff}}
  /\ UNCHANGED <<cursor, turns, runOrder, cutoff, shown, talkVars>>

Replays ==
  /\ doing = "replay" /\ cursor <= Len(turns)
  /\ shown' = IF turns[cursor] \in cutoff THEN shown ELSE Append(shown, cursor)
  /\ cursor' = cursor + 1
  /\ UNCHANGED <<doing, turns, runOrder, cutoff, summed, talkVars>>

Recalls ==
  /\ doing = "replay" /\ cursor > Len(turns)
  /\ doing' = "recalled"
  /\ UNCHANGED <<cursor, threadVars, talkVars>>

---------------------------------------------------------------------------
(* A request to the model of a long talk                                    *)

TrimsTalk ==
  /\ doing = "nothing" /\ doing' = "count"
  /\ talk' \in Talks
  /\ UNCHANGED <<cursor, total, cut, threadVars>>

Counts ==
  /\ doing = "count" /\ cursor <= Len(talk)
  /\ total' = total + talk[cursor].size
  /\ cursor' = cursor + 1
  /\ UNCHANGED <<doing, talk, cut, threadVars>>

CountsAll ==
  /\ doing = "count" /\ cursor > Len(talk)
  /\ doing' = "shorten" /\ cursor' = 1
  /\ UNCHANGED <<talkVars, threadVars>>

Calls == {j \in DOMAIN talk : talk[j].role = "assistant"}

\* Mutant of Older: the whole talk.
OlderAll == DOMAIN talk

\* The messages before the latest round: out[:-1], all but the last, without one.
Older == IF Calls = {} THEN 1..(Len(talk) - 1)
         ELSE {i \in DOMAIN talk : \E j \in Calls : j > i}

IsLongOutput(i) == talk[i].role = "tool" /\ talk[i].size > Kept

\* The mark that is added is not counted in the total.
Shortens ==
  /\ doing = "shorten" /\ cursor \in Older /\ total > MaxChars
  /\ IF IsLongOutput(cursor)
     THEN cut' = cut \cup {cursor} /\ total' = total - (talk[cursor].size - Kept)
     ELSE UNCHANGED <<cut, total>>
  /\ cursor' = cursor + 1
  /\ UNCHANGED <<doing, talk, threadVars>>

Trims ==
  /\ doing = "shorten" /\ (cursor \notin Older \/ total <= MaxChars)
  /\ doing' = "trimmed"
  /\ UNCHANGED <<cursor, talkVars, threadVars>>

\* What was made is sent to the model.
Sends ==
  /\ doing \in {"recalled", "trimmed"} /\ doing' = "nothing"
  /\ cursor' = 1
  /\ turns' = <<>> /\ runOrder' = <<>> /\ cutoff' = {} /\ summed' = {} /\ shown' = <<>>
  /\ talk' = <<>> /\ total' = 0 /\ cut' = {}

MemoryNext ==
  \/ ContinuesThread \/ SeesRun \/ Cuts \/ Summarises \/ Replays \/ Recalls
  \/ TrimsTalk \/ Counts \/ CountsAll \/ Shortens \/ Trims
  \/ Sends
MemorySpec == NothingToRecall /\ [][MemoryNext]_memoryVars

---------------------------------------------------------------------------
RunsOf(places) == {turns[i] : i \in places}
ShownTurns == {shown[k] : k \in DOMAIN shown}

\* A new run of a thread is shown, in order, all turns of the runs it is shown at all,
\* which are those that began last: Keep of them in a long thread, and all in another.
\* A summary stands for the turns it is not shown, each of them and no others, unless
\* none could be written (chat.py: build_thread_history).
ThreadIsKept == doing = "recalled" =>
  LET fresh == RunsOf(ShownTurns)
      all   == RunsOf(DOMAIN turns)
  IN  /\ \A k, l \in DOMAIN shown : k < l => shown[k] < shown[l]
      /\ ShownTurns = {i \in DOMAIN turns : turns[i] \in fresh}
      /\ \A i \in DOMAIN turns \ ShownTurns, k \in ShownTurns :
           \E j \in 1..(k - 1) : turns[j] = turns[i]
      /\ IF Cardinality(all) > Threshold THEN Cardinality(fresh) = Keep ELSE fresh = all
      /\ summed \in {{}, DOMAIN turns \ ShownTurns}

\* The length of a talk when each message in C has n characters, message by message.
Chars(messages, C, n) ==
  LET upTo[i \in 0..Len(messages)] ==
        IF i = 0 THEN 0 ELSE upTo[i - 1] + (IF i \in C THEN n ELSE messages[i].size)
  IN  upTo
Length(C, n) == Chars(talk, C, n)[Len(talk)]

\* A talk keeps its latest round and whatever is no long tool output; of the others the
\* oldest are shortened, each only because the talk was too long without it; and what is
\* left over MaxChars is at most the marks, unless nothing is left to shorten
\* (executor.py: _trim_old_tool_output).
TalkIsKept == doing = "trimmed" =>
  LET could     == {i \in DOMAIN talk : IsLongOutput(i) /\ \E j \in Calls : j > i}
      Before(i) == {j \in cut : j < i}
  IN  /\ cut \subseteq could
      /\ \A i \in cut, j \in could : j < i => j \in cut
      /\ \A i \in cut : Length(Before(i), Kept) > MaxChars
      /\ Length(cut, Kept + Suffix) <= MaxChars + Suffix * Cardinality(cut) \/ cut = could

\* Nothing of the past is lost to the model but what has to be.
HistoryIsKept == ThreadIsKept /\ TalkIsKept
=============================================================================
