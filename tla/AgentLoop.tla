------------------------------ MODULE AgentLoop ------------------------------
(***************************************************************************)
(* The tool-use loop of orchestrator/executor.py, as functions of a        *)
(* segment: one call of run_agent, from a fresh prompt or from the         *)
(* conversation a paused run left behind, to its result.  The two loops of *)
(* the code (_run_with_claude and _run_with_local_llm) differ only where   *)
(* an operator takes the provider.  ChatRun runs these operators inside a  *)
(* run.                                                                    *)
(*                                                                         *)
(* The model's text is left out.  A round, the tool calls of one assistant *)
(* turn, is a sequence of tools: a call's arguments matter only to the     *)
(* repeat breaker of the local loop, where repeating is nondeterministic.  *)
(***************************************************************************)
EXTENDS Integers, Sequences

CONSTANTS
  Tools,           \* the assistant's tools
  Mutating,        \* MUTATING_TOOLS
  Ask,             \* ask_user, the tool that is not a tool
  Rounds,          \* the rounds a model may propose
  AutoApprove,     \* settings.approval_mode = "auto" (test cluster only)
  MaxIterations,   \* MAX_TOOL_ITERATIONS
  MaxCallsPerTool  \* MAX_CALLS_PER_TOOL

Calls == Tools \cup {Ask}

ASSUME ToolsAssumption == Mutating \subseteq Tools /\ Ask \notin Tools
ASSUME RoundsAssumption == Rounds \subseteq Seq(Calls) \ {<<>>}
ASSUME LoopAssumption == /\ AutoApprove \in BOOLEAN
                         /\ MaxIterations \in Nat \ {0}
                         /\ MaxCallsPerTool \in Nat \ {0}

\* What run_agent works with: Claude, an OpenAI-compatible server in either
\* tool_call_mode, or nothing (no API key).
Local == {"lenient", "strict"}
Providers == Local \cup {"anthropic", "none"}

In(c, round) == \E k \in DOMAIN round : round[k] = c

\* The conversation, as far as the code looks at it: the tools whose result
\* carries DENIED_MARKER, and the calls of the last assistant turn that have no
\* result yet.
Conversations == [denied : SUBSET Tools, open : Seq(Calls)]
NewConversation == [denied |-> {}, open |-> <<>>]

\* A segment.  counts is call_counts, todo is the rest of the round being executed.
Segments == [conv   : Conversations,
             todo   : Seq(Calls),
             iter   : Nat,
             counts : [Calls -> Nat]]

\* run_agent(history = conv): the counters start at zero in every segment.  (So does
\* `denied`, which no result of the segment itself adds to.)
NewSegment(conv) ==
  [conv |-> conv, todo |-> <<>>, iter |-> 0,
   counts |-> [c \in Calls |-> 0]]

\* The model may be asked again.
MayIterate(seg) == seg.iter < MaxIterations

\* A provider refuses a history in which a call has no result; a local server
\* may take it.
Rejected(seg, provider) == provider = "anthropic" /\ seg.conv.open # <<>>

\* The repeat breaker of the lenient local loop.  repeats: the arguments are
\* those of earlier calls, which takes that every tool was called before.
CanRepeat(seg, round) == \A k \in DOMAIN round : seg.counts[round[k]] > 0

Looping(seg, provider, round, repeats) ==
  /\ provider = "lenient"
  /\ \/ repeats
     \/ \E k \in DOMAIN round : seg.counts[round[k]] >= MaxCallsPerTool

\* Mutant of GateCall: the gate looks only at the first call of the round.
GateFirstCall(seg, round) == round[1] \in Mutating /\ round[1] \notin seg.conv.denied

\* The call a round is paused for: the first mutating one the user has not
\* denied earlier in this run.
GateCall(seg, round) == \E k \in DOMAIN round :
                          round[k] \in Mutating /\ round[k] \notin seg.conv.denied

\* pending_command, the one call of the paused round that the user is shown.
Gated(conv) == {k \in DOMAIN conv.open : conv.open[k] \in Mutating \ conv.denied}

PendingCommand(conv) ==
  conv.open[CHOOSE k \in Gated(conv) : \A j \in Gated(conv) : k <= j]

\* The whole round waits, before anything in it runs.
Pauses(seg, round, may) == ~AutoApprove /\ may /\ GateCall(seg, round)

\* The turn is appended to the history, so far without results.
Propose(seg, round) == [seg EXCEPT !.conv.open = round]

\* The loop is left: only the conversation goes on.
Leave(seg) == NewSegment(seg.conv)

\* The round is to be executed, call by call.
Begin(seg, round) == [seg EXCEPT !.conv.open = round, !.todo = round]

\* Whether the next call of the round really runs: not one the user denied
\* before, and not a mutating one below dev.
CallRuns(seg, may) == LET c == Head(seg.todo) IN
  c \in Tools \ seg.conv.denied /\ (c \in Mutating => may)

\* Its result, or the refusal that stands for it, is recorded.
Answer(seg) ==
  [seg EXCEPT !.todo = Tail(@), !.counts[Head(seg.todo)] = @ + 1]

\* The round is complete.
Complete(seg) == [seg EXCEPT !.conv.open = <<>>, !.iter = @ + 1]

\* build_resume_messages: the reply answers the first ask_user, and nothing else.
Replied(conv) ==
  LET k == CHOOSE j \in DOMAIN conv.open :
             conv.open[j] = Ask /\ \A i \in 1..(j - 1) : conv.open[i] # Ask
  IN  [conv EXCEPT !.open = [i \in 1..(Len(conv.open) - 1) |->
                               IF i < k THEN conv.open[i] ELSE conv.open[i + 1]]]

\* execute_paused_round: whether a call of the round runs, and the history with
\* every call answered, the mutating ones by a denial if the user denied.
RunsDecided(c, approved) == c \in Tools /\ (c \in Mutating => approved)

Decided(conv, approved) ==
  [denied |-> conv.denied \cup
                IF approved THEN {} ELSE {c \in Mutating : In(c, conv.open)},
   open   |-> <<>>]
=============================================================================
