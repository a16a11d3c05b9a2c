----------------------------- MODULE Algorithms -----------------------------
(***************************************************************************)
(* The pure functions the orchestrator's decisions rest on, each called on *)
(* an input of a small set: the conditions of `when` and the tool calls a  *)
(* local model wrote as text, each in one step; the order of a             *)
(* Flightplan's steps, which StepOrder computes visit by visit; and what a *)
(* model is shown of the past, which Memory puts together turn by turn.    *)
(* The invariants compare each result with what it should be.              *)
(***************************************************************************)
EXTENDS StepOrder, Memory, SequencesExt

CONSTANTS
  Conditions,   \* expressions
  Contexts,     \* what they may be evaluated on
  Texts         \* sequences of pieces [tokens, calls]

VARIABLES call, result
vars == <<call, result, orderVars, memoryVars>>

Raised == <<"raise">>     \* an exception, where the functions may raise one

---------------------------------------------------------------------------
(* The evaluator. A value is a pair of its type and its content.           *)

None     == <<"none">>
Bool(b)  == <<"bool", b>>

Truthy(v) == CASE v[1] = "none" -> FALSE
               [] v[1] = "bool" -> v[2]
               [] v[1] = "int"  -> v[2] # 0
               [] v[1] = "str"  -> v[2] # ""
               [] v[1] = "list" -> v[2] # <<>>
               [] v[1] = "dict" -> DOMAIN v[2] # {}

\* Python's operators on the values the conditions compare: an order with None, and
\* membership in it or in a number, raise TypeError; strings of one length are in
\* each other when they are equal, and no two strings are ordered.
Compares(op, l, r) ==
  CASE op = "=="     -> Bool(l = r)
    [] op = "!="     -> Bool(l # r)
    [] op \in {"<", ">="} ->
         IF l[1] # "int" \/ r[1] # "int" THEN Raised
         ELSE Bool(IF op = "<" THEN l[2] < r[2] ELSE l[2] >= r[2])
    [] op \in {"in", "not in"} ->
         IF r[1] \notin {"list", "dict", "str"} \/ (r[1] = "str" /\ l[1] # "str") THEN Raised
         ELSE LET member == CASE r[1] = "list" -> l \in Range(r[2])
                              [] r[1] = "dict" -> l[1] = "str" /\ l[2] \in DOMAIN r[2]
                              [] OTHER         -> l = r
              IN  Bool(member <=> op = "in")
    [] OTHER         -> Raised      \* `is`: a disallowed comparison

StrictAttribute(v, name) == IF v[1] = "dict" /\ name \in DOMAIN v[2] THEN v[2][name] ELSE Raised

\* Attributes are keys: missing ones, and those of None, are None.
Attribute(v, name) == CASE v \in {Raised, None} -> v
                        [] v[1] = "dict"        -> IF name \in DOMAIN v[2] THEN v[2][name] ELSE None
                        [] OTHER                -> Raised

\* Subscripts index lists, by a position, and dictionaries, by a key.
Subscript(v, k) ==
  CASE v[1] = "dict" /\ k[1] = "str" /\ k[2] \in DOMAIN v[2]          -> v[2][k[2]]
    [] v[1] = "list" /\ k[1] = "int" /\ k[2] + 1 \in DOMAIN v[2]      -> v[2][k[2] + 1]
    [] v[1] = "list" /\ k[1] = "int" /\ k[2] \in -Len(v[2])..-1       -> v[2][Len(v[2]) + k[2] + 1]
    [] OTHER                                                          -> Raised

\* all() and any() of lazy values: the first that decides, or raises, ends them.
FirstToStop(values, truth) ==
  LET i == SelectInSeq(values, LAMBDA v : v = Raised \/ Truthy(v) = truth)
  IN  CASE i = 0               -> Bool(~truth)
        [] values[i] = Raised  -> Raised
        [] OTHER               -> Bool(truth)

RECURSIVE Eval(_, _)
Eval(e, ctx) ==
  LET V(x)   == Eval(x, ctx)
      Vs(es) == [i \in DOMAIN es |-> V(es[i])]
  IN CASE e.node = "const"   -> e.value
       [] e.node = "name"    -> IF e.id \in DOMAIN ctx THEN ctx[e.id] ELSE Raised
       [] e.node = "attr"    -> Attribute(V(e.of), e.name)
       [] e.node = "index"   -> Subscript(V(e.of), V(e.key))
       [] e.node = "compare" ->      \* l op1 r1 op2 r2 ...: each with its neighbour
            LET v == Vs(e.args)
            IN  FirstToStop([i \in DOMAIN e.ops |->
                               IF Raised \in {v[i], v[i + 1]} THEN Raised
                               ELSE Compares(e.ops[i], v[i], v[i + 1])], FALSE)
       [] e.node = "and"     -> FirstToStop(Vs(e.args), FALSE)
       [] e.node = "or"      -> FirstToStop(Vs(e.args), TRUE)
       [] e.node = "not"     -> LET v == V(e.of) IN IF v = Raised THEN v ELSE Bool(~Truthy(v))
       [] e.node = "list"    -> IF Raised \in Range(Vs(e.args)) THEN Raised ELSE <<"list", Vs(e.args)>>
       [] OTHER              -> Raised     \* calls, lambdas: disallowed

\* _eval_expr and the test of `when`: an exception is None, and None skips the step.
EvalExpr(e, ctx)  == IF Eval(e, ctx) = Raised THEN None ELSE Eval(e, ctx)
ShouldRun(e, ctx) == Truthy(EvalExpr(e, ctx))

---------------------------------------------------------------------------
(* Tool calls in a reply's text. A text is a sequence of tokens: braces     *)
(* (in a string or not), the body `"name": t, "arguments":` of a call, code *)
(* fences, XML-style tags and prose.                                        *)

IsOpen(t)  == t.kind = "{"
IsClose(t) == t.kind = "}"

\* _find_balanced_json_objects: the top-level {...}, by counting braces.
Objects(text) ==
  LET Count(st, i) ==
        CASE IsOpen(text[i]) ->
               [st EXCEPT !.depth = @ + 1, !.start = IF st.depth = 0 THEN i ELSE @]
          [] IsClose(text[i]) /\ st.depth > 1 -> [st EXCEPT !.depth = @ - 1]
          [] IsClose(text[i]) /\ st.depth = 1 ->
               [st EXCEPT !.depth = 0, !.found = Append(@, SubSeq(text, st.start, i))]
          [] OTHER -> st
  IN  FoldLeft(Count, [depth |-> 0, start |-> 0, found |-> <<>>], [i \in DOMAIN text |-> i]).found

\* {{ and }} read as { and }, pairs taken from the left.
Undoubled(blob) ==
  FoldLeft(LAMBDA st, t :
             IF st.last = t.kind /\ t.kind \in {"{", "}"} /\ ~t.quoted
             THEN [st EXCEPT !.last = "pair"]
             ELSE [last |-> IF t.quoted THEN "none" ELSE t.kind, out |-> Append(st.out, t)],
           [last |-> "none", out |-> <<>>], blob).out

\* JSON of the one shape that is a call: {"name": t, "arguments": {...}}.
IsCall(blob) ==
  /\ Len(blob) >= 5
  /\ \A i \in DOMAIN blob :
       CASE i \in {1, 3}                      -> IsOpen(blob[i]) /\ ~blob[i].quoted
         [] i = 2                             -> blob[i].kind = "call"
         [] i \in {Len(blob) - 1, Len(blob)}  -> IsClose(blob[i]) /\ ~blob[i].quoted
         [] OTHER                             -> blob[i].quoted

ParseJson(blob) == IF IsCall(blob) THEN <<blob[2].tool>>
                   ELSE IF IsCall(Undoubled(blob)) THEN <<Undoubled(blob)[2].tool>>
                   ELSE <<>>

\* A tag names its tool by an attribute, or itself when it is no generic word.
ParseTag(t) == IF t.kind = "tag" /\ t.arguments /\ t.tool # "" THEN <<t.tool>> ELSE <<>>

\* The insides of the code fences, taken in pairs.
Fenced(text) ==
  LET marks == SelectSeq([i \in DOMAIN text |-> i], LAMBDA i : text[i].kind = "fence")
  IN  [k \in 1..(Len(marks) \div 2) |-> SubSeq(text, marks[2 * k - 1] + 1, marks[2 * k] - 1)]

TextAndFences(text) == <<text>> \o Fenced(text)
Candidates(text) == IF Fenced(text) = <<>> THEN <<text>> ELSE Fenced(text)

ExtractCalls(text) ==
  LET Blobs == FlattenSeq([k \in DOMAIN Candidates(text) |-> Objects(Candidates(text)[k])])
  IN  FlattenSeq([i \in DOMAIN text |-> ParseTag(text[i])])
        \o FlattenSeq([k \in DOMAIN Blobs |-> ParseJson(Blobs[k])])

---------------------------------------------------------------------------
Init == call = [of |-> "none"] /\ result = None /\ NotStarted /\ NothingToRecall

Idle == call.of = "none" /\ pc = "idle" /\ doing = "nothing"

TestCondition == Idle /\ \E e \in Conditions, c \in Contexts :
  call' = [of |-> "condition", expr |-> e, context |-> c] /\ result' = Bool(ShouldRun(e, c))

ReadReply == Idle /\ \E t \in Texts :
  call' = [of |-> "reply", text |-> t]
  /\ result' = ExtractCalls(FlattenSeq([i \in DOMAIN t |-> t[i].tokens]))

Return == call.of # "none" /\ call' = [of |-> "none"] /\ result' = None

\* One call at a time.
OrderSteps == call.of = "none" /\ doing = "nothing" /\ OrderNext /\ UNCHANGED <<call, result, memoryVars>>

Remember == call.of = "none" /\ pc = "idle" /\ MemoryNext /\ UNCHANGED <<call, result, orderVars>>

OtherCall == (TestCondition \/ ReadReply \/ Return) /\ UNCHANGED <<orderVars, memoryVars>>

Next == OrderSteps \/ Remember \/ OtherCall
Spec == Init /\ [][Next]_vars

---------------------------------------------------------------------------
(* What the results should be.                                              *)

\* What a condition says, without evaluating it in order: a path is the value its
\* keys lead to, or None when one is missing; a condition holds, fails, or is
\* neither, when the part that would decide it cannot be evaluated.
RECURSIVE ValueAt(_, _)
ValueAt(e, ctx) ==
  CASE e.node = "const"                                -> e.value
    [] e.node = "list"                                 -> <<"list", [i \in DOMAIN e.args |-> ValueAt(e.args[i], ctx)]>>
    [] e.node = "name" /\ e.id \in DOMAIN ctx          -> ctx[e.id]
    [] e.node = "attr"  ->
         LET v == ValueAt(e.of, ctx)
         IN  IF v[1] = "dict" /\ e.name \in DOMAIN v[2] THEN v[2][e.name]
             ELSE IF v[1] \in {"dict", "none"} THEN None ELSE Raised
    [] e.node = "index" -> Subscript(ValueAt(e.of, ctx), ValueAt(e.key, ctx))
    [] OTHER -> Raised

RECURSIVE Says(_, _, _)
Says(e, truth, ctx) ==
  CASE e.node \in {"and", "or"} ->
         IF truth = (e.node = "and") THEN \A i \in DOMAIN e.args : Says(e.args[i], truth, ctx)
         ELSE \E i \in DOMAIN e.args :
                /\ Says(e.args[i], truth, ctx)
                /\ \A j \in 1..(i - 1) : Says(e.args[j], ~truth, ctx)
    [] e.node = "not"     -> Says(e.of, ~truth, ctx)
    [] e.node = "compare" ->
         LET Related(i) == Compares(e.ops[i], ValueAt(e.args[i], ctx), ValueAt(e.args[i + 1], ctx))
         IN  IF truth THEN \A i \in DOMAIN e.ops : Related(i) = Bool(TRUE)
             ELSE \E i \in DOMAIN e.ops : Related(i) = Bool(FALSE) /\ \A j \in 1..(i - 1) : Related(j) = Bool(TRUE)
    [] OTHER -> LET v == ValueAt(e, ctx) IN v # Raised /\ Truthy(v) = truth

\* A step runs exactly when its condition holds: a step that has not run reads as
\* one without output, `not` swaps what holds and what fails, and a condition that
\* cannot be evaluated skips the step as one that fails does (safe_eval.py: _eval,
\* graph.py: _eval_expr, _run_remaining_steps).
StepRunsWhenItHolds == call.of = "condition" => (result = Bool(TRUE) <=> Says(call.expr, TRUE, call.context))

\* From a local model's reply the orchestrator runs no call twice and none the
\* model did not write; and it finds them all, the tags first, when no brace is
\* unbalanced or inside a string and no bare JSON call stands beside a fence
\* (executor.py: _extract_content_tool_calls).
CallsAreFound == call.of = "reply" =>
  LET pieces == call.text
      Written(via) == FlattenSeq([i \in DOMAIN pieces |-> IF pieces[i].via = via THEN pieces[i].calls ELSE <<>>])
      Count(s, t)  == Len(SelectSeq(s, LAMBDA c : c = t))
      intended     == Written("tag") \o FlattenSeq([i \in DOMAIN pieces |->
                        IF pieces[i].via # "tag" THEN pieces[i].calls ELSE <<>>])
      vias         == {pieces[i].via : i \in DOMAIN pieces}
      fenced       == \E i \in DOMAIN pieces : \E j \in DOMAIN pieces[i].tokens : pieces[i].tokens[j].kind = "fence"
  IN  /\ \A t \in Range(result) : Count(result, t) <= Count(intended, t)
      /\ "broken" \notin vias /\ ~(fenced /\ "bare" \in vias) => result = intended
=============================================================================
