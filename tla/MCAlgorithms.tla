---------------------------- MODULE MCAlgorithms ----------------------------
(***************************************************************************)
(* Algorithms on every input of small sets.                                *)
(***************************************************************************)
EXTENDS Algorithms

\* Plans of three steps, the last under an id of its own or of the first, that need
\* any sequence of up to two steps, or a missing one.
MCPlans ==
  LET Need == {<<>>, <<"a">>, <<"b">>, <<"c">>, <<"a", "b">>, <<"c", "a">>, <<"c", "b">>, <<"lost">>}
      Step(id, n) == [id |-> id, needs |-> n]
      Three == {<<Step("a", x), Step("b", y), Step(i, z)>> : x \in Need, y \in Need, z \in Need, i \in {"a", "c"}}
  \* and the needs of ship-to-prod, listed from its end
  IN  Three \cup { <<Step("rollback", <<"verify">>), Step("verify", <<"deploy">>), Step("deploy", <<"scan">>),
                     Step("scan", <<"build">>), Step("build", <<"test">>), Step("test", <<>>)>> }

MCNames == {"a", "b", "c", "lost", "rollback", "verify", "deploy", "scan", "build", "test"}

Str(s)      == <<"str", s>>
Const(v)    == [node |-> "const", value |-> v]
Name(n)     == [node |-> "name", id |-> n]
Attr(e, n)  == [node |-> "attr", of |-> e, name |-> n]
Index(e, k) == [node |-> "index", of |-> e, key |-> k]
Cmp(l, o, r) == [node |-> "compare", args |-> <<l, r>>, ops |-> <<o>>]
Steps(s, f) == Attr(Attr(Name("steps"), s), f)
List(vs)    == [node |-> "list", args |-> vs]

\* The seeded conditions, their negations, and what can raise.
Atoms ==
  {Cmp(Steps("verify", "status"), o, Const(Str("failed"))) : o \in {"==", "!="}}
  \cup {Cmp(Steps("triage", "severity"), o, List(<<Const(Str("P1")), Const(Str("P2"))>>)) : o \in {"in", "not in"}}
  \cup { Cmp(Const(Str("P1")), "in", Steps("triage", "severity")),
         Cmp(Steps("triage", "severity"), "is", Const(None)),
         Cmp(Steps("scan", "count"), "<", Const(<<"int", 2>>)),
         Attr(Steps("verify", "status"), "code"),
         Index(Index(Name("steps"), Const(Str("verify"))), Const(Str("status"))),
         Name("unknown"), [node |-> "call"],
         [node |-> "compare", args |-> <<Const(<<"int", 0>>), Steps("scan", "count"), Const(<<"int", 2>>)>>, ops |-> <<"<", "<">>],
         Steps("scan", "count") }

Nots == {[node |-> "not", of |-> e] : e \in Atoms}

MCConditions ==
  Atoms \cup Nots
    \cup {[node |-> b, args |-> <<x, y>>] : b \in {"and", "or"}, x \in Atoms \cup Nots, y \in Atoms}
    \cup {[node |-> "not", of |-> [node |-> b, args |-> <<x, y, z>>]] :
            b \in {"and", "or"}, x \in {Steps("scan", "count")}, y \in Nots, z \in Atoms}

Dict(f) == <<"dict", f>>
MCContexts ==
  {[steps |-> Dict(s)] : s \in
    { [none \in {} |-> None],
      [verify |-> Dict([status |-> Str("skipped")])],
      [verify |-> Dict([status |-> Str("failed")]), triage |-> Dict([severity |-> Str("P1")]),
       scan |-> Dict([count |-> <<"int", 1>>])],
      [verify |-> Dict([status |-> Str("success")]), triage |-> Dict([severity |-> Str("P3")]),
       scan |-> Dict([count |-> <<"int", 2>>])],
      [triage |-> Dict([severity |-> <<"list", <<Str("P1")>>>>]), scan |-> Dict([count |-> <<"int", 0>>])] }}

\* Tokens, and pieces of a reply with the calls their writer meant.
Tok(k)    == [kind |-> k, quoted |-> FALSE]
Quoted(k) == [kind |-> k, quoted |-> TRUE]
O == Tok("{")
X == Tok("}")
F == <<Tok("fence")>>
Body(t)      == [kind |-> "call", quoted |-> FALSE, tool |-> t]
Json(t)      == <<O, Body(t), O, X, X>>
Doubled(t)   == <<O, O, Body(t), O, X, X, X>>
Tag(t, args) == <<[kind |-> "tag", quoted |-> FALSE, tool |-> t, arguments |-> args]>>
Piece(via, tokens, calls) == [via |-> via, tokens |-> <<Tok("prose")>> \o tokens, calls |-> calls]

Pieces ==
  { Piece("bare", Json("get"), <<"get">>), Piece("bare", Doubled("scale"), <<"scale">>),
    Piece("fence", F \o Json("get") \o F, <<"get">>),
    Piece("fence", F \o Json("get") \o Json("scale") \o F, <<"get", "scale">>),
    Piece("tag", Tag("scale", TRUE), <<"scale">>), Piece("tag", F \o Tag("get", TRUE) \o F, <<"get">>),
    Piece("tag", Tag("", TRUE), <<>>), Piece("tag", Tag("scale", FALSE), <<>>),
    Piece("prose", <<>>, <<>>), Piece("prose", <<O, Tok("prose"), X>>, <<>>), Piece("prose", <<X>>, <<>>),
    Piece("broken", <<O>>, <<>>), Piece("broken", F, <<>>),
    Piece("broken", <<O, Body("get"), O, Quoted("}"), X, X>>, <<"get">>),
    Piece("broken", <<O, Body("get"), O, Quoted("{"), Quoted("}"), X, X>>, <<"get">>),
    Piece("broken", <<O, Tok("prose")>> \o Json("get") \o <<X>>, <<"get">>) }

MCTexts == UNION {[1..n -> Pieces] : n \in 1..3}

\* Threads of up to five runs, each of one or two turns.
MCThreads ==
  LET Turns(n) == FlattenSeq([r \in DOMAIN n |-> [k \in 1..n[r] |-> r]])
  IN  {Turns(n) : n \in UNION {[1..m -> {1, 2}] : m \in 1..5}}

\* Up to three rounds of a request, one or two outputs of every interesting size.
MCTalks ==
  LET M(r, n) == [role |-> r, size |-> n]
      Round == {<<M("assistant", 100), M("tool", n)>> : n \in {300, 301, 4000, 9000}}
                 \cup {<<M("assistant", 100), M("tool", n), M("tool", 5000)>> : n \in {301, 4000}}
  IN  {<<M("user", u)>> \o FlattenSeq(rs) : u \in {50, 12000}, rs \in UNION {[1..n -> Round] : n \in 0..3}}
=============================================================================
