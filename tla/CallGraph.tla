----------------------------- MODULE CallGraph -----------------------------
(***************************************************************************)
(* The call-graph pass of the starlark script analyzer                    *)
(* (src/base/dsfs/package.go: buildCallGraph, addToCallGraph,             *)
(* addCallHeight, markReachable), as recursive operators over a script's  *)
(* top-level defs, checked against reference definitions of call chains   *)
(* and reachability over every small script.                              *)
(*                                                                         *)
(* A script is the sequence of its def names in file order (defs) and,    *)
(* for each def, the sequence of names its body calls (calls), as         *)
(* analyzeFuncBody collects them.  Names outside the symbol table         *)
(* (builtins such as len) are skipped; print is always in the table, as  *)
(* a function with no calls.  The state holds one script and, after the  *)
(* Analyze step, what the analysis produced.                              *)
(***************************************************************************)
EXTENDS Naturals, Sequences, SequencesExt

CONSTANTS
    FuncNames,   \* names a script may def (Transform among them)
    Transform,   \* "transform", the root of reachability
    Predeclared,       \* "print", added to the symbol table by buildCallGraph
    Unknown,     \* called names that are not defined (builtins)
    MaxCalls,    \* bound on the calls of one def
    FirstFunc    \* "first_func", the def doAnalyze analyzes on its own

ASSUME Transform \in FuncNames /\ Predeclared \notin FuncNames
ASSUME Unknown \cap (FuncNames \cup {Predeclared}) = {}
ASSUME FirstFunc \in FuncNames \ {Transform}

AllNames == FuncNames \cup {Predeclared}
Alphabet == AllNames \cup Unknown

VARIABLES
    defs,    \* the def names of the script, in file order
    calls,   \* calls[f]: the names f's body calls, in order
    result   \* NoResult, or what buildCallGraph computed

vars == << defs, calls, result >>

\* symtable: every def of the script, and print.
Symtable == Range(defs) \cup {Predeclared}

CallsOf(n) == IF n = Predeclared THEN << >> ELSE calls[n]

(***************************************************************************)
(* The syntax walk that produces the call lists: analyzeFuncBody reads   *)
(* the top-level statements of a def body and getFuncCallsInExpr the      *)
(* expressions in them.  An expression is a record of its syntax kind,    *)
(* the name of an identifier, and its sub-expressions in the order of     *)
(* the syntax node's fields (a slice's missing bounds are NilExpr).  A   *)
(* statement is a record of its kind, its expression, and for blocks its  *)
(* nested statements.  A panic("not implemented") is the PanicMark name   *)
(* in the result: the Go panic ends the whole analysis.                   *)
(***************************************************************************)
PanicMark == "panic: not implemented"
UnknownName == "<Unknown Name>"
NilExpr == [kind |-> "nil", name |-> "", kids |-> << >>]

\* simpleExprToFuncName: the identifier's name, else an unknown-name text.
simpleExprToFuncName(e) == IF e.kind = "ident" THEN e.name ELSE UnknownName

RECURSIVE getFuncCallsInExpr(_)
CallsInList(s) == FlattenSeq([i \in DOMAIN s |-> getFuncCallsInExpr(s[i])])

\* getFuncCallsInExpr, one case per syntax kind in the order the code
\* visits the fields; a call's own name precedes its arguments' calls and
\* a lambda's body precedes its parameters.
getFuncCallsInExpr(e) ==
    LET K == e.kids IN
    CASE e.kind = "call" ->
             << simpleExprToFuncName(K[1]) >> \o CallsInList(Tail(K))
      [] e.kind = "lambda" -> getFuncCallsInExpr(Last(K)) \o CallsInList(Front(K))
      [] e.kind \in {"comprehension", "dot"} -> << PanicMark >>
      [] e.kind \in {"binary", "cond", "dictentry", "dict", "index",
                     "list", "paren", "slice", "tuple", "unary"} -> CallsInList(K)
      [] OTHER -> << >>

\* Faulty variant: return statements treated like the unhandled kinds.
analyzeFuncBodyNoReturn(body) ==
    FlattenSeq([i \in DOMAIN body |->
        IF body[i].kind \in {"assign", "expr"}
        THEN getFuncCallsInExpr(body[i].x) ELSE << >>])

(* analyzeFuncBody: the right-hand side of an assignment, an expression   *)
(* statement and a return value are walked; branch, def, for, while, if   *)
(* and load statements are passed over.                                   *)
analyzeFuncBody(body) ==
    FlattenSeq([i \in DOMAIN body |->
        IF body[i].kind \in {"assign", "expr", "return"}
        THEN getFuncCallsInExpr(body[i].x) ELSE << >>])

(***************************************************************************)
(* The graph under construction: the names in lookup, each node's outs,   *)
(* the nodes slice in the order nodes were appended, and whether the      *)
(* recursion diverged (a def re-entered before its node was registered:  *)
(* the same calls are then made again without end).                      *)
(***************************************************************************)
EmptyGraph == [status |-> "ok", lookup |-> {},
               outs |-> [n \in AllNames |-> << >>], nodes |-> << >>]

RECURSIVE addToCallGraph(_, _, _), AddCalls(_, _, _, _, _)

\* Faulty variant: no lookup check, every call builds the callee again.
RECURSIVE addToCallGraphNoLookup(_, _, _), AddCallsNoLookup(_, _, _, _, _)
addToCallGraphNoLookup(n, g, stack) ==
    IF n \in stack THEN [g EXCEPT !.status = "diverge"]
    ELSE AddCallsNoLookup(n, CallsOf(n), g, stack \cup {n}, << >>)
AddCallsNoLookup(n, cs, g, stack, outs) ==
    IF cs = << >>
    THEN [g EXCEPT !.lookup = @ \cup {n}, !.outs[n] = outs,
                   !.nodes = Append(@, n)]
    ELSE IF Head(cs) \notin Symtable
         THEN AddCallsNoLookup(n, Tail(cs), g, stack, outs)
         ELSE LET g2 == addToCallGraphNoLookup(Head(cs), g, stack)
              IN IF g2.status # "ok" THEN g2
                 ELSE AddCallsNoLookup(n, Tail(cs), g2, stack,
                                       Append(outs, Head(cs)))

\* addToCallGraph: return the node if lookup has it; otherwise build the
\* callees first, then register the node in lookup and append it to nodes.
addToCallGraph(n, g, stack) ==
    IF n \in g.lookup THEN g
    ELSE IF n \in stack THEN [g EXCEPT !.status = "diverge"]
    ELSE AddCalls(n, CallsOf(n), g, stack \cup {n}, << >>)

\* The loop over f.calls: unknown names are skipped ("not found").
AddCalls(n, cs, g, stack, outs) ==
    IF cs = << >>
    THEN [g EXCEPT !.lookup = @ \cup {n}, !.outs[n] = outs,
                   !.nodes = Append(@, n)]
    ELSE IF Head(cs) \notin Symtable
         THEN AddCalls(n, Tail(cs), g, stack, outs)
         ELSE LET g2 == addToCallGraph(Head(cs), g, stack)
              IN IF g2.status # "ok" THEN g2
                 ELSE AddCalls(n, Tail(cs), g2, stack, Append(outs, Head(cs)))

\* The loop of buildCallGraph over the defs in file order.
RECURSIVE AddAll(_, _)
AddAll(ds, g) ==
    IF ds = << >> \/ g.status # "ok" THEN g
    ELSE AddAll(Tail(ds), addToCallGraph(Head(ds), g, {}))

\* Faulty variant: maxChild starting at 0, so a leaf gets height 1.
RECURSIVE addCallHeightFromZero(_, _)
addCallHeightFromZero(g, n) ==
    LET hs == {addCallHeightFromZero(g, c) : c \in Range(g.outs[n])}
    IN (IF hs = {} THEN 0 ELSE Max(hs)) + 1

\* addCallHeight: one more than the highest callee, 0 for a leaf.
RECURSIVE addCallHeight(_, _)
addCallHeight(g, n) ==
    LET hs == {addCallHeight(g, c) : c \in Range(g.outs[n])}
    IN (IF hs = {} THEN -1 ELSE Max(hs)) + 1

\* Faulty variant: only the root's direct callees marked.
markReachableShallow(g, n) == {n} \cup Range(g.outs[n])

\* markReachable: the node and, recursively, everything it calls.
RECURSIVE markReachable(_, _)
markReachable(g, n) ==
    {n} \cup UNION {markReachable(g, c) : c \in Range(g.outs[n])}

NoResult == [status |-> "none"]

(***************************************************************************)
(* buildCallGraph: the graph, every node's height, and the reach marks.   *)
(* graph.root = graph.lookup["transform"] is nil when the script has no   *)
(* transform def, and markReachable(nil) dereferences it.                 *)
(***************************************************************************)
buildCallGraph ==
    LET g == AddAll(defs, EmptyGraph)
    IN IF g.status # "ok" THEN [status |-> g.status]
       ELSE IF Transform \notin g.lookup THEN [status |-> "panic"]
       ELSE [status |-> "ok", nodes |-> g.nodes, outs |-> g.outs,
             height |-> [n \in Range(g.nodes) |-> addCallHeight(g, n)],
             reach |-> markReachable(g, Transform)]

(***************************************************************************)
(* analyzeSingleFunction(graph, "first_func"): the node is read from      *)
(* graph.lookup unchecked (a nil node when the script has no such def,   *)
(* dereferenced for its body), and buildControlFlow turns each top-level  *)
(* statement of the body into a code block.  funcCallToText asserts the   *)
(* callee of an expression statement's call to be an identifier: a       *)
(* method call such as ds.set_body(x) fails the assertion and panics.     *)
(* The blocks are printed only; a block is kept as the kind of line it    *)
(* holds.  A for statement yields the fresh block meant to follow it,     *)
(* dropping the block that linked to it.                                  *)
(***************************************************************************)
\* funcCallToText: one line of text per expression kind; a call's callee
\* goes through an unchecked fn.(*syntax.Ident).
funcCallToText(e) ==
    IF e.kind = "call" /\ e.kids[1].kind # "ident" THEN "panic" ELSE "line"

buildControlFlow(st) ==
    CASE st.kind = "expr" /\ funcCallToText(st.x) = "panic" -> [status |-> "panic"]
      [] st.kind \in {"assign", "expr"} ->
            [status |-> "ok", code |-> << st.kind >>, outs |-> << >>]
      [] OTHER -> [status |-> "ok", code |-> << >>, outs |-> << >>]

analyzeSingleFunction(g, fname, body) ==
    IF fname \notin Range(g.nodes) THEN "panic"
    ELSE IF \E i \in DOMAIN body : buildControlFlow(body[i]).status = "panic"
         THEN "panic" ELSE "returned"

\* The first_func bodies: one top-level statement of each kind
\* buildControlFlow tells apart, or none.  The call lists of the state
\* abstract the body away, so it is chosen when the analysis runs.
Stmt(k, e) == [kind |-> k, x |-> e, body |-> << >>]
Id(n) == [kind |-> "ident", name |-> n, kids |-> << >>]
Node(k, ks) == [kind |-> k, name |-> "", kids |-> ks]
FirstFuncBodies ==
    {<< >>} \cup
    {<< st >> : st \in {Stmt("assign", Id(Transform)),
                        Stmt("expr", Node("call", << Id(Transform) >>)),
                        Stmt("expr", Node("call", << Node("dot", << Id(Transform) >>) >>)),
                        Stmt("expr", Node("literal", << >>)),
                        Stmt("for", NilExpr), Stmt("return", NilExpr)}}

(* doAnalyze: the defs' call lists, buildCallGraph (its panics and        *)
(* divergence end the analysis), then analyzeSingleFunction on           *)
(* first_func.                                                            *)
doAnalyze(body) ==
    LET g == buildCallGraph
    IN IF g.status # "ok" THEN g
       ELSE [single |-> analyzeSingleFunction(g, FirstFunc, body)] @@ g

-----------------------------------------------------------------------------
(* Every script with distinct def names from FuncNames and at most        *)
(* MaxCalls calls per def.                                                *)
Init ==
    /\ defs \in SetToAllKPermutations(FuncNames)
    /\ calls \in [Range(defs) -> BoundedSeq(Alphabet, MaxCalls)]
    /\ result = NoResult

\* doAnalyze runs the pass once over the parsed script.
Analyze ==
    /\ result = NoResult
    /\ \E body \in FirstFuncBodies : result' = doAnalyze(body)
    /\ UNCHANGED << defs, calls >>

Next == Analyze

Spec == Init /\ [][Next]_vars

-----------------------------------------------------------------------------
(* Reference definitions, independent of the construction order.          *)

\* calls[a] contains b and b is in the symbol table.
CallEdge(a, b) ==
    a \in Range(defs) /\ b \in Range(CallsOf(a)) /\ b \in Symtable

Callees == {b \in AllNames : \E a \in AllNames : CallEdge(a, b)}

\* Names reachable from n in exactly k calls.
RECURSIVE StepsFrom(_, _)
StepsFrom(n, k) ==
    IF k = 0 THEN {n}
    ELSE LET prev == StepsFrom(n, k - 1)
         IN {b \in AllNames : \E a \in prev : CallEdge(a, b)}

\* The number of calls in the longest call chain starting at n.
LongestChain(n) ==
    Max({k \in 0..Cardinality(AllNames) : StepsFrom(n, k) # {}})

\* Some def reaches itself through one or more calls.
Recursive == \E n \in AllNames, k \in 1..Cardinality(AllNames) : n \in StepsFrom(n, k)

\* Names reachable from n in any number of calls.
ReachableFrom(n) == UNION {StepsFrom(n, k) : k \in 0..Cardinality(AllNames)}

Analyzed == result # NoResult
Analyzable == ~Recursive /\ Transform \in Range(defs)

(***************************************************************************)
(* Reference for the syntax walk: every call node of an expression, by   *)
(* callee, whatever its depth and the kind of the nodes above it, and of  *)
(* a body every expression of its statements, nested blocks included.    *)
(***************************************************************************)
RECURSIVE RefCalls(_)
RefCalls(e) ==
    FoldLeft(LAMBDA b, k : b (+) RefCalls(k),
             IF e.kind = "call" THEN SetToBag({simpleExprToFuncName(e.kids[1])})
             ELSE EmptyBag,
             e.kids)

RECURSIVE RefBodyCalls(_)
RefBodyCalls(body) ==
    FoldLeft(LAMBDA b, st : b (+) RefCalls(st.x) (+) RefBodyCalls(st.body),
             EmptyBag, body)

\* The syntax the walk supports: no comprehension, and attribute access
\* only as the callee of a method call on a variable.
RECURSIVE Supported(_)
Supported(e) ==
    /\ e.kind \notin {"comprehension", "dot"}
    /\ \A i \in DOMAIN e.kids :
          IF e.kind = "call" /\ i = 1 /\ e.kids[1].kind = "dot"
          THEN e.kids[1].kids[1].kind = "ident"
          ELSE Supported(e.kids[i])

ExprNames == {Transform} \cup Unknown
Leaves == {Id(n) : n \in ExprNames} \cup {Node("literal", << >>)}
CalleeExprs == {Id(n) : n \in ExprNames} \cup {Node("dot", << Id(Transform) >>)}

\* One more level of syntax over the expressions S.
Grow(S) ==
    {Node("call", << fn >>) : fn \in CalleeExprs}
    \cup {Node("call", << fn, a >>) : fn \in CalleeExprs, a \in S}
    \cup {Node(k, << a >>) : k \in {"paren", "unary", "list", "tuple"}, a \in S}
    \cup {Node(k, << a, b >>) : k \in {"binary", "index", "list", "lambda"}, a, b \in S}
    \cup {Node("dict", << Node("dictentry", << a, b >>) >>) : a, b \in S}
    \cup {Node("slice", << a, NilExpr, b, NilExpr >>) : a, b \in S}
    \cup {Node("cond", << a, b, c >>) : a, b, c \in S}

Exprs1 == Leaves \cup Grow(Leaves)
\* Depth three, for calls and single-operand nodes over depth-two trees.
Exprs2 == Exprs1
    \cup {Node("call", << fn, a >>) : fn \in CalleeExprs, a \in Exprs1}
    \cup {Node(k, << a >>) : k \in {"paren", "unary", "tuple"}, a \in Exprs1}
    \cup {Node("binary", << a, l >>) : a \in Exprs1, l \in Leaves}

Stmts(E) == {Stmt(k, e) : k \in {"assign", "expr", "return"}, e \in E}
            \cup {Stmt("return", NilExpr), Stmt("branch", NilExpr)}
SmallBodies == {<< st >> : st \in Stmts(Exprs2)}
               \cup {<< s1, s2 >> : s1, s2 \in Stmts(Exprs1)}

\* The walk against the reference over every small supported body (a
\* constant, evaluated once).
WalkExact ==
    \A b \in SmallBodies :
        (\A i \in DOMAIN b : Supported(b[i].x))
            => ToBag(analyzeFuncBody(b)) = RefBodyCalls(b)

(* Every script without recursion that defines transform is analyzed: the *)
(* graph has one node for each def and each callee in the symbol table,   *)
(* appended once although several defs may call it.                       *)
NodesExact ==
    (Analyzed /\ Analyzable) =>
        /\ result.status = "ok"
        /\ IsInjective(result.nodes)
        /\ Range(result.nodes) = Range(defs) \cup Callees

(* addCallHeight gives each node the length of the longest call chain     *)
(* below it, however the recursion revisits shared callees.               *)
HeightIsLongestChain ==
    (Analyzed /\ result.status = "ok") =>
        \A n \in Range(result.nodes) : result.height[n] = LongestChain(n)

(* markReachable marks exactly the defs transform can reach through       *)
(* calls, so that every other def is reported as dead code.               *)
ReachIsClosure ==
    (Analyzed /\ result.status = "ok") =>
        result.reach = ReachableFrom(Transform)

(* analyzeFuncBody reports every call of a straight-line def body exactly *)
(* once, however deeply getFuncCallsInExpr has to recurse to find it: a   *)
(* syntax kind whose fields are not all walked loses calls, and the graph *)
(* then reports live defs as dead code.                                    *)
CallsExact == Analyzed => WalkExact

=============================================================================
