----------------------------- MODULE MCPipeline -----------------------------
(* Declarations whose ids collide or drift, compiled in both link modes     *)
(* with and without the optimizer, and what an engine may have registered. *)
EXTENDS Planning

MCSplit == [a_b |-> <<"a", "b">>, ab |-> <<"a", "b">>]
NoneAt == <<"cel", "optional", "none", "at">>
IndexBuild == <<"cel", "map", "index", "build">>
ListAt == <<"cel", "list", "at">>
ArenaAlloc == <<"arena", "alloc">>
Free == <<"free">>
MCBuiltins == [id \in {<<"size", "string">>, <<"optional", "none">>} |->
                 IF id = <<"size", "string">> THEN ListAt ELSE NoneAt]
MCMapHelpers == {IndexBuild}
MCListHelpers == {ListAt}
MCHostImports == {<<"cel", "get", "field">>}
MCAdopted == {Free}
MCValued == {ArenaAlloc}
MCParams == [f \in {IndexBuild, ListAt, NoneAt, Free, ArenaAlloc, <<"arena", "reset">>} \cup MCHostImports |->
               CASE f = <<"arena", "reset">> -> 0
                 [] f = ListAt -> 3
                 [] f \in MCHostImports -> 4
                 [] OTHER -> 1]

AnInt == <<"int">>
Str == <<"string">>
Msg(m) == <<"message", m>>

FInt == Fn(<<"f">>, <<AnInt>>, {}, AnInt)                        \* f(int)
FIntDrift == Fn(<<"f">>, <<AnInt>>, {}, Str)                   \* the same, another result
FIntNone == Fn(<<"f", "int">>, <<>>, {}, AnInt)                \* f_int(): the same id
GMsg == Fn(<<"g">>, <<Msg("a_b"), <<"timestamp">>>>, {1}, Str)
GMsgDrift == Fn(<<"g">>, <<Msg("ab"), <<"timestamp">>>>, {1}, Str)
Size == Fn(<<"size">>, <<Str>>, {}, AnInt)                     \* a built-in's id
Wide == Fn(<<"w">>, <<AnInt, AnInt, AnInt>>, {}, AnInt)              \* more than imports can have
Wider == Fn(<<"w">>, <<AnInt, AnInt, AnInt, AnInt, AnInt>>, {}, AnInt)   \* wraps the arity
Maybe == Fn(<<"m">>, <<<<"list", "optional", "int">>>>, {}, AnInt)
BadKey == Fn(<<"k">>, <<<<"map", "double", "int">>>>, {}, AnInt)
BadThis == Fn(<<"t">>, <<Str, Str>>, {2}, AnInt)

Text(ds) == [via |-> "text", decls |-> ds]
Api(ds) == [via |-> "api", decls |-> ds]
Var(n) == [name |-> n, type |-> AnInt]
Expr(calls, names, rodata, temps) == [calls |-> calls, vars |-> names, rodata |-> rodata, temps |-> temps]
Job(calls, expr, mode, level) ==
    [calls |-> calls, variables |-> <<Var("x"), Var("y")>>, expr |-> expr, mode |-> mode, level |-> level]

\* Two libraries, one of whose functions the expression may leave uncalled.
Good == <<Text(<<FInt, GMsg>>), Api(<<Wide>>)>>
GoodJobs ==
    {Job(Good, Expr(c, {"x"}, 1, 1), mode, level) :
       c \in {{}, {GMsg}, {FInt, GMsg}}, mode \in {"static", "dynamic"}, level \in {0, 1}}

\* Constants and slots up to the edge of the window.
Edges ==
    {Job(<<>>, Expr({}, {"x", "y"}, rodata, temps), "dynamic", 0) :
       rodata \in {11, 12, 13, 19, 20, 21, 37}, temps \in {0, 1}}

BadJobs ==
    {Job(calls, Expr(c, {}, 0, 0), "dynamic", 0) :
       calls \in {<<Text(<<FInt, FIntNone>>)>>, <<Text(<<FInt>>), Text(<<FIntNone>>)>>, <<Api(<<Maybe>>)>>,
                  <<Text(<<Maybe>>)>>, <<Text(<<BadKey>>)>>, <<Text(<<BadThis>>)>>, <<Text(<<Size>>)>>,
                  <<Text(<<Wider>>)>>},
       c \in {{}}}
      \cup {Job(Good, Expr({Wide}, {}, 0, 0), "dynamic", 0), Job(Good, Expr({FIntNone}, {}, 0, 0), "dynamic", 0),
            [Job(Good, Expr({}, {}, 0, 0), "dynamic", 0) EXCEPT !.variables = <<Var("x"), Var("x")>>],
            [Job(Good, Expr({}, {}, 0, 0), "dynamic", 0) EXCEPT !.variables = <<[name |-> "x", type |-> <<"null">>]>>]}

\* Functions of no parameters named like the runtime's: of the same type as
\* theirs, but for the last two.
Named(name) == Fn(name, <<>>, {}, AnInt)
ShadowJobs ==
    {Job(<<Api(<<Named(n)>>)>>, Expr({Named(n)}, {}, 0, 0), mode, 1) :
       n \in {IndexBuild, NoneAt, Free, ArenaAlloc, ListAt}, mode \in {"static", "dynamic"}}

MCPrograms == GoodJobs \cup Edges \cup BadJobs \cup ShadowJobs

\* Programs of another compiler, stale ones, and modules without a section.
Bare(imports) ==
    [origin |-> "foreign", calls |-> {}, imports |-> imports, section |-> FALSE, version |-> 0, bare |-> TRUE,
     label |-> "unset", rows |-> {}, slots |-> {}, end |-> 1, eval |-> TRUE]
Dynamic == {Import("cel", <<"arena", "reset">>, 0)}
Trampolines == {Import("cel_host", <<"cel", "get", "field">>, 4)}
Row(backend) == [RequiredFunctionFromDecl(FInt) EXCEPT !.backend = backend]
MCForeign ==
    {Bare(Dynamic), Bare(Trampolines), [Bare(Dynamic) EXCEPT !.eval = FALSE],
     Bare({Import("cel_fn", <<"f", "int">>, 2)}), Bare({Import("cel", <<"gone">>, 1)}), Bare({Import("cel", ListAt, 1)})}
      \cup {[Bare(Dynamic) EXCEPT !.section = TRUE, !.version = v, !.bare = b] : v \in {0, 2}, b \in BOOLEAN}
      \cup {[Bare(im) EXCEPT !.section = TRUE, !.version = 1, !.label = l] :
              im \in {Dynamic, Trampolines}, l \in {"static", "dynamic"}}
      \cup {[Bare(Dynamic) EXCEPT !.section = TRUE, !.version = 1, !.slots = {s}] : s \in {41, 42, 43}}
      \cup {[Bare(Dynamic) EXCEPT !.section = TRUE, !.version = 1, !.rows = {Row(b)}] : b \in {"plugin", "later"}}

\* Callables.
Callable(kinds, answer) == [kinds |-> kinds, M |-> "a_b", answer |-> answer]
Seven == Cell("int", "7")
Reg(via, id, decl, arity, fn) == [via |-> via, id |-> id, decl |-> decl, arity |-> arity, fn |-> fn]
MCRegistrations ==
    {Reg("bind", <<>>, d, 0, Callable(k, Cell("list", <<Seven>>))) :
       d \in {FInt, FIntNone}, k \in {<<>>, <<"value">>}}
      \cup {Reg("bind", <<>>, Named(Free), 0, Callable(<<>>, Seven))}
      \cup {Reg("bind", <<>>, FIntDrift, 0, Callable(<<"value">>, Seven))}
      \cup {Reg("bind", <<>>, d, 0, Callable(<<"proto", t>>, Cell("string", "s"))) :
              d \in {GMsg, GMsgDrift}, t \in {"timestamp", "duration"}}
      \cup {Reg("raw", <<"f", "int">>, FInt, n, Callable(<<>>, Trap)) : n \in {0, 2}}
      \cup {Reg("typed", <<"f", "int">>, FInt, 0, Callable(k, Seven)) :
              k \in {<<"uint">>, <<"int", "int", "int", "int", "int">>}}

\* A slot of the declared type, a null where one may stand, and poison.
Slots(t) ==
    {Cell("error", "1"), Cell("unknown", "1")} \cup
    (CASE t = AnInt -> {Cell("int", "3")}
       [] t[1] = "message" -> {Cell("message", t[2]), Cell("null", "0")}
       [] t[1] = "timestamp" -> {Cell("timestamp", "5")})
MCArgs(d) ==
    CASE Len(d.params) = 0 -> {<<>>}
      [] Len(d.params) = 1 -> {<<x>> : x \in Slots(d.params[1])}
      [] Len(d.params) = 2 -> {<<x, y>> : x \in Slots(d.params[1]), y \in Slots(d.params[2])}
      [] OTHER -> {}

Symmetric == Permutations(Plans)
=============================================================================
