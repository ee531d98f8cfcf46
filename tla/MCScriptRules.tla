--------------------------- MODULE MCScriptRules ---------------------------
(* Files written in the rule language and loaded through its parser, type    *)
(* checker and compiler: a duration rule; the same name with another         *)
(* condition and twice over; no rules at all, as a truncated file; a rule    *)
(* that the checker refuses and one that only the compiler refuses.  A       *)
(* process is idle or busy.                                                  *)
EXTENDS ScriptRuntime

CONSTANTS p1

L == INSTANCE ScriptLanguage

T(k) == <<k>>
Id(n) == <<"ident", n>>
Rule(name, field, cmp, lit, for, then) ==
  <<T("rule"), Id(name), T("{"), T("when"), T("process"), T("."), Id(field), T(cmp), lit>>
  \o for \o <<T("then")>> \o then \o <<T("}")>>
Alert == <<T("alert"), <<"string", "m">>, T("severity"), T("warning")>>
For(n) == <<T("for"), <<"duration", n>>>>
Busy == <<"percent", 90>>

Hot == Rule("hot", "cpu", ">", Busy, For(2), Alert)
Cold == Rule("hot", "cpu", "<=", Busy, For(1), <<T("kill")>>)
NumberForPercent == Rule("hot", "cpu", ">", <<"int", 90>>, <<>>, Alert)

MCFiles == {Hot, Cold \o Hot, <<>>, NumberForPercent}
MCProcs == {"idle", "busy"}
Fields(s) == [cpu |-> IF s = "busy" THEN 95 ELSE 5]

\* The files without an error and what they compile to, which is what the
\* language makes of their tokens.
MCAccepted == {Hot, Cold \o Hot, <<>>}
HotRule == [name |-> "hot", seconds |-> 2, holds |-> {"busy"}]
ColdRule == [name |-> "hot", seconds |-> 1, holds |-> {"idle"}]
MCCompiled == [f \in MCAccepted |-> CASE f = Hot -> <<HotRule>>
                                      [] f = Cold \o Hot -> <<ColdRule, HotRule>>
                                      [] f = <<>> -> <<>>]
ASSUME AcceptedByLanguage == MCAccepted = {f \in MCFiles : L!Loads(f)}
ASSUME CompiledByLanguage ==
  MCCompiled =
  [f \in MCAccepted |->
     [i \in DOMAIN L!Parse(f).rules |->
        LET r == L!Parse(f).rules[i]
        IN [name |-> r.name, seconds |-> r.seconds,
            holds |-> {s \in MCProcs : L!Returned(r, Fields(s)).matched = 1}]]]
MCNames == {"hot"}
OnePid == {p1}
MCElapsed == {1, 2}
=============================================================================
