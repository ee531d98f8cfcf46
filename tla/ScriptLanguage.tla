--------------------------- MODULE ScriptLanguage ---------------------------
(***************************************************************************)
(* The rule language of aether-script: the parser with its error recovery  *)
(* (parser.rs), the type checker (types.rs), what the code generator       *)
(* accepts and what the code it emits computes (codegen.rs).               *)
(*                                                                         *)
(* A file is a sequence of tokens; a token is <<kind>> or <<kind, value>>. *)
(* A parse returns [ok, pos, val]: pos is the next token, or the place of  *)
(* the error.  Numbers are natural numbers.                                *)
(***************************************************************************)
EXTENDS Integers, Sequences, SequencesExt, FiniteSets

Kind(ts, p) == IF p \in DOMAIN ts THEN ts[p][1] ELSE "end"
Ok(p, v) == [ok |-> TRUE, pos |-> p, val |-> v]
Fail(p) == [ok |-> FALSE, pos |-> p]

LiteralKinds == {"int", "float", "percent", "duration", "string"}
CmpOps == {">", "<", ">=", "<=", "==", "!="}
Severities == <<"info", "warning", "critical">>

\* process.field, object.field or a literal.
ParseExpr(ts, p) ==
  CASE Kind(ts, p) \in LiteralKinds ->
         Ok(p + 1, [form |-> "literal", type |-> ts[p][1], value |-> ts[p][2]])
    [] Kind(ts, p) \in {"process", "ident"} ->
         IF Kind(ts, p + 1) # "." THEN Fail(p + 1)
         ELSE IF Kind(ts, p + 2) # "ident" THEN Fail(p + 2)
         ELSE Ok(p + 3, [form |-> "field", field |-> ts[p + 2][2],
                         object |-> IF Kind(ts, p) = "process" THEN "process" ELSE ts[p][2]])
    [] OTHER -> Fail(p)

ParseComparison(ts, p) ==
  LET left == ParseExpr(ts, p)
      right == ParseExpr(ts, left.pos + 1)
  IN IF ~left.ok THEN left
     ELSE IF Kind(ts, left.pos) \notin CmpOps THEN Fail(left.pos)
     ELSE IF ~right.ok THEN right
     ELSE Ok(right.pos, [op |-> "compare", cmp |-> Kind(ts, left.pos),
                         left |-> left.val, right |-> right.val])

RECURSIVE ParseNot(_, _)
ParseNot(ts, p) ==
  IF Kind(ts, p) = "ident" /\ ts[p][2] = "not"
  THEN LET inner == ParseNot(ts, p + 1)
       IN IF inner.ok THEN Ok(inner.pos, [op |-> "not", left |-> inner.val]) ELSE inner
  ELSE ParseComparison(ts, p)

\* Mutant: "and" and "or" change places.
PrecedenceSwapped == <<"or", "and">>

\* The binary operators, the one that binds tightest first.
Precedence == <<"and", "or">>

\* parse_and and parse_or: operands of the level below, separated by the
\* operator of the level and associated to the left.
RECURSIVE ParseLevel(_, _, _), Chain(_, _, _)
ParseLevel(ts, p, level) ==
  IF level = 0 THEN ParseNot(ts, p) ELSE Chain(ts, ParseLevel(ts, p, level - 1), level)
Chain(ts, left, level) ==
  IF ~left.ok \/ Kind(ts, left.pos) # Precedence[level] THEN left
  ELSE LET right == ParseLevel(ts, left.pos + 1, level - 1)
       IN IF ~right.ok THEN right
          ELSE Chain(ts, Ok(right.pos, [op |-> Precedence[level], left |-> left.val,
                                        right |-> right.val]), level)

ParseOr(ts, p) == ParseLevel(ts, p, Len(Precedence))

\* A condition, and the seconds of the "for" that may follow all of it; a
\* condition without one has -1.
ParseCondition(ts, p) ==
  LET cond == ParseOr(ts, p)
  IN IF ~cond.ok THEN cond
     ELSE IF Kind(ts, cond.pos) # "for" THEN Ok(cond.pos, [test |-> cond.val, seconds |-> -1])
     ELSE IF Kind(ts, cond.pos + 1) # "duration" THEN Fail(cond.pos + 1)
     ELSE Ok(cond.pos + 2, [test |-> cond.val, seconds |-> ts[cond.pos + 1][2]])

\* alert "text" severity level, kill, or log "text".  type is the number the
\* compiled code returns for it, severity the index of the level.
ParseAction(ts, p) ==
  CASE Kind(ts, p) = "kill" -> Ok(p + 1, [type |-> 2, severity |-> 0, text |-> "-"])
    [] Kind(ts, p + 1) # "string" -> Fail(p + 1)
    [] Kind(ts, p) = "log" -> Ok(p + 2, [type |-> 3, severity |-> 0, text |-> ts[p + 1][2]])
    [] Kind(ts, p + 2) # "severity" -> Fail(p + 2)
    [] Kind(ts, p + 3) \notin ToSet(Severities) -> Fail(p + 3)
    [] OTHER -> Ok(p + 4, [type |-> 1, text |-> ts[p + 1][2],
                           severity |-> (CHOOSE i \in 1 .. 3 : Severities[i] = Kind(ts, p + 3)) - 1])

RECURSIVE ParseActions(_, _, _)
ParseActions(ts, p, actions) ==
  IF Kind(ts, p) \notin {"alert", "kill", "log"}
  THEN IF actions = <<>> THEN Fail(p) ELSE Ok(p, actions)
  ELSE LET a == ParseAction(ts, p)
       IN IF a.ok THEN ParseActions(ts, a.pos, Append(actions, a.val)) ELSE a

\* The first token from p on that is not the one of want at its place.
Expect(ts, p, want) ==
  IF \A i \in DOMAIN want : Kind(ts, p + i - 1) = want[i] THEN Ok(p + Len(want), <<>>)
  ELSE Fail(p + (CHOOSE i \in DOMAIN want :
                   /\ Kind(ts, p + i - 1) # want[i]
                   /\ \A j \in 1 .. i - 1 : Kind(ts, p + j - 1) = want[j]) - 1)

\* rule name { when condition then actions }
ParseRule(ts, p) ==
  LET head == Expect(ts, p, <<"rule", "ident", "{", "when">>)
      cond == ParseCondition(ts, head.pos)
      actions == ParseActions(ts, cond.pos + 1, <<>>)
  IN IF ~head.ok THEN head
     ELSE IF ~cond.ok THEN cond
     ELSE IF Kind(ts, cond.pos) # "then" THEN Fail(cond.pos)
     ELSE IF ~actions.ok THEN actions
     ELSE IF Kind(ts, actions.pos) # "}" THEN Fail(actions.pos)
     ELSE Ok(actions.pos + 1, [name |-> ts[p + 1][2], test |-> cond.val.test,
                               seconds |-> cond.val.seconds, actions |-> actions.val])

\* Mutant: the recovery steps over the token at which the rule failed.
RecoverPast(ts, p) ==
  LET starts == {q \in p + 1 .. Len(ts) : Kind(ts, q) = "rule"}
  IN IF starts = {} THEN Len(ts) + 1 ELSE CHOOSE q \in starts : \A s \in starts : q <= s

\* recover_to_rule: on to the next "rule", which may be where the error is.
Recover(ts, p) ==
  LET starts == {q \in p .. Len(ts) : Kind(ts, q) = "rule"}
  IN IF starts = {} THEN Len(ts) + 1 ELSE CHOOSE q \in starts : \A s \in starts : q <= s

RECURSIVE ParseFrom(_, _, _, _)
ParseFrom(ts, p, rules, errors) ==
  IF p > Len(ts) THEN [rules |-> rules, errors |-> errors]
  ELSE LET r == ParseRule(ts, p)
       IN IF r.ok THEN ParseFrom(ts, r.pos, Append(rules, r.val), errors)
          ELSE ParseFrom(ts, Recover(ts, r.pos), rules, Append(errors, r.pos))

\* parse: all the rules that could be read and the places of the errors.
Parse(ts) == ParseFrom(ts, 1, <<>>, <<>>)
-----------------------------------------------------------------------------
\* TypeEnv::with_builtins, and the value fields of WorldStateFFI.
FieldType(object, field) ==
  CASE object = "process" /\ field \in {"cpu", "mem_growth", "hp"} -> "percent"
    [] object = "process" /\ field \in {"mem_bytes", "pid"} -> "int"
    [] object = "process" /\ field \in {"name", "parent"} -> "string"
    [] object = "process" /\ field = "state" -> "state"
    [] object = "system" /\ field = "load" -> "percent"
    [] object = "system" /\ field \in {"total_mem", "process_count"} -> "int"
    [] OTHER -> "unknown"

TypeOf(e) == IF e.form = "literal" THEN e.type ELSE FieldType(e.object, e.field)

Numeric == {"percent", "int", "float", "duration"}

Compatible(a, b) ==
  \/ a = b
  \/ {a, b} \subseteq Numeric \ {"duration"}

ComparisonTypeChecks(c) ==
  /\ "unknown" \notin {TypeOf(c.left), TypeOf(c.right)}
  /\ c.cmp \in {">", "<", ">=", "<="} => TypeOf(c.left) \in Numeric
  /\ Compatible(TypeOf(c.left), TypeOf(c.right))

RECURSIVE Comparisons(_)
Comparisons(test) ==
  CASE test.op = "compare" -> {test}
    [] test.op = "not" -> Comparisons(test.left)
    [] OTHER -> Comparisons(test.left) \cup Comparisons(test.right)

\* TypeChecker::check of one rule.
TypeChecks(rule) ==
  /\ \A c \in Comparisons(rule.test) : ComparisonTypeChecks(c)
  /\ \A i \in DOMAIN rule.actions : rule.actions[i].text # ""
-----------------------------------------------------------------------------
\* resolve_field: the machine type a field is loaded with.
MachineType(object, field) ==
  CASE object # "process" -> "none"
    [] field \in {"pid", "state"} -> "i32"
    [] field \in {"mem", "mem_bytes"} -> "i64"
    [] field \in {"cpu", "cpu_percent", "mem_growth", "mem_growth_percent", "hp"} -> "f32"
    [] OTHER -> "none"

\* emit_comparison and emit_literal_cmp: a field on the left, on the right a
\* literal that fits the type of the field.
ComparisonCompiles(c) ==
  /\ c.left.form = "field" /\ c.right.form = "literal"
  /\ LET ty == MachineType(c.left.object, c.left.field)
     IN \/ c.right.type = "int" /\ ty \in {"i32", "i64"}
        \/ c.right.type \in {"float", "percent"} /\ ty = "f32"

Compiles(rule) == \A c \in Comparisons(rule.test) : ComparisonCompiles(c)

Compare(a, cmp, b) ==
  CASE cmp = ">" -> a > b
    [] cmp = "<" -> a < b
    [] cmp = ">=" -> a >= b
    [] cmp = "<=" -> a <= b
    [] cmp = "==" -> a = b
    [] cmp = "!=" -> a # b

\* emit_condition: the value of the compiled condition for a process, a
\* function from the fields to numbers; both sides are always evaluated.
RECURSIVE Test(_, _)
Test(test, proc) ==
  CASE test.op = "compare" -> Compare(proc[test.left.field], test.cmp, test.right.value)
    [] test.op = "and" -> Test(test.left, proc) /\ Test(test.right, proc)
    [] test.op = "or" -> Test(test.left, proc) \/ Test(test.right, proc)
    [] test.op = "not" -> ~Test(test.left, proc)

\* emit_return: only the first action of a rule is compiled.
Returned(rule, proc) ==
  IF Test(rule.test, proc)
  THEN [matched |-> 1, action |-> rule.actions[1].type, severity |-> rule.actions[1].severity]
  ELSE [matched |-> 0, action |-> 0, severity |-> 0]

\* tokenize, parse, type-check and compile: the rules of a file, or nothing
\* when any of them is refused.
Loads(ts) ==
  LET file == Parse(ts)
  IN /\ file.errors = <<>>
     /\ \A i \in DOMAIN file.rules : TypeChecks(file.rules[i]) /\ Compiles(file.rules[i])
-----------------------------------------------------------------------------
\* What a condition means, read off its tokens: it is split at "or", each
\* part at "and", and each of these is a number of "not"s before a comparison.
SplitAt(ts, kind) ==
  LET ends == {q \in 1 .. Len(ts) + 1 : Kind(ts, q) \in {kind, "end"}}
      from(e) == LET before == {q \in ends : q < e}
                 IN IF before = {} THEN 1 ELSE (CHOOSE q \in before : \A b \in before : b <= q) + 1
  IN {SubSeq(ts, from(e), e - 1) : e \in ends}

Meaning(ts, proc) ==
  \E part \in SplitAt(ts, "or") : \A leaf \in SplitAt(part, "and") :
    LET nots == Cardinality({i \in DOMAIN leaf : Kind(leaf, i) = "ident" /\ leaf[i][2] = "not"})
        c == ParseComparison(leaf, nots + 1).val
    IN Compare(proc[c.left.field], c.cmp, c.right.value) = (nots % 2 = 0)

\* The parts of a file that begin at a "rule", and what is before the first.
Chunks(ts) ==
  LET starts == {q \in 1 .. Len(ts) : q = 1 \/ Kind(ts, q) = "rule"}
      ordered == SetToSortSeq(starts, <)
  IN [i \in DOMAIN ordered |->
        SubSeq(ts, ordered[i], IF i = Len(ordered) THEN Len(ts) ELSE ordered[i + 1] - 1)]
=============================================================================
