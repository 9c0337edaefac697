---------------------------- MODULE RuleLanguage ----------------------------
(***************************************************************************)
(* The rule language (src/backend/app/services/rule_engine.py): what the    *)
(* parser makes of an expression that grows one token at a time, and what   *)
(* the tree says of a transaction.                                          *)
(*                                                                         *)
(* A comparison is one token.  A part of a tree is the set of transactions  *)
(* it is true of, which is what its evaluate() amounts to; the lists of     *)
(* parts that connectives flatten into are kept.                            *)
(***************************************************************************)
EXTENDS Integers, Sequences

CONSTANTS
  Fields,       \* fields of a transaction that the comparisons look at
  Numbers,      \* the numbers that may stand in a field
  Atoms,        \* the comparison tokens
  Comparisons,  \* what each compares
  MaxTokens,    \* bound: tokens of an expression
  MaxDepth      \* _MAX_PARSE_DEPTH, 64

VARIABLE tokens

(* --------------------------------------------------------- comparisons *)

(* What a field of the transaction may hold.                               *)
Missing == [kind |-> "missing", value |-> 0]
Null == [kind |-> "null", value |-> 0]
Number(n) == [kind |-> "number", value |-> n]
Text == [kind |-> "text", value |-> 0]
Literals == {Text} \cup {Number(n) : n \in Numbers}
Values == {Missing, Null} \cup Literals
Payloads == [Fields -> Values]

(* An operand is a literal or the name of a field.                         *)
Field(f) == [kind |-> "field", value |-> f]
Operands == Literals \cup {Field(f) : f \in Fields}
Resolve(operand, tx) == IF operand.kind = "field" THEN tx[operand.value] ELSE operand

Found(v) == v.kind \notin {"missing", "null"}

(* Two kinds differ, and cannot be ordered: a TypeError counts as a miss.  *)
Compare(op, l, r) ==
  CASE op = "==" -> l = r
    [] op = "!=" -> l # r
    [] op = ">=" -> l.kind = r.kind /\ l.value >= r.value
    [] op = ">"  -> l.kind = r.kind /\ l.value > r.value
    [] op = "<=" -> l.kind = r.kind /\ l.value <= r.value
    [] op = "<"  -> l.kind = r.kind /\ l.value < r.value

Hits(atom) ==
  LET c == Comparisons[atom]
  IN {tx \in Payloads : /\ Found(Resolve(c.left, tx)) /\ Found(Resolve(c.right, tx))
                        /\ Compare(c.op, Resolve(c.left, tx), Resolve(c.right, tx))}

(* An operator token is no comparison.                                     *)
Connectives == {"(", ")", "&&", "||"}
Tokens == Atoms \cup Connectives

(* ------------------------------------------------------------- the tree *)

Leaf(atom) == [op |-> "cmp", parts |-> <<Hits(atom)>>]

(* evaluate(): any part of an _OrExpr, all parts of an _AndExpr.           *)
Value(expr) ==
  IF expr.op = "||"
  THEN {tx \in Payloads : \E i \in DOMAIN expr.parts : tx \in expr.parts[i]}
  ELSE {tx \in Payloads : \A i \in DOMAIN expr.parts : tx \in expr.parts[i]}

JoinAny(op, left, right) ==
  [op |-> op,
   parts |-> Append(IF left.op # "cmp" THEN left.parts ELSE <<Value(left)>>, Value(right))]

(* A node of the same kind on the left takes the right one as a further    *)
(* part, also when it stood in parentheses.                                *)
Join(op, left, right) ==
  [op |-> op,
   parts |-> Append(IF left.op = op THEN left.parts ELSE <<Value(left)>>, Value(right))]

(* ------------------------------------------------------------ the parser *)

At(t, pos) == IF pos \in DOMAIN t THEN t[pos] ELSE "end"
Positions(t) == 1..(Len(t) + 1)
Rejected == [ok |-> FALSE, pos |-> 0, expr |-> [op |-> "none", parts |-> << >>]]
Parsed(expr, pos) == [ok |-> TRUE, pos |-> pos, expr |-> expr]

(* The parser functions give, for each position, what they return there.   *)
(* parse_cmp; inner is parse_or one level deeper.                          *)
ParseCmp(t, inner) ==
  [pos \in Positions(t) |->
     IF At(t, pos) = "("
     THEN IF inner[pos + 1].ok /\ At(t, inner[pos + 1].pos) = ")"
          THEN Parsed(inner[pos + 1].expr, inner[pos + 1].pos + 1) ELSE Rejected
     ELSE IF At(t, pos) \in Atoms THEN Parsed(Leaf(t[pos]), pos + 1) ELSE Rejected]

(* One turn of "while peek() == op".                                       *)
OneMore(t, op, operand, left) ==
  IF ~left.ok \/ At(t, left.pos) # op THEN left
  ELSE LET right == operand[left.pos + 1]
       IN IF right.ok THEN Parsed(Join(op, left.expr, right.expr), right.pos) ELSE Rejected

(* parse_or and parse_and: an operand, and one more per turn.              *)
ParseChain(t, op, operand) ==
  [pos \in Positions(t) |->
     LET left[n \in 0..Len(t)] ==
           IF n = 0 THEN operand[pos] ELSE OneMore(t, op, operand, left[n - 1])
     IN left[Len(t)]]

Deeper(t, inner) == ParseChain(t, "||", ParseChain(t, "&&", ParseCmp(t, inner)))

(* parse_or with so many levels left; with none parse_cmp raises.          *)
ParseOr(t) ==
  LET or[levels \in 0..(MaxDepth + 1)] ==
        IF levels = 0 THEN [pos \in Positions(t) |-> Rejected] ELSE Deeper(t, or[levels - 1])
  IN or[MaxDepth + 1]

(* _parse_expression: trailing tokens are an error.                        *)
Parse(t) ==
  LET parsed == ParseOr(t)[1]
  IN IF parsed.ok /\ parsed.pos = Len(t) + 1 THEN parsed ELSE Rejected

(* ------------------------------------------------------------- the input *)

Init == tokens = << >>

AppendToken(tok) ==
  /\ Len(tokens) < MaxTokens
  /\ tokens' = Append(tokens, tok)

Next == \E tok \in Tokens : AppendToken(tok)

Spec == Init /\ [][Next]_tokens

-----------------------------------------------------------------------------
TypeOK == tokens \in Seq(Tokens)

(* The grammar, as the set of phrases in a sequence of tokens: where each   *)
(* begins, where the next token stands, and which transactions it is true   *)
(* of.                                                                     *)
(*   or ::= and ("||" and)*   and ::= cmp ("&&" cmp)*                       *)
(*   cmp ::= comparison | "(" or ")"                                        *)
Comparison(t, inner) ==
  {[from |-> i, to |-> i + 1, meaning |-> Hits(t[i])] : i \in {j \in DOMAIN t : t[j] \in Atoms}}
  \cup {[from |-> p.from - 1, to |-> p.to + 1, meaning |-> p.meaning] :
          p \in {q \in inner : At(t, q.from - 1) = "(" /\ At(t, q.to) = ")"}}

Combined(op, left, right) == IF op = "||" THEN left \cup right ELSE left \cap right

Longer(t, op, operands, phrases) ==
  {[from |-> pair[1].from, to |-> pair[2].to,
    meaning |-> Combined(op, pair[1].meaning, pair[2].meaning)] :
     pair \in {p \in phrases \X operands : At(t, p[1].to) = op /\ p[2].from = p[1].to + 1}}

Chain(t, op, operands) ==
  LET chains[n \in 0..Len(t)] ==
        IF n = 0 THEN operands ELSE Longer(t, op, operands, chains[n - 1])
  IN UNION {chains[n] : n \in 0..Len(t)}

Nested(t, inner) == Chain(t, "||", Chain(t, "&&", Comparison(t, inner)))

Phrases(t) ==
  LET or[levels \in 0..(MaxDepth + 1)] ==
        IF levels = 0 THEN {} ELSE Nested(t, or[levels - 1])
  IN or[MaxDepth + 1]

Meanings(t) == {p.meaning : p \in {q \in Phrases(t) : q.from = 1 /\ q.to = Len(t) + 1}}

(* ---------------------------------------------------------- properties *)

(* The parser accepts exactly the sentences of the grammar that nest no    *)
(* deeper than the limit; each of these has one meaning, and the tree with *)
(* its flattened and shared nodes has it (_parse_expression, _AndExpr,     *)
(* _OrExpr).                                                               *)
ParserIsGrammar ==
  LET parsed == Parse(tokens)
  IN Meanings(tokens) = IF parsed.ok THEN {Value(parsed.expr)} ELSE {}

NamesField(atom) ==
  Comparisons[atom].left.kind = "field" \/ Comparisons[atom].right.kind = "field"

(* A field that is absent or null never makes a rule hit: it hits no less  *)
(* often once the field has a value, and a rule none of whose fields has a *)
(* value misses if its comparisons all name one, != included               *)
(* (_CmpExpr.evaluate).                                                    *)
AbsentFieldsMiss ==
  LET parsed == Parse(tokens)
      hits == Value(parsed.expr)
  IN parsed.ok => \A tx \in Payloads :
       /\ \A f \in Fields, v \in {Missing, Null} : [tx EXCEPT ![f] = v] \in hits => tx \in hits
       /\ /\ \A f \in Fields : ~Found(tx[f])
          /\ \A i \in DOMAIN tokens : tokens[i] \in Atoms => NamesField(tokens[i])
          => tx \notin hits
=============================================================================
