---------------------------- MODULE Expressions ----------------------------
(***************************************************************************)
(* The expressions of dhcpd.conf(5) and dhclient.conf(5): how              *)
(* parse_expression() (common/parse.c) reads them, how write_expression()  *)
(* (common/tree.c) writes them to the lease file, and what the             *)
(* evaluate_*_expression() functions make of them.                         *)
(*                                                                         *)
(* An expression is a node [op, s, n, d, args]: the operator, its name,    *)
(* number or data if it has one, and its operands.  A text is a sequence   *)
(* of tokens [t, s, n, d]; "!=", "~=" and "~~" are one token here.  A byte *)
(* takes BYTE values (256 in the program) and an unsigned long WORD values *)
(* (2^64), at which arithmetic wraps.  A result is << >> for null and <<v>> *)
(* for the value v.                                                        *)
(*                                                                         *)
(* Function definitions and calls are not modelled.                        *)
(***************************************************************************)
EXTENDS Integers, Sequences, SequencesExt, FiniteSets, Bitwise

CONSTANTS BYTE,          \* the number of values of a byte
          WORD,          \* the number of values of an unsigned long
          Printable,     \* the bytes for which isprint() holds
          Quote,         \* the double quote, one of them
          HexLetters,    \* the bytes with a letter among their hex digits
          Letters,       \* pairs <<upper, lower>> of bytes
          MAX_V6RELAY_HOPS

----------------------------------------------------------------------------
(* Nodes and tokens. *)

Node(op, args) == [op |-> op, s |-> "", n |-> 0, d |-> << >>, args |-> args]
Named(op, s) == [Node(op, << >>) EXCEPT !.s = s]
ConstInt(n) == [Node("const_int", << >>) EXCEPT !.n = n]
ConstData(d) == [Node("const_data", << >>) EXCEPT !.d = d]

Tok(t) == [t |-> t, s |-> "", n |-> 0, d |-> << >>]
Name(s) == [Tok("NAME") EXCEPT !.s = s]
Number(n) == [Tok("NUMBER") EXCEPT !.n = n]
Str(d) == [Tok("STRING") EXCEPT !.d = d]

(* The operators with a token of their own between two operands. *)
Binary == [equal |-> "=", not_equal |-> "!=", regex_match |-> "~=", iregex_match |-> "~~",
           and |-> "and", or |-> "or", add |-> "+", subtract |-> "-", multiply |-> "*",
           divide |-> "/", remainder |-> "%", binary_and |-> "&", binary_or |-> "|",
           binary_xor |-> "^"]

(* The expressions that are a single word. *)
Words == {"known", "static", "hardware", "leased_address", "client_state", "filename",
          "sname", "lease_time", "null", "host_decl_name"}

(* The functions with a fixed list of operands, and what each must be. *)
Signature == [substring |-> <<"data", "numeric", "numeric">>, suffix |-> <<"data", "numeric">>,
              lcase |-> <<"data">>, ucase |-> <<"data">>,
              binary_to_ascii |-> <<"numeric", "numeric", "data", "data">>,
              reverse |-> <<"numeric", "data">>, packet |-> <<"numeric", "numeric">>,
              v6relay |-> <<"numeric", "data">>]

----------------------------------------------------------------------------
(* What kind of value an expression has. *)

Comparisons == {"equal", "not_equal", "regex_match", "iregex_match"}
Arithmetic == {"add", "subtract", "multiply", "divide", "remainder",
               "binary_and", "binary_or", "binary_xor"}

is_boolean_expression(e) ==
  e.op \in Comparisons \cup {"check", "exists", "variable_exists", "and", "or", "not",
                             "known", "static"}

is_data_expression(e) ==
  e.op \in {"substring", "suffix", "lcase", "ucase", "option", "hardware", "const_data",
            "packet", "concat", "encapsulate", "encode_int", "host_lookup",
            "binary_to_ascii", "filename", "sname", "reverse", "pick_first_value",
            "host_decl_name", "leased_address", "config_option", "null", "gethostname",
            "v6relay"}

is_numeric_expression(e) ==
  e.op \in Arithmetic \cup {"extract_int", "const_int", "lease_time", "client_state"}

expression_context(e) ==
  IF is_data_expression(e) THEN "data"
  ELSE IF is_numeric_expression(e) THEN "numeric"
  ELSE IF is_boolean_expression(e) THEN "boolean" ELSE "any"

op_context(op) ==
  IF op \in Comparisons THEN "data"
  ELSE IF op \in {"and", "or"} THEN "boolean"
  ELSE IF op \in Arithmetic \cup {"client_state"} THEN "numeric" ELSE "any"

op_val(op) ==
  IF op \in Comparisons THEN 4
  ELSE IF op \in {"and", "or"} THEN 3
  ELSE IF op \in {"add", "subtract"} THEN 2
  ELSE IF op \in {"multiply", "divide", "remainder"} THEN 1 ELSE 100

op_precedence(op1, op2) == op_val(op1) - op_val(op2)

----------------------------------------------------------------------------
(* Reading an expression.  Every failure to read one is reported and ends  *)
(* the statement it stands in.                                             *)

Lose == [ok |-> FALSE, e |-> Node("none", << >>), rest |-> << >>]
Got(e, rest) == [ok |-> TRUE, e |-> e, rest |-> rest]

Peek(ts) == IF ts = << >> THEN "END_OF_FILE" ELSE ts[1].t
After(ts, k) == SubSeq(ts, k + 1, Len(ts))

(* parse_cshl(): hexadecimal numbers with colons between them.  A number   *)
(* with a letter among its digits is a token of another type.              *)
IsHex(ts) == Peek(ts) \in {"NUMBER", "NUMBER_OR_NAME"}
RECURSIVE parse_cshl(_, _)
parse_cshl(d, ts) ==
  IF ~IsHex(ts) THEN Lose
  ELSE LET more == Append(d, ts[1].n % BYTE)
       IN IF Peek(After(ts, 1)) = ":" THEN parse_cshl(more, After(ts, 2))
          ELSE Got(ConstData(more), After(ts, 1))

(* What the operands of a binary operator must be. *)
Related(binop, lhs, rhs) ==
  LET lc == expression_context(lhs) rc == expression_context(rhs)
  IN /\ "any" \in {lc, rc} \/ lc = rc
     /\ binop \in {"equal", "not_equal"} => rc \in {"data", "numeric", "any"}
     /\ binop = "regex_match" => rc = "data"
     /\ binop \in {"and", "or"} => rc \in {"boolean", "any"}
     /\ binop \in Arithmetic => rc \in {"numeric", "any"}

NextOp(ts) ==
  IF {op \in DOMAIN Binary : Binary[op] = Peek(ts)} = {} THEN "none"
  ELSE CHOOSE op \in DOMAIN Binary : Binary[op] = Peek(ts)

RECURSIVE parse_expression(_, _, _, _), parse_non_binary(_, _), Operands(_, _, _),
          Listed(_, _)

(* parse_boolean_expression(), parse_data_expression() and                 *)
(* parse_numeric_expression(): an expression of one kind, or a variable.   *)
OfKind(kind, r) ==
  IF r.ok /\ (expression_context(r.e) = kind \/ r.e.op = "variable_reference") THEN r ELSE Lose
Kind(kind, ts) == OfKind(kind, parse_expression(ts, kind, << >>, "none"))

parse_boolean_expression(ts) == Kind("boolean", ts)
parse_data_expression(ts) == Kind("data", ts)
parse_numeric_expression(ts) == Kind("numeric", ts)

(* The operands of a function, with commas between them, up to the right   *)
(* parenthesis.                                                            *)
MoreOperands(node, sig, rest) ==
  CASE sig = << >> /\ Peek(rest) = ")" -> Got(node, After(rest, 1))
    [] sig # << >> /\ Peek(rest) = "," -> Operands(node, sig, After(rest, 1))
    [] OTHER -> Lose
WithOperand(node, sig, r) ==
  IF r.ok THEN MoreOperands([node EXCEPT !.args = Append(@, r.e)], sig, r.rest) ELSE Lose
Operands(node, sig, ts) == WithOperand(node, Tail(sig), Kind(Head(sig), ts))

(* concat (a, b, c) is read as concat (concat (a, b), c), and pick (a, b)  *)
(* as pick (a, pick (b, nil)).                                             *)
MoreListed(es, r) ==
  IF ~r.ok THEN [ok |-> FALSE, es |-> << >>, rest |-> << >>]
  ELSE IF Peek(r.rest) = "," THEN Listed(Append(es, r.e), After(r.rest, 1))
  ELSE [ok |-> Peek(r.rest) = ")", es |-> Append(es, r.e), rest |-> After(r.rest, 1)]
Listed(es, ts) == MoreListed(es, parse_data_expression(ts))

Concatenated(l) ==
  IF ~l.ok \/ Len(l.es) < 2 THEN Lose
  ELSE Got(FoldLeft(LAMBDA acc, e : Node("concat", <<acc, e>>), l.es[1], Tail(l.es)), l.rest)
parse_concat(ts) == Concatenated(Listed(<< >>, ts))

Picked(l) ==
  IF ~l.ok THEN Lose
  ELSE Got(FoldRight(LAMBDA e, acc : Node("pick_first_value", <<e, acc>>),
                     Front(l.es), Node("pick_first_value", <<Last(l.es)>>)), l.rest)
parse_pick(ts) == Picked(Listed(<< >>, ts))

(* extract-int (e, width) and encode-int (e, width). *)
WithWidth(op, r) ==
  IF /\ r.ok
     /\ Len(r.rest) >= 3 /\ Peek(r.rest) = "," /\ Peek(After(r.rest, 1)) = "NUMBER"
     /\ r.rest[2].n \in {8, 16, 32} /\ Peek(After(r.rest, 2)) = ")"
  THEN Got([Node(op, <<r.e>>) EXCEPT !.n = r.rest[2].n], After(r.rest, 3)) ELSE Lose
parse_int(op, kind, ts) == WithWidth(op, Kind(kind, ts))

Negated(r) ==
  IF r.ok /\ is_boolean_expression(r.e) THEN Got(Node("not", <<r.e>>), r.rest) ELSE Lose
parse_not(ts) == Negated(parse_non_binary(ts, "boolean"))

Enclosed(r) == IF r.ok /\ Peek(r.rest) = ")" THEN Got(r.e, After(r.rest, 1)) ELSE Lose
parse_paren(ts, context) == Enclosed(parse_expression(ts, context, << >>, "none"))

(* A number is an integer where one is expected, and data elsewhere. *)
parse_number(ts, context) ==
  IF Peek(ts) = "NUMBER" /\ context \in {"numeric", "data_or_numeric"}
  THEN Got(ConstInt(ts[1].n), After(ts, 1))
  ELSE parse_cshl(<< >>, ts)

(* What comes between the parentheses of a function. *)
parse_call(t, ts) ==
  CASE t = "concat" -> parse_concat(ts)
    [] t = "pick_first_value" -> parse_pick(ts)
    [] t = "extract_int" -> parse_int(t, "data", ts)
    [] t = "encode_int" -> parse_int(t, "numeric", ts)
    [] t = "gethostname" ->
         IF Peek(ts) = ")" THEN Got(Node(t, << >>), After(ts, 1)) ELSE Lose
    [] t = "defined" ->
         IF Peek(ts) = "NAME" /\ Peek(After(ts, 1)) = ")"
         THEN Got(Named("variable_exists", ts[1].s), After(ts, 2)) ELSE Lose
    [] OTHER -> Operands(Node(t, << >>), Signature[t], ts)

Calls == DOMAIN Signature \cup {"concat", "pick_first_value", "extract_int", "encode_int",
                                "gethostname", "defined"}

parse_non_binary(ts, context) ==
  LET t == Peek(ts) rest == After(ts, 1)
  IN CASE t \in Words -> Got(Node(t, << >>), rest)
       [] t = "not" -> parse_not(rest)
       [] t = "(" -> parse_paren(rest, context)
       [] t \in {"exists", "option", "config_option"} ->
            IF Peek(rest) = "NAME" THEN Got(Named(t, rest[1].s), After(ts, 2)) ELSE Lose
       [] t \in Calls -> IF Peek(rest) = "(" THEN parse_call(t, After(ts, 2)) ELSE Lose
       [] t = "STRING" -> Got(ConstData(ts[1].d), rest)
       [] t \in {"NUMBER", "NUMBER_OR_NAME"} -> parse_number(ts, context)
       [] t = "NAME" -> Got(Named("variable_reference", ts[1].s), rest)
       [] OTHER -> Lose

(* parse_expression(): lhs is << >> or the operand already read, to the    *)
(* left of binop.  When the operator that follows binds tighter than       *)
(* binop, all that follows is read as the right-hand side.                 *)
Joined(lhs, binop, e, rest) ==
  IF Related(binop, lhs, e) THEN Got(Node(binop, <<lhs, e>>), rest) ELSE Lose
JoinedAll(lhs, binop, r) == IF r.ok THEN Joined(lhs, binop, r.e, r.rest) ELSE Lose
GoOn(r, context, binop) ==
  IF r.ok /\ binop # "none" THEN parse_expression(After(r.rest, 1), context, <<r.e>>, binop) ELSE r

WithNext(r, lhs, binop, next_op) ==
  CASE lhs = << >> -> GoOn(r, expression_context(r.e), next_op)
    [] lhs # << >> /\ next_op # "none" /\ op_precedence(binop, next_op) < 0 ->
         JoinedAll(lhs[1], binop, GoOn(r, op_context(next_op), next_op))
    [] OTHER -> GoOn(Joined(lhs[1], binop, r.e, r.rest), expression_context(r.e), next_op)

WithLhs(r, lhs, binop) == IF r.ok THEN WithNext(r, lhs, binop, NextOp(r.rest)) ELSE Lose
parse_expression(ts, context, lhs, binop) == WithLhs(parse_non_binary(ts, context), lhs, binop)

----------------------------------------------------------------------------
(* Writing an expression. *)

(* token_indent_data_string(): printable data is written as a string whose *)
(* quotes are not escaped, so the string that is read ends at the first    *)
(* one; other data is written in hexadecimal.                              *)
Cut(d) == LET at == {i \in 1..Len(d) : d[i] = Quote}
          IN IF at = {} THEN <<Str(d)>>
             ELSE <<Str(SubSeq(d, 1, (CHOOSE i \in at : \A j \in at : i <= j) - 1)), Tok("GARBAGE")>>
Hex(b) == [Number(b) EXCEPT !.t = IF b \in HexLetters THEN "NUMBER_OR_NAME" ELSE "NUMBER"]
RECURSIVE HexList(_)
HexList(d) == IF Len(d) = 1 THEN <<Hex(d[1])>> ELSE <<Hex(d[1]), Tok(":")>> \o HexList(Tail(d))

token_indent_data_string(d) ==
  IF \A i \in 1..Len(d) : d[i] \in Printable THEN Cut(d) ELSE HexList(d)

Commas(tss) == FoldLeft(LAMBDA acc, ts : acc \o <<Tok(",")>> \o ts, tss[1], Tail(tss))
Call(name, tss) == <<Tok(name), Tok("(")>> \o Commas(tss) \o <<Tok(")")>>

(* A concat or a pick in the tail of another is written as more operands   *)
(* of the outer one.                                                       *)
RECURSIVE Tails(_, _)
Tails(op, e) ==
  IF Len(e.args) < 2 THEN <<e.args[1]>>
  ELSE IF e.args[2].op = op THEN <<e.args[1]>> \o Tails(op, e.args[2]) ELSE e.args

(* Written without the parentheses it was read with. *)
RECURSIVE write_expression(_)
WriteBinary(e) ==
  write_expression(e.args[1]) \o <<Tok(Binary[e.op])>> \o write_expression(e.args[2])

WriteAll(es) == [i \in 1..Len(es) |-> write_expression(es[i])]
WriteCall(e) ==
  CASE e.op \in {"concat", "pick_first_value"} -> Call(e.op, WriteAll(Tails(e.op, e)))
    [] e.op \in {"extract_int", "encode_int"} ->
         Call(e.op, <<write_expression(e.args[1]), <<Number(e.n)>>>>)
    [] e.op = "gethostname" -> <<Tok(e.op), Tok("("), Tok(")")>>
    [] e.op = "variable_exists" -> <<Tok("defined"), Tok("("), Name(e.s), Tok(")")>>
    [] OTHER -> Call(e.op, WriteAll(e.args))

(* log_fatal() ends the program for the expressions it does not know. *)
write_expression(e) ==
  CASE e.op \in DOMAIN Binary -> WriteBinary(e)
    [] e.op = "not" -> <<Tok("not")>> \o write_expression(e.args[1])
    [] e.op \in {"filename", "sname"} -> <<Tok("FATAL")>>
    [] e.op \in Words -> <<Tok(e.op)>>
    [] e.op \in {"exists", "option", "config_option"} -> <<Tok(e.op), Name(e.s)>>
    [] e.op = "variable_reference" -> <<Name(e.s)>>
    [] e.op = "const_int" -> <<Number(e.n)>>
    [] e.op = "const_data" -> token_indent_data_string(e.d)
    [] OTHER -> WriteCall(e)

----------------------------------------------------------------------------
(* Evaluation.  env holds what the functions are passed: packet (whether   *)
(* there is one), known, static, raw, the options of the packet (in) and   *)
(* those of the reply (cfg) with whether they are there at all, the        *)
(* options of the relays' packets (relays), what the words stand for       *)
(* (word) and the variables (scope).                                       *)

Null == << >>
Both(x, y) == x # Null /\ y # Null
Value(t, b, n, d) == [type |-> t, b |-> b, n |-> n, d |-> d]
BooleanValue(b) == Value("boolean", b, 0, << >>)
NumericValue(n) == Value("numeric", FALSE, n, << >>)
DataValue(d) == Value("data", FALSE, 0, d)

find_binding(scope, name) == IF name \in DOMAIN scope THEN scope[name] ELSE Null

(* The value of a variable where a value of one type is wanted. *)
Variable(env, name, type) ==
  LET v == find_binding(env.scope, name)
  IN IF v # Null /\ v[1].type = type THEN v ELSE Null

get_option(there, options, name) ==
  IF there /\ name \in DOMAIN options THEN options[name] ELSE Null

substring(d, offset, len) ==
  SubSeq(d, offset + 1, IF offset + len > Len(d) THEN Len(d) ELSE offset + len)

suffix(d, len) == IF Len(d) > len THEN SubSeq(d, Len(d) - len + 1, Len(d)) ELSE d

lcase(d) == [i \in DOMAIN d |->
              IF {p \in Letters : p[1] = d[i]} = {} THEN d[i]
              ELSE (CHOOSE p \in Letters : p[1] = d[i])[2]]
ucase(d) == [i \in DOMAIN d |->
              IF {p \in Letters : p[2] = d[i]} = {} THEN d[i]
              ELSE (CHOOSE p \in Letters : p[2] = d[i])[1]]

(* A part of the packet; the sum of the offset and the length may wrap, and *)
(* then the memory for so long a part is not had.                           *)
packet_part(raw, offset, len) ==
  IF offset >= Len(raw) THEN Null
  ELSE IF (offset + len) % WORD > Len(raw) THEN <<SubSeq(raw, offset + 1, Len(raw))>>
  ELSE IF len > Len(raw) THEN Null
  ELSE <<SubSeq(raw, offset + 1, offset + len)>>

(* putUShort(), putULong() and their inverses: the most significant byte   *)
(* first.                                                                  *)
Pow(k) == BYTE ^ k
encode_int(n, width) == [i \in 1..(width \div 8) |-> (n \div Pow((width \div 8) - i)) % BYTE]
RECURSIVE BigEndian(_)
BigEndian(d) == IF d = << >> THEN 0 ELSE BigEndian(Front(d)) * BYTE + Last(d)
extract_int(d, width) ==
  LET w == width \div 8
  IN IF w > 1 /\ Len(d) < w THEN Null ELSE <<BigEndian(SubSeq(d, 1, w))>>

(* binary_to_ascii(): a number of each group of bytes, the separator in    *)
(* between; a digit is written as the byte of its value.                   *)
RECURSIVE Digits(_, _), Groups(_, _)
Digits(n, base) == IF n < base THEN <<n>> ELSE Append(Digits(n \div base, base), n % base)
Groups(d, w) == IF d = << >> THEN << >>
                ELSE <<SubSeq(d, 1, w)>> \o Groups(SubSeq(d, w + 1, Len(d)), w)
binary_to_ascii(base, width, separator, d) ==
  LET w == width \div 8
      written == [i \in 1..(Len(d) \div w) |-> Digits(BigEndian(Groups(d, w)[i]), base)]
  IN IF width \notin {8, 16, 32} \/ Len(d) % w # 0 THEN Null
     ELSE IF d = << >> THEN <<d>>
     ELSE <<FoldLeft(LAMBDA acc, x : acc \o separator \o x, written[1], Tail(written))>>

reverse(width, d) ==
  IF Len(d) % width # 0 THEN Null ELSE <<FlattenSeq(Reverse(Groups(d, width)))>>

(* regexec() for a pattern without special characters (external). *)
Matches(d, pattern) ==
  \E i \in 0..(Len(d) - Len(pattern)) : SubSeq(d, i + 1, i + Len(pattern)) = pattern

RECURSIVE evaluate_boolean_expression(_, _), evaluate_data_expression(_, _),
          evaluate_numeric_expression(_, _), evaluate_expression(_, _)

(* Two nulls are equal, and a null equals nothing else. *)
eval_equal(e, env) ==
  <<(evaluate_expression(e.args[1], env) = evaluate_expression(e.args[2], env))
    <=> (e.op = "equal")>>

Folded(op, d) == IF op = "iregex_match" THEN lcase(d) ELSE d
RegexOf(op, left, right) ==
  IF Both(left, right) THEN <<Matches(Folded(op, left[1]), Folded(op, right[1]))>> ELSE Null
eval_regex(e, env) == RegexOf(e.op, evaluate_data_expression(e.args[1], env),
                              evaluate_data_expression(e.args[2], env))

(* The right-hand side is not evaluated when the left-hand side is false,  *)
(* and the result is then null.                                            *)
eval_and(e, env) ==
  IF evaluate_boolean_expression(e.args[1], env) = <<TRUE>>
  THEN evaluate_boolean_expression(e.args[2], env) ELSE Null

OrOf(left, right) ==
  IF left = <<TRUE>> THEN left
  ELSE IF left = Null /\ right = Null THEN Null ELSE <<right = <<TRUE>>>>
eval_or(e, env) == OrOf(evaluate_boolean_expression(e.args[1], env),
                        evaluate_boolean_expression(e.args[2], env))

NotOf(operand) == IF operand = Null THEN Null ELSE <<~operand[1]>>
eval_not(e, env) == NotOf(evaluate_boolean_expression(e.args[1], env))

BooleanOf(v) == IF v = Null THEN Null ELSE <<v[1].b>>

evaluate_boolean_expression(e, env) ==
  CASE e.op \in {"equal", "not_equal"} -> eval_equal(e, env)
    [] e.op \in {"regex_match", "iregex_match"} -> eval_regex(e, env)
    [] e.op = "and" -> eval_and(e, env)
    [] e.op = "or" -> eval_or(e, env)
    [] e.op = "not" -> eval_not(e, env)
    [] e.op = "exists" -> <<get_option(env.has_in, env.in, e.s) # Null>>
    [] e.op = "known" -> IF env.packet THEN <<env.known>> ELSE Null
    [] e.op = "static" -> <<env.static>>
    [] e.op = "variable_exists" -> <<find_binding(env.scope, e.s) # Null>>
    [] e.op = "variable_reference" ->
         BooleanOf(Variable(env, e.s, "boolean"))
    [] OTHER -> Null

(* The expressions whose operands are data and numbers: null if any of     *)
(* them is, and otherwise what the operator makes of their values.         *)
Operated(op, env, v) ==
  CASE \E i \in DOMAIN v : v[i] = Null -> Null
    [] OTHER ->
         CASE op = "substring" -> <<substring(v[1][1], v[2][1], v[3][1])>>
           [] op = "suffix" -> <<suffix(v[1][1], v[2][1])>>
           [] op = "lcase" -> <<lcase(v[1][1])>>
           [] op = "ucase" -> <<ucase(v[1][1])>>
           [] op = "packet" -> packet_part(env.raw, v[1][1], v[2][1])
           [] op = "reverse" -> reverse(v[1][1], v[2][1])
           [] op = "binary_to_ascii" -> binary_to_ascii(v[1][1], v[2][1], v[3][1], v[4][1])
Operand(e, kind, env) ==
  IF kind = "data" THEN evaluate_data_expression(e, env) ELSE evaluate_numeric_expression(e, env)
Operate(e, env) ==
  Operated(e.op, env, [i \in DOMAIN Signature[e.op] |-> Operand(e.args[i], Signature[e.op][i], env)])

ConcatOf(left, right) == IF Both(left, right) THEN <<left[1] \o right[1]>> ELSE Null
eval_concat(e, env) == ConcatOf(evaluate_data_expression(e.args[1], env),
                                evaluate_data_expression(e.args[2], env))

EncodeOf(n, width) == IF n = Null THEN Null ELSE <<encode_int(n[1], width)>>
eval_encode_int(e, env) == EncodeOf(evaluate_numeric_expression(e.args[1], env), e.n)

PickOf(first, rest, env) ==
  IF first # Null \/ rest = << >> THEN first ELSE evaluate_data_expression(rest[1], env)
eval_pick(e, env) == PickOf(evaluate_data_expression(e.args[1], env), Tail(e.args), env)

(* v6relay (n, e): e in the packet of the n-th relay from the client; for  *)
(* n above the limit, of the relay nearest to the server.                  *)
AtRelay(env, to) ==
  IF to = 0 THEN env
  ELSE [env EXCEPT !.in = env.relays[to], !.has_in = TRUE, !.relays = SubSeq(@, to + 1, Len(@))]
RelayOf(e, env, n) ==
  IF n = Null \/ (n # <<0>> /\ env.relays = << >>)
     \/ (n[1] <= MAX_V6RELAY_HOPS /\ n[1] > Len(env.relays)) THEN Null
  ELSE evaluate_data_expression
         (e, AtRelay(env, IF n[1] > Len(env.relays) THEN Len(env.relays) ELSE n[1]))
eval_v6relay(e, env) == RelayOf(e.args[2], env, evaluate_numeric_expression(e.args[1], env))

DataOf(v) == IF v = Null THEN Null ELSE <<v[1].d>>

(* Words for data that the lease or its host declaration has, and for data *)
(* from the packet's header or the system.                                 *)
LeaseWords == {"leased_address", "host_decl_name"}
PacketWords == {"hardware", "filename", "sname", "gethostname"}

evaluate_data_expression(e, env) ==
  CASE e.op = "v6relay" -> eval_v6relay(e, env)
    [] e.op = "packet" /\ ~env.packet -> Null
    [] e.op \in DOMAIN Signature -> Operate(e, env)
    [] e.op = "option" -> get_option(env.has_in, env.in, e.s)
    [] e.op = "config_option" ->
         IF env.has_cfg /\ e.s \in DOMAIN env.cfg
         THEN evaluate_data_expression(env.cfg[e.s], env) ELSE Null
    [] e.op = "const_data" -> <<e.d>>
    [] e.op = "concat" -> eval_concat(e, env)
    [] e.op = "encode_int" -> eval_encode_int(e, env)
    [] e.op = "pick_first_value" -> eval_pick(e, env)
    [] e.op = "variable_reference" ->
         DataOf(Variable(env, e.s, "data"))
    [] e.op \in LeaseWords \cup PacketWords -> env.word[e.op]
    [] OTHER -> Null

(* Arithmetic on unsigned long. *)
Computed(op, l, r) ==
  CASE op = "add" -> l + r
    [] op = "subtract" -> l - r
    [] op = "multiply" -> l * r
    [] op = "divide" -> l \div r
    [] op = "remainder" -> l % r
    [] op = "binary_and" -> l & r
    [] op = "binary_or" -> l | r
    [] op = "binary_xor" -> l ^^ r
ArithmeticOf(op, left, right) ==
  IF ~Both(left, right) \/ (op \in {"divide", "remainder"} /\ right = <<0>>) THEN Null
  ELSE <<Computed(op, left[1], right[1]) % WORD>>
eval_arithmetic(e, env) == ArithmeticOf(e.op, evaluate_numeric_expression(e.args[1], env),
                                        evaluate_numeric_expression(e.args[2], env))

(* The one byte of extract-int (e, 8) is taken without looking at the      *)
(* length: there must be one.                                              *)
ExtractOf(d, width) == IF d = Null THEN Null ELSE extract_int(d[1], width)
eval_extract_int(e, env) == ExtractOf(evaluate_data_expression(e.args[1], env), e.n)

NumberOf(v) == IF v = Null THEN Null ELSE <<v[1].n>>

evaluate_numeric_expression(e, env) ==
  CASE e.op \in Arithmetic -> eval_arithmetic(e, env)
    [] e.op = "extract_int" -> eval_extract_int(e, env)
    [] e.op = "const_int" -> <<e.n>>
    [] e.op \in {"lease_time", "client_state"} -> env.word[e.op]
    [] e.op = "variable_reference" ->
         NumberOf(Variable(env, e.s, "numeric"))
    [] OTHER -> Null

(* A value with its type, as it is stored in a variable. *)
TypedBoolean(b) == IF b = Null THEN Null ELSE <<BooleanValue(b[1])>>
TypedNumber(n) == IF n = Null THEN Null ELSE <<NumericValue(n[1])>>
TypedData(d) == IF d = Null THEN Null ELSE <<DataValue(d[1])>>
Typed(e, env) ==
  CASE is_boolean_expression(e) -> TypedBoolean(evaluate_boolean_expression(e, env))
    [] is_numeric_expression(e) -> TypedNumber(evaluate_numeric_expression(e, env))
    [] OTHER -> TypedData(evaluate_data_expression(e, env))

evaluate_expression(e, env) ==
  IF e.op = "variable_reference" THEN find_binding(env.scope, e.s) ELSE Typed(e, env)

=============================================================================
