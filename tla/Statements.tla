----------------------------- MODULE Statements -----------------------------
(***************************************************************************)
(* Executable statements (common/parse.c, common/execute.c) and their life *)
(* on a lease.  The configuration's statements are executed when an        *)
(* address is given out; "on" statements among them attach statements to   *)
(* the lease, which write_lease() (server/db.c) writes to the lease file,  *)
(* which parse_lease_declaration() (server/confpars.c) reads again after a *)
(* restart, and which are executed when the lease expires or is released.  *)
(*                                                                         *)
(* A statement is a record [op, s, e, tc, fc, ev]: operator, name,         *)
(* expression, statements (of the then branch), statements of the else     *)
(* branch, events.                                                         *)
(***************************************************************************)
EXTENDS Expressions, TLC

CONSTANTS Texts,        \* the configurations tried, as sequences of tokens
          Packet        \* what expressions see while a packet is answered

VARIABLES conf,         \* the text of the configuration
          group,        \* its statements
          lease,        \* the lease: its variables and its statements for events
          file,         \* the lease's record in the lease file
          phase,        \* where the server is
          twin          \* the lease as it would be had there been no restart

vars == <<conf, group, lease, file, phase, twin>>

----------------------------------------------------------------------------
(* Reading statements. *)

Statement(op) == [op |-> op, s |-> "", e |-> Node("none", << >>), tc |-> << >>,
                  fc |-> << >>, ev |-> {}]
Bad == [ok |-> FALSE, sts |-> << >>, rest |-> << >>]
Read(sts, rest) == [ok |-> TRUE, sts |-> sts, rest |-> rest]

Expect(t, r) == IF r.ok /\ Peek(r.rest) = t THEN Read(r.sts, After(r.rest, 1)) ELSE Bad

(* A statement made of an expression and what must follow it. *)
With(st, r, end) ==
  IF r.ok /\ Peek(r.rest) = end THEN Read(<<[st EXCEPT !.e = r.e]>>, After(r.rest, 1)) ELSE Bad

ParseValue(ts, context) == parse_expression(ts, context, << >>, "none")

OptionOps == {"supersede", "default", "append", "prepend"}

(* parse_option_statement(), for a value given as an expression. *)
parse_option_statement(op, ts) ==
  IF Peek(ts) = "NAME" /\ Peek(After(ts, 1)) = "="
  THEN With([Statement(op) EXCEPT !.s = ts[1].s], parse_data_expression(After(ts, 2)), ";")
  ELSE Bad

RECURSIVE parse_executable_statements(_, _), parse_executable_statement(_, _),
          parse_if_statement(_), Events(_, _)

Events(ev, ts) ==
  IF Peek(ts) \notin {"expiry", "commit", "release"} THEN [ok |-> FALSE, ev |-> {}, rest |-> << >>]
  ELSE IF Peek(After(ts, 1)) = "or" THEN Events(ev \cup {Peek(ts)}, After(ts, 2))
  ELSE [ok |-> TRUE, ev |-> ev \cup {Peek(ts)}, rest |-> After(ts, 1)]

(* "{" statements "}" *)
Block(ts, case_context) ==
  IF Peek(ts) = "{" THEN Expect("}", parse_executable_statements(After(ts, 1), case_context)) ELSE Bad

(* A statement whose body has been read. *)
WithBody(st, body) == IF body.ok THEN Read(<<[st EXCEPT !.tc = body.sts]>>, body.rest) ELSE Bad

OnEvents(evs) ==
  CASE ~evs.ok -> Bad
    [] evs.ok /\ Peek(evs.rest) = ";" ->
         Read(<<[Statement("on") EXCEPT !.ev = evs.ev]>>, After(evs.rest, 1))
    [] OTHER -> WithBody([Statement("on") EXCEPT !.ev = evs.ev], Block(evs.rest, "any"))
parse_on_statement(ts) == OnEvents(Events({}, ts))

SwitchOn(r) ==
  IF r.ok /\ Peek(r.rest) = ")"
  THEN WithBody([Statement("switch") EXCEPT !.e = r.e],
                Block(After(r.rest, 1), IF is_data_expression(r.e) THEN "data" ELSE "numeric"))
  ELSE Bad
parse_switch_statement(ts) ==
  IF Peek(ts) = "(" THEN SwitchOn(ParseValue(After(ts, 1), "data_or_numeric")) ELSE Bad

parse_case_statement(ts, case_context) == With(Statement("case"), ParseValue(ts, case_context), ":")

WithElse(st, fc) == IF fc.ok THEN Read(<<[st EXCEPT !.fc = fc.sts]>>, fc.rest) ELSE Bad
ElseBranch(ts) ==
  CASE Peek(ts) = "elsif" -> parse_if_statement(After(ts, 1))
    [] Peek(ts) = "else" /\ Peek(After(ts, 1)) = "if" -> parse_if_statement(After(ts, 2))
    [] Peek(ts) = "else" /\ Peek(After(ts, 1)) # "if" -> Block(After(ts, 1), "any")
    [] OTHER -> Read(<< >>, ts)
IfBody(st) == IF st.ok THEN WithElse(st.sts[1], ElseBranch(st.rest)) ELSE Bad

(* A left parenthesis after "if" encloses the whole condition. *)
IfOn(c, parenp) ==
  IF c.ok /\ (parenp => Peek(c.rest) = ")")
  THEN IfBody(WithBody([Statement("if") EXCEPT !.e = c.e],
                       Block(IF parenp THEN After(c.rest, 1) ELSE c.rest, "any")))
  ELSE Bad
parse_if_statement(ts) ==
  IF Peek(ts) = "(" THEN IfOn(parse_boolean_expression(After(ts, 1)), TRUE)
  ELSE IfOn(parse_boolean_expression(ts), FALSE)

LogAt(priority, ts) ==
  Expect(";", With([Statement("log") EXCEPT !.s = priority], parse_data_expression(ts), ")"))
parse_log_statement(ts) ==
  CASE Peek(ts) # "(" -> Bad
    [] Peek(ts) = "(" /\ Peek(After(ts, 1)) \in {"fatal", "error", "debug", "info"} ->
         IF Peek(After(ts, 2)) = "," THEN LogAt(Peek(After(ts, 1)), After(ts, 3)) ELSE Bad
    [] OTHER -> LogAt("debug", After(ts, 1))

parse_set(ts) ==
  IF Peek(ts) = "NAME" /\ Peek(After(ts, 1)) = "="
  THEN With([Statement("set") EXCEPT !.s = ts[1].s], ParseValue(After(ts, 2), "any"), ";")
  ELSE Bad

Starters == OptionOps \cup {"if", "add", "break", "send", "option", "on", "switch", "case",
                            "set", "unset", "eval", "return", "log"}

parse_add(ts) ==
  IF Peek(ts) = "NAME" THEN Expect(";", Read(<<[Statement("add") EXCEPT !.s = ts[1].s]>>, After(ts, 1)))
  ELSE Bad

switch_default(ts, case_context) ==
  IF case_context = "any" THEN Bad ELSE Read(<<Statement("default_case")>>, After(ts, 1))

parse_unset(ts) ==
  IF Peek(ts) = "NAME" THEN Expect(";", Read(<<[Statement("unset") EXCEPT !.s = ts[1].s]>>, After(ts, 1)))
  ELSE Bad

parse_return(op, ts) == With(Statement(op), ParseValue(ts, "data"), ";")

(* What starts with a name is taken for a function call to be evaluated. *)
parse_name(ts) == With(Statement("eval"), ParseValue(ts, "data"), ";")

parse_executable_statement(ts, case_context) ==
  LET t == Peek(ts) rest == After(ts, 1)
  IN CASE t = "if" -> parse_if_statement(rest)
       [] t = "add" -> parse_add(rest)
       [] t = "break" -> Expect(";", Read(<<Statement("break")>>, rest))
       [] t = "default" /\ Peek(rest) = ":" -> switch_default(rest, case_context)
       [] t \in OptionOps -> parse_option_statement(t, rest)
       [] t \in {"send", "option"} -> parse_option_statement("supersede", rest)
       [] t = "on" -> parse_on_statement(rest)
       [] t = "switch" -> parse_switch_statement(rest)
       [] t = "case" -> IF case_context = "any" THEN Bad
                        ELSE parse_case_statement(rest, case_context)
       [] t = "set" -> parse_set(rest)
       [] t = "unset" -> parse_unset(rest)
       [] t \in {"eval", "return"} -> parse_return(t, rest)
       [] t = "log" -> parse_log_statement(rest)
       [] t = "NAME" -> parse_name(ts)

FollowedBy(sts, more) == IF more.ok THEN Read(sts \o more.sts, more.rest) ELSE Bad
AndMore(first, case_context) ==
  IF first.ok THEN FollowedBy(first.sts, parse_executable_statements(first.rest, case_context)) ELSE Bad
parse_executable_statements(ts, case_context) ==
  IF Peek(ts) \notin Starters \cup {"NAME"} THEN Read(<< >>, ts)
  ELSE AndMore(parse_executable_statement(ts, case_context), case_context)

----------------------------------------------------------------------------
(* Writing statements. *)

RECURSIVE write_statements(_), WriteElse(_)

WriteEvents(ev) ==
  LET names == SelectSeq(<<"expiry", "commit", "release">>, LAMBDA x : x \in ev)
  IN FoldLeft(LAMBDA acc, x : acc \o <<Tok("or"), Tok(x)>>, <<Tok(names[1])>>, Tail(names))

Braces(sts) == <<Tok("{")>> \o write_statements(sts) \o <<Tok("}")>>

WriteElse(fc) ==
  IF fc = << >> THEN << >>
  ELSE IF fc[1].op = "if" /\ Len(fc) = 1
  THEN <<Tok("elsif")>> \o write_expression(fc[1].e) \o Braces(fc[1].tc) \o WriteElse(fc[1].fc)
  ELSE <<Tok("else")>> \o Braces(fc)

(* The value of a return statement is not written, nor is the semicolon    *)
(* after the class of an add statement.                                    *)
WriteStatement(st) ==
  CASE st.op = "on" -> <<Tok("on")>> \o WriteEvents(st.ev)
                       \o (IF st.tc = << >> THEN <<Tok(";")>> ELSE Braces(st.tc))
    [] st.op = "switch" -> <<Tok("switch"), Tok("(")>> \o write_expression(st.e) \o <<Tok(")")>>
                           \o Braces(st.tc)
    [] st.op = "case" -> <<Tok("case")>> \o write_expression(st.e) \o <<Tok(":")>>
    [] st.op = "default_case" -> <<Tok("default"), Tok(":")>>
    [] st.op = "if" -> <<Tok("if")>> \o write_expression(st.e) \o Braces(st.tc) \o WriteElse(st.fc)
    [] st.op = "eval" -> <<Tok("eval")>> \o write_expression(st.e) \o <<Tok(";")>>
    [] st.op = "return" -> <<Tok("return"), Tok(";")>>
    [] st.op = "add" -> <<Tok("add"), Name(st.s)>>
    [] st.op = "break" -> <<Tok("break"), Tok(";")>>
    [] st.op \in OptionOps -> <<Tok(st.op), Name(st.s), Tok("=")>> \o write_expression(st.e) \o <<Tok(";")>>
    [] st.op = "set" -> <<Tok("set"), Name(st.s), Tok("=")>> \o write_expression(st.e) \o <<Tok(";")>>
    [] st.op = "unset" -> <<Tok("unset"), Name(st.s), Tok(";")>>
    [] st.op = "log" -> <<Tok("log"), Tok("("), Tok(st.s), Tok(",")>> \o write_expression(st.e)
                        \o <<Tok(")"), Tok(";")>>

write_statements(sts) == FlattenSeq([i \in 1..Len(sts) |-> WriteStatement(sts[i])])

----------------------------------------------------------------------------
(* Executing statements.  A world is [scope, out, on, classes, dead]: the  *)
(* variables, the options of the reply (as expressions: they are evaluated *)
(* when the reply is built), the statements waiting for events, the        *)
(* packet's classes and whether the server has ended.                      *)

NoStatements == [expiry |-> << >>, release |-> << >>, commit |-> << >>, shared |-> FALSE]

(* shared tells that expiry and release have the same statements attached, *)
(* not just equal ones.                                                    *)
Attach(on, st) ==
  LET set(ev) == IF ev \in st.ev THEN st.tc ELSE on[ev]
  IN [expiry |-> set("expiry"), release |-> set("release"), commit |-> set("commit"),
      shared |-> IF {"expiry", "release"} \subseteq st.ev THEN st.tc # << >>
                 ELSE on.shared /\ st.ev \cap {"expiry", "release"} = {}]

Env(env, w) == [env EXCEPT !.scope = w.scope, !.cfg = w.out]

(* The old value of the variable is dropped before the new one is found. *)
Unbound(scope, name) == [n \in DOMAIN scope \ {name} |-> scope[n]]
Bound(w, name, v) == IF v = Null THEN w ELSE [w EXCEPT !.scope = (name :> v) @@ @]
SetIn(w, st, env) == Bound(w, st.s, evaluate_expression(st.e, Env(env, w)))
set_variable(w, st, env) == SetIn([w EXCEPT !.scope = Unbound(@, st.s)], st, env)

set_option(options, st) ==
  LET old == options[st.s]
      there == st.s \in DOMAIN options
      noc == CASE st.op = "default" /\ there -> old
               [] st.op = "append" /\ there -> Node("concat", <<old, st.e>>)
               [] st.op = "prepend" /\ there -> Node("concat", <<st.e, old>>)
               [] OTHER -> st.e
  IN (st.s :> noc) @@ options

(* What follows the first case whose value is that of the switch, or else  *)
(* the default.                                                            *)
First(S) == CHOOSE i \in S : \A j \in S : i <= j
CaseOf(sts, cases, defaults) ==
  IF cases # {} THEN After(sts, First(cases))
  ELSE IF defaults # {} THEN After(sts, First(defaults)) ELSE << >>
CasesOf(sts, kind, v, env) ==
  {i \in 1..Len(sts) : sts[i].op = "case" /\ v # Null /\ Operand(sts[i].e, kind, env) = v}
SwitchCase(sts, kind, v, env) ==
  CaseOf(sts, CasesOf(sts, kind, v, env), {i \in 1..Len(sts) : sts[i].op = "default_case"})
SwitchKind(st, kind, env) == SwitchCase(st.tc, kind, Operand(st.e, kind, env), env)
find_matching_case(st, env) ==
  SwitchKind(st, IF is_data_expression(st.e) THEN "data" ELSE "numeric", env)

(* Outside a packet there is no reply to put an option into and no packet  *)
(* to classify.                                                            *)
add_statement(w, st, env) ==
  IF env.packet THEN [w EXCEPT !.classes = @ \cup {st.s}] ELSE [w EXCEPT !.dead = TRUE]

option_statement(w, st, env) ==
  IF env.has_cfg THEN [w EXCEPT !.out = set_option(@, st)] ELSE [w EXCEPT !.dead = TRUE]

log_statement(w, st, env) ==
  [w EXCEPT !.dead = @ \/ (st.s = "fatal" /\ evaluate_data_expression(st.e, Env(env, w)) # Null)]

(* A break ends the list of statements it stands in. *)
RECURSIVE execute_statements(_, _, _)
execute_statement(w, st, env) ==
  CASE st.op = "on" -> [w EXCEPT !.on = Attach(@, st)]
    [] st.op = "switch" -> execute_statements(w, find_matching_case(st, Env(env, w)), env)
    [] st.op = "if" ->
         execute_statements(w, IF evaluate_boolean_expression(st.e, Env(env, w)) = <<TRUE>>
                               THEN st.tc ELSE st.fc, env)
    [] st.op = "add" -> add_statement(w, st, env)
    [] st.op \in OptionOps -> option_statement(w, st, env)
    [] st.op = "set" -> set_variable(w, st, env)
    [] st.op = "unset" -> [w EXCEPT !.scope = Unbound(@, st.s)]
    [] st.op = "log" -> log_statement(w, st, env)
    [] st.op \in {"eval", "return", "case", "default_case"} -> w

execute_statements(w, sts, env) ==
  IF sts = << >> \/ w.dead THEN w
  ELSE IF Head(sts).op = "break" THEN w
  ELSE execute_statements(execute_statement(w, Head(sts), env), Tail(sts), env)

----------------------------------------------------------------------------
(* The lease file. *)

(* write_binding_scope(): data as a string with its quotes escaped, a      *)
(* number as a signed one after a percent sign.                            *)
write_binding_scope(name, v) ==
  <<Tok("set"), Name(name), Tok("=")>>
  \o (CASE v.type = "data" -> <<Str(v.d)>>
        [] v.type = "numeric" -> IF v.n < WORD \div 2 THEN <<Tok("%"), Number(v.n)>>
                                 ELSE <<Tok("%"), Tok("-"), Number(WORD - v.n)>>
        [] v.type = "boolean" -> <<Name(IF v.b THEN "true" ELSE "false")>>)
  \o <<Tok(";")>>

parse_binding_value(ts) ==
  LET got(v, k) == [ok |-> Peek(After(ts, k)) = ";", v |-> v, rest |-> After(ts, k + 1)]
      bad == [ok |-> FALSE, v |-> BooleanValue(FALSE), rest |-> << >>]
  IN CASE Peek(ts) = "STRING" -> got(DataValue(ts[1].d), 1)
       [] Peek(ts) = "%" -> IF Peek(After(ts, 1)) = "NUMBER" THEN got(NumericValue(ts[2].n), 2) ELSE bad
       [] Peek(ts) = "NAME" -> IF ts[1].s \in {"true", "false"} THEN got(BooleanValue(ts[1].s = "true"), 1)
                               ELSE bad
       [] OTHER -> bad

(* write_lease(), the part with variables and statements. *)
write_lease(l) ==
  LET on == l.on
  IN FlattenSeq([i \in 1..Cardinality(DOMAIN l.scope) |->
                   LET n == SetToSeq(DOMAIN l.scope)[i] IN write_binding_scope(n, l.scope[n][1])])
     \o (IF on.expiry = << >> THEN << >>
         ELSE <<Tok("on"), Tok("expiry")>>
              \o (IF on.shared THEN <<Tok("or"), Tok("release")>> ELSE << >>) \o Braces(on.expiry))
     \o (IF on.release = << >> \/ on.shared THEN << >>
         ELSE <<Tok("on"), Tok("release")>> \o Braces(on.release))

(* parse_lease_declaration(): the lease is dropped at the first thing in   *)
(* its record that cannot be read.                                         *)
NoLease == [scope |-> << >>, on |-> NoStatements]
RECURSIVE parse_lease_declaration(_, _)
WithBinding(l, name, bound) ==
  IF bound.ok THEN parse_lease_declaration([l EXCEPT !.scope = (name :> <<bound.v>>) @@ @], bound.rest)
  ELSE << >>
WithOn(l, on) ==
  IF on.ok THEN parse_lease_declaration([l EXCEPT !.on = Attach(@, on.sts[1])], on.rest) ELSE << >>
parse_lease_declaration(l, ts) ==
  CASE ts = << >> -> <<l>>
    [] Peek(ts) = "set" -> WithBinding(l, ts[2].s, parse_binding_value(After(ts, 3)))
    [] Peek(ts) = "on" -> WithOn(l, parse_on_statement(After(ts, 1)))
    [] OTHER -> << >>

----------------------------------------------------------------------------
(* The life of the lease. *)

World(l) == [scope |-> l.scope, out |-> << >>, on |-> l.on, classes |-> {}, dead |-> FALSE]

(* ack_lease(): the statements in scope are executed on the lease, and     *)
(* those for the commit on the copy that is to replace it; in              *)
(* supersede_lease() the copy's statements take the place of the lease's.  *)
Superseded(mine, copy) ==
  LET pick(ev) == IF copy[ev] # << >> THEN copy[ev] ELSE mine[ev]
  IN [expiry |-> pick("expiry"), release |-> pick("release"), commit |-> copy.commit,
      shared |-> copy.shared \/ (mine.shared /\ copy.expiry = << >> /\ copy.release = << >>)]

Acked(w, copy) == [scope |-> copy.scope, on |-> Superseded(w.on, copy.on), dead |-> copy.dead]
Copied(w, env) == Acked(w, execute_statements([w EXCEPT !.on = NoStatements], w.on.commit, env))
ack_lease(l, env) == Copied(execute_statements(World(l), group, env), env)

NoPacket == [Packet EXCEPT !.packet = FALSE, !.has_in = FALSE, !.has_cfg = FALSE, !.raw = << >>,
                           !.relays = << >>]

(* make_binding_state_transition(): the statements of the event are        *)
(* executed, with no packet, and those of all events are dropped.          *)
Ended(w) == [scope |-> w.scope, on |-> [NoStatements EXCEPT !.commit = w.on.commit], dead |-> w.dead]
make_binding_state_transition(l, ev) == Ended(execute_statements(World(l), l.on[ev], NoPacket))

Alive(r) == [scope |-> r.scope, on |-> r.on]

Init ==
  /\ conf \in Texts
  /\ group = << >> /\ lease = NoLease /\ twin = NoLease /\ file = << >>
  /\ phase = "off"

Start ==
  /\ phase = "off"
  /\ \E r \in {parse_executable_statements(conf, "any")} :
        /\ group' = r.sts
        /\ phase' = IF r.ok /\ r.rest = << >> THEN "idle" ELSE "refused"
  /\ UNCHANGED <<conf, lease, twin, file>>

Fatal(record) == \E i \in DOMAIN record : record[i].t = "FATAL"

Ack ==
  /\ phase = "idle"
  /\ \E r \in {ack_lease(lease, Packet)} :
        /\ lease' = Alive(r) /\ twin' = Alive(r)
        /\ \E record \in {write_lease(Alive(r))} :
              IF r.dead \/ Fatal(record) THEN phase' = "dead" /\ UNCHANGED file
              ELSE phase' = "leased" /\ file' = record
  /\ UNCHANGED <<conf, group>>

Restart ==
  /\ phase \in {"leased", "ended"}
  /\ \E l \in {parse_lease_declaration(NoLease, file)} :
        /\ lease' = IF l = << >> THEN NoLease ELSE l[1]
        /\ phase' = IF l = << >> THEN "lost" ELSE phase
  /\ UNCHANGED <<conf, group, file, twin>>

End(ev) ==
  /\ phase = "leased"
  /\ \E r \in {make_binding_state_transition(lease, ev)} :
        /\ lease' = Alive(r)
        /\ IF r.dead THEN phase' = "dead" /\ UNCHANGED file
           ELSE phase' = "ended" /\ file' = write_lease(Alive(r))
  /\ twin' = Alive(make_binding_state_transition(twin, ev))
  /\ UNCHANGED <<conf, group>>

Expire == End("expiry")
Release == End("release")

Next == Start \/ Ack \/ Restart \/ Expire \/ Release

Spec == Init /\ [][Next]_vars

----------------------------------------------------------------------------
(* Properties *)

(* A restart makes no difference: after it the lease is still there, its   *)
(* variables have the values they had and its statements do, when it       *)
(* expires or is released, what they would have done without the restart:  *)
(* what write_statements(), write_expression() and write_binding_scope()   *)
(* write is what parse_on_statement() and parse_binding_value() read.      *)
SurvivesRestart ==
  /\ phase # "lost"
  /\ phase \in {"leased", "ended"} => lease.scope = twin.scope

(* The reference reading of a condition: not holds when its operand is     *)
(* false, and when both are true, or when one is.                          *)
RECURSIVE Holds(_, _), Plain(_), Conditions(_)
Holds(e, env) ==
  CASE e.op = "and" -> Holds(e.args[1], env) /\ Holds(e.args[2], env)
    [] e.op = "or" -> Holds(e.args[1], env) \/ Holds(e.args[2], env)
    [] e.op = "not" -> evaluate_boolean_expression(e.args[1], env) = <<FALSE>>
    [] OTHER -> evaluate_boolean_expression(e, env) = <<TRUE>>

Plain(e) ==
  CASE e.op = "not" -> e.args[1].op \notin {"and", "or", "not"}
    [] e.op \in {"and", "or"} -> Plain(e.args[1]) /\ Plain(e.args[2])
    [] OTHER -> TRUE

Conditions(sts) ==
  UNION {(IF sts[i].op = "if" THEN {sts[i].e} ELSE {})
         \cup Conditions(sts[i].tc) \cup Conditions(sts[i].fc) : i \in 1..Len(sts)}

(* A condition in which "not" stands before no "and" or "or" is met        *)
(* exactly when the reference reading holds, although                      *)
(* evaluate_boolean_expression() does not evaluate the right-hand side of  *)
(* an "and" whose left-hand side is false and makes null of it, and nulls  *)
(* meet both operators; with and without a packet.                         *)
ConditionsMet ==
  \A env \in {Packet, NoPacket} :
    \A e \in Conditions(group) :
      LET at == [env EXCEPT !.scope = lease.scope]
      IN Plain(e) => ((evaluate_boolean_expression(e, at) = <<TRUE>>) <=> Holds(e, at))

(* The operators on data undo each other: where a configuration has        *)
(* computed one value in two ways, taking data apart with substring,       *)
(* suffix or extract-int and putting it together with concat or            *)
(* encode-int, reversing it twice, changing the case of its letters twice, *)
(* both ways (law and same) give the same value.                           *)
DataLaws ==
  phase = "leased" /\ {"law", "same"} \subseteq DOMAIN lease.scope
  => lease.scope["law"] = lease.scope["same"]

(* What the lease file says of a lease the server has given out can always *)
(* be read again: the comment in write_statements() (common/execute.c)     *)
(* explains why options are not written in a way that may cause a syntax   *)
(* error "when this statement was read back".                              *)
ReadBack == phase # "lost"

=============================================================================
