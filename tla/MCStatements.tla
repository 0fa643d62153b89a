---------------------------- MODULE MCStatements ----------------------------
(***************************************************************************)
(* Configurations for Statements: texts, as sequences of tokens, and a     *)
(* packet.                                                                 *)
(***************************************************************************)
EXTENDS Expressions, TLC

T(s) == Tok(s)

\* A byte: 0 unprintable, 1 unprintable with a letter among its hex digits,
\* 2 and 3 a capital and a small letter, 4 the quote.
Packet ==
  [packet |-> TRUE, known |-> TRUE, static |-> FALSE, raw |-> <<3, 0, 2>>,
   has_in |-> TRUE, in |-> ("o" :> <<<<2, 3>>>>), has_cfg |-> TRUE, cfg |-> << >>,
   relays |-> << >>, scope |-> << >>,
   word |-> [hardware |-> <<<<0, 1>>>>, leased_address |-> <<<<2>>>>, host_decl_name |-> Null,
             filename |-> Null, sname |-> Null, gethostname |-> <<<<3>>>>,
             lease_time |-> <<5>>, client_state |-> Null]]

\* Conditions without parentheses.
Atoms == {<<T("known")>>, <<T("static")>>, <<T("not"), T("static")>>,
          <<T("defined"), T("("), Name("v"), T(")")>>, <<Name("b")>>,
          <<Name("v"), T("="), Str(<<2>>)>>, <<T("leased_address"), T("!="), T("option"), Name("o")>>}
Flat == Atoms \cup {a \o <<T(o)>> \o b : a \in Atoms, b \in Atoms, o \in {"and", "or"}}
Long == {a \o <<T(o)>> \o b \o <<T(q)>> \o c :
           a \in {<<T("static")>>, <<Name("b")>>}, b \in {<<T("known")>>, <<T("static")>>},
           c \in {<<Name("b")>>, <<T("known")>>}, o \in {"and", "or"}, q \in {"and", "or"}}

\* Values.
Data == {<<Str(<<2, 3>>)>>, <<Str(<<1, 0>>)>>,
         <<T("concat"), T("("), Name("v"), T(","), T("leased_address"), T(","), T("hardware"), T(")")>>,
         <<T("pick_first_value"), T("("), T("host_decl_name"), T(","), T("hardware"), T(")")>>,
         <<T("substring"), T("("), T("hardware"), T(","), Number(1), T(","), Number(1), T(")")>>,
         <<T("encode_int"), T("("), T("lease_time"), T("+"), Number(1), T(","), Number(8), T(")")>>}
Numbers == {<<T("extract_int"), T("("), T("hardware"), T(","), Number(8), T(")"), T("+"), Number(2)>>,
            <<T("lease_time"), T("-"), Number(1), T("*"), Number(2)>>}

Set(n, v) == <<T("set"), Name(n), T("=")>> \o v \o <<T(";")>>
In(ts) == <<T("{")>> \o ts \o <<T("}")>>
If(c, x, y) == <<T("if")>> \o c \o In(x) \o (IF y = << >> THEN y ELSE <<T("else")>> \o In(y))
Unset(n) == <<T("unset"), Name(n), T(";")>>

Else == Set("x", <<Str(<<3>>)>>)
Chain == If(<<T("known")>>, Else, << >>) \o Set("y", <<Number(1)>>)
Branches == {If(c, Set("x", <<Str(<<2>>)>>), Else) : c \in Flat \cup Long}
            \cup {If(c, Set("x", <<Str(<<2>>)>>), e) : c \in Atoms, e \in {<< >>, Chain}}
Others ==
  {Set("x", v) : v \in Data \cup Numbers}
  \cup {<<T("switch"), T("("), Name("v"), T(")")>>
        \o In(<<T("case"), Str(<<3>>), T(":")>> \o Set("x", <<Str(<<3>>)>>) \o <<T("break"), T(";")>>
              \o <<T("case"), Str(<<2>>), T(":")>> \o Set("x", <<Str(<<2>>)>>) \o t
              \o <<T("default"), T(":")>> \o Set("y", <<Str(<<3>>)>>)) : t \in {<< >>, <<T("break"), T(";")>>}}

On(evs, body) == <<T("on")>> \o evs \o In(body)
Option(op, v) == <<T(op), Name("o"), T("=")>> \o v \o <<T(";")>>
Log(p) == <<T("log"), T("("), T(p), T(","), T("hardware"), T(")"), T(";")>>
Refused == {If(<<T("not"), T("option"), Name("o"), T("="), Str(<<2>>)>>, Else, << >>)}
Further ==
  {Option("option", <<Str(<<2>>)>>) \o Option(op, <<Str(<<3>>)>>)
   \o Set("x", <<T("config_option"), Name("o")>>) : op \in {"supersede", "default", "append", "prepend"}}
  \cup {On(<<T("expiry")>>, ts) : ts \in {Option("send", <<Str(<<2>>)>>), Log("info"), Log("fatal"),
                                           <<T("eval"), T("hardware"), T(";")>>}}
  \cup {<<T("add"), Name("class"), T(";")>>, <<T("return"), T("hardware"), T(";")>>}

Preludes == {<< >>, Set("v", <<Str(<<2>>)>>), Set("b", <<T("known")>>)}

Wrapped(body) ==
  {On(<<T("expiry")>>, body), On(<<T("expiry"), T("or"), T("release")>>, body),
   On(<<T("release")>>, body) \o On(<<T("expiry")>>, Unset("v")),
   On(<<T("commit")>>, body \o On(<<T("expiry")>>, Set("w", <<T("leased_address")>>)))}

\* One value computed in two ways.
F(name, tss) == Call(name, tss)
Same(law, d) == Set("law", law) \o Set("same", d)
Laws(d, k) ==
  LET all == <<Str(d)>>
  IN {Same(F("concat", <<F("substring", <<all, <<Number(0)>>, <<Number(k)>>>>),
                         F("substring", <<all, <<Number(k)>>, <<Number(9)>>>>)>>), all),
      Same(F("reverse", <<<<Number(k)>>, F("reverse", <<<<Number(k)>>, all>>)>>), all),
      Same(F("lcase", <<F("ucase", <<all>>)>>), F("lcase", <<all>>)),
      Same(F("encode_int", <<F("extract_int", <<all, <<Number(16)>>>>), <<Number(16)>>>>),
           F("substring", <<all, <<Number(0)>>, <<Number(2)>>>>)),
      Same(F("suffix", <<F("substring", <<all, <<Number(0)>>, <<Number(Len(d) - 1)>>>>), <<Number(Len(d) - k)>>>>),
           F("substring", <<all, <<Number(k - 1)>>, <<Number(Len(d) - k)>>>>))}
Strings == UNION {[1..n -> {0, 2, 3}] : n \in 2..3}

Texts == {p \o On(<<T("expiry")>>, b) : p \in Preludes, b \in Branches}
           \cup UNION {Wrapped(b) : b \in Others}
           \cup Further \cup Refused
           \cup UNION {Laws(d, k) : d \in Strings, k \in 1..2}
=============================================================================
