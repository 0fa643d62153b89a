------------------------------ MODULE Options ------------------------------
(***************************************************************************)
(* Options of DHCP messages (common/options.c): how cons_options() and     *)
(* store_options() lay them out in the options, file and sname fields of a *)
(* DHCPv4 message, how store_options6() lays them out in a DHCPv6 message, *)
(* and how parse_options() and parse_option_buffer() find them again.      *)
(*                                                                         *)
(* A buffer is a sequence of bytes.  A byte of an option's value is a      *)
(* number that tells the option and the place in it.  Options are a        *)
(* function from spaces ("universes") to functions from codes to lists of  *)
(* values: in DHCPv6 an option may be there more than once.                *)
(*                                                                         *)
(* Not modelled: site option spaces, the vendor option space of option 43, *)
(* and the nwip and fqdn spaces, which have formats of their own.          *)
(***************************************************************************)
EXTENDS Integers, Sequences, SequencesExt, FiniteSets, FiniteSetsExt, Functions, TLC

CONSTANTS CHUNK,            \* the longest value one length byte can tell, 255
          DHCP_FIXED_LEN,   \* the length of a message without options
          DHCP_MTU_MIN, DHCP_MTU_MAX,
          DHCP_FILE_LEN, DHCP_SNAME_LEN,
          BOOTP_LEN,        \* the options of a BOOTP message, 64 bytes
          AGENT_LEN,        \* sizeof(agentopts)
          PRIORITY_COUNT,
          Text,             \* the options of dhcp whose value is text
          Replies,          \* the DHCPv4 replies tried
          Replies6          \* the DHCPv6 replies tried

VARIABLES reply,            \* what is to be sent
          packet,           \* the message
          got,              \* the options the receiver finds in it
          phase

vars == <<reply, packet, got, phase>>

----------------------------------------------------------------------------
(* The options with a meaning of their own. *)
PAD == 0
DHO_SUBNET_MASK == 1
DHO_ROUTERS == 3
DHO_DHCP_OPTION_OVERLOAD == 52
DHO_DHCP_MESSAGE_TYPE == 53
DHO_FQDN == 81
DHO_DHCP_AGENT_OPTIONS == 82
DHO_DHCP_CLIENT_IDENTIFIER == 61
DHO_SUBNET_SELECTION == 118
DHO_VENDOR_ENCAPSULATED_OPTIONS == 43
DHO_END == 255
D6O_VENDOR_OPTS == 17

(* The option spaces: the sizes of tag and length, the code that ends a    *)
(* buffer, whether values of one code are joined, and the option that      *)
(* carries the space.  "space", "space6" and "acme" stand for spaces       *)
(* declared in dhcpd.conf.                                                 *)
Universe(tag, len, end, concat, enc_opt) ==
  [tag |-> tag, len |-> len, end |-> end, concat |-> concat, enc_opt |-> enc_opt]
universes ==
  [dhcp |-> Universe(1, 1, DHO_END, TRUE, <<"", 0>>),
   agent |-> Universe(1, 1, 0, FALSE, <<"dhcp", DHO_DHCP_AGENT_OPTIONS>>),
   space |-> Universe(1, 1, 0, FALSE, <<"dhcp", 200>>),
   dhcp6 |-> Universe(2, 2, 0, FALSE, <<"", 0>>),
   space6 |-> Universe(2, 2, 0, FALSE, <<"dhcp6", 200>>),
   vsio |-> Universe(4, 0, 0, FALSE, <<"dhcp6", D6O_VENDOR_OPTS>>),
   acme |-> Universe(2, 2, 0, FALSE, <<"vsio", 9>>)]

NoOptions == [u \in DOMAIN universes |-> << >>]

(* The spaces an option carries: at most one. *)
Names == <<"dhcp", "agent", "space", "dhcp6", "space6", "vsio", "acme">>
find_option_universe(u, code) == SelectSeq(Names, LAMBDA v : universes[v].enc_opt = <<u, code>>)

lookup_hashed_option(opts, u, code) == IF code \in DOMAIN opts[u] THEN opts[u][code] ELSE << >>
lookup_option(opts, u, code) == lookup_hashed_option(opts, u, code)
save_option(opts, u, code, values) == [opts EXCEPT ![u] = (code :> values) @@ @]

(* Codes in the order of the hash table. *)
Sorted(S) == [i \in 1..Cardinality(S) |-> CHOOSE c \in S : Cardinality({d \in S : d < c}) = i - 1]
Codes(opts, u) == Sorted(DOMAIN opts[u])

(* putUChar(), putUShort(), putULong() and getUChar(), getUShort(),        *)
(* getULong(); the bytes before the last are 0 here.                       *)
PutNumber(n, size) == [i \in 1..size |-> IF i = size THEN n % 256 ELSE 0]
GetNumber(buf, offset, size) == buf[offset + size]

----------------------------------------------------------------------------
(* Encapsulation. *)

append_option(dst, u, code, src) ==
  IF src = << >> THEN dst
  ELSE dst \o PutNumber(code, universes[u].tag) \o PutNumber(Len(src), universes[u].len) \o src

(* An option of a space, without the options that extend its value. *)
store_option(dst, opts, u, code) == append_option(dst, u, code, opts[u][code][1])

(* The options of a space, then the spaces carried by options of it that   *)
(* have no value; nothing if the space itself has no option.               *)
RECURSIVE hashed_option_space_encapsulate(_, _)
search_subencapsulation(dst, opts, u) ==
  FoldLeft(LAMBDA acc, v : append_option(acc, u, universes[v].enc_opt[2],
                                         hashed_option_space_encapsulate(opts, v)),
           dst, SelectSeq(Names, LAMBDA v : /\ universes[v].enc_opt[1] = u
                                            /\ lookup_option(opts, u, universes[v].enc_opt[2]) = << >>))
hashed_option_space_encapsulate(opts, u) ==
  IF DOMAIN opts[u] = {} THEN << >>
  ELSE search_subencapsulation(
         FoldLeft(LAMBDA acc, c : store_option(acc, opts, u, c), << >>, Codes(opts, u)), opts, u)

option_space_encapsulate(opts, u) == hashed_option_space_encapsulate(opts, u)

(* The value of an option, or what its space holds. *)
OptionValue(opts, u, code) ==
  IF lookup_option(opts, u, code) # << >> THEN opts[u][code][1]
  ELSE FoldLeft(LAMBDA acc, v : acc \o option_space_encapsulate(opts, v), << >>,
                find_option_universe(u, code))

----------------------------------------------------------------------------
(* store_options().  The buffer has up to three sections, main (the        *)
(* options field), file and sname: at[s] and end[s] are where a section    *)
(* starts and ends, used[s] what is used of it.                            *)

Sections == <<"main", "file", "sname">>
Put(buf, offset, bytes) ==
  SubSeq(SubSeq(buf, 1, offset) \o bytes \o SubSeq(buf, offset + Len(bytes) + 1, Len(buf)), 1, Len(buf))

(* Duplicates go; of the subnet mask and the routers the mask comes first. *)
RECURSIVE Ordered(_, _)
Ordered(list, i) ==
  LET once == SubSeq(list, 1, i) \o SelectSeq(SubSeq(list, i + 1, Len(list)), LAMBDA c : c # list[i])
      before == {k \in 1..(i - 1) : once[k] = DHO_ROUTERS}
      ix == CHOOSE k \in before : \A j \in before : j <= k
  IN IF i > Len(list) THEN list
     ELSE IF once[i] = DHO_SUBNET_MASK /\ before # {}
     THEN Ordered([once EXCEPT ![ix] = DHO_SUBNET_MASK, ![i] = DHO_ROUTERS], i + 1)
     ELSE Ordered(once, i + 1)

(* A section has room for k more bytes, and one to spare. *)
Room(w, s, k) == s \in DOMAIN w.at /\ w.at[s] + w.used[s] + k < w.end[s]

(* Where the rest of an option goes as a whole: three bytes of main are    *)
(* kept for the overload option unless this is the last option and the     *)
(* other fields are not used, and one byte of the others for the end.      *)
Whole(w, length, last) ==
  SelectSeq(Sections, LAMBDA s :
    IF s = "main" THEN \/ (last /\ (\A t \in DOMAIN w.at : t # "main" => w.used[t] = 0)
                           /\ Room(w, s, 2 + length))
                       \/ Room(w, s, 5 + length)
    ELSE Room(w, s, 3 + length))

(* Mutant: options are only split over the main field. *)
Part_main(w) == IF Room(w, "main", 6) THEN <<"main">> ELSE << >>

(* Where a part of it goes, and how much. *)
Reserved(s) == IF s = "main" THEN 5 ELSE 3
Part(w) == SelectSeq(Sections, LAMBDA s : Room(w, s, Reserved(s) + 1))

(* The chunks of one option; w is as it was when there is no room for all  *)
(* of them, but for what has been written to the buffer.                   *)
RECURSIVE Chunks(_, _, _, _, _, _)
Chunks(w, start, code, data, splitup, last) ==
  LET length == Len(data)
      whole == IF splitup THEN << >> ELSE Whole(w, length, last)
      part == Part(w)
      s == IF whole # << >> THEN whole[1] ELSE part[1]
      incr == Min({length, CHUNK,
                     IF whole # << >> THEN length ELSE w.end[s] - (w.at[s] + w.used[s]) - Reserved(s)})
      at == w.at[s] + w.used[s]
      stored == [w EXCEPT !.buf = Put(@, at, <<code, incr>> \o SubSeq(data, 1, incr)),
                          !.used[s] = @ + 2 + incr,
                          !.over = @ \/ at + 2 + incr > w.end[s]]
  IN IF data = << >> THEN w
     ELSE IF whole = << >> /\ part = << >> THEN [w EXCEPT !.used = start.used]
     ELSE Chunks(stored, start, code, SubSeq(data, incr + 1, length), splitup \/ whole = << >>, last)

format_has_text(code) == code \in Text

Terminated(od, code, terminate) ==
  IF od # << >> /\ terminate /\ format_has_text(code) THEN Append(od, 0) ELSE od
StoreData(w, code, data, last) == Chunks(w, w, code, data, Len(data) > CHUNK, last)
StoreOption(w, opts, code, terminate, last) ==
  StoreData(w, code, Terminated(OptionValue(opts, "dhcp", code), code, terminate), last)

(* The other fields that are used are ended and filled up. *)
Ended(w, s) ==
  IF s \notin DOMAIN w.at \/ w.used[s] = 0 THEN w
  ELSE LET at == w.at[s] + w.used[s]
       IN [w EXCEPT !.buf = Put(@, at, <<DHO_END>> \o [i \in 1..(w.end[s] - at - 1) |-> PAD]),
                    !.over = @ \/ at >= w.end[s]]

Overflowing(w) ==
  (\E s \in DOMAIN w.at \ {"main"} : w.used[s] > 0) /\ w.used["main"] + 3 > w.end["main"]
Closed(w) == [Ended(Ended(w, "file"), "sname") EXCEPT !.over = @ \/ Overflowing(w)]

(* One option after the other; what follows an overrun does not matter. *)
RECURSIVE StoreAll(_, _, _, _)
StoreAll(w, opts, codes, terminate) ==
  IF w.over \/ codes = << >> THEN w
  ELSE StoreAll(StoreOption(w, opts, Head(codes), terminate, Len(codes) = 1), opts, Tail(codes), terminate)

store_options(opts, list, at, end, buflen, terminate) ==
  Closed(StoreAll([buf |-> [i \in 1..buflen |-> PAD], at |-> at, end |-> end,
                   used |-> [s \in DOMAIN at |-> 0], over |-> FALSE],
                  opts, Ordered(list, 1), terminate))

----------------------------------------------------------------------------
(* cons_options() *)

Mandatory == <<DHO_DHCP_MESSAGE_TYPE, 54, 51, 58, 59, 56, 50, 92>>

Limited(list, more) == IF Len(list) < PRIORITY_COUNT THEN list \o more ELSE list
FoldLimited(list, codes) == FoldLeft(LAMBDA acc, c : Limited(acc, <<c>>), list, codes)

(* The options in the order in which they are tried: what the client asked *)
(* for, or all there are. *)
RequestedList(r) ==
  LET select == IF lookup_option(r.opts, "dhcp", DHO_SUBNET_SELECTION) = << >> THEN Mandatory
                ELSE Limited(Mandatory, <<DHO_SUBNET_SELECTION>>)
      echo == IF r.echo THEN Limited(select, <<DHO_DHCP_CLIENT_IDENTIFIER>>) ELSE select
      prl == SubSeq(r.prl, 1, Min({Len(r.prl), PRIORITY_COUNT - Len(echo)}))
      asked == echo \o SelectSeq(prl, LAMBDA c : c # DHO_DHCP_AGENT_OPTIONS)
      fqdn == IF r.fqdn THEN Limited(asked, <<DHO_FQDN>>) ELSE asked
  IN IF r.type \in {"DHCPDISCOVER", "DHCPREQUEST"} THEN Limited(fqdn, <<DHO_SUBNET_MASK>>) ELSE fqdn

AllList(r) ==
  LET first == Mandatory \o <<DHO_SUBNET_MASK, DHO_ROUTERS, 6, 12, DHO_FQDN>>
      notagent(codes) == SelectSeq(codes, LAMBDA c : c # DHO_DHCP_AGENT_OPTIONS)
      carried == FoldLeft(LAMBDA acc, v : IF universes[v].enc_opt[1] = "dhcp"
                                          THEN Append(acc, universes[v].enc_opt[2]) ELSE acc, << >>, Names)
  IN Limited(FoldLimited(FoldLimited(first, notagent(Codes(r.opts, "dhcp"))), notagent(carried)),
             <<DHO_VENDOR_ENCAPSULATED_OPTIONS>>)

priority_list(r) == IF r.prl # << >> THEN RequestedList(r) ELSE AllList(r)

(* The size of the options field. *)
mb_size(r) ==
  LET mms == IF r.client_mms # 0 /\ (r.mms = 0 \/ r.client_mms < r.mms) THEN r.client_mms ELSE r.mms
      min == DHCP_MTU_MIN - DHCP_FIXED_LEN
  IN IF mms = 0 THEN IF r.bootp > 0 THEN Max({BOOTP_LEN, r.bootp}) ELSE min
     ELSE IF mms < DHCP_MTU_MIN THEN min
     ELSE IF mms > DHCP_MTU_MAX THEN DHCP_MTU_MAX - DHCP_FIXED_LEN
     ELSE mms - DHCP_FIXED_LEN

MainBytes(w) == SubSeq(w.buf, 1, w.used["main"])
agentopts(r) ==
  IF r.server THEN MainBytes(store_options(r.opts, <<DHO_DHCP_AGENT_OPTIONS>>, [main |-> 0],
                                           [main |-> AGENT_LEN], AGENT_LEN, FALSE))
  ELSE << >>

(* Offsets are after the four bytes of the cookie. *)
COOKIE == 4

mb_max(r, agent) == Min({mb_size(r) + Len(agent), DHCP_MTU_MAX - DHCP_FIXED_LEN})
of1(size, agent) == (IF size > Len(agent) THEN size - Len(agent) ELSE size) - COOKIE

(* The three sections, the options field being main_len bytes long. *)
Sectioned(r, main_len, file_len, sname_len) ==
  LET there == {"main"} \cup r.overload
  IN [at |-> [s \in there |-> [main |-> 0, file |-> main_len, sname |-> main_len + file_len][s]],
      end |-> [s \in there |-> [main |-> main_len, file |-> main_len + file_len,
                                sname |-> main_len + file_len + sname_len][s]],
      buflen |-> main_len + file_len + sname_len]
Layout(r, main_len) ==
  Sectioned(r, main_len, IF "file" \in r.overload THEN DHCP_FILE_LEN ELSE 0,
            IF "sname" \in r.overload THEN DHCP_SNAME_LEN ELSE 0)

Laid(r, layout) ==
  store_options(r.opts, priority_list(r), layout.at, layout.end, layout.buflen, r.terminate)

Overloaded(w) == {s \in DOMAIN w.at \ {"main"} : w.used[s] > 0}
OverloadOption(over) ==
  IF over = {} THEN << >>
  ELSE <<DHO_DHCP_OPTION_OVERLOAD, 1,
         (IF "file" \in over THEN 1 ELSE 0) + (IF "sname" \in over THEN 2 ELSE 0)>>
MainField(w) == MainBytes(w) \o OverloadOption(Overloaded(w))
OtherField(w, s) == IF s \in Overloaded(w) THEN SubSeq(w.buf, w.at[s] + 1, w.end[s]) ELSE << >>

(* The agent's options come last, and an end if there is room for it. *)
WithAgent(main, agent, size) == IF size - COOKIE - Len(main) >= Len(agent) THEN main \o agent ELSE main
WithEnd(main, size) == IF COOKIE + Len(main) < size THEN Append(main, DHO_END) ELSE main

Message(w, main, agent, size) ==
  [ok |-> w.used["main"] > 0,
   free |-> [s \in DOMAIN w.at |-> w.end[s] - w.at[s] - w.used[s]],
   over |-> w.over \/ size - COOKIE - Len(main) < Len(agent),
   options |-> WithEnd(WithAgent(main, agent, size), size),
   file |-> OtherField(w, "file"),
   sname |-> OtherField(w, "sname")]

Assembled(w, agent, size) == Message(w, MainField(w), agent, size)
Within(r, agent, size) == Assembled(Laid(r, Layout(r, of1(size, agent))), agent, size)
SizedFor(r, agent) == Within(r, agent, mb_max(r, agent))
cons_options(r) == SizedFor(r, agentopts(r))

----------------------------------------------------------------------------
(* parse_option_buffer() *)

(* prepare_option_buffer(): text loses the zeros at its end. *)
RECURSIVE prepare_option_buffer(_, _, _)
prepare_option_buffer(u, code, data) ==
  IF u = "dhcp" /\ format_has_text(code) /\ data # << >> /\ Last(data) = 0
  THEN prepare_option_buffer(u, code, Front(data)) ELSE data

(* The value of an option that was there before is joined with the new one *)
(* or followed by it.                                                      *)
Added(opts, u, code, data) ==
  LET old == lookup_option(opts, u, code)
  IN save_option(opts, u, code,
       IF old = << >> THEN <<prepare_option_buffer(u, code, data)>>
       ELSE IF universes[u].concat THEN <<old[1] \o data>> ELSE Append(old, data))

Parsed(ok, opts) == [ok |-> ok, opts |-> opts]

RECURSIVE ParseFrom(_, _, _, _)
ParseFrom(u, opts, buf, offset) ==
  LET space == universes[u]
      code == GetNumber(buf, offset, space.tag)
      at == offset + space.tag + space.len
      len == IF space.len = 0 THEN Len(buf) - space.tag ELSE GetNumber(buf, at - space.len, space.len)
      data == SubSeq(buf, at + 1, at + len)
      \* parse_encapsulated_suboptions(): whatever it makes of the value
      inner == FoldLeft(LAMBDA acc, v : ParseFrom(v, acc, data, 0).opts, opts,
                        find_option_universe(u, code))
  IN IF offset + space.tag > Len(buf) \/ (offset + space.tag <= Len(buf) /\ code = space.end)
     THEN Parsed(TRUE, opts)
     ELSE IF code = PAD THEN ParseFrom(u, opts, buf, offset + space.tag)
     ELSE IF at > Len(buf) \/ (at <= Len(buf) /\ at + len > Len(buf)) THEN Parsed(FALSE, opts)
     ELSE ParseFrom(u, Added(inner, u, code, data), buf, at + len)

parse_option_buffer(u, opts, buf) == ParseFrom(u, opts, buf, 0)

(* parse_options(): what cannot be parsed is accepted from a server. *)
DHCPOFFER == 2
DHCPACK == 5
DHCPNAK == 6
FromServer(type) == type # << >> /\ type[1][1] \in {DHCPOFFER, DHCPACK, DHCPNAK}

ParseField(parsed, overload, values, field) ==
  IF overload # << >> /\ overload[1][1] \in values /\ parsed.ok
  THEN parse_option_buffer("dhcp", parsed.opts, field) ELSE parsed

ParseFields(p, main, overload) ==
  ParseField(ParseField(Parsed(TRUE, main.opts), overload, {1, 3}, p.file),
             overload, {2, 3}, p.sname)

ParseOthers(p, main) ==
  IF ~main.ok /\ ~FromServer(lookup_option(main.opts, "dhcp", DHO_DHCP_MESSAGE_TYPE)) THEN main
  ELSE ParseFields(p, main, lookup_option(main.opts, "dhcp", DHO_DHCP_OPTION_OVERLOAD))

parse_options(p) == ParseOthers(p, parse_option_buffer("dhcp", NoOptions, p.options))

----------------------------------------------------------------------------
(* DHCPv6: store_options6() *)

add_option6_data(buf, buflen, code, ds) ==
  IF Len(ds) + 4 > buflen - Len(buf) THEN buf
  ELSE buf \o PutNumber(code, 2) \o PutNumber(Len(ds), 2) \o ds

AddAll(buf, r, code) ==
  FoldLeft(LAMBDA acc, ds : add_option6_data(acc, r.buflen, code, ds), buf,
           lookup_option(r.opts, "dhcp6", code))

store_encap6(buf, r, code) ==
  FoldLeft(LAMBDA acc, v : LET ds == option_space_encapsulate(r.opts, v)
                           IN IF ds = << >> THEN acc ELSE add_option6_data(acc, r.buflen, code, ds),
           buf, find_option_universe("dhcp6", code))

Requested6(buf, r, code) ==
  IF code \in Range(r.required) \/ code = D6O_VENDOR_OPTS THEN buf
  ELSE IF lookup_option(r.opts, "dhcp6", code) # << >> THEN AddAll(buf, r, code)
  ELSE store_encap6(buf, r, code)

(* The options of one enterprise, written after the place of the header. *)
vsio_options(r, u, start) ==
  FoldLeft(LAMBDA acc, c :
             IF Len(r.opts[u][c][1]) + universes[u].tag + universes[u].len > r.buflen - start - Len(acc)
             THEN acc
             ELSE acc \o PutNumber(c, universes[u].tag)
                      \o PutNumber(Len(r.opts[u][c][1]), universes[u].len) \o r.opts[u][c][1],
           << >>, Codes(r.opts, u))

Enterprise(buf, r, u) ==
  LET data == vsio_options(r, u, Len(buf) + 8)
  IN IF data = << >> THEN buf
     ELSE buf \o PutNumber(D6O_VENDOR_OPTS, 2) \o PutNumber(Len(data) + 4, 2)
              \o PutNumber(universes[u].enc_opt[2], 4) \o data

store_options6(r) ==
  LET required == FoldLeft(LAMBDA acc, c : AddAll(acc, r, c), << >>, r.required)
      requested == FoldLeft(LAMBDA acc, c : Requested6(acc, r, c), required, r.oro)
      vendors == SelectSeq(Names, LAMBDA u : universes[u].enc_opt[1] = "vsio" /\ DOMAIN r.opts[u] # {})
  IN IF D6O_VENDOR_OPTS \in Range(r.required) \cup Range(r.oro)
     THEN FoldLeft(LAMBDA acc, u : Enterprise(acc, r, u), requested, vendors)
     ELSE requested

----------------------------------------------------------------------------
(* A reply is laid out by its sender and parsed by its receiver. *)

NoPacket == [options |-> << >>]
NoParse == Parsed(FALSE, NoOptions)

Init ==
  /\ reply \in Replies \cup Replies6
  /\ packet = NoPacket
  /\ got = NoParse
  /\ phase = "configured"

Send ==
  /\ phase = "configured" /\ reply.version = 4
  /\ packet' = cons_options(reply)
  /\ phase' = "sent"
  /\ UNCHANGED <<reply, got>>

Send6 ==
  /\ phase = "configured" /\ reply.version = 6
  /\ packet' = [options |-> store_options6(reply)]
  /\ phase' = "sent6"
  /\ UNCHANGED <<reply, got>>

Receive ==
  /\ phase = "sent" /\ packet.ok
  /\ got' = parse_options(packet)
  /\ phase' = "received"
  /\ UNCHANGED <<reply, packet>>

Receive6 ==
  /\ phase = "sent6"
  /\ got' = parse_option_buffer("dhcp6", NoOptions, packet.options)
  /\ phase' = "received6"
  /\ UNCHANGED <<reply, packet>>

Next == Send \/ Send6 \/ Receive \/ Receive6
Spec == Init /\ [][Next]_vars

----------------------------------------------------------------------------
(* Properties. *)

(* The codes in a buffer in their order, a split option more than once. *)
RECURSIVE Headers(_)
Headers(buf) ==
  IF buf = << >> \/ (buf # << >> /\ buf[1] = DHO_END) THEN << >>
  ELSE IF buf[1] = PAD THEN Headers(Tail(buf))
  ELSE <<buf[1]>> \o Headers(SubSeq(buf, buf[2] + 3, Len(buf)))
Sent == Headers(packet.options) \o Headers(packet.file) \o Headers(packet.sname)
Split(code) == Cardinality({i \in DOMAIN Sent : Sent[i] = code}) > 1

(* What the receiver of store_options()'s and cons_options()'s work finds  *)
(* with parse_options() is what was configured: a value that is split over *)
(* several options or over the options, file and sname fields comes        *)
(* together in the right order, a relay agent's option is sent back whole, *)
(* and the options of an encapsulated space are told apart again if the    *)
(* option that carries them is not split.  The NUL that ends a text may    *)
(* stay where the text was split.                                          *)
OptionsReadBack ==
  phase = "received" =>
    /\ got.ok
    /\ \A code \in DOMAIN got.opts["dhcp"] \ {DHO_DHCP_OPTION_OVERLOAD} :
         LET value == OptionValue(reply.opts, "dhcp", code)
             found == got.opts["dhcp"][code]
         IN \/ found = <<value>>
            \/ code \in Text /\ reply.terminate /\ found = <<Append(value, 0)>>
    /\ reply.server /\ OptionValue(reply.opts, "dhcp", DHO_DHCP_AGENT_OPTIONS) # << >>
         => DHO_DHCP_AGENT_OPTIONS \in DOMAIN got.opts["dhcp"]
    /\ \A u \in {"agent", "space"} :
         LET code == universes[u].enc_opt[2]
         IN code \in DOMAIN got.opts["dhcp"] /\ code \notin DOMAIN reply.opts["dhcp"] /\ ~Split(code)
              => got.opts[u] = reply.opts[u]

(* The same of store_options6() and parse_option_buffer(): values come     *)
(* back in their order, those that had no room left out, and so do the     *)
(* options of a vendor.                                                    *)
SubSequence(s, t) == \E I \in SUBSET DOMAIN t : s = [i \in 1..Cardinality(I) |-> t[Sorted(I)[i]]]
OptionsReadBack6 ==
  phase = "received6" =>
    /\ got.ok
    /\ \A code \in DOMAIN got.opts["dhcp6"] \ {D6O_VENDOR_OPTS} :
         SubSequence(got.opts["dhcp6"][code],
                     IF code \in DOMAIN reply.opts["dhcp6"] THEN reply.opts["dhcp6"][code]
                     ELSE <<OptionValue(reply.opts, "dhcp6", code)>>)
    /\ \A u \in {"space6", "acme"} : \A code \in DOMAIN got.opts[u] :
         got.opts[u][code] = reply.opts[u][code]

(* The offsets of store_options() keep to the three fields, there is       *)
(* always room for the overload option and for the relay agent's options,  *)
(* none of the log_fatal() calls about it is reached, and a message is not *)
(* longer than the receiver allows.                                        *)
FieldsHold ==
  /\ phase = "sent" /\ packet.ok =>
       /\ ~packet.over
       /\ COOKIE + Len(packet.options)
            <= Min({mb_size(reply) + Len(agentopts(reply)), DHCP_MTU_MAX - DHCP_FIXED_LEN})
  /\ phase = "sent6" => Len(packet.options) <= reply.buflen

(* What store_options() takes into its list and does not send has no room  *)
(* left, neither as a whole nor split over the three fields; what          *)
(* store_options6() does not send has no room either.                      *)
Usable(s) == IF s \in DOMAIN packet.free /\ packet.free[s] > Reserved(s) + 1 THEN packet.free[s] - Reserved(s) ELSE 0
NothingLeftOut ==
  /\ phase = "received" =>
       \A code \in Range(priority_list(reply)) \ DOMAIN got.opts["dhcp"] :
         LET length == Len(OptionValue(reply.opts, "dhcp", code))
         IN length \notin 1..CHUNK
            \/ length + 1 > FoldLeft(LAMBDA acc, s : acc + Usable(s), 0, Sections)
  /\ phase = "received6" =>
       \A code \in Range(reply.required \o reply.oro) \ {D6O_VENDOR_OPTS} :
         Len(lookup_option(got.opts, "dhcp6", code)) < Len(lookup_option(reply.opts, "dhcp6", code))
           => \E ds \in Range(reply.opts["dhcp6"][code]) :
                Len(ds) + 4 > reply.buflen - Len(packet.options)

(* "If both the subnet mask and the router option are specified in a DHCP  *)
(* reply, the subnet mask option MUST be first" (store_options()), whatever *)
(* the order of the client's list and whichever fields they end up in.     *)
MaskBeforeRouters ==
  phase = "received" =>
    \A i, j \in DOMAIN Sent : Sent[i] = DHO_SUBNET_MASK /\ Sent[j] = DHO_ROUTERS => i < j
=============================================================================
