---------------------------- MODULE OmapiObjects ----------------------------
(***************************************************************************)
(* The life of OMAPI objects: reference counts and the chains of inner and *)
(* outer objects (omapip/alloc.c), the waiter that is pasted onto a chain  *)
(* (omapip/dispatch.c) and the tree of tables that maps handles to objects *)
(* (omapip/handle.c).                                                      *)
(***************************************************************************)
EXTENDS Integers, Sequences, FiniteSets

CONSTANTS Objects,      \* the storage objects are allocated from
          Chained,      \* those that are linked into chains: connections,
                        \* protocol, listener, remote and waiter objects;
                        \* the others (leases, hosts...) have handles
          TableSize,    \* OMAPI_HANDLE_TABLE_SIZE
          MaxHandle,    \* bound on omapi_next_handle
          MaxHeld,      \* bound on a program's pointers to one object
          Null

VARIABLES ptr,          \* the pointers inside objects and those outside
          refcnt,       \* o->refcnt
          handle,       \* o->handle, 0 when there is none
          live,         \* the objects allocated and not freed
          table,        \* omapi_handle_table: << >> or <<the outer table>>
          next_handle   \* omapi_next_handle

vars == <<ptr, refcnt, handle, live, table, next_handle>>

\* The places that may hold a pointer to an object: the inner and the outer
\* member of each object, and a program's own variables.
Inner(o) == <<"inner", o>>
Outer(o) == <<"outer", o>>
Held(o, k) == <<"held", o, k>>
Places == {Inner(o) : o \in Chained} \cup {Outer(o) : o \in Chained}
            \cup {Held(o, k) : o \in Objects, k \in 1..MaxHeld}

InnerOf(w, o) == IF o \in Chained THEN w.ptr[Inner(o)] ELSE Null
OuterOf(w, o) == IF o \in Chained THEN w.ptr[Outer(o)] ELSE Null

World == [ptr |-> ptr, refcnt |-> refcnt, handle |-> handle, live |-> live,
          table |-> table, next_handle |-> next_handle]
Becomes(w) ==
    /\ ptr' = w.ptr /\ refcnt' = w.refcnt /\ handle' = w.handle
    /\ live' = w.live /\ table' = w.table /\ next_handle' = w.next_handle

-----------------------------------------------------------------------------
(***************************************************************************)
(* Handles.  A table covers the numbers first..limit-1; a leaf table has   *)
(* objects as children, any other one tables.  A child is << >> or a       *)
(* sequence of one element.                                                *)
(***************************************************************************)

NewTable(first, limit, leafp) ==
    [first |-> first, limit |-> limit, leafp |-> leafp,
     children |-> [i \in 0..TableSize - 1 |-> << >>]]

Covers(t, h) == t.first <= h /\ h < t.limit
Scale(t) == (t.limit - t.first) \div TableSize
Index(t, h) == (h - t.first) \div (IF t.leafp THEN 1 ELSE Scale(t))

\* The table made for an empty slot of an indirect table.
MadeInner(t, i) ==
    NewTable(i * Scale(t) + t.first, i * Scale(t) + t.first + Scale(t),
             Scale(t) = TableSize)

\* Stores o (or nothing, when the handle is cleared) under h in table t.
RECURSIVE omapi_object_handle_in_table(_, _, _)
omapi_object_handle_in_table(h, t, child) ==
    LET i == Index(t, h)
        inner == IF t.children[i] = << >> THEN MadeInner(t, i)
                                          ELSE t.children[i][1]
    IN  [t EXCEPT !.children[i] =
            IF t.leafp THEN child
                       ELSE <<omapi_object_handle_in_table(h, inner, child)>>]

\* Mutant: the present table is not entered in the one put around it.
Enclosed_alone(t, h) ==
    IF h < t.limit THEN t ELSE NewTable(0, t.limit * TableSize, FALSE)

\* The new outer tables put around the present one until h fits.
RECURSIVE Enclosed(_, _)
Enclosed(t, h) ==
    IF h < t.limit THEN t
    ELSE Enclosed([NewTable(0, t.limit * TableSize, FALSE)
                        EXCEPT !.children[0] = <<t>>], h)

\* << >> or <<o>>: what FIND_HAND finds.
RECURSIVE omapi_handle_lookup_in(_, _)
omapi_handle_lookup_in(h, ts) ==
    IF ts = << >> \/ ~Covers(ts[1], h) THEN << >>
    ELSE LET t == ts[1]
             child == t.children[Index(t, h)]
         IN  IF t.leafp THEN child ELSE omapi_handle_lookup_in(h, child)

omapi_handle_lookup(w, h) == omapi_handle_lookup_in(h, w.table)

omapi_handle_clear(w, h) ==
    IF omapi_handle_lookup(w, h) = << >> THEN w
    ELSE [w EXCEPT !.table =
            <<omapi_object_handle_in_table(h, w.table[1], << >>)>>]

\* An object gets its handle when it is first sent to the other end.
omapi_object_handle(w, o) ==
    IF w.handle[o] # 0 THEN w
    ELSE LET h == w.next_handle
             outer == IF w.table = << >> THEN NewTable(0, TableSize, TRUE)
                                         ELSE w.table[1]
         IN  [w EXCEPT !.table = <<omapi_object_handle_in_table(
                                        h, Enclosed(outer, h), <<o>>)>>,
                       !.refcnt[o] = @ + 1, !.handle[o] = h,
                       !.next_handle = h + 1]

-----------------------------------------------------------------------------
(***************************************************************************)
(* References.                                                             *)
(***************************************************************************)

\* Storing into a pointer that is not null is refused.
omapi_object_reference(w, place, o) ==
    IF o = Null \/ w.ptr[place] # Null THEN w
    ELSE [w EXCEPT !.ptr[place] = o, !.refcnt[o] = @ + 1]

Bit(b) == IF b THEN 1 ELSE 0

\* What counts as a reference from the neighbours of o in its chain, not
\* counting the pointer that is being given up.
inner_reference(w, o, place) ==
    LET i == InnerOf(w, o)
    IN  Bit(i # Null /\ OuterOf(w, i) # Null /\ place # Outer(i))

outer_reference(w, o, place) ==
    LET u == OuterOf(w, o)
    IN  Bit(u # Null /\ InnerOf(w, u) # Null /\ place # Inner(u))

handle_reference(w, o) == Bit(w.handle[o] # 0)

\* The references to p from outside its chain: seen while walking inwards,
\* and while walking outwards.
ExtraInward(w, p) ==
    w.refcnt[p]
      - Bit(InnerOf(w, p) # Null /\ OuterOf(w, InnerOf(w, p)) = p)
      - Bit(OuterOf(w, p) # Null) - handle_reference(w, p)

ExtraOutward(w, p) ==
    w.refcnt[p]
      - Bit(OuterOf(w, p) # Null /\ InnerOf(w, OuterOf(w, p)) = p)
      - Bit(InnerOf(w, p) # Null) - handle_reference(w, p)

RECURSIVE ReferencedInward(_, _)
ReferencedInward(w, p) ==
    p # Null /\ (ExtraInward(w, p) # 0 \/ ReferencedInward(w, InnerOf(w, p)))

RECURSIVE ReferencedOutward(_, _)
ReferencedOutward(w, p) ==
    p # Null /\ (ExtraOutward(w, p) # 0 \/ ReferencedOutward(w, OuterOf(w, p)))

extra_references(w, o, place) ==
    /\ inner_reference(w, o, place) + outer_reference(w, o, place)
         + handle_reference(w, o) > 0
    /\ ReferencedInward(w, InnerOf(w, o)) \/ ReferencedOutward(w, OuterOf(w, o))

\* omapi_object_dereference(): the last reference from outside frees the
\* whole chain, every other one only decrements the count.
RECURSIVE omapi_object_dereference(_, _)
omapi_object_dereference(w, place) ==
    LET o == w.ptr[place]
        inr == inner_reference(w, o, place)
        outr == outer_reference(w, o, place)
        last == w.refcnt[o] = inr + outr + handle_reference(w, o) + 1
        less == [w EXCEPT !.ptr[place] = Null, !.refcnt[o] = @ - 1]
        w1 == IF inr = 1 THEN omapi_object_dereference(less, Inner(o)) ELSE less
        w2 == IF outr = 1 THEN omapi_object_dereference(w1, Outer(o)) ELSE w1
        w3 == IF w.handle[o] # 0 THEN omapi_handle_clear(w2, w.handle[o]) ELSE w2
        mine == IF o \in Chained THEN {Inner(o), Outer(o)} ELSE {}
    IN  IF o = Null \/ w.refcnt[o] <= 0 THEN [w EXCEPT !.ptr[place] = Null]
        ELSE IF last /\ ~extra_references(w, o, place)
        THEN [w3 EXCEPT !.live = @ \ {o}, !.handle[o] = 0, !.refcnt[o] = 0,
                        !.ptr = [p \in Places |-> IF p \in mine THEN Null
                                                                ELSE w3.ptr[p]]]
        ELSE less

-----------------------------------------------------------------------------
Init ==
    /\ ptr = [p \in Places |-> Null]
    /\ refcnt = [o \in Objects |-> 0]
    /\ handle = [o \in Objects |-> 0]
    /\ live = {}
    /\ table = << >>
    /\ next_handle = 1

\* omapi_object_allocate(): one reference, the caller's.
Allocate(o) ==
    /\ o \notin live
    /\ Becomes(omapi_object_reference([World EXCEPT !.live = @ \cup {o}],
                                      Held(o, 1), o))

\* A part of the program that has a pointer gives it to another part.
Share(o, k) ==
    /\ {j \in 1..MaxHeld : ptr[Held(o, j)] # Null} # {}
    /\ ptr[Held(o, k)] = Null
    /\ Becomes(omapi_object_reference(World, Held(o, k), o))

Drop(o, k) ==
    /\ ptr[Held(o, k)] # Null
    /\ Becomes(omapi_object_dereference(World, Held(o, k)))

RECURSIVE Innermost(_, _)
Innermost(w, o) == IF InnerOf(w, o) = Null THEN o ELSE Innermost(w, InnerOf(w, o))

\* A new object (a waiter, the protocol's connection...) becomes the
\* innermost one of the chain of o.
Paste(o, new) ==
    /\ o # new
    /\ ptr[Held(o, 1)] = o /\ ptr[Held(new, 1)] = new
    /\ ptr[Inner(new)] = Null /\ ptr[Outer(new)] = Null
    /\ LET inner == Innermost(World, o)
           w == omapi_object_reference(World, Outer(new), inner)
       IN  Becomes(omapi_object_reference(w, Inner(inner), new))

\* The end of omapi_wait_for_completion(): the waiter leaves the chain.
Unpasted(w, waiter) ==
    LET up == w.ptr[Outer(waiter)]
        w1 == omapi_object_dereference(w, Inner(up))
    IN  omapi_object_dereference(w1, Outer(waiter))

Unpaste(waiter) ==
    /\ ptr[Held(waiter, 1)] = waiter
    /\ ptr[Outer(waiter)] # Null /\ ptr[Inner(waiter)] = Null
    /\ Becomes(omapi_object_dereference(Unpasted(World, waiter), Held(waiter, 1)))

\* A message about an object is sent, or one of its attributes asked for.
Send(o) ==
    /\ ptr[Held(o, 1)] = o
    /\ next_handle < MaxHandle
    /\ handle[o] = 0
    /\ Becomes(omapi_object_handle(World, o))

Next ==
    \/ \E o \in Objects : Allocate(o)
    \/ \E o \in Objects, k \in 1..MaxHeld : Share(o, k)
    \/ \E o \in Objects, k \in 1..MaxHeld : Drop(o, k)
    \/ \E o, new \in Chained : Paste(o, new)
    \/ \E o \in Chained : Unpaste(o)
    \/ \E o \in Objects \ Chained : Send(o)

Spec == Init /\ [][Next]_vars

-----------------------------------------------------------------------------
\* The objects of the chain of o.
RECURSIVE Outermost(_, _)
Outermost(w, o) == IF OuterOf(w, o) = Null THEN o ELSE Outermost(w, OuterOf(w, o))
Chain(o) == {p \in live : Outermost(World, p) = Outermost(World, o)}

\* Every pointer leads to an object that is still allocated: giving up a
\* reference never frees an object (or a neighbour in its chain) that some
\* part of the program, a neighbour or the handle table still points to.
NothingDangles ==
    /\ {ptr[p] : p \in Places} \subseteq live \cup {Null}
    /\ \A h \in 1..MaxHandle : \A o \in Objects :
         omapi_handle_lookup(World, h) = <<o>> => o \in live

\* Nothing leaks: an object stays allocated only while the program has a
\* pointer to some object of its chain, although the objects of a chain
\* always refer to each other.
NothingLeaks ==
    \A o \in live : {p \in Chain(o) : \E k \in 1..MaxHeld :
                                        ptr[Held(p, k)] # Null} # {}

\* A handle that was given to the other end finds its own object as long as
\* the object lives, through every enlargement of the tree of tables, and
\* every other number finds nothing: a handle is never used again.
HandlesFind ==
    \A h \in 0..MaxHandle :
        omapi_handle_lookup(World, h) =
            IF {o \in live : handle[o] = h /\ h # 0} = {} THEN << >>
            ELSE <<CHOOSE o \in live : handle[o] = h>>
=============================================================================
