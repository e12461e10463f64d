------------------------------ MODULE JsonBody ------------------------------
(***************************************************************************)
(* The JSON body parser: the handler of the events of RapidJSON            *)
(* (ToDdwafObjHandler, security/body_parse/body_json.cpp), which builds    *)
(* nested arrays of objects of unknown length in arrays that double, over  *)
(* the pool that recycles the arrays they grew out of (DdwafObjArrPool,    *)
(* security/ddwaf_memres.h).  The reader stops at the end of the value, at *)
(* a syntax error, or where the body was cut; finish() closes what is open.*)
(*                                                                         *)
(* The reader is external: it sends the events of a JSON value, or of a    *)
(* prefix of one.  The value of a scalar, and a key, is the number of its  *)
(* event, so that no two are equal.                                        *)
(***************************************************************************)
EXTENDS Naturals, Sequences, SequencesExt, FiniteSets

CONSTANT MaxEvents     \* events of one document

VARIABLES
  heap,      \* the object arrays, by address; 1 is the slot of the caller
  free,      \* free_: the addresses of recycled arrays, by size
  bufs,      \* bufs_: the containers that are open, the slot first
  open,      \* the reader: the containers it is in, as trees
  events,    \* the reader: number of events sent
  json       \* the parser: idle, reading, or the result of parse_json

jsonVars == <<heap, free, bufs, open, events, json>>

NoKey == 0

Null == 0

Zero == [key |-> NoKey, type |-> "invalid", val |-> 0, n |-> 0, array |-> Null]

Sizes == {2^i : i \in 0..MaxEvents}

-----------------------------------------------------------------------------
(* DdwafObjArrPool *)
Zeroed(size) == [i \in 1..size |-> Zero]

alloc(m, size) ==
  IF m.free[size] = <<>>
  THEN [m EXCEPT !.heap = Append(@, Zeroed(size)), !.ptr = Len(m.heap) + 1]
  ELSE [m EXCEPT !.heap[Last(m.free[size])] = Zeroed(size),
                 !.ptr = Last(m.free[size]),
                 !.free[size] = Front(@)]

(* Mutant: the array that was recycled is the one that is used *)
Recycle_New(m, arr, size) == [m EXCEPT !.free[size] = Append(@, m.ptr)]

Recycle(m, arr, size) == [m EXCEPT !.free[size] = Append(@, arr)]

realloc(arr, cur, size) ==
  LET m == alloc([heap |-> heap, free |-> free, ptr |-> Null], size)
      copied == [m EXCEPT !.heap[m.ptr] =
                   [i \in 1..size |-> IF i <= cur THEN heap[arr][i] ELSE Zero]]
  IN IF cur > 0 THEN Recycle(copied, arr, cur) ELSE m

-----------------------------------------------------------------------------
(* ToDdwafObjHandler *)
Buf(ptr, len, cap) == [ptr |-> ptr, len |-> len, cap |-> cap, key_last |-> FALSE]

Top == Len(bufs)

Fits(b) == b.len < b.cap

(* do_get_slot: the pool and the buffer after it; the slot is the last *)
do_get_slot(for_key) ==
  LET b == bufs[Top]
      same == [heap |-> heap, free |-> free, ptr |-> b.ptr]
      size == IF b.cap = 0 THEN 1 ELSE 2 * b.cap
      grown == realloc(b.ptr, b.cap, size)
  IN IF b.key_last THEN [m |-> same, buf |-> [b EXCEPT !.key_last = FALSE]]
     ELSE IF Fits(b)
     THEN [m |-> same, buf |-> [b EXCEPT !.len = @ + 1, !.key_last = for_key]]
     ELSE [m |-> grown,
           buf |-> [ptr |-> grown.ptr, len |-> b.len + 1, cap |-> size,
                    key_last |-> for_key]]

(* Writes a field or two of the slot, and keeps the others *)
SetSlot(s, key, type, val) ==
  /\ heap' = [s.m.heap EXCEPT ![s.buf.ptr][s.buf.len] =
                [@ EXCEPT !.key  = IF key = NoKey THEN @ ELSE key,
                          !.type = IF key = NoKey THEN type ELSE @,
                          !.val  = IF key = NoKey THEN val ELSE @]]
  /\ free' = s.m.free

(* Null, Bool, Int, Uint, Int64, Uint64, Double and String *)
Scalar ==
  LET s == do_get_slot(FALSE)
  IN /\ SetSlot(s, NoKey, "scalar", events + 1)
     /\ bufs' = [bufs EXCEPT ![Top] = s.buf]

Key ==
  LET s == do_get_slot(TRUE)
  IN /\ SetSlot(s, events + 1, "", 0)
     /\ bufs' = [bufs EXCEPT ![Top] = s.buf]

(* StartObject and StartArray: push_map and push_array *)
Start(type) ==
  LET s == do_get_slot(FALSE)
  IN /\ SetSlot(s, NoKey, type, 0)
     /\ bufs' = Append([bufs EXCEPT ![Top] = s.buf], Buf(Null, 0, 0))

pop_container(h, bs) ==
  LET inner == Last(bs)
      outer == bs[Len(bs) - 1]
  IN [h EXCEPT ![outer.ptr][outer.len].n = inner.len,
               ![outer.ptr][outer.len].array = inner.ptr]

End ==
  /\ heap' = pop_container(heap, bufs)
  /\ bufs' = Front(bufs)
  /\ UNCHANGED free

(* finish: closes the containers from the innermost *)
Closed ==
  LET step(h, k) == pop_container(h, SubSeq(bufs, 1, Len(bufs) + 1 - k))
  IN FoldLeft(step, heap, [k \in 1..(Len(bufs) - 1) |-> k])

finish ==
  /\ heap' = Closed
  /\ bufs' = SubSeq(bufs, 1, 1)
  /\ UNCHANGED free

-----------------------------------------------------------------------------
(* The reader: a container it is in has a key that waits for its value, or *)
(* not; the first is the document itself, which has room for one value     *)
Tree(type, val, items) == [type |-> type, val |-> val, items |-> items]

Container(type) == [type |-> type, key |-> NoKey, items |-> <<>>]

In == Last(open)

TakesValue ==
  \/ In.type = "document" /\ In.items = <<>>
  \/ In.type = "array"
  \/ In.type = "map" /\ In.key # NoKey

WithItem(container, tree) ==
  [container EXCEPT !.items = Append(@, [key |-> container.key, tree |-> tree]),
                    !.key = NoKey]

Put(tree) == [open EXCEPT ![Len(open)] = WithItem(@, tree)]

JsonScalar ==
  /\ TakesValue
  /\ open' = Put(Tree("scalar", events + 1, <<>>))
  /\ Scalar

JsonKey ==
  /\ In.type = "map" /\ In.key = NoKey
  /\ open' = [open EXCEPT ![Len(open)].key = events + 1]
  /\ Key

JsonStart ==
  /\ TakesValue
  /\ \E type \in {"map", "array"} :
       /\ open' = Append(open, Container(type))
       /\ Start(type)

JsonEnd ==
  /\ In.type \in {"map", "array"} /\ In.key = NoKey
  /\ open' = [Front(open) EXCEPT ![Len(open) - 1] =
                WithItem(@, Tree(In.type, 0, In.items))]
  /\ End

JsonEvent ==
  /\ json = "reading"
  /\ events < MaxEvents
  /\ events' = events + 1
  /\ JsonScalar \/ JsonKey \/ JsonStart \/ JsonEnd
  /\ UNCHANGED json

(* The value is complete, or the rest of it is invalid or was cut off *)
JsonFinish ==
  /\ json = "reading"
  /\ finish
  /\ json' = IF bufs[1].len = 0 THEN "failed" ELSE "parsed"
  /\ UNCHANGED <<open, events>>

JsonInit ==
  /\ heap = <<Zeroed(1)>> /\ free = [s \in Sizes |-> <<>>]
  /\ bufs = <<Buf(1, 0, 1)>>
  /\ open = <<Container("document")>> /\ events = 0
  /\ json = "idle"

-----------------------------------------------------------------------------
(* The tree that starts at an object, and the tree the reader was sent *)
RECURSIVE TreeOf(_)
TreeOf(object) ==
  Tree(object.type, object.val,
       [i \in 1..object.n |-> [key  |-> heap[object.array][i].key,
                               tree |-> TreeOf(heap[object.array][i])]])

(* The tree of an unfinished document: a key without a value is kept *)
Kept(container) ==
  IF container.key = NoKey THEN container.items
  ELSE Append(container.items,
              [key |-> container.key, tree |-> Tree("invalid", 0, <<>>)])

Sent ==
  LET step(inner, k) ==
        WithItem(open[k], Tree(open[k + 1].type, 0, Kept(inner)))
      outermost == FoldRight(LAMBDA k, inner : step(inner, k),
                             [k \in 1..(Len(open) - 1) |-> k], Last(open))
  IN outermost.items[1].tree

(* A buffer never holds more objects than its array has room for, and its  *)
(* array has the size the buffer says.                                     *)
BuffersFit ==
  \A k \in DOMAIN bufs :
    /\ bufs[k].len <= bufs[k].cap
    /\ bufs[k].ptr # Null => Len(heap[bufs[k].ptr]) = bufs[k].cap

(* Whatever the document and wherever it ends, the WAF is given the value  *)
(* that was read up to there: every key with its value and every element   *)
(* in its order, although arrays move as they grow and the ones they leave *)
(* are used again.                                                         *)
JsonTreeIsSent == json = "parsed" => TreeOf(heap[1][1]) = Sent

(* The addresses that an object refers to, directly or not *)
RECURSIVE Reach(_)
Reach(object) ==
  IF object.array = Null THEN {}
  ELSE {object.array} \cup UNION {Reach(heap[object.array][i]) : i \in 1..object.n}

(* The recycled arrays are nobody's: none is the array of an open          *)
(* container, none is part of a finished one, and none is offered twice.   *)
RecycledIsFree ==
  LET recycled == UNION {ToSet(free[s]) : s \in Sizes}
      used == {bufs[k].ptr : k \in DOMAIN bufs}
              \cup UNION {UNION {Reach(heap[bufs[k].ptr][i]) : i \in 1..bufs[k].len} :
                          k \in {b \in DOMAIN bufs : bufs[b].ptr # Null}}
  IN /\ recycled \cap used = {}
     /\ \A s \in Sizes : IsInjective(free[s])

(* The WAF is given the JSON value that was sent, out of arrays that are   *)
(* large enough and used by one container at a time.                       *)
JsonSeen == BuffersFit /\ JsonTreeIsSent /\ RecycledIsFree
=============================================================================
