----------------------------- MODULE UrlEncoded -----------------------------
(***************************************************************************)
(* Percent-decoding, the iterator over key=value pairs (security/decode)   *)
(* and its two users: parse_urlencoded for a form body                     *)
(* (security/body_parse/body_parsing.cpp) and set_value_from_iter for the  *)
(* query, the cookies and the headers (security/collection.cpp).           *)
(*                                                                         *)
(* A text is a sequence of characters.  Both users count the occurrences   *)
(* of every key first, allocate, and fill in a second pass.                *)
(***************************************************************************)
EXTENDS Naturals, Sequences, SequencesExt, FiniteSets, TLC

Hex == {"2", "5", "6"}

Space == " "

(* The character of a pair of hexadecimal digits *)
ByteOf ==
  (<<"2", "2">> :> "q") @@ (<<"2", "5">> :> "%") @@ (<<"2", "6">> :> "&") @@
  (<<"5", "2">> :> "R") @@ (<<"5", "5">> :> "U") @@ (<<"5", "6">> :> "V") @@
  (<<"6", "2">> :> "b") @@ (<<"6", "5">> :> "e") @@ (<<"6", "6">> :> "f")

decode_plus(c) == IF c = "+" THEN Space ELSE c

(* What a character that starts no escape stands for *)
Plain(plus, c) == IF plus THEN decode_plus(c) ELSE c

(* One character of decode_percent; prev is the character before it *)
DecodeStep(plus, d, c) ==
  CASE d.state = "normal" /\ c = "%" -> [d EXCEPT !.state = "percent"]
    [] d.state = "normal" /\ c # "%" -> [d EXCEPT !.out = Append(@, Plain(plus, c))]
    [] d.state = "percent" /\ c \in Hex -> [d EXCEPT !.state = "percent1", !.prev = c]
    [] d.state = "percent" /\ c \notin Hex ->
         [d EXCEPT !.out = @ \o <<"%", decode_plus(c)>>, !.state = "normal"]
    [] d.state = "percent1" /\ c \in Hex ->
         [d EXCEPT !.out = Append(@, ByteOf[<<d.prev, c>>]), !.state = "normal"]
    [] d.state = "percent1" /\ c \notin Hex ->
         [d EXCEPT !.out = @ \o <<"%", d.prev, Plain(plus, c)>>, !.state = "normal"]

decode_percent(plus, sv) ==
  LET step(d, c) == DecodeStep(plus, d, c)
      end == FoldLeft(step, [out |-> <<>>, state |-> "normal", prev |-> ""], sv)
  IN CASE end.state = "normal"   -> end.out
       [] end.state = "percent"  -> end.out \o <<"%">>
       [] end.state = "percent1" -> end.out \o <<"%", end.prev>>

-----------------------------------------------------------------------------
(* QueryStringIter *)

Before(sv, c) ==
  IF Contains(sv, c) THEN SubSeq(sv, 1, SelectInSeq(sv, LAMBDA x : x = c) - 1) ELSE sv

After(sv, c) ==
  IF Contains(sv, c)
  THEN SubSeq(sv, SelectInSeq(sv, LAMBDA x : x = c) + 1, Len(sv)) ELSE <<>>

RECURSIVE Segments(_, _)
(* The segments the iterator stops at: none after a final separator *)
Segments(qs, separator) ==
  IF qs = <<>> THEN <<>>
  ELSE <<Before(qs, separator)>> \o Segments(After(qs, separator), separator)

RECURSIVE TrimLeft(_)
TrimLeft(sv) == IF sv # <<>> /\ Head(sv) = Space THEN TrimLeft(Tail(sv)) ELSE sv

decode_no_trim(sv) == decode_percent(TRUE, sv)

decode_trim(sv) == Reverse(TrimLeft(Reverse(TrimLeft(decode_no_trim(sv)))))

Decoded(trim, sv) == IF trim THEN decode_trim(sv) ELSE decode_no_trim(sv)

(* The pairs of a query string, decoded; none of them is a deletion *)
QueryStringIter(qs, separator, trim) ==
  [i \in 1..Len(Segments(qs, separator)) |->
     LET kv == Segments(qs, separator)[i]
     IN [key   |-> Decoded(trim, Before(kv, "=")),
         value |-> Decoded(trim, After(kv, "=")),
         del   |-> FALSE]]

-----------------------------------------------------------------------------
KeysOf(items) == {items[i].key : i \in DOMAIN items}

Count(items, key) == Cardinality({i \in DOMAIN items : items[i].key = key})

Unset == <<"unset">>   \* an object of an array that was not written

(* A ddwaf object for a key that occurs num times: a string, or an array   *)
(* with room for all of them, of which the first n are visible             *)
Object(key, num, n) == [key |-> key, array |-> num # 1, n |-> n,
                        elems |-> [j \in 1..num |-> Unset]]

(* Writing past the room of the array is undefined *)
WriteAt(o, j, value) ==
  IF j \in DOMAIN o.elems THEN [o EXCEPT !.elems[j] = value, !.n = j]
  ELSE [o EXCEPT !.n = j, !.elems = Append(@, <<"out of bounds">>)]

(* parse_urlencoded: the body's objects, one for every key *)
FillForm(o, value) ==
  IF o.array THEN WriteAt(o, o.n + 1, value) ELSE WriteAt(o, 1, value)

parse_urlencoded(body) ==
  LET items == QueryStringIter(body, "&", FALSE)
      allocated == [key \in KeysOf(items) |-> Object(key, Count(items, key), 0)]
      step(objects, item) == [objects EXCEPT ![item.key] = FillForm(@, item.value)]
  IN FoldLeft(step, allocated, items)

(* set_value_from_iter: the entries in the order of their first occurrence *)
NewEntry(num, item) ==
  IF num = 1 THEN WriteAt(Object(item.key, 1, 1), 1, item.value)
  ELSE IF item.del THEN Object(item.key, num, num)
  ELSE WriteAt(Object(item.key, num, num), 1, item.value)

NextEntry(o, item) ==
  IF item.del THEN [o EXCEPT !.n = 0] ELSE WriteAt(o, o.n + 1, item.value)

set_value_from_iter(items) ==
  LET step(entries, item) ==
        LET i == SelectInSeq(entries, LAMBDA o : o.key = item.key)
        IN IF i = 0 THEN Append(entries, NewEntry(Count(items, item.key), item))
           ELSE [entries EXCEPT ![i] = NextEntry(@, item)]
  IN FoldLeft(step, <<>>, items)

(* What a reader of an object sees *)
Visible(o) == [j \in 1..o.n |-> IF j \in DOMAIN o.elems THEN o.elems[j] ELSE Unset]

(* The values of every key, in their order: what both functions are for *)
Grouped(items) ==
  [key \in KeysOf(items) |->
     LET of == SelectSeq(items, LAMBDA it : it.key = key)
     IN [i \in DOMAIN of |-> of[i].value]]

FormValues(objects) == [key \in DOMAIN objects |-> Visible(objects[key])]

EntryValues(entries) ==
  [key \in {entries[i].key : i \in DOMAIN entries} |->
     Visible(entries[SelectInSeq(entries, LAMBDA o : o.key = key)])]
=============================================================================
