----------------------------- MODULE Collections ----------------------------
(***************************************************************************)
(* What the containers of docs/LANGUAGE_SPEC.md, sections 19.7 to 19.9,      *)
(* promise: a map keeps the place of a key's first insertion and its last    *)
(* value, a vec is a sequence, a string builder the text appended so far,    *)
(* and the string made from one does not change with it.                     *)
(***************************************************************************)
EXTENDS Integers, Sequences

CONSTANTS Key, Value, Piece

VARIABLES order,   \* the keys, in the order of their first insertion
          value,   \* the keys' values, -1 for a key that is not in the map
          elems,   \* the elements of the vec
          text,    \* the pieces of the string builder
          made     \* the string made from it, as <<text>>; <<>> if there is none
vars == <<order, value, elems, text, made>>

NoValues == [k \in Key |-> -1]
Init == /\ order = <<>> /\ value = NoValues /\ elems = <<>> /\ text = <<>> /\ made = <<>>

Set(k, v) == /\ value' = [value EXCEPT ![k] = v]
             /\ order' = IF \E i \in DOMAIN order : order[i] = k THEN order ELSE Append(order, k)
             /\ UNCHANGED <<elems, text, made>>

Push(v) == elems' = Append(elems, v) /\ UNCHANGED <<order, value, text, made>>
SetAt(i, v) == /\ i \in DOMAIN elems
               /\ elems' = [elems EXCEPT ![i] = v]
               /\ UNCHANGED <<order, value, text, made>>
Pop == /\ elems # <<>>
       /\ elems' = SubSeq(elems, 1, Len(elems) - 1)
       /\ UNCHANGED <<order, value, text, made>>

AppendPiece(w) == text' = Append(text, w) /\ UNCHANGED <<order, value, elems, made>>
Make == made' = <<text>> /\ UNCHANGED <<order, value, elems, text>>
Destroy == made' = <<>> /\ UNCHANGED <<order, value, elems, text>>

\* Containers vanish with their allocator.
Vanish == /\ \/ order' = <<>> /\ value' = NoValues
             \/ UNCHANGED <<order, value>>
          /\ elems' \in {elems, <<>>} /\ text' \in {text, <<>>}
          /\ UNCHANGED made

Next == \/ \E k \in Key, v \in Value : Set(k, v)
        \/ \E v \in Value : Push(v)
        \/ \E i \in DOMAIN elems, v \in Value : SetAt(i, v)
        \/ \E w \in Piece : AppendPiece(w)
        \/ Pop \/ Make \/ Destroy \/ Vanish
Spec == Init /\ [][Next]_vars
=============================================================================
