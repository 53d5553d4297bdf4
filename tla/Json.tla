-------------------------------- MODULE Json --------------------------------
(***************************************************************************)
(* json_lite: the recursive descent of parse over the tokens of a text     *)
(* from which removeWhiteSpaces has taken the blanks, and serialize, which *)
(* writes a node.  Part of Settings.                                       *)
(*                                                                         *)
(* A token is [t, v]: a mark; a literal; "open", a literal without its     *)
(* closing quote, which is always the last token; a number with at most    *)
(* one dot, not in front; a word that starts with true or false; null;     *)
(* anything else is "other".  A scalar node is its token.  A hash is       *)
(* [t |-> "{", v |-> key -> node], an array [t |-> "[", v |-> nodes].      *)
(***************************************************************************)
EXTENDS Integers, SequencesExt

Mark(t) == [t |-> t, v |-> t]

Scalars == {"literal", "number", "boolean", "null"}

\* stream[offset]: the text, a zero, and whatever the memory holds after that.
At(text, i, past) ==
    IF i <= Len(text) THEN text[i].t
    ELSE IF i = Len(text) + 1 THEN "end" ELSE past

\* What may lie behind the zero: marks that end the parse one way or another.
Junk == {"}", "]", "other"}

Failed == [ok |-> FALSE, next |-> 0]
Got(node, i) == [ok |-> TRUE, node |-> node, next |-> i]

\* Mutant: no comma is expected after an item.
AfterItemOnly(text, i, past) == i

\* A comma after an item is skipped, and not missed.
AfterItem(text, i, past) == IF At(text, i, past) = "," THEN i + 1 ELSE i

\* hashNode::add: insert leaves a key alone that is there already.
Add(hash, key, node) == hash @@ (key :> node)

RECURSIVE parseTrusted(_, _, _), extractHash(_, _, _, _), extractArray(_, _, _, _)

\* A value at offset i.  An open literal moves the offset behind the zero.
parseTrusted(text, i, past) ==
    LET t == At(text, i, past) IN
    CASE t = "{" -> extractHash(text, i + 1, past, [k \in {} |-> Failed])
      [] t = "[" -> extractArray(text, i + 1, past, <<>>)
      [] t \in Scalars -> Got(text[i], i + 1)
      [] t = "open" -> Got([t |-> "literal", v |-> text[i].v], i + 2)
      [] OTHER -> Failed

\* The rest of a hash, from a key or the closing brace on.
extractHash(text, i, past, hash) ==
    CASE At(text, i, past) = "}" -> Got([t |-> "{", v |-> hash], i + 1)
      [] At(text, i, past) = "literal" /\ At(text, i + 1, past) = ":" ->
            LET item == parseTrusted(text, i + 2, past) IN
            IF item.ok
            THEN extractHash(text, AfterItem(text, item.next, past), past,
                             Add(hash, text[i].v, item.node))
            ELSE Failed
      [] OTHER -> Failed

\* The rest of an array.
extractArray(text, i, past, nodes) ==
    IF At(text, i, past) = "]" THEN Got([t |-> "[", v |-> nodes], i + 1)
    ELSE LET item == parseTrusted(text, i, past) IN
         IF item.ok
         THEN extractArray(text, AfterItem(text, item.next, past), past,
                           Append(nodes, item.node))
         ELSE Failed

\* json::parse: what follows the first value is not looked at.
parse(text, past) == parseTrusted(text, 1, past)

-----------------------------------------------------------------------------
\* Items with commas between them, and the mark that closes them.
Closed(items, mark) ==
    FlattenSeq([i \in 1..Len(items) |->
        Append(items[i], Mark(IF i = Len(items) THEN mark ELSE ","))])

RECURSIVE serialize(_)

\* serialize of each kind of node.  An empty hash gets no closing brace.
serialize(node) ==
    CASE node.t = "{" ->
            LET keys == SetToSeq(DOMAIN node.v) IN
            <<Mark("{")>> \o Closed([i \in 1..Len(keys) |->
                <<[t |-> "literal", v |-> keys[i]], Mark(":")>>
                    \o serialize(node.v[keys[i]])], "}")
      [] node.t = "[" ->
            IF node.v = <<>> THEN <<Mark("["), Mark("]")>>
            ELSE <<Mark("[")>> \o Closed([i \in 1..Len(node.v) |->
                    serialize(node.v[i])], "]")
      [] OTHER -> <<node>>
=============================================================================
