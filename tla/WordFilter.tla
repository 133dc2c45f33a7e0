----------------------------- MODULE WordFilter -----------------------------
(***************************************************************************)
(* The word filter of 3rd/src-c/lua-crab.c.  A dictionary is a tree of     *)
(* hash tables of characters; the one in use, g_dict, is shared by all     *)
(* services of the process, which run on several threads: one may open a   *)
(* new dictionary while another is in the middle of a text.                *)
(***************************************************************************)
EXTENDS Integers, SequencesExt

CONSTANTS
    WordLists,   \* lists of words given to open; a word is a sequence of
                 \* characters, numbers, or NotANumber
    Texts,       \* texts given to filter
    Star         \* the character of '*'

WordFilterAssumption ==
    /\ \A list \in WordLists : \A i \in DOMAIN list : list[i] \in Seq(Int)
    /\ \A text \in Texts : text \in Seq(Nat)

VARIABLES
    g_dict,      \* the dictionary in use, None before the first open
    reading,     \* the dictionary and the text of the filter under way
    output       \* the last text filtered, with the words and the text it was made from

filterVars == <<g_dict, reading, output>>

None == [table |-> <<>>, words |-> <<>>]
Idle == [dict |-> None, text |-> <<>>]
NotANumber == -1
NoOutput == <<<<>>, <<>>, <<>>>>

Init == g_dict = None /\ reading = Idle /\ output = NoOutput

-----------------------------------------------------------------------------
(* Hash tables *)

NoTable == <<>>
EmptyNode == [key |-> 0, next |-> -1, flag |-> "nil", value |-> NoTable]

NewTable(n) == [capacity |-> n, lastfree |-> n - 1,
                node |-> [i \in 0 .. n - 1 |-> EmptyNode]]

table_new == NewTable(1)

mainposition(t, key) == key % t.capacity

Free(t) == {i \in 0 .. t.lastfree : t.node[i].flag = "nil"}

\* The first of the wanted slots in a chain, -1 when the chain ends before.
Along(t, start, wanted) ==
    LET walk[i \in DOMAIN t.node \union {-1}] ==
            IF i \in wanted \union {-1} THEN i ELSE walk[t.node[i].next]
    IN walk[start]

\* The slot of a key, -1 when it has none.
table_get(t, key) ==
    LET mp == mainposition(t, key) IN
    IF t.node[mp].flag = "nil" THEN -1
    ELSE Along(t, mp, {i \in DOMAIN t.node : t.node[i].key = key})

RECURSIVE table_newkey(_, _)
table_expand(t) ==
    LET old == SelectSeq([i \in 1 .. t.capacity |-> t.node[i - 1]],
                         LAMBDA n : n.flag # "nil")
        Reinsert(new, n) ==
            LET at == table_newkey(new, n.key)
            IN [at.table EXCEPT !.node[at.slot].flag = n.flag,
                                !.node[at.slot].value = n.value]
    IN FoldLeft(Reinsert, NewTable(2 * t.capacity), old)

\* A table with room for the key, and the slot it took.
table_newkey(t, key) ==
    LET mp == mainposition(t, key)
        n == Max(Free(t))
        spent == [t EXCEPT !.lastfree = n]
        home == mainposition(t, t.node[mp].key)
        before == Along(t, home, {i \in DOMAIN t.node : t.node[i].next = mp})
        Fill(node) == [node EXCEPT !.key = key, !.flag = "n"]
        \* the node in the way is not in its main position: it moves to n
        moved == [spent EXCEPT !.node =
                    [@ EXCEPT ![before].next = n, ![n] = t.node[mp],
                              ![mp] = Fill(EmptyNode)]]
        \* it is: the new key goes to n, behind it
        chained == [spent EXCEPT !.node =
                      [@ EXCEPT ![n] = Fill([@ EXCEPT !.next = t.node[mp].next]),
                                ![mp].next = n]]
    IN CASE t.node[mp].flag = "nil" ->
              [table |-> [t EXCEPT !.node[mp] = Fill(@)], slot |-> mp]
         [] t.node[mp].flag # "nil" /\ Free(t) = {} ->
              table_newkey(table_expand(t), key)
         [] t.node[mp].flag # "nil" /\ Free(t) # {} ->
              IF home # mp THEN [table |-> moved, slot |-> mp]
                           ELSE [table |-> chained, slot |-> n]

table_insert(t, key) ==
    IF table_get(t, key) # -1 THEN [table |-> t, slot |-> table_get(t, key)]
                              ELSE table_newkey(t, key)

\* One word, character by character, a table for each.
RECURSIVE dict_insert(_, _)
dict_insert(t, word) ==
    LET at == table_insert(t, Head(word))
        sub == at.table.node[at.slot].value
        below == dict_insert(IF sub = NoTable THEN table_new ELSE sub, Tail(word))
    IN CASE word = <<>> -> t
         [] Len(word) = 1 -> [at.table EXCEPT !.node[at.slot].flag = "o"]
         [] OTHER -> [at.table EXCEPT !.node[at.slot].value = below]

-----------------------------------------------------------------------------
(* Steps *)

IsLegal(list) == \A i \in DOMAIN list : NotANumber \notin Range(list[i])

\* dict_open: the new dictionary is built in private and then put in use.  A
\* word that is not made of numbers raises an error, and the old one stays.
\* The old one is never closed: another thread may be in it.
Open(list) ==
    /\ g_dict' = IF IsLegal(list)
                 THEN [table |-> FoldLeft(dict_insert, table_new, list),
                       words |-> list]
                 ELSE g_dict
    /\ UNCHANGED <<reading, output>>

\* dict_filter takes the dictionary once and keeps it to the end.
FilterStart(text) ==
    /\ g_dict # None /\ reading = Idle
    /\ reading' = [dict |-> g_dict, text |-> text]
    /\ output' = NoOutput
    /\ UNCHANGED g_dict

\* Mutant of Match: the first word that ends is taken.
RECURSIVE Match_Shortest(_, _, _)
Match_Shortest(t, text, depth) ==
    LET i == IF text = <<>> THEN -1 ELSE table_get(t, Head(text))
        deeper == IF t.node[i].value = NoTable THEN 0
                  ELSE Match_Shortest(t.node[i].value, Tail(text), depth + 1)
    IN IF i = -1 THEN 0
       ELSE IF t.node[i].flag = "o" THEN depth + 1 ELSE deeper

\* The length of the longest word that starts the text, 0 if none does.
RECURSIVE Match(_, _, _)
Match(t, text, depth) ==
    LET i == IF text = <<>> THEN -1 ELSE table_get(t, Head(text))
        deeper == IF t.node[i].value = NoTable THEN 0
                  ELSE Match(t.node[i].value, Tail(text), depth + 1)
        here == IF t.node[i].flag = "o" THEN depth + 1 ELSE 0
    IN IF i = -1 THEN 0 ELSE Max({here, deeper})

RECURSIVE Filtered(_, _)
Filtered(t, text) ==
    LET step == Match(t, text, 0)
        Rest(n) == Filtered(t, SubSeq(text, n + 1, Len(text)))
    IN CASE text = <<>> -> <<>>
         [] text # <<>> /\ step > 0 -> [i \in 1 .. step |-> Star] \o Rest(step)
         [] text # <<>> /\ step = 0 -> <<Head(text)>> \o Rest(1)

FilterEnd ==
    /\ reading # Idle
    /\ output' = <<reading.dict.words, reading.text,
                   Filtered(reading.dict.table, reading.text)>>
    /\ reading' = Idle
    /\ UNCHANGED g_dict

Next ==
    \/ \E list \in WordLists : Open(list)
    \/ \E text \in Texts : FilterStart(text)
    \/ FilterEnd

Spec == Init /\ [][Next]_filterVars

-----------------------------------------------------------------------------
(* Properties *)

\* The words that start a text at a place, and the mask they leave.
Starts(word, text) == Len(word) \in 1 .. Len(text) /\ SubSeq(text, 1, Len(word)) = word

RECURSIVE Masked(_, _)
Masked(words, text) ==
    LET lengths == {Len(words[i]) : i \in {i \in DOMAIN words : Starts(words[i], text)}}
        n == Max(lengths)
    IN CASE text = <<>> -> <<>>
         [] text # <<>> /\ lengths # {} ->
              [i \in 1 .. n |-> Star] \o Masked(words, SubSeq(text, n + 1, Len(text)))
         [] OTHER -> <<Head(text)>> \o Masked(words, Tail(text))

\* A text loses exactly the longest words of one dictionary, from the left:
\* the dictionary that was in use when the filter began, however the words
\* collide in its tables and whatever is opened meanwhile.
FilterExact == output[3] = Masked(output[1], output[2])

=============================================================================
