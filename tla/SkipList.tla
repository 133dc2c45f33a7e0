------------------------------ MODULE SkipList ------------------------------
(***************************************************************************)
(* The ranking of lualib/zrank.lua: a table of scores and, in C, a skip    *)
(* list of the members by score (3rd/src-c/skiplist.c, lua-skiplist.c).    *)
(* A node is named by its member; the list keeps at every level a forward  *)
(* pointer and the number of nodes it passes (its span), from which ranks  *)
(* are computed.  The random level of a new node is any level.             *)
(***************************************************************************)
EXTENDS Integers, SequencesExt

CONSTANTS
    Members,   \* member names, compared byte by byte: numbers above 0
    Scores,
    MaxLevel   \* SKIPLIST_MAXLEVEL

SkipListAssumption ==
    /\ Members \subseteq Nat \ {0}
    /\ Scores \subseteq Int
    /\ MaxLevel \in Nat \ {0}

VARIABLES
    sl,    \* the skip list
    tbl    \* zrank's own table: the score of each member in the list

listVars == <<sl, tbl>>

Header == 0
Null == -1

slCreate ==
    [level |-> 1, length |-> 0, tail |-> Null,
     node |-> (Header :> [score |-> 0, backward |-> Null,
                          forward |-> [i \in 1 .. MaxLevel |-> Null],
                          span |-> [i \in 1 .. MaxLevel |-> 0]])]

Init == sl = slCreate /\ tbl = <<>>

Precedes(list, x, score, member) ==
    \/ list.node[x].score < score
    \/ list.node[x].score = score /\ x < member

\* The search every operation starts with: from the top level down, forward
\* while Go allows the next position.  A position is a node and its rank;
\* the result is the last position at each level.
Descend(list, Go(_)) ==
    LET Next(p, i) == [node |-> list.node[p.node].forward[i],
                       rank |-> p.rank + list.node[p.node].span[i]]
        Walk(start, i) ==
            LET walk[p \in [node : Members \union {Header}, rank : Int]] ==
                    IF Next(p, i).node # Null /\ Go(Next(p, i))
                    THEN walk[Next(p, i)] ELSE p
            IN walk[start]
        at[i \in 1 .. list.level] ==
            Walk(IF i = list.level THEN [node |-> Header, rank |-> 0]
                                   ELSE at[i + 1], i)
    IN at

-----------------------------------------------------------------------------
(* Changes *)

slInsert(list, score, member, level) ==
    LET at == Descend(list, LAMBDA q : Precedes(list, q.node, score, member))
        Update(i) == IF i <= list.level THEN at[i].node ELSE Header
        Crossed(i) == at[1].rank - IF i <= list.level THEN at[i].rank ELSE 0
        Span(i) == IF i <= list.level THEN list.node[Update(i)].span[i]
                                      ELSE list.length
        x == [score |-> score,
              backward |-> IF Update(1) = Header THEN Null ELSE Update(1),
              forward |-> [i \in 1 .. level |-> list.node[Update(i)].forward[i]],
              span |-> [i \in 1 .. level |-> Span(i) - Crossed(i)]]
        Relink(n) ==
            LET Is(i) == Update(i) = n IN
            [list.node[n] EXCEPT
               !.forward = [i \in DOMAIN @ |->
                              IF i <= level /\ Is(i) THEN member ELSE @[i]],
               !.span = [i \in DOMAIN @ |->
                           CASE i <= level /\ Is(i) -> Crossed(i) + 1
                             [] i > level /\ i <= list.level /\ Is(i) -> @[i] + 1
                             [] OTHER -> @[i]],
               !.backward = IF n = x.forward[1] THEN member ELSE @]
    IN [level |-> Max({level, list.level}), length |-> list.length + 1,
        tail |-> IF x.forward[1] = Null THEN member ELSE list.tail,
        node |-> [n \in DOMAIN list.node |-> Relink(n)] @@ (member :> x)]

\* Mutant of slDeleteNode: the node behind keeps its backward pointer.
slDeleteNode_NoBackward(list, x, update) ==
    LET gone == list.node[x]
        Points(n, i) == list.node[n].forward[i] = x
        Is(n, i) == i <= list.level /\ update[i] = n
        Relink(n) ==
            [list.node[n] EXCEPT
               !.span = [i \in DOMAIN @ |->
                           CASE Is(n, i) /\ Points(n, i) -> @[i] + gone.span[i] - 1
                             [] Is(n, i) /\ ~Points(n, i) -> @[i] - 1
                             [] OTHER -> @[i]],
               !.forward = [i \in DOMAIN @ |->
                              IF Is(n, i) /\ Points(n, i) THEN gone.forward[i]
                                                          ELSE @[i]]]
        node == [n \in DOMAIN list.node \ {x} |-> Relink(n)]
        used == {i \in 1 .. list.level : node[Header].forward[i] # Null}
    IN [level |-> Max(used \union {1}), length |-> list.length - 1,
        tail |-> IF gone.forward[1] = Null THEN gone.backward ELSE list.tail,
        node |-> node]

slDeleteNode(list, x, update) ==
    LET gone == list.node[x]
        Points(n, i) == list.node[n].forward[i] = x
        Is(n, i) == i <= list.level /\ update[i] = n
        Relink(n) ==
            [list.node[n] EXCEPT
               !.span = [i \in DOMAIN @ |->
                           CASE Is(n, i) /\ Points(n, i) -> @[i] + gone.span[i] - 1
                             [] Is(n, i) /\ ~Points(n, i) -> @[i] - 1
                             [] OTHER -> @[i]],
               !.forward = [i \in DOMAIN @ |->
                              IF Is(n, i) /\ Points(n, i) THEN gone.forward[i]
                                                          ELSE @[i]],
               !.backward = IF n = gone.forward[1] THEN gone.backward ELSE @]
        node == [n \in DOMAIN list.node \ {x} |-> Relink(n)]
        used == {i \in 1 .. list.level : node[Header].forward[i] # Null}
    IN [level |-> Max(used \union {1}), length |-> list.length - 1,
        tail |-> IF gone.forward[1] = Null THEN gone.backward ELSE list.tail,
        node |-> node]

NodesOf(at) == [i \in DOMAIN at |-> at[i].node]

slDelete(list, score, member) ==
    LET at == Descend(list, LAMBDA q : Precedes(list, q.node, score, member))
        x == list.node[at[1].node].forward[1]
    IN IF x = member /\ list.node[x].score = score
       THEN slDeleteNode(list, x, NodesOf(at)) ELSE list

\* Removes the nodes of rank first .. last; update stays what it was at the
\* start.  Returns the list left and the members the callback was given.
slDeleteByRank(list, first, last) ==
    LET at == Descend(list, LAMBDA q : q.rank < first)
        cut[n \in Nat] ==
            IF n = 0 THEN [list |-> list, removed |-> <<>>]
            ELSE LET was == cut[n - 1]
                     x == was.list.node[at[1].node].forward[1]
                 IN IF x = Null \/ at[1].rank + n > last THEN was
                    ELSE [list |-> slDeleteNode(was.list, x, NodesOf(at)),
                          removed |-> Append(was.removed, x)]
    IN cut[list.length]

-----------------------------------------------------------------------------
(* Queries *)

slGetRank(list, score, member) ==
    LET Upto(q) == Precedes(list, q.node, score, member)
                   \/ (list.node[q.node].score = score /\ q.node = member)
        at == Descend(list, Upto)
        found == {i \in DOMAIN at : at[i].node = member}
    IN IF found = {} THEN 0 ELSE at[Max(found)].rank

slGetNodeByRank(list, rank) ==
    LET at == Descend(list, LAMBDA q : q.rank <= rank)
        found == {i \in DOMAIN at : at[i].rank = rank}
    IN IF rank = 0 \/ rank > list.length \/ found = {} THEN Null
       ELSE at[Max(found)].node

slIsInRange(list, min, max) ==
    /\ min <= max
    /\ list.tail # Null /\ list.node[list.tail].score >= min
    /\ LET x == list.node[Header].forward[1]
       IN x # Null /\ list.node[x].score <= max

\* Mutant of slFirstInRange: the scores equal to the lower end are passed.
slFirstInRange_After(list, min, max) ==
    LET at == Descend(list, LAMBDA q : list.node[q.node].score <= min)
    IN IF slIsInRange(list, min, max)
       THEN list.node[at[1].node].forward[1] ELSE Null

slFirstInRange(list, min, max) ==
    LET at == Descend(list, LAMBDA q : list.node[q.node].score < min)
    IN IF slIsInRange(list, min, max)
       THEN list.node[at[1].node].forward[1] ELSE Null

slLastInRange(list, min, max) ==
    LET at == Descend(list, LAMBDA q : list.node[q.node].score <= max)
    IN IF slIsInRange(list, min, max) THEN at[1].node ELSE Null

\* The nodes from x on, in either direction, while they are within, at most n.
Collect(list, x, n, reverse, within) ==
    LET Step(y) == IF reverse THEN list.node[y].backward
                              ELSE list.node[y].forward[1]
        take[k \in Nat] ==
            IF k = 0 THEN [next |-> x, out |-> <<>>]
            ELSE LET was == take[k - 1]
                 IN IF was.next \in {Null, Header} \/ was.next \notin within
                    THEN [was EXCEPT !.next = Null]
                    ELSE [next |-> Step(was.next), out |-> Append(was.out, was.next)]
    IN take[n].out

get_rank_range(list, r1, r2) ==
    LET count == 1 + IF r1 <= r2 THEN r2 - r1 ELSE r1 - r2
    IN Collect(list, slGetNodeByRank(list, r1), count, r1 > r2, DOMAIN list.node)

get_score_range(list, s1, s2) ==
    LET within == {x \in DOMAIN list.node : IF s1 <= s2 THEN list.node[x].score <= s2
                                                        ELSE list.node[x].score >= s2}
        first == IF s1 <= s2 THEN slFirstInRange(list, s1, s2)
                             ELSE slLastInRange(list, s2, s1)
    IN Collect(list, first, list.length, s1 > s2, within)

-----------------------------------------------------------------------------
(* zrank *)

Without(t, gone) == [m \in DOMAIN t \ gone |-> t[m]]

add(score, member, level) ==
    /\ ~(member \in DOMAIN tbl /\ tbl[member] = score)
    /\ LET cleared == IF member \in DOMAIN tbl
                      THEN slDelete(sl, tbl[member], member) ELSE sl
       IN sl' = slInsert(cleared, score, member, level)
    /\ tbl' = (member :> score) @@ tbl

rem(member) ==
    /\ member \in DOMAIN tbl
    /\ sl' = slDelete(sl, tbl[member], member)
    /\ tbl' = Without(tbl, {member})

reverse_rank(r) == sl.length - r + 1

\* delete_by_rank of the wrapper orders its bounds.
DeleteRanks(r1, r2) ==
    LET done == slDeleteByRank(sl, Min({r1, r2}), Max({r1, r2}))
    IN /\ sl' = done.list
       /\ tbl' = Without(tbl, Range(done.removed))

\* Mutant of limit: the last rank to keep is deleted, too.
limit_Inclusive(count) == sl.length > count /\ DeleteRanks(count, sl.length)

limit(count) == sl.length > count /\ DeleteRanks(count + 1, sl.length)

rev_limit(count) ==
    /\ sl.length > count
    /\ DeleteRanks(reverse_rank(count + 1), reverse_rank(sl.length))

Next ==
    \/ \E m \in Members, s \in Scores, l \in 1 .. MaxLevel : add(s, m, l)
    \/ \E m \in Members : rem(m)
    \/ \E count \in 0 .. Cardinality(Members) : limit(count) \/ rev_limit(count)

Spec == Init /\ [][Next]_listVars

-----------------------------------------------------------------------------
(* Properties *)

\* What the ranking should be: the members of the table by score, then name.
Ranking ==
    LET Below(k, m) == tbl[k] < tbl[m] \/ (tbl[k] = tbl[m] /\ k < m)
        Before(m) == {k \in DOMAIN tbl : Below(k, m)}
    IN [r \in 1 .. Cardinality(DOMAIN tbl) |->
           CHOOSE m \in DOMAIN tbl : Cardinality(Before(m)) = r - 1]

\* The list and zrank's table stay the same set of members in the right
\* order, in both directions, whatever the levels drawn.
ListMatchesTable ==
    LET n == Len(Ranking) IN
    /\ sl.length = n
    /\ sl.tail = IF n = 0 THEN Null ELSE Ranking[n]
    /\ DOMAIN sl.node = {Header} \union DOMAIN tbl
    /\ get_rank_range(sl, 1, n + 1) = Ranking
    /\ n > 0 => get_rank_range(sl, n, 1) = Reverse(Ranking)

\* Ranks are right at every level: the spans a change left behind add up for
\* every member, every rank and every range of scores asked for.
QueriesExact ==
    /\ \A r \in DOMAIN Ranking :
          /\ slGetRank(sl, tbl[Ranking[r]], Ranking[r]) = r
          /\ slGetNodeByRank(sl, r) = Ranking[r]
    /\ \A s1 \in Scores, s2 \in Scores :
          LET inside == SelectSeq(Ranking, LAMBDA m :
                            tbl[m] \in Min({s1, s2}) .. Max({s1, s2}))
          IN get_score_range(sl, s1, s2) = IF s1 <= s2 THEN inside
                                                       ELSE Reverse(inside)

\* limit keeps the head of the ranking and rev_limit its tail, whole.
LimitKeeps ==
    \A count \in 0 .. Cardinality(Members) : sl'.length < sl.length =>
        /\ limit(count) => Ranking' = SubSeq(Ranking, 1, count)
        /\ rev_limit(count) =>
              Ranking' = SubSeq(Ranking, Len(Ranking) - count + 1, Len(Ranking))

LimitKeepsTheRest == [][LimitKeeps]_listVars

=============================================================================
