-------------------------------- MODULE Aoi --------------------------------
(***************************************************************************)
(* Area of interest: 3rd/src-c/aoi.c behind lua-aoi.c.  Objects that watch *)
(* or mark move about; a message tells each watcher of the markers that    *)
(* came near.  Objects live in a hash map with chained slots and are       *)
(* counted: one reference while not dropped, one for each hot pair (a pair *)
(* between once and twice the radius, looked at again at each message).    *)
(* Positions are points of a line.                                         *)
(***************************************************************************)
EXTENDS Integers, SequencesExt

CONSTANTS
    Ids,
    Places,     \* positions on the line
    Modes,      \* the flags objects are updated with: sets of "w", "m"
    Radius,     \* AOI_RADIS
    PreAlloc    \* PRE_ALLOC, a power of two: first size of the map

AoiAssumption ==
    /\ Ids \subseteq Nat
    /\ Places \subseteq Int
    /\ Modes \subseteq SUBSET {"w", "m"}
    /\ Radius \in Nat \ {0}
    /\ PreAlloc \in {2 ^ i : i \in 0 .. 16}

VARIABLES
    map,      \* [size, lastfree, slot]: ids to objects
    object,   \* the allocated objects, by pointer
    hot,      \* pairs of pointers looked at again, and whether one has moved
    told,     \* bag of the pairs of ids the last step told
    seen,     \* pairs told since one of them last moved or changed its mode
    far       \* pairs left out as too far apart since then

aoiVars == <<map, object, hot, told, seen, far>>

Null == 0
Invalid == -1
EmptySlot == [id |-> Invalid, obj |-> Null, next |-> -1]

map_new(size) == [size |-> size, lastfree |-> size - 1,
                  slot |-> [i \in 0 .. size - 1 |-> EmptySlot]]

Init ==
    /\ map = map_new(PreAlloc)
    /\ object = <<>>
    /\ hot = {}
    /\ told = EmptyBag /\ seen = {} /\ far = {}

-----------------------------------------------------------------------------
(* The hash map *)

mainposition(m, id) == id % m.size

\* The first of the wanted slots in a chain, -1 when none is.
Along(m, start, wanted) ==
    LET walk[s \in DOMAIN m.slot \union {-1}] ==
            IF s \in wanted \union {-1} THEN s ELSE walk[m.slot[s].next]
    IN walk[start]

Find(m, id) ==
    Along(m, mainposition(m, id), {s \in DOMAIN m.slot : m.slot[s].id = id})

RECURSIVE map_insert(_, _, _)
map_insert(m, id, obj) ==
    LET s == mainposition(m, id)
        old == m.slot[s]
        home == mainposition(m, old.id)
        last == Along(m, home, {t \in DOMAIN m.slot : m.slot[t].next = s})
        evicted == [m EXCEPT !.slot[last].next = old.next,
                             !.slot[s] = [id |-> id, obj |-> obj, next |-> -1]]
        free == {i \in 0 .. m.lastfree : m.slot[i].id = Invalid}
        f == Max(free)
        chained == [m EXCEPT !.lastfree = f - 1,
                      !.slot = [@ EXCEPT ![f] = [id |-> id, obj |-> obj,
                                                 next |-> old.next],
                                         ![s].next = f]]
        used == SelectSeq([i \in 1 .. m.size |-> m.slot[i - 1]],
                          LAMBDA t : t.obj # Null)
        rehash == FoldLeft(LAMBDA r, t : map_insert(r, t.id, t.obj),
                           map_new(2 * m.size), used)
    IN CASE old.id = Invalid -> [m EXCEPT !.slot[s].id = id, !.slot[s].obj = obj]
         [] old.id # Invalid /\ home # s ->
              IF old.obj # Null THEN map_insert(evicted, old.id, old.obj)
                                ELSE evicted
         [] old.id # Invalid /\ home = s ->
              IF free # {} THEN chained ELSE map_insert(rehash, id, obj)

\* The slot keeps its id and its place in the chain.
map_drop(m, id) ==
    IF Find(m, id) = -1 THEN m ELSE [m EXCEPT !.slot[Find(m, id)].obj = Null]

-----------------------------------------------------------------------------
(* Objects *)

\* A space is the part of the state the operators below change.
Space == [map |-> map, object |-> object, hot |-> hot]

Fresh(sp) == Min((1 .. Cardinality(DOMAIN sp.object) + 1) \ DOMAIN sp.object)

new_object(id) == [ref |-> 1, id |-> id, mode |-> {}, last |-> 0, position |-> 0]

\* The object of an id, created when it is not there.
map_query(sp, id) ==
    LET s == Find(sp.map, id)
        p == Fresh(sp)
        object1 == (p :> new_object(id)) @@ sp.object
    IN CASE s = -1 ->
              [ptr |-> p, space |-> [sp EXCEPT !.object = object1,
                                               !.map = map_insert(@, id, p)]]
         [] s # -1 /\ sp.map.slot[s].obj = Null ->
              [ptr |-> p, space |-> [sp EXCEPT !.object = object1,
                                               !.map.slot[s].obj = p]]
         [] OTHER -> [ptr |-> sp.map.slot[s].obj, space |-> sp]

grab_object(sp, p) == [sp EXCEPT !.object[p].ref = @ + 1]

\* Mutant of drop_object: the map keeps the object that is freed.
drop_object_KeepSlot(sp, p) ==
    IF sp.object[p].ref > 1 THEN [sp EXCEPT !.object[p].ref = @ - 1]
    ELSE [sp EXCEPT !.object = [q \in DOMAIN @ \ {p} |-> @[q]]]

drop_object(sp, p) ==
    IF sp.object[p].ref > 1 THEN [sp EXCEPT !.object[p].ref = @ - 1]
    ELSE [sp EXCEPT !.map = map_drop(@, sp.object[p].id),
                    !.object = [q \in DOMAIN @ \ {p} |-> @[q]]]

\* Mutant of drop_pair: the marker keeps its reference.
drop_pair_OneSide(sp, pair) ==
    [drop_object(sp, pair.watcher) EXCEPT !.hot = @ \ {pair}]

drop_pair(sp, pair) ==
    LET once == drop_object(sp, pair.watcher)
    IN [drop_object(once, pair.marker) EXCEPT !.hot = @ \ {pair}]

Distance(x, y) == IF x < y THEN y - x ELSE x - y

PairDistance(sp, w, m) == Distance(sp.object[w].position, sp.object[m].position)

\* Mutant of change_mode: an object that is new has not changed.
change_mode_New(mode, flags) ==
    [mode |-> flags \union (mode \ {"w", "m"}),
     change |-> mode # {} /\ mode \intersect {"w", "m"} # flags]

\* The watcher and marker flags, and whether they changed; an object that is
\* new, or was dropped, has changed.
change_mode(mode, flags) ==
    [mode |-> flags \union (mode \ {"w", "m"}),
     change |-> mode = {} \/ mode \intersect {"w", "m"} # flags]

-----------------------------------------------------------------------------
(* Steps *)

Forget(set, id) == {pair \in set : id \notin {pair[1], pair[2]}}

Become(sp) == map' = sp.map /\ object' = sp.object /\ hot' = sp.hot

\* Mutant of NewVersion: every update counts, however small the move.
NewVersion_Always(pairs, p, moves) ==
    {[pair EXCEPT !.stale = @ \/ p \in {pair.watcher, pair.marker}] : pair \in pairs}

\* ++obj->version: the hot pairs of object p were made for an older one.
NewVersion(pairs, p, moves) ==
    IF ~moves THEN pairs
    ELSE {[pair EXCEPT !.stale = @ \/ p \in {pair.watcher, pair.marker}] : pair \in pairs}

\* aoi_update without 'd'.
Update(id, flags, pos) ==
    LET query == map_query(Space, id)
        p == query.ptr
        was == query.space.object[p]
        back == "drop" \in was.mode
        held == IF back THEN grab_object(query.space, p) ELSE query.space
        change == change_mode(was.mode \ {"drop"}, flags)
        moves == change.change \/ ~(2 * Distance(pos, was.last) < Radius)
        obj == [held.object[p] EXCEPT
                  !.position = pos,
                  !.mode = change.mode \union (IF moves THEN {"move"} ELSE {}),
                  !.last = IF moves THEN pos ELSE @]
    IN /\ Become([held EXCEPT !.object[p] = obj, !.hot = NewVersion(@, p, moves)])
       /\ told' = EmptyBag
       /\ seen' = IF moves THEN Forget(seen, id) ELSE seen
       /\ far' = IF moves THEN Forget(far, id) ELSE far

\* aoi_update with 'd'.
Drop(id) ==
    LET query == map_query(Space, id)
        p == query.ptr
        sp == query.space
    IN /\ Become(IF "drop" \in sp.object[p].mode THEN sp
                 ELSE drop_object([sp EXCEPT !.object[p].mode = {"drop"}], p))
       /\ told' = EmptyBag
       /\ seen' = Forget(seen, id)
       /\ far' = Forget(far, id)

IdsOf(sp, pairs) ==
    {<<sp.object[q.watcher].id, sp.object[q.marker].id>> : q \in pairs}

\* Hot pairs that are stale, dropped, near or far leave the list.
Ended(sp, q) ==
    \/ q.stale
    \/ "drop" \in sp.object[q.watcher].mode \union sp.object[q.marker].mode

InRange(sp, q) == PairDistance(sp, q.watcher, q.marker) < Radius
TooFar(sp, q) == PairDistance(sp, q.watcher, q.marker) > 2 * Radius

\* Mutant of flush_pair: a pair that was told stays hot.
flush_pair_KeepTold(sp) ==
    LET gone == {q \in sp.hot : Ended(sp, q) \/ TooFar(sp, q)}
        live == {q \in sp.hot : ~Ended(sp, q)}
    IN [space |-> FoldLeft(drop_pair, sp, SetToSeq(gone)),
        told |-> IdsOf(sp, {q \in live : InRange(sp, q)}),
        far |-> IdsOf(sp, {q \in live : TooFar(sp, q)})]

flush_pair(sp) ==
    LET gone == {q \in sp.hot : Ended(sp, q) \/ InRange(sp, q) \/ TooFar(sp, q)}
        live == {q \in gone : ~Ended(sp, q)}
    IN [space |-> FoldLeft(drop_pair, sp, SetToSeq(gone)),
        told |-> IdsOf(sp, {q \in live : InRange(sp, q)}),
        far |-> IdsOf(sp, {q \in live : TooFar(sp, q)})]

\* The watchers and markers of the map, one of which moved.
Pairs(sp) ==
    LET listed == {sp.map.slot[i].obj : i \in DOMAIN sp.map.slot} \ {Null}
        Mode(p) == sp.object[p].mode
    IN {[watcher |-> w, marker |-> m, stale |-> FALSE] :
           <<w, m>> \in {<<w, m>> \in listed \X listed :
                           /\ w # m
                           /\ "w" \in Mode(w) /\ "m" \in Mode(m)
                           /\ "move" \in Mode(w) \union Mode(m)}}

\* set_push: who watches or marks has its move taken up.
TakeMoves(sp) ==
    LET Rest(obj) == [obj EXCEPT !.mode = IF @ \intersect {"w", "m"} # {}
                                          THEN @ \ {"move"} ELSE @]
    IN [sp EXCEPT !.object = [p \in DOMAIN @ |-> Rest(@[p])]]

gen_pair(sp, q) ==
    [grab_object(grab_object(sp, q.watcher), q.marker) EXCEPT !.hot = @ \union {q}]

\* aoi_message: the hot pairs, then the pairs of those that moved.
Message ==
    LET flushed == flush_pair(Space)
        sp == flushed.space
        pairs == Pairs(sp)
        kept == {q \in pairs : ~InRange(sp, q) /\ ~TooFar(sp, q)}
        near == IdsOf(sp, {q \in pairs : InRange(sp, q)})
        distant == IdsOf(sp, {q \in pairs : TooFar(sp, q)})
    IN /\ Become(FoldLeft(gen_pair, TakeMoves(sp), SetToSeq(kept)))
       /\ told' = SetToBag(flushed.told) (+) SetToBag(near)
       /\ seen' = seen \union flushed.told \union near
       /\ far' = far \union flushed.far \union distant

Next ==
    \/ \E id \in Ids, flags \in Modes, pos \in Places : Update(id, flags, pos)
    \/ \E id \in Ids : Drop(id)
    \/ Message

Spec == Init /\ [][Next]_aoiVars

-----------------------------------------------------------------------------
(* Properties *)

\* No reference is lost and none is left over: an object lives exactly as
\* long as it is not dropped or a hot pair still points to it, and the map
\* finds it by its id wherever insertion, eviction and rehashing put it.
RefsExact ==
    \A p \in DOMAIN object :
        LET mine == {q \in hot : p = q.watcher}
            theirs == {q \in hot : p = q.marker}
        IN /\ object[p].ref = Cardinality(mine) + Cardinality(theirs)
                              + (IF "drop" \in object[p].mode THEN 0 ELSE 1)
           /\ object[p].ref > 0
           /\ Find(map, object[p].id) # -1
           /\ map.slot[Find(map, object[p].id)].obj = p

\* Nothing points to memory that was freed.
NothingDangles ==
    /\ \A q \in hot : {q.watcher, q.marker} \subseteq DOMAIN object
    /\ \A i \in DOMAIN map.slot : map.slot[i].obj \in DOMAIN object \union {Null}

Has(id, flag) == \E p \in DOMAIN object : object[p].id = id /\ flag \in object[p].mode
PlaceOf(id) == object[CHOOSE p \in DOMAIN object : object[p].id = id].position

\* A watcher is told of a marker once, by the hot pair or by the move, and not
\* again until one of them moved by half the radius, changed its mode or left.
TellsOnce == \A pair \in BagToSet(told') : told'[pair] = 1 /\ pair \notin seen

ToldOnce == [][TellsOnce]_aoiVars

\* The markers in the range of a watcher that it has had no word of.
Untold == {pair \in (Ids \X Ids) \ (seen \union far) :
              /\ pair[1] # pair[2]
              /\ Has(pair[1], "w") /\ Has(pair[2], "m")
              /\ Distance(PlaceOf(pair[1]), PlaceOf(pair[2])) < Radius}

\* After a message every watcher knows the markers in its range, except those
\* that were judged too far since either last moved by half the radius: a
\* pair that drifts back from there is not looked at again.
MessageTells == Untold' # {} => ~Message

InRangeIsTold == [][MessageTells]_aoiVars

=============================================================================
