--------------------------- MODULE LibraryProofs ---------------------------
(***************************************************************************)
(* What Lua code calls in C and what loads it, one library after the       *)
(* other: references to callbacks, the code cache, the loading of files,   *)
(* the encryption of their texts, and the logger.  The libraries share     *)
(* nothing; each has an inductive invariant of its own.                    *)
(***************************************************************************)
EXTENDS LuaRefs, CodeCache, LoadFile, DesText, MyLog, InductionLemmas,
        FiniteSetTheorems, SequenceTheorems, TLAPS

-----------------------------------------------------------------------------
(* References to callbacks *)

\* A slot on the free list holds a number, a slot in use a callback.
Free(i) == i \in Used /\ registry[i] \in Int

Holds(k) == state[k] = "live" /\ callback[k] # Nil

\* The free list stays within the free slots, and no two links meet.
ListInv ==
    /\ freelist # 0 => Free(freelist)
    /\ \A i \in Slot : Free(i) /\ registry[i] # 0 =>
          Free(registry[i]) /\ registry[i] # freelist
    /\ \A i, j \in Slot :
          Free(i) /\ Free(j) /\ i # j /\ registry[i] # 0 => registry[i] # registry[j]

\* Live objects have slots of their own.
SlotsInv ==
    /\ \A k \in Kcp : state[k] = "live" /\ callback[k] = Nil => handle[k] = LUA_REFNIL
    /\ \A k \in Kcp : Holds(k) => handle[k] \in Slot
    /\ \A k, j \in Kcp : Holds(k) /\ Holds(j) /\ k # j => handle[k] # handle[j]

RefsInv == RefsTypeOK /\ ListInv /\ SlotsInv /\ CallbackIsOwn

LEMMA RefsInitInv == RefsInit => RefsInv
BY RefsAssumption DEF RefsInit, RefsInv, RefsTypeOK, ListInv, SlotsInv, CallbackIsOwn, Used,
   Free, Holds, Slot, LUA_REFNIL

\* luaL_ref takes a slot that no live object has, and leaves theirs alone.
LEMMA RefStep ==
    ASSUME RefsInv, NEW f \in Callback, NEW r \in {LUA_REFNIL} \union Slot,
           luaL_ref(f, r)
    PROVE  /\ r \in Slot
           /\ registry' \in [Used' -> Callback \union {0} \union Slot]
           /\ Used' \subseteq Slot /\ Used \subseteq Used' /\ r \in Used'
           /\ freelist' \in {0} \union Slot
           /\ registry'[r] = f
           /\ \A i \in Used : i # r => registry'[i] = registry[i]
           /\ \A k \in Kcp : Holds(k) => handle[k] # r
           /\ ListInv'
<1> USE RefsAssumption
<1> f # Nil /\ f \notin Int
  OBVIOUS
<1>1. CASE freelist # 0
  <2>1. /\ r = freelist /\ freelist' = registry[r]
        /\ registry' = [registry EXCEPT ![r] = f]
        /\ Free(r) /\ r \in Slot /\ r \in Used
    BY <1>1 DEF luaL_ref, RefsInv, ListInv, RefsTypeOK, Free
  <2>2. /\ Used' = Used
        /\ registry' \in [Used -> Callback \union {0} \union Slot]
        /\ registry'[r] = f
        /\ \A i \in Used : i # r => registry'[i] = registry[i]
    BY <2>1 DEF Used, RefsInv, RefsTypeOK
  <2>3. freelist' \in {0} \union Slot
    BY <2>1 DEF Free, RefsInv, RefsTypeOK, Slot
  <2>4. \A k \in Kcp : Holds(k) => handle[k] # r
    BY <2>1 DEF RefsInv, Free, CallbackIsOwn, Holds, RefsTypeOK
  <2>5. \A i \in Slot : Free(i)' => i # r /\ Free(i) /\ registry'[i] = registry[i]
    BY <2>2 DEF Free
  <2>6. \A i \in Slot : Free(i) /\ i # r => Free(i)'
    BY <2>2 DEF Free
  <2>7. \A i \in Slot : Free(i) /\ registry[i] # 0 => registry[i] # r /\ registry[i] \in Slot
    BY <2>1 DEF RefsInv, ListInv, Free, RefsTypeOK
  <2>8. (freelist # 0 => Free(freelist))' /\ freelist' # r
    BY <2>1, <2>3, <2>7, <2>2, RefsAssumption DEF RefsInv, ListInv, Free, RefsTypeOK, Slot
  <2>9. \A i \in Slot : Free(i)' /\ registry'[i] # 0 =>
          (Free(registry[i]) /\ registry[i] # freelist)'
    BY <2>1, <2>5, <2>6, <2>7 DEF RefsInv, ListInv
  <2>10. \A i, j \in Slot : Free(i)' /\ Free(j)' /\ i # j /\ registry'[i] # 0 =>
            registry'[i] # registry'[j]
    BY <2>5 DEF RefsInv, ListInv
  <2> QED
    BY <2>1, <2>2, <2>3, <2>4, <2>8, <2>9, <2>10 DEF ListInv, Free
<1>2. CASE freelist = 0
  <2>1. /\ IsNext(r) /\ r \in Slot /\ r \notin Used
        /\ registry' = [i \in Used \union {r} |-> IF i = r THEN f ELSE registry[i]]
        /\ freelist' = 0
    BY <1>2 DEF luaL_ref, IsNext
  <2>2. /\ Used' = Used \union {r} /\ registry'[r] = f
        /\ \A i \in Used : registry'[i] = registry[i]
        /\ registry' \in [Used' -> Callback \union {0} \union Slot]
    BY <2>1 DEF Used, RefsInv, RefsTypeOK
  <2>3. \A k \in Kcp : Holds(k) => handle[k] # r
    BY <2>1 DEF RefsInv, CallbackIsOwn, Holds
  <2>4. \A i \in Slot : Free(i)' <=> Free(i)
    BY <2>1, <2>2 DEF Free
  <2>5. \A i \in Slot : Free(i) => registry'[i] = registry[i]
    BY <2>2 DEF Free
  <2>6. \A i \in Slot : Free(i) /\ registry[i] # 0 =>
          registry[i] \in Slot /\ Free(registry[i])
    BY DEF RefsInv, ListInv, Free, RefsTypeOK
  <2>7. ListInv'
    <3>1. \A i \in Slot : Free(i)' /\ registry'[i] # 0 =>
             (Free(registry[i]) /\ registry[i] # freelist)'
      BY <2>1, <2>4, <2>5, <2>6
    <3>2. \A i, j \in Slot : Free(i)' /\ Free(j)' /\ i # j /\ registry'[i] # 0 =>
             registry'[i] # registry'[j]
      BY <2>4, <2>5 DEF RefsInv, ListInv
    <3> QED
      BY <2>1, <3>1, <3>2 DEF ListInv, Free
  <2> QED
    BY <2>1, <2>2, <2>3, <2>7 DEF RefsInv, RefsTypeOK
<1> QED
  BY <1>1, <1>2

\* luaL_unref puts the slot of a live object at the head of the list.
LEMMA UnrefStep ==
    ASSUME RefsInv, NEW k \in Kcp, Holds(k), luaL_unref(handle[k])
    PROVE  /\ registry' \in [Used' -> Callback \union {0} \union Slot]
           /\ Used' = Used
           /\ freelist' \in {0} \union Slot
           /\ \A i \in Used : i # handle[k] => registry'[i] = registry[i]
           /\ ListInv'
<1> USE RefsAssumption
<1> DEFINE r == handle[k]
<1>1. r \in Slot /\ r \in Used /\ r >= 0 /\ r # 0 /\ registry[r] \in Callback
  BY DEF RefsInv, SlotsInv, CallbackIsOwn, Holds, RefsTypeOK, Slot
<1>2. registry' = [registry EXCEPT ![r] = freelist] /\ freelist' = r
  BY <1>1 DEF luaL_unref
<1>3. /\ Used' = Used /\ registry'[r] = freelist
      /\ \A i \in Used : i # r => registry'[i] = registry[i]
      /\ registry' \in [Used -> Callback \union {0} \union Slot]
  BY <1>1, <1>2 DEF Used, RefsInv, RefsTypeOK
<1>4. ~Free(r) /\ freelist \in Int
  BY <1>1 DEF Free, RefsInv, RefsTypeOK, Slot
<1>5. \A i \in Slot : Free(i)' <=> (Free(i) \/ i = r)
  BY <1>1, <1>3, <1>4 DEF Free
<1>6. \A i \in Slot : Free(i) => i # r /\ registry'[i] = registry[i]
  BY <1>3, <1>4 DEF Free
<1>7. \A i \in Slot : Free(i) /\ registry[i] # 0 =>
        registry[i] \in Slot /\ Free(registry[i]) /\ registry[i] # freelist
  BY DEF RefsInv, ListInv, Free, RefsTypeOK
<1>8. freelist # 0 => freelist \in Slot /\ Free(freelist)
  BY DEF RefsInv, ListInv, RefsTypeOK
<1>9. \A i \in Slot : Free(i)' /\ registry'[i] # 0 =>
        (Free(registry[i]) /\ registry[i] # freelist)'
  <2> SUFFICES ASSUME NEW i \in Slot, Free(i)', registry'[i] # 0
               PROVE  (Free(registry[i]) /\ registry[i] # freelist)'
    OBVIOUS
  <2>1. CASE i = r
    BY <2>1, <1>2, <1>3, <1>4, <1>5, <1>8
  <2>2. CASE i # r
    BY <2>2, <1>2, <1>4, <1>5, <1>6, <1>7
  <2> QED
    BY <2>1, <2>2
<1>10. \A i, j \in Slot : Free(i)' /\ Free(j)' /\ i # j /\ registry'[i] # 0 =>
          registry'[i] # registry'[j]
  <2> SUFFICES ASSUME NEW i \in Slot, NEW j \in Slot, Free(i)', Free(j)', i # j,
                      registry'[i] # 0
               PROVE  registry'[i] # registry'[j]
    OBVIOUS
  <2>1. CASE i = r
    BY <2>1, <1>3, <1>5, <1>6, <1>7
  <2>2. CASE j = r
    BY <2>2, <1>3, <1>5, <1>6, <1>7
  <2>3. CASE i # r /\ j # r
    BY <2>3, <1>5, <1>6 DEF RefsInv, ListInv
  <2> QED
    BY <2>1, <2>2, <2>3
<1>11. (freelist # 0 => Free(freelist))'
  BY <1>1, <1>2, <1>5 DEF Free
<1> QED
  BY <1>1, <1>2, <1>3, <1>9, <1>10, <1>11 DEF ListInv

LEMMA CreateInv ==
    ASSUME RefsInv, NEW k \in Kcp, NEW f \in Callback \union {Nil}, Create(k, f)
    PROVE  RefsInv'
<1> USE RefsAssumption
<1>1. PICK r \in {LUA_REFNIL} \union Slot :
         luaL_ref(f, r) /\ handle' = [handle EXCEPT ![k] = r]
  BY DEF Create
<1>2. /\ callback' = [callback EXCEPT ![k] = f]
      /\ state' = [state EXCEPT ![k] = "live"] /\ state[k] = "none"
  BY DEF Create
<1>3. RefsTypeOK /\ ListInv /\ SlotsInv /\ CallbackIsOwn
  BY DEF RefsInv
<1>4. /\ state' \in [Kcp -> {"none", "live", "collected"}]
      /\ handle' \in [Kcp -> {LUA_REFNIL} \union Slot]
      /\ callback' \in [Kcp -> Callback \union {Nil}]
      /\ handle'[k] = r /\ callback'[k] = f
      /\ \A j \in Kcp : j # k => /\ state'[j] = state[j] /\ handle'[j] = handle[j]
                                 /\ callback'[j] = callback[j]
  BY <1>1, <1>2, <1>3 DEF RefsTypeOK
<1>5. CASE f = Nil
  <2>1. r = LUA_REFNIL /\ UNCHANGED <<registry, freelist>>
    BY <1>1, <1>5 DEF luaL_ref
  <2>2. RefsTypeOK'
    BY <2>1, <1>3, <1>4 DEF RefsTypeOK, Used
  <2>3. ListInv'
    BY <2>1, <1>3 DEF ListInv, Free, Used
  <2>4. SlotsInv'
    BY <2>1, <1>3, <1>4, <1>5 DEF SlotsInv, Holds
  <2>5. CallbackIsOwn'
    BY <2>1, <1>3, <1>4, <1>5 DEF CallbackIsOwn, Used
  <2> QED
    BY <2>2, <2>3, <2>4, <2>5 DEF RefsInv
<1>6. CASE f \in Callback
  <2>1. /\ r \in Slot
        /\ registry' \in [Used' -> Callback \union {0} \union Slot]
        /\ Used' \subseteq Slot /\ Used \subseteq Used' /\ r \in Used'
        /\ freelist' \in {0} \union Slot
        /\ registry'[r] = f
        /\ \A i \in Used : i # r => registry'[i] = registry[i]
        /\ \A j \in Kcp : Holds(j) => handle[j] # r
        /\ ListInv'
    BY <1>1, <1>6, RefStep
  <2>2. RefsTypeOK'
    BY <2>1, <1>4 DEF RefsTypeOK
  <2>3. SlotsInv'
    BY <2>1, <1>3, <1>4, <1>6 DEF SlotsInv, Holds
  <2>4. CallbackIsOwn'
    BY <2>1, <1>3, <1>4 DEF CallbackIsOwn, Holds
  <2> QED
    BY <2>1, <2>2, <2>3, <2>4 DEF RefsInv
<1> QED
  BY <1>5, <1>6

LEMMA CreateFailsInv ==
    ASSUME RefsInv, NEW f \in Callback, CreateFails(f)
    PROVE  RefsInv'
<1>1. PICK r \in {LUA_REFNIL} \union Slot : luaL_ref(f, r)
  BY DEF CreateFails
<1>2. UNCHANGED <<state, handle, callback>>
  BY DEF CreateFails
<1>3. /\ registry' \in [Used' -> Callback \union {0} \union Slot]
      /\ Used' \subseteq Slot /\ Used \subseteq Used'
      /\ freelist' \in {0} \union Slot
      /\ \A i \in Used : i # r => registry'[i] = registry[i]
      /\ \A j \in Kcp : Holds(j) => handle[j] # r
      /\ ListInv'
  BY <1>1, RefStep
<1>4. RefsTypeOK /\ SlotsInv /\ CallbackIsOwn
  BY DEF RefsInv
<1>5. RefsTypeOK'
  BY <1>2, <1>3, <1>4 DEF RefsTypeOK
<1>6. SlotsInv'
  BY <1>2, <1>4 DEF SlotsInv, Holds
<1>7. CallbackIsOwn'
  BY <1>2, <1>3, <1>4 DEF CallbackIsOwn, Holds
<1> QED
  BY <1>3, <1>5, <1>6, <1>7 DEF RefsInv

LEMMA CollectInv ==
    ASSUME RefsInv, NEW k \in Kcp, Collect(k)
    PROVE  RefsInv'
<1> USE RefsAssumption
<1>1. /\ state[k] = "live" /\ luaL_unref(handle[k])
      /\ state' = [state EXCEPT ![k] = "collected"]
      /\ UNCHANGED <<handle, callback>>
  BY DEF Collect
<1>2. RefsTypeOK /\ ListInv /\ SlotsInv /\ CallbackIsOwn
  BY DEF RefsInv
<1>3. /\ state' \in [Kcp -> {"none", "live", "collected"}]
      /\ state'[k] # "live"
      /\ \A j \in Kcp : j # k => state'[j] = state[j]
  BY <1>1, <1>2 DEF RefsTypeOK
<1>4. SlotsInv'
  BY <1>1, <1>2, <1>3 DEF SlotsInv, Holds
<1>5. CASE callback[k] = Nil
  <2>1. UNCHANGED <<registry, freelist>>
    BY <1>1, <1>2, <1>5 DEF SlotsInv, luaL_unref, LUA_REFNIL
  <2> QED
    BY <2>1, <1>1, <1>2, <1>3, <1>4
       DEF RefsInv, RefsTypeOK, ListInv, Free, Used, CallbackIsOwn
<1>6. CASE callback[k] # Nil
  <2>1. Holds(k)
    BY <1>1, <1>6 DEF Holds
  <2>2. /\ registry' \in [Used' -> Callback \union {0} \union Slot]
        /\ Used' = Used
        /\ freelist' \in {0} \union Slot
        /\ \A i \in Used : i # handle[k] => registry'[i] = registry[i]
        /\ ListInv'
    BY <1>1, <2>1, UnrefStep
  <2>3. RefsTypeOK'
    BY <1>1, <1>2, <1>3, <2>2 DEF RefsTypeOK
  <2>4. CallbackIsOwn'
    <3> SUFFICES ASSUME NEW j \in Kcp, state'[j] = "live", callback'[j] # Nil
                 PROVE  handle'[j] \in Used' /\ registry'[handle'[j]] = callback'[j]
      BY DEF CallbackIsOwn
    <3>1. j # k /\ Holds(j) /\ handle[j] # handle[k]
      BY <1>1, <1>2, <1>3, <2>1 DEF SlotsInv, Holds
    <3> QED
      BY <3>1, <1>1, <1>2, <2>2 DEF CallbackIsOwn, Holds
  <2> QED
    BY <2>2, <2>3, <2>4, <1>4 DEF RefsInv
<1> QED
  BY <1>5, <1>6

\* A live KCP object calls back its own callback, for any number of objects,
\* callbacks and slots: the invariant is that the free list runs through
\* slots no live object has, and that no two of its links meet.
THEOREM OwnCallbacks == RefsSpec => []CallbackIsOwn
<1>1. RefsInv /\ [RefsNext]_refsVars => RefsInv'
  <2>1. ASSUME RefsInv, UNCHANGED refsVars PROVE RefsInv'
    BY <2>1 DEF RefsInv, RefsTypeOK, ListInv, SlotsInv, CallbackIsOwn, Free, Holds, Used, refsVars
  <2> QED
    BY <2>1, CreateInv, CreateFailsInv, CollectInv DEF RefsNext
<1>2. RefsInv => CallbackIsOwn
  BY DEF RefsInv
<1> QED
  BY RefsInitInv, <1>1, <1>2, PTL DEF RefsSpec

-----------------------------------------------------------------------------
(* The code cache *)

\* A state that is open but not entered belongs to one thread.
LoadsInv ==
    /\ \A t \in Thread : load[t].eL # NULL =>
          /\ load[t].eL \in open
          /\ \A k \in File : load[t].eL \notin entered[k]
    /\ \A t, u \in Thread :
          t # u /\ load[t].eL # NULL => load[t].eL # load[u].eL
    /\ \A t \in Thread : load[t].step = "save" => load[t].eL # NULL
    /\ \A t \in Thread :
          load[t].step \in {"compile", "save", "clone"} => load[t].file \in File
    /\ \A t \in Thread : load[t].step = "compile" => load[t].eL = NULL

\* What was entered stays open, and only that is offered, cloned or run.
EnteredInv ==
    /\ \A k \in File : entered[k] \subseteq open
    /\ \A k \in File : cache[k] # NULL => cache[k] \in entered[k]
    /\ \A t \in Thread : load[t].step = "clone" => load[t].proto \in entered[load[t].file]
    /\ \A t \in Thread : \A s \in running[t] : \E k \in File : s \in entered[k]

CacheInv == CacheTypeOK /\ LoadsInv /\ EnteredInv

LEMMA CacheInitInv == CacheInit => CacheInv
<1> SUFFICES ASSUME CacheInit PROVE CacheInv
  OBVIOUS
<1> USE CacheAssumption
<1>1. CacheTypeOK
  BY DEF CacheInit, CacheTypeOK, NoLoad, Levels, CACHE_ON
<1>2. LoadsInv
  BY DEF CacheInit, LoadsInv, NoLoad
<1>3. EnteredInv
  BY DEF CacheInit, EnteredInv, NoLoad
<1> QED
  BY <1>1, <1>2, <1>3 DEF CacheInv

LEMMA LoadFileInv ==
    ASSUME CacheInv, NEW t \in Thread, NEW k \in File, LoadFile(t, k)
    PROVE  CacheInv'
<1> USE CacheAssumption DEF CacheInv, NoLoad
<1>1. CASE /\ mode[t] # CACHE_OFF /\ cache[k] # NULL
           /\ load' = [load EXCEPT ![t] = [step |-> "clone", file |-> k,
                                           eL |-> NULL, proto |-> cache[k]]]
  <2>1. UNCHANGED <<cache, mode, open, entered, running, clears>>
    BY DEF LoadFile
  <2>2. CacheTypeOK'
    BY <1>1, <2>1 DEF CacheTypeOK
  <2>3. LoadsInv'
    BY <1>1, <2>1 DEF LoadsInv, CacheTypeOK
  <2>4. EnteredInv'
    BY <1>1, <2>1 DEF EnteredInv, CacheTypeOK
  <2> QED
    BY <2>2, <2>3, <2>4
<1>2. CASE /\ mode[t] = CACHE_ON /\ cache[k] = NULL
           /\ load' = [load EXCEPT ![t] = [NoLoad EXCEPT !.step = "compile", !.file = k]]
  <2>1. UNCHANGED <<cache, mode, open, entered, running, clears>>
    BY DEF LoadFile
  <2>2. CacheTypeOK'
    BY <1>2, <2>1 DEF CacheTypeOK
  <2>3. LoadsInv'
    BY <1>2, <2>1 DEF LoadsInv, CacheTypeOK
  <2>4. EnteredInv'
    BY <1>2, <2>1 DEF EnteredInv, CacheTypeOK
  <2> QED
    BY <2>2, <2>3, <2>4
<1> QED
  BY <1>1, <1>2 DEF LoadFile

LEMMA CompileInv ==
    ASSUME CacheInv, NEW t \in Thread, NEW eL \in State, Compile(t, eL)
    PROVE  CacheInv'
<1> USE CacheAssumption DEF CacheInv
<1>1. /\ load[t].step = "compile"
      /\ eL \notin open
      /\ \A k \in File : eL \notin entered[k]
      /\ open' = open \union {eL}
      /\ load' = [load EXCEPT ![t].step = "save", ![t].eL = eL]
      /\ UNCHANGED <<cache, mode, entered, running, clears>>
  BY DEF Compile
<1> DEFINE saving == [load[t] EXCEPT !.step = "save", !.eL = eL]
<1>7. /\ open' = open \union {eL} /\ entered' = entered
      /\ \A k \in File : eL \notin entered[k]
  BY <1>1
<1>5. saving \in [step : {"idle", "compile", "save", "clone"}, file : File \union {NULL},
                eL : State \union {NULL}, proto : State \union {NULL}]
  BY DEF CacheTypeOK
<1>6. load' = [load EXCEPT ![t] = saving]
  BY <1>1 DEF CacheTypeOK
<1>2. CacheTypeOK'
  <2> HIDE DEF saving
  <2>1. load' \in [Thread -> [step : {"idle", "compile", "save", "clone"},
                             file : File \union {NULL}, eL : State \union {NULL},
                             proto : State \union {NULL}]]
    BY <1>5, <1>6 DEF CacheTypeOK
  <2>2. open' \subseteq State
    BY <1>1 DEF CacheTypeOK
  <2> QED
    BY <1>1, <2>1, <2>2 DEF CacheTypeOK
<1>3. LoadsInv'
  <2>1. /\ load'[t].eL = eL /\ load'[t].step = "save" /\ load'[t].file = load[t].file
        /\ \A u \in Thread : u # t => load'[u] = load[u]
    <3>1. load \in [Thread -> [step : {"idle", "compile", "save", "clone"},
                               file : File \union {NULL}, eL : State \union {NULL},
                               proto : State \union {NULL}]]
      BY DEF CacheTypeOK
    <3>2. load'[t] = saving /\ \A u \in Thread : u # t => load'[u] = load[u]
      BY <1>6, <3>1
    <3>3. saving.eL = eL /\ saving.step = "save" /\ saving.file = load[t].file
      BY <3>1
    <3> QED
      BY <3>2, <3>3
  <2>2. \A u \in Thread : load[u].eL # NULL => load[u].eL \in open
    BY DEF LoadsInv
  <2>3. \A u, v \in Thread :
          u # v /\ load'[u].eL # NULL => load'[u].eL # load'[v].eL
    <3>1. \A u \in Thread : u # t => load'[u].eL # eL
      BY <1>1, <2>1, <2>2
    <3>2. \A u, v \in Thread : u # v /\ load[u].eL # NULL => load[u].eL # load[v].eL
      BY DEF LoadsInv
    <3> QED
      BY <2>1, <3>1, <3>2
  <2>4. \A u \in Thread : load'[u].eL # NULL =>
          load'[u].eL \in open' /\ \A k \in File : load'[u].eL \notin entered'[k]
    <3>1. \A u \in Thread : load[u].eL # NULL =>
            load[u].eL \in open /\ \A k \in File : load[u].eL \notin entered[k]
      BY DEF LoadsInv
    <3>2. \A u \in Thread : u # t => load'[u] = load[u]
      BY <2>1
    <3>3. \A u \in Thread : u # t /\ load'[u].eL # NULL =>
            load'[u].eL \in open' /\ \A k \in File : load'[u].eL \notin entered'[k]
      BY <1>7, <3>1, <3>2
    <3>4. load'[t].eL \in open' /\ \A k \in File : load'[t].eL \notin entered'[k]
      BY <1>7, <2>1
    <3> QED
      BY <3>3, <3>4
  <2>5. \A u \in Thread :
          /\ load'[u].step = "save" => load'[u].eL # NULL
          /\ load'[u].step \in {"compile", "save", "clone"} => load'[u].file \in File
          /\ load'[u].step = "compile" => load'[u].eL = NULL
    <3>1. \A u \in Thread :
            /\ load[u].step = "save" => load[u].eL # NULL
            /\ load[u].step \in {"compile", "save", "clone"} => load[u].file \in File
            /\ load[u].step = "compile" => load[u].eL = NULL
      BY DEF LoadsInv
    <3> QED
      BY <1>1, <2>1, <3>1
  <2> QED
    BY <2>3, <2>4, <2>5 DEF LoadsInv
<1>4. EnteredInv'
  BY <1>1 DEF EnteredInv, CacheTypeOK
<1> QED
  BY <1>2, <1>3, <1>4

LEMMA CompileFailsInv ==
    ASSUME CacheInv, NEW t \in Thread, CompileFails(t)
    PROVE  CacheInv'
<1> USE CacheAssumption DEF CacheInv, NoLoad, CompileFails
<1>1. CacheTypeOK'
  BY DEF CacheTypeOK
<1>2. LoadsInv'
  BY DEF LoadsInv, CacheTypeOK
<1>3. EnteredInv'
  BY DEF EnteredInv, CacheTypeOK
<1> QED
  BY <1>1, <1>2, <1>3

\* The types of the loads in progress.
Loads ==
    [step : {"idle", "compile", "save", "clone"}, file : File \union {NULL},
     eL : State \union {NULL}, proto : State \union {NULL}]

\* A load that has its function goes on to clone it.
LEMMA CloneNext ==
    ASSUME NEW f \in [Thread -> Loads], NEW t \in Thread, NEW p \in State \union {NULL}
    PROVE  /\ [f EXCEPT ![t].step = "clone", ![t].proto = p] \in [Thread -> Loads]
           /\ [f EXCEPT ![t].step = "clone", ![t].eL = NULL, ![t].proto = p]
                  \in [Thread -> Loads]
<1> DEFINE g == [f[t] EXCEPT !.step = "clone", !.proto = p]
           h == [f[t] EXCEPT !.step = "clone", !.eL = NULL, !.proto = p]
<1>1. f[t] \in Loads
  OBVIOUS
<1>2. g \in Loads /\ h \in Loads
  BY <1>1 DEF Loads
<1>3. /\ [f EXCEPT ![t].step = "clone", ![t].proto = p] = [f EXCEPT ![t] = g]
      /\ [f EXCEPT ![t].step = "clone", ![t].eL = NULL, ![t].proto = p]
             = [f EXCEPT ![t] = h]
  OBVIOUS
<1> HIDE DEF g, h
<1> QED
  BY <1>2, <1>3

LEMMA SaveProtoInv ==
    ASSUME CacheInv, NEW t \in Thread, SaveProto(t)
    PROVE  CacheInv'
<1> USE CacheAssumption DEF CacheInv
<1> DEFINE k == load[t].file
           eL == load[t].eL
<1>1. /\ load[t].step = "save" /\ k \in File /\ eL # NULL /\ eL \in State /\ eL \in open
      /\ UNCHANGED <<mode, open, running, clears>>
  BY DEF SaveProto, LoadsInv, CacheTypeOK
<1>2. CASE cache[k] = NULL
  <2>1. /\ cache' = [cache EXCEPT ![k] = eL]
        /\ entered' = [entered EXCEPT ![k] = @ \union {eL}]
        /\ load' = [load EXCEPT ![t].step = "clone", ![t].eL = NULL, ![t].proto = eL]
    BY <1>2 DEF SaveProto
  <2>2. CacheTypeOK'
    <3>1. cache' \in [File -> State \union {NULL}] /\ entered' \in [File -> SUBSET State]
      BY <1>1, <2>1 DEF CacheTypeOK
    <3>2. load \in [Thread -> Loads]
      BY DEF CacheTypeOK, Loads
    <3>3. load' \in [Thread -> Loads]
      BY <1>1, <2>1, <3>2, CloneNext
    <3> QED
      BY <1>1, <3>1, <3>3 DEF CacheTypeOK, Loads
  <2>3. LoadsInv'
    BY <1>1, <2>1 DEF LoadsInv, CacheTypeOK
  <2>4. EnteredInv'
    BY <1>1, <2>1 DEF EnteredInv, CacheTypeOK
  <2> QED
    BY <2>2, <2>3, <2>4
<1>3. CASE cache[k] # NULL
  <2>1. /\ load' = [load EXCEPT ![t].step = "clone", ![t].proto = cache[k]]
        /\ UNCHANGED <<cache, entered>>
    BY <1>3 DEF SaveProto
  <2>2. CacheTypeOK'
    <3>1. cache[k] \in State
      BY <1>1, <1>3 DEF CacheTypeOK
    <3>2. load \in [Thread -> Loads]
      BY DEF CacheTypeOK, Loads
    <3>3. load' \in [Thread -> Loads]
      BY <2>1, <3>1, <3>2, CloneNext
    <3> QED
      BY <1>1, <2>1, <3>3 DEF CacheTypeOK, Loads
  <2>3. LoadsInv'
    BY <1>1, <2>1 DEF LoadsInv, CacheTypeOK
  <2>4. EnteredInv'
    BY <1>1, <1>3, <2>1 DEF EnteredInv, CacheTypeOK
  <2> QED
    BY <2>2, <2>3, <2>4
<1> QED
  BY <1>2, <1>3

LEMMA CloneInv ==
    ASSUME CacheInv, NEW t \in Thread, Clone(t)
    PROVE  CacheInv'
<1> USE CacheAssumption DEF CacheInv
<1>1. /\ load[t].step = "clone" /\ load[t].file \in File
      /\ load[t].proto \in entered[load[t].file]
      /\ open' = open \ {load[t].eL}
      /\ running' = [running EXCEPT ![t] = @ \union {load[t].proto}]
      /\ load' = [load EXCEPT ![t] = NoLoad]
      /\ UNCHANGED <<cache, mode, entered, clears>>
  BY DEF Clone, LoadsInv, EnteredInv
<1>2. CacheTypeOK'
  BY <1>1 DEF CacheTypeOK, NoLoad
<1>3. LoadsInv'
  BY <1>1 DEF LoadsInv, CacheTypeOK, NoLoad
<1>4. EnteredInv'
  <2>1. \A j \in File : entered'[j] \subseteq open'
    BY <1>1 DEF EnteredInv, LoadsInv, CacheTypeOK
  <2>2. \A u \in Thread : \A s \in running'[u] : \E j \in File : s \in entered'[j]
    BY <1>1 DEF EnteredInv, CacheTypeOK
  <2>3. \A u \in Thread :
            load'[u].step = "clone" => load'[u].proto \in entered'[load'[u].file]
    BY <1>1 DEF EnteredInv, CacheTypeOK, NoLoad
  <2> QED
    BY <1>1, <2>1, <2>2, <2>3 DEF EnteredInv
<1> QED
  BY <1>2, <1>3, <1>4

LEMMA ClearInv ==
    ASSUME CacheInv, NEW t \in Thread, Clear(t)
    PROVE  CacheInv'
<1> USE CacheAssumption DEF CacheInv, Clear
<1>1. CacheTypeOK'
  BY DEF CacheTypeOK
<1>2. LoadsInv'
  BY DEF LoadsInv
<1>3. EnteredInv'
  BY DEF EnteredInv
<1> QED
  BY <1>1, <1>2, <1>3

LEMMA CacheModeInv ==
    ASSUME CacheInv, NEW t \in Thread, NEW level \in Levels, CacheMode(t, level)
    PROVE  CacheInv'
BY DEF CacheInv, CacheMode, CacheTypeOK, LoadsInv, EnteredInv

LEMMA CacheNextInv == CacheInv /\ [CacheNext]_cacheVars => CacheInv'
<1>1. ASSUME CacheInv, UNCHANGED cacheVars PROVE CacheInv'
  BY <1>1 DEF CacheInv, CacheTypeOK, LoadsInv, EnteredInv, cacheVars
<1> QED
  BY <1>1, LoadFileInv, CompileInv, CompileFailsInv, SaveProtoInv, CloneInv,
     ClearInv, CacheModeInv DEF CacheNext

\* Type correctness of the code cache.
THEOREM CacheTypeCorrect == CacheSpec => []CacheTypeOK
<1>1. CacheInv => CacheTypeOK
  BY DEF CacheInv
<1> QED
  BY CacheInitInv, CacheNextInv, <1>1, PTL DEF CacheSpec

\* No function hangs in a closed state, for any number of threads and files:
\* what was entered is never closed, and what is closed was never entered.
THEOREM FunctionsStayAlive == CacheSpec => []SharedAlive
<1>1. CacheInv => SharedAlive
  BY CacheAssumption DEF CacheInv, LoadsInv, EnteredInv, SharedAlive
<1> QED
  BY CacheInitInv, CacheNextInv, <1>1, PTL DEF CacheSpec

-----------------------------------------------------------------------------
(* How many states stay open *)

\* Between two clears a file is entered once: an empty slot has its entry
\* still to come.
CountInv ==
    \A k \in File :
        /\ IsFiniteSet(entered[k])
        /\ Cardinality(entered[k]) <= clears + (IF cache[k] = NULL THEN 0 ELSE 1)

\* An open state was entered or belongs to the saving of a thread.
OwnedInv ==
    \A s \in open :
        \/ \E k \in File : s \in entered[k]
        \/ \E t \in Thread : s = load[t].eL

LeakInv == CountInv /\ OwnedInv

\* What a step leaves alone in the cache is counted as before.
LEMMA CountKept ==
    ASSUME CountInv, UNCHANGED <<cache, entered, clears>>
    PROVE  CountInv'
BY DEF CountInv

LEMMA LoadFileLeak ==
    ASSUME CacheInv, LeakInv, NEW t \in Thread, NEW k \in File, LoadFile(t, k)
    PROVE  LeakInv'
<1>1. /\ load[t].eL = NULL /\ UNCHANGED <<cache, mode, open, entered, running, clears>>
      /\ \A u \in Thread : u # t => load'[u] = load[u]
  BY DEF LoadFile, NoLoad, CacheInv, CacheTypeOK
<1>2. \A s \in open : s # NULL
  BY CacheAssumption DEF CacheInv, CacheTypeOK
<1>3. OwnedInv'
  BY <1>1, <1>2 DEF LeakInv, OwnedInv
<1> QED
  BY <1>1, <1>3, CountKept DEF LeakInv

LEMMA CompileLeak ==
    ASSUME CacheInv, LeakInv, NEW t \in Thread, NEW eL \in State, Compile(t, eL)
    PROVE  LeakInv'
<1>1. /\ load[t].eL = NULL /\ open' = open \union {eL}
      /\ load'[t].eL = eL /\ \A u \in Thread : u # t => load'[u] = load[u]
      /\ UNCHANGED <<cache, mode, entered, running, clears>>
  BY DEF Compile, CacheInv, CacheTypeOK, LoadsInv
<1>2. \A s \in open : s # NULL
  BY CacheAssumption DEF CacheInv, CacheTypeOK
<1>3. OwnedInv'
  BY <1>1, <1>2 DEF LeakInv, OwnedInv
<1> QED
  BY <1>1, <1>3, CountKept DEF LeakInv

LEMMA CompileFailsLeak ==
    ASSUME CacheInv, LeakInv, NEW t \in Thread, CompileFails(t)
    PROVE  LeakInv'
<1>1. /\ load[t].eL = NULL /\ UNCHANGED <<cache, mode, open, entered, running, clears>>
      /\ \A u \in Thread : u # t => load'[u] = load[u]
  BY DEF CompileFails, CacheInv, CacheTypeOK, LoadsInv
<1>2. \A s \in open : s # NULL
  BY CacheAssumption DEF CacheInv, CacheTypeOK
<1>3. OwnedInv'
  BY <1>1, <1>2 DEF LeakInv, OwnedInv
<1> QED
  BY <1>1, <1>3, CountKept DEF LeakInv

\* The entry fills the slot it was still to come for.
LEMMA SaveProtoLeak ==
    ASSUME CacheInv, LeakInv, NEW t \in Thread, SaveProto(t)
    PROVE  LeakInv'
<1> DEFINE k == load[t].file
           eL == load[t].eL
<1>1. /\ k \in File /\ eL # NULL /\ eL \in State /\ eL \notin entered[k]
      /\ UNCHANGED <<mode, open, running, clears>>
      /\ \A u \in Thread : u # t => load'[u] = load[u]
  BY DEF SaveProto, CacheInv, LoadsInv, CacheTypeOK
<1>2. CASE cache[k] = NULL
  <2>1. /\ cache' = [cache EXCEPT ![k] = eL]
        /\ entered' = [entered EXCEPT ![k] = @ \union {eL}]
    BY <1>2 DEF SaveProto
  <2>2. /\ cache'[k] = eL /\ entered'[k] = entered[k] \union {eL}
        /\ \A j \in File : j # k => cache'[j] = cache[j] /\ entered'[j] = entered[j]
    BY <1>1, <2>1 DEF CacheInv, CacheTypeOK
  <2>3. IsFiniteSet(entered'[k]) /\ Cardinality(entered'[k]) = Cardinality(entered[k]) + 1
    <3>1. IsFiniteSet(entered[k])
      BY <1>1 DEF LeakInv, CountInv
    <3> HIDE DEF k, eL
    <3>2. /\ IsFiniteSet(entered[k] \union {eL})
          /\ Cardinality(entered[k] \union {eL}) = Cardinality(entered[k]) + 1
      BY ONLY <1>1, <3>1, FS_AddElement
    <3> QED
      BY <2>2, <3>2
  <2>4. /\ Cardinality(entered[k]) \in Nat /\ clears \in Nat
        /\ Cardinality(entered[k]) <= clears
    BY <1>1, <1>2, FS_CardinalityType DEF LeakInv, CountInv, CacheInv, CacheTypeOK
  <2>5. Cardinality(entered'[k]) <= clears' + 1
    BY <1>1, <2>3, <2>4
  <2>6. CountInv'
    <3> SUFFICES ASSUME NEW j \in File
                 PROVE  /\ IsFiniteSet(entered'[j])
                        /\ Cardinality(entered'[j])
                               <= clears' + (IF cache'[j] = NULL THEN 0 ELSE 1)
      BY DEF CountInv
    <3>1. CASE j = k
      BY <3>1, <1>1, <2>2, <2>3, <2>5
    <3>2. CASE j # k
      BY <3>2, <1>1, <2>2 DEF LeakInv, CountInv
    <3> QED
      BY <3>1, <3>2
  <2>7. OwnedInv'
    <3> SUFFICES ASSUME NEW s \in open'
                 PROVE  \/ \E j \in File : s \in entered'[j]
                        \/ \E u \in Thread : s = load'[u].eL
      BY DEF OwnedInv
    <3>1. \/ \E j \in File : s \in entered[j]
          \/ \E u \in Thread : s = load[u].eL
      BY <1>1 DEF LeakInv, OwnedInv
    <3>2. CASE \E j \in File : s \in entered[j]
      BY <3>2, <2>2
    <3>3. CASE s = eL
      BY <3>3, <1>1, <2>2
    <3>4. CASE \E u \in Thread : u # t /\ s = load[u].eL
      BY <3>4, <1>1
    <3> QED
      BY <3>1, <3>2, <3>3, <3>4
  <2> QED
    BY <2>6, <2>7 DEF LeakInv
<1>3. CASE cache[k] # NULL
  <2>1. /\ load' = [load EXCEPT ![t].step = "clone", ![t].proto = cache[k]]
        /\ UNCHANGED <<cache, entered>>
    BY <1>3 DEF SaveProto
  <2>2. load'[t].eL = eL
    BY <2>1 DEF CacheInv, CacheTypeOK
  <2>3. OwnedInv'
    BY <1>1, <2>1, <2>2, ZenonT(30) DEF LeakInv, OwnedInv
  <2> QED
    BY <1>1, <2>1, <2>3, CountKept DEF LeakInv
<1> QED
  BY <1>2, <1>3

LEMMA CloneLeak ==
    ASSUME CacheInv, LeakInv, NEW t \in Thread, Clone(t)
    PROVE  LeakInv'
<1>1. /\ open' = open \ {load[t].eL} /\ UNCHANGED <<cache, mode, entered, clears>>
      /\ \A u \in Thread : u # t => load'[u] = load[u]
  BY DEF Clone, CacheInv, CacheTypeOK
<1>2. OwnedInv'
  BY <1>1 DEF LeakInv, OwnedInv
<1> QED
  BY <1>1, <1>2, CountKept DEF LeakInv

LEMMA ClearLeak ==
    ASSUME CacheInv, LeakInv, NEW t \in Thread, Clear(t)
    PROVE  LeakInv'
<1>1. /\ clears' = clears + 1 /\ clears \in Nat
      /\ cache' = [k \in File |-> NULL]
      /\ UNCHANGED <<mode, load, open, entered, running>>
  BY DEF Clear, CacheInv, CacheTypeOK
<1>2. CountInv'
  <2> SUFFICES ASSUME NEW k \in File
               PROVE  /\ IsFiniteSet(entered[k])
                      /\ Cardinality(entered[k]) <= clears + 1
    BY <1>1 DEF CountInv
  <2>1. IsFiniteSet(entered[k]) /\ Cardinality(entered[k]) \in Nat
    BY FS_CardinalityType DEF LeakInv, CountInv
  <2>2. Cardinality(entered[k]) <= clears + (IF cache[k] = NULL THEN 0 ELSE 1)
    BY DEF LeakInv, CountInv
  <2> QED
    BY <1>1, <2>1, <2>2
<1>3. OwnedInv'
  BY <1>1 DEF LeakInv, OwnedInv
<1> QED
  BY <1>2, <1>3 DEF LeakInv

LEMMA CacheNextLeak == CacheInv /\ LeakInv /\ [CacheNext]_cacheVars => LeakInv'
<1>1. ASSUME LeakInv, UNCHANGED cacheVars PROVE LeakInv'
  BY <1>1 DEF LeakInv, CountInv, OwnedInv, cacheVars
<1>2. ASSUME LeakInv, NEW t \in Thread, NEW level \in Levels, CacheMode(t, level)
      PROVE  LeakInv'
  BY <1>2 DEF LeakInv, CountInv, OwnedInv, CacheMode
<1> QED
  BY <1>1, <1>2, LoadFileLeak, CompileLeak, CompileFailsLeak, SaveProtoLeak, CloneLeak,
     ClearLeak DEF CacheNext

\* The "memory leak" of a file (lauxlib.c:1282) is one state for each time the
\* cache was cleared and one more, whatever number of threads compile it at
\* once: every open state was entered or is still in the hands of a saving.
THEOREM LeakBounded == CacheSpec => []LeakIsBounded
<1>1. CacheInit => LeakInv
  <2> SUFFICES ASSUME CacheInit PROVE LeakInv
    OBVIOUS
  <2>1. /\ \A k \in File : entered[k] = {} /\ cache[k] = NULL
        /\ clears = 0 /\ open = {}
    BY DEF CacheInit
  <2>2. CountInv
    BY <2>1, FS_EmptySet DEF CountInv
  <2> QED
    BY <2>1, <2>2 DEF LeakInv, OwnedInv
<1>2. CacheInv /\ LeakInv => LeakIsBounded
  <2> SUFFICES ASSUME CacheInv, LeakInv PROVE LeakIsBounded
    OBVIOUS
  <2>1. \A k \in File : Cardinality(entered[k]) <= clears + 1
    <3> TAKE k \in File
    <3>1. Cardinality(entered[k]) \in Nat /\ clears \in Nat
      BY FS_CardinalityType DEF LeakInv, CountInv, CacheInv, CacheTypeOK
    <3>2. Cardinality(entered[k]) <= clears + (IF cache[k] = NULL THEN 0 ELSE 1)
      BY DEF LeakInv, CountInv
    <3> QED
      BY <3>1, <3>2
  <2> DEFINE shared == UNION {entered[k] : k \in File}
             owned == {load[t].eL : t \in Thread} \ {NULL}
  <2>2. ASSUME NEW s \in open PROVE s \in shared \union owned
    <3>1. s # NULL
      BY CacheAssumption DEF CacheInv, CacheTypeOK
    <3>2. \/ \E k \in File : s \in entered[k]
          \/ \E t \in Thread : s = load[t].eL
      BY DEF LeakInv, OwnedInv
    <3> QED
      BY <3>1, <3>2
  <2>3. shared \subseteq open
    BY DEF CacheInv, EnteredInv
  <2>4. owned \subseteq open
    BY DEF CacheInv, LoadsInv
  <2>5. open = shared \union owned
    <3> HIDE DEF shared, owned
    <3> QED
      BY <2>2, <2>3, <2>4
  <2> QED
    BY <2>1, <2>5 DEF LeakIsBounded
<1> QED
  BY CacheInitInv, CacheNextInv, CacheNextLeak, <1>1, <1>2, PTL DEF CacheSpec

-----------------------------------------------------------------------------
(* Loading of files *)

\* What the cache holds of a file is a program that the file has stood for.
LoadInv ==
    /\ disk \in [Path -> Content]
    /\ chunks \in [Path -> Plain \union {NoValue}]
    /\ since \in [Path -> SUBSET Chunk]
    /\ \A k \in Path :
          /\ Program(disk[k]) \subseteq since[k]
          /\ chunks[k] # NoValue => chunks[k].kind = "text" /\ chunks[k].chunk \in since[k]
    /\ GoodFilesLoad

LEMMA ProgramType == ASSUME NEW c \in Content PROVE Program(c) \subseteq Chunk
BY DEF Content, Plain, Encrypted, Absent, Short, Oversized, Program

\* What lua_load leaves on top of the stack.
LEMMA LuaLoad ==
    ASSUME NEW T, NEW stack \in Seq(T), NEW content, NEW allowed,
           NEW s, s = lua_load(stack, content, allowed)
    PROVE  /\ ~s.raised
           /\ s.ok <=> content.kind = "text" \/ (content.kind = "binary" /\ allowed # "t")
           /\ s.ok => Top(s.stack) = Fn(content.chunk, Globals)
<1>1. ASSUME NEW x PROVE Top(Append(stack, x)) = x
  BY DEF Top
<1> QED
  BY <1>1 DEF lua_load, Ok, Fails

LEMMA LoadFileX ==
    ASSUME LoadInv, NEW T, NEW stack \in Seq(T), NEW k \in Path,
           NEW s, s = luaL_loadfilex(stack, k, "t")
    PROVE  /\ ~s.raised
           /\ s.ok => \E c \in since[k] : Top(s.stack) = Fn(c, Globals)
           /\ disk[k].kind = "text" => s.ok
           /\ s.ok => disk[k].kind = "text" \/ chunks[k] # NoValue
<1>1. CASE chunks[k] # NoValue
  <2>1. chunks[k].chunk \in since[k]
    BY <1>1 DEF LoadInv
  <2>2. s = Ok(Append(stack, Fn(chunks[k].chunk, Globals)))
    BY <1>1 DEF luaL_loadfilex
  <2>3. ASSUME NEW x PROVE Top(Append(stack, x)) = x
    BY DEF Top
  <2> QED
    <3>1. s.ok /\ ~s.raised /\ s.stack = Append(stack, Fn(chunks[k].chunk, Globals))
      BY <2>2 DEF Ok
    <3>2. Top(s.stack) = Fn(chunks[k].chunk, Globals)
      BY <2>3, <3>1
    <3> QED
      BY <1>1, <2>1, <3>1, <3>2
<1>2. CASE chunks[k] = NoValue
  <2>1. s = lua_load(stack, disk[k], "t")
    BY <1>2 DEF luaL_loadfilex
  <2>2. /\ ~s.raised /\ (s.ok <=> disk[k].kind = "text")
        /\ s.ok => Top(s.stack) = Fn(disk[k].chunk, Globals)
    BY <2>1, LuaLoad
  <2>3. disk[k].kind = "text" => disk[k].chunk \in since[k]
    BY DEF LoadInv, Program
  <2> QED
    BY <1>2, <2>2, <2>3
<1> QED
  BY <1>1, <1>2

\* The text is where luaL_loadfilexx looks for it.
LEMMA TextIsThere ==
    ASSUME NEW x, NEW y, NEW content, content.valid,
           NEW d, d = Decoded(<<x, y>>, content).stack
    PROVE  /\ Decoded(<<x, y>>, content).ok
           /\ \E T : d \in Seq(T)
           /\ d[IF d[3].type = "userdata" THEN 4 ELSE 3].what = content.plain
<1>1. PICK t : t = Str(content.plain)
  OBVIOUS
<1>2. t.type = "string" /\ t.what = content.plain /\ Userdata.type = "userdata"
  BY <1>1 DEF Str, Userdata
<1>3. Decoded(<<x, y>>, content).ok
  BY DEF Decoded, Ok
<1>4. d = <<x, y>> \o (IF content.large THEN <<Userdata>> ELSE <<>>) \o <<t>>
  BY <1>1 DEF Decoded, Ok
<1>5. CASE content.large
  <2>1. d = <<x, y, Userdata, t>>
    BY <1>4, <1>5
  <2>2. d[3] = Userdata /\ d[4] = t
    BY <2>1
  <2>3. <<x, y, Userdata, t>> \in Seq({x, y, Userdata, t})
    OBVIOUS
  <2> QED
    BY <1>2, <1>3, <2>1, <2>2, <2>3
<1>6. CASE ~content.large
  <2>1. d = <<x, y, t>>
    BY <1>4, <1>6
  <2>2. d[3] = t
    BY <2>1
  <2>3. <<x, y, t>> \in Seq({x, y, t})
    OBVIOUS
  <2> QED
    BY <1>2, <1>3, <2>1, <2>2, <2>3
<1> QED
  BY <1>5, <1>6

LEMMA LoadFileXX ==
    ASSUME LoadInv, NEW T, NEW stack \in Seq(T), NEW k \in Path,
           NEW s, s = luaL_loadfilexx(stack, k)
    PROVE  /\ ~s.raised /\ s.ok => \E c \in since[k] : Top(s.stack) = Fn(c, Globals)
           /\ Program(disk[k]) # {} => ~s.raised /\ s.ok
           /\ Program(disk[k]) = {} /\ chunks[k] = NoValue => s.raised \/ ~s.ok
<1>1. PICK first : first = luaL_loadfilex(stack, k, "t")
  OBVIOUS
<1>2. /\ ~first.raised
      /\ first.ok => \E c \in since[k] : Top(first.stack) = Fn(c, Globals)
      /\ disk[k].kind = "text" => first.ok
      /\ first.ok => disk[k].kind = "text" \/ chunks[k] # NoValue
  BY <1>1, LoadFileX
<1>3. CASE first.ok
  <2>1. s = first
    BY <1>1, <1>3 DEF luaL_loadfilexx
  <2>2. disk[k].kind = "text" => Program(disk[k]) # {}
    BY DEF Program
  <2> QED
    BY <1>2, <1>3, <2>1, <2>2
<1>4. CASE ~first.ok /\ disk[k].kind \in {"missing", "short", "oversized"}
  <2>1. s = Fails(Append(first.stack, Error))
    BY <1>1, <1>4 DEF luaL_loadfilexx
  <2>2. Program(disk[k]) = {}
    BY <1>4 DEF Program
  <2> QED
    BY <2>1, <2>2 DEF Fails
<1>5. CASE ~first.ok /\ disk[k].kind \in {"text", "binary", "garbage"}
  <2>1. s = first
    BY <1>1, <1>5 DEF luaL_loadfilexx
  <2>2. Program(disk[k]) = {}
    BY <1>2, <1>5 DEF Program
  <2> QED
    BY <1>2, <1>5, <2>1, <2>2
<1>6. CASE ~first.ok /\ disk[k].kind = "encrypted"
  <2> DEFINE decoded == Decoded(<<Str("key"), Str("cipher")>>, disk[k])
             at == IF decoded.stack[3].type = "userdata" THEN 4 ELSE 3
             loaded == lua_load(decoded.stack, decoded.stack[at].what, "bt")
  <2>1. s = IF decoded.ok /\ loaded.ok THEN loaded ELSE Raises
    BY <1>1, <1>6 DEF luaL_loadfilexx
  <2>2. CASE ~disk[k].valid
    <3>1. ~decoded.ok
      BY <2>2 DEF Decoded, Raises
    <3>2. s = Raises
      BY <2>1, <3>1
    <3>3. Program(disk[k]) = {}
      BY <1>6, <2>2 DEF Program
    <3> QED
      BY <3>2, <3>3 DEF Raises
  <2>3. CASE disk[k].valid
    <3> DEFINE plain == disk[k].plain
    <3>1. PICK d : d = decoded.stack
      OBVIOUS
    <3>1a. PICK x, y, content : x = Str("key") /\ y = Str("cipher") /\ content = disk[k]
      OBVIOUS
    <3>2. /\ decoded.ok /\ \E X : d \in Seq(X)
          /\ d[IF d[3].type = "userdata" THEN 4 ELSE 3].what = plain
      <4>1. d = Decoded(<<x, y>>, content).stack /\ content.valid
        BY <2>3, <3>1, <3>1a
      <4>2. /\ Decoded(<<x, y>>, content).ok /\ \E X : d \in Seq(X)
            /\ d[IF d[3].type = "userdata" THEN 4 ELSE 3].what = content.plain
        BY <4>1, TextIsThere
      <4> QED
        BY <3>1a, <4>2
    <3>3. PICK X : d \in Seq(X)
      BY <3>2
    <3>4. PICK l : l = loaded
      OBVIOUS
    <3>5. l = lua_load(d, plain, "bt")
      BY <3>1, <3>2, <3>4
    <3>6. /\ ~l.raised /\ (l.ok <=> plain.kind \in {"text", "binary"})
          /\ l.ok => Top(l.stack) = Fn(plain.chunk, Globals)
      BY <3>3, <3>5, LuaLoad
    <3>7. s = IF l.ok THEN l ELSE Raises
      BY <2>1, <3>2, <3>4
    <3>8. disk[k] \in Encrypted
      BY <1>6 DEF LoadInv, Content, Plain, Absent, Short, Oversized
    <3>9. plain.kind \in {"text", "binary", "garbage"}
      BY <3>8 DEF Encrypted, Plain
    <3>10. Program(disk[k]) = IF plain.kind # "garbage" THEN {plain.chunk} ELSE {}
      BY <1>6, <2>3 DEF Program
    <3>11. l.ok => plain.chunk \in since[k]
      BY <3>6, <3>9, <3>10 DEF LoadInv
    <3>12. Program(disk[k]) # {} <=> l.ok
      BY <3>6, <3>9, <3>10
    <3>13. CASE l.ok
      BY <3>6, <3>7, <3>11, <3>12, <3>13
    <3>14. CASE ~l.ok
      BY <3>7, <3>12, <3>14 DEF Raises
    <3> QED
      BY <3>13, <3>14
  <2> QED
    BY <2>2, <2>3
<1>7. disk[k].kind \in {"missing", "short", "oversized", "text", "binary", "garbage",
                  "encrypted"}
  BY DEF LoadInv, Content, Plain, Encrypted, Absent, Short, Oversized
<1> QED
  BY <1>3, <1>4, <1>5, <1>6, <1>7

\* load_aux returns the function that was loaded, with an environment of the
\* caller or not, or something that is no function.
LEMMA LoadAux ==
    ASSUME NEW left, NEW envidx, NEW r, r = load_aux(left, envidx)
    PROVE  /\ (left.raised \/ ~left.ok) => r[1].type # "function"
           /\ \A c : ~left.raised /\ left.ok /\ Top(left.stack) = Fn(c, Globals)
                     => r[1].type = "function" /\ r[1].chunk = c
<1>1. CASE left.raised \/ ~left.ok
  BY <1>1 DEF load_aux
<1>2. ASSUME ~left.raised, left.ok, NEW c, Top(left.stack) = Fn(c, Globals)
      PROVE  r[1].type = "function" /\ r[1].chunk = c
  <2>1. r[1] = Fn(c, Globals) \/ r[1] = [Fn(c, Globals) EXCEPT !.env = left.stack[envidx]]
    BY <1>2 DEF load_aux
  <2> QED
    BY <2>1 DEF Fn
<1> QED
  BY <1>1, <1>2

LEMMA LoadedInv ==
    ASSUME LoadInv, NEW k \in Path, Enter(k), UNCHANGED <<disk, since>>,
           GoodFilesLoad'
    PROVE  LoadInv'
<1>1. chunks' = [chunks EXCEPT ![k] = IF @ = NoValue /\ disk[k].kind = "text"
                                      THEN disk[k] ELSE @]
  BY DEF Enter
<1>2. disk[k].kind = "text" => disk[k] \in Plain /\ disk[k].chunk \in since[k]
  BY DEF LoadInv, Content, Plain, Encrypted, Absent, Short, Oversized, Program
<1>3. chunks' \in [Path -> Plain \union {NoValue}]
  BY <1>1, <1>2 DEF LoadInv
<1>4. ASSUME NEW j \in Path, chunks'[j] # NoValue
      PROVE  chunks'[j].kind = "text" /\ chunks'[j].chunk \in since[j]
  BY <1>1, <1>2, <1>4 DEF LoadInv
<1> QED
  BY <1>3, <1>4 DEF LoadInv

LEMMA LoadfileInv ==
    ASSUME LoadInv, NEW k \in Path, NEW env \in Envs, luaB_loadfile(k, env)
    PROVE  LoadInv'
<1>1. PICK args, T : args \in Seq(T) /\
         args = <<Str("name")>> \o (IF env = NoValue THEN <<>> ELSE <<Str("mode"), env>>)
  <2>1. PICK x, y : x = Str("name") /\ y = Str("mode")
    OBVIOUS
  <2>2. <<x>> \o <<>> \in Seq({x, y, env}) /\ <<x>> \o <<y, env>> \in Seq({x, y, env})
    OBVIOUS
  <2> QED
    BY <2>1, <2>2
<1>2. PICK s : s = luaL_loadfilexx(args, k)
  OBVIOUS
<1>3. /\ result' = load_aux(s, IF env = NoValue THEN 0 ELSE 3)
      /\ call' = [op |-> "loadfile", file |-> k, env |-> env]
      /\ Enter(k) /\ UNCHANGED <<disk, since>>
  BY <1>1, <1>2 DEF luaB_loadfile
<1>4. /\ ~s.raised /\ s.ok => \E c \in since[k] : Top(s.stack) = Fn(c, Globals)
      /\ Program(disk[k]) # {} => ~s.raised /\ s.ok
      /\ Program(disk[k]) = {} /\ chunks[k] = NoValue => s.raised \/ ~s.ok
  BY <1>1, <1>2, LoadFileXX
<1>5. /\ (s.raised \/ ~s.ok) => result'[1].type # "function"
      /\ \A c : ~s.raised /\ s.ok /\ Top(s.stack) = Fn(c, Globals)
                  => result'[1].type = "function" /\ result'[1].chunk = c
  BY <1>3, LoadAux
<1>6. chunks'[k] = NoValue => chunks[k] = NoValue
  BY <1>3 DEF Enter, LoadInv
<1>7. GoodFilesLoad'
  BY <1>3, <1>4, <1>5, <1>6 DEF GoodFilesLoad
<1> QED
  BY <1>3, <1>7, LoadedInv

LEMMA DeployInv ==
    ASSUME LoadInv, NEW k \in Path, NEW content \in Content, Deploy(k, content)
    PROVE  LoadInv'
<1>1. Program(content) \subseteq Chunk
  BY ProgramType
<1>2. GoodFilesLoad'
  BY DEF Deploy, GoodFilesLoad
<1> QED
  BY <1>1, <1>2 DEF Deploy, LoadInv

LEMMA ClearCacheInv == LoadInv /\ ClearCache => LoadInv'
<1> SUFFICES ASSUME LoadInv, ClearCache PROVE LoadInv'
  OBVIOUS
<1>1. \A k \in Path : Program(disk[k]) \subseteq Chunk
  BY ProgramType DEF LoadInv
<1>2. GoodFilesLoad'
  BY DEF ClearCache, GoodFilesLoad
<1> QED
  BY <1>1, <1>2 DEF ClearCache, LoadInv

LEMMA LoadInitInv == LoadInit => LoadInv
<1> SUFFICES ASSUME LoadInit PROVE LoadInv
  OBVIOUS
<1>1. Absent \in Content /\ Program(Absent) = {}
  BY DEF Absent, Content, Program
<1> QED
  BY <1>1 DEF LoadInit, LoadInv, GoodFilesLoad

LEMMA LoadNextInv == LoadInv /\ [LoadNext]_loadVars => LoadInv'
<1> SUFFICES ASSUME LoadInv, [LoadNext]_loadVars PROVE LoadInv'
  OBVIOUS
<1>1. ASSUME NEW k \in Path, NEW env \in Envs, luaB_loadfile(k, env) PROVE LoadInv'
  BY <1>1, LoadfileInv
<1>2. ASSUME NEW k \in Path, luaB_dofile(k) PROVE LoadInv'
  <2>1. call' = [op |-> "dofile", file |-> k] /\ Enter(k) /\ UNCHANGED <<disk, since>>
    BY <1>2 DEF luaB_dofile
  <2>2. GoodFilesLoad'
    BY <2>1 DEF GoodFilesLoad
  <2> QED
    BY <2>1, <2>2, LoadedInv
<1>3. ASSUME NEW content \in Plain, NEW env \in Envs, NEW reader \in BOOLEAN,
             luaB_load(content, env, reader)
      PROVE  LoadInv'
  <2>1. call'.op = "load" /\ UNCHANGED <<disk, chunks, since>>
    BY <1>3 DEF luaB_load
  <2> QED
    BY <2>1 DEF LoadInv, GoodFilesLoad
<1>4. ASSUME NEW k \in Path, NEW content \in Content, Deploy(k, content) PROVE LoadInv'
  BY <1>4, DeployInv
<1>5. CASE ClearCache
  BY <1>5, ClearCacheInv
<1>6. CASE UNCHANGED loadVars
  BY <1>6 DEF loadVars, LoadInv, GoodFilesLoad
<1> QED
  BY <1>1, <1>2, <1>3, <1>4, <1>5, <1>6 DEF LoadNext

\* What was deployed as source, or packed whole from source or a compiled
\* chunk, loads; what loads is a program that the file has stood for since the
\* cache was cleared; and no other file loads but from the cache.
THEOREM FilesLoad == LoadSpec => []GoodFilesLoad
<1>1. LoadInv => GoodFilesLoad
  BY DEF LoadInv
<1> QED
  BY <1>1, LoadInitInv, LoadNextInv, PTL DEF LoadSpec

-----------------------------------------------------------------------------
(* Encryption of texts *)

LEMMA DivMod ==
    ASSUME NEW a \in Nat, NEW b \in Nat, b > 0
    PROVE  /\ a \div b \in Nat /\ (a % b) \in 0 .. b - 1
           /\ a = (a \div b) * b + (a % b)
OBVIOUS

LEMMA MulMono ==
    ASSUME NEW x \in Nat, NEW y \in Nat, NEW b \in Nat, x <= y
    PROVE  x * b <= y * b /\ x * b \in Nat /\ y * b \in Nat
OBVIOUS

LEMMA DivUnique ==
    ASSUME NEW q \in Nat, NEW r \in Nat, NEW b \in Nat, r < b
    PROVE  (q * b + r) \div b = q /\ ((q * b + r) % b) = r
OBVIOUS

LEMMA DivLess ==
    ASSUME NEW a \in Nat, NEW q \in Nat, NEW b \in Nat, b > 0, a < q * b
    PROVE  a \div b < q
<1>1. CASE a \div b >= q
  <2>1. q * b <= (a \div b) * b
    BY <1>1, DivMod, MulMono
  <2> QED
    BY <2>1, DivMod, MulMono
<1> QED
  BY <1>1, DivMod

\* The last block: what is left of the text and its padding, p bytes.
PaddedBy(s, p, padding) ==
    LET n == Len(s)
    IN IF padding = PADDING_MODE_ISO7816_4
       THEN s[n - p + 1] = Marker /\ \A i \in 1 .. p - 1 : s[n - i + 1] = 0
       ELSE \A i \in 0 .. p - 1 : s[n - i] = p

LEMMA AddPadding ==
    ASSUME NEW tail \in Seq(Byte), Len(tail) < Block, NEW padding \in Mode,
           NEW pad, pad = add_padding(tail, padding)
    PROVE  /\ pad \in Seq(Int) /\ Len(pad) = Block
           /\ \A i \in 1 .. Len(tail) : pad[i] = tail[i]
           /\ PaddedBy(pad, Block - Len(tail), padding)
<1> DEFINE l == Len(tail)
<1>1. l \in Nat /\ Block \in Nat /\ tail \in Seq(Int) /\ Byte \subseteq Int
  <2>1. Byte \subseteq Int /\ Block \in Nat
    BY DesAssumption
  <2>2. tail \in Seq(Int)
    BY <2>1, SeqMonotonic
  <2>3. l \in Nat
    OBVIOUS
  <2> QED
    BY <2>1, <2>2, <2>3
<1>2. CASE padding = PADDING_MODE_ISO7816_4
  <2> DEFINE z == Filled(Block - 1 - l, 0)
  <2>1. z \in Seq(Int) /\ Len(z) = Block - 1 - l /\ \A i \in 1 .. Block - 1 - l : z[i] = 0
    BY <1>1 DEF Filled
  <2>2. pad = (tail \o <<Marker>>) \o z
    BY <1>2 DEF add_padding, padding_add_iso7816_4
  <2> HIDE DEF z
  <2>3. PICK m : m = tail \o <<Marker>>
    OBVIOUS
  <2>4. /\ m \in Seq(Int) /\ Len(m) = l + 1 /\ m[l + 1] = Marker
        /\ \A i \in 1 .. l : m[i] = tail[i]
    BY <1>1, <2>3 DEF Marker
  <2>5. /\ pad \in Seq(Int) /\ Len(pad) = Block
        /\ \A i \in 1 .. l + 1 : pad[i] = m[i]
        /\ \A i \in 1 .. Block - 1 - l : pad[l + 1 + i] = z[i]
    <3>1. pad = m \o z
      BY <2>2, <2>3
    <3>2. /\ pad \in Seq(Int) /\ Len(pad) = Len(m) + Len(z)
      BY <2>1, <2>4, <3>1, Concat
    <3>3. /\ \A i \in 1 .. Len(m) : pad[i] = m[i]
          /\ \A i \in 1 .. Len(z) : pad[Len(m) + i] = z[i]
      <4>1. /\ \A i \in 1 .. Len(m) : (m \o z)[i] = m[i]
            /\ \A i \in 1 .. Len(z) : (m \o z)[Len(m) + i] = z[i]
        BY <2>1, <2>4, ConcatAt
      <4> QED
        BY <3>1, <4>1
    <3> QED
      BY <1>1, <2>1, <2>4, <3>2, <3>3
  <2>6. pad[Block - (Block - l) + 1] = Marker
    BY <1>1, <2>4, <2>5
  <2>7. ASSUME NEW i \in 1 .. (Block - l) - 1 PROVE pad[Block - i + 1] = 0
    <3>1. (Block - l - i) \in 1 .. Block - 1 - l /\ Block - i + 1 = l + 1 + (Block - l - i)
      BY <1>1
    <3> QED
      BY <2>1, <2>5, <3>1
  <2> QED
    <3>1. PaddedBy(pad, Block - l, padding)
      <4>1. Len(pad) = Block
        BY <2>5
      <4> QED
        BY <1>2, <2>6, <2>7, <4>1 DEF PaddedBy
    <3>2. ASSUME NEW i \in 1 .. l PROVE pad[i] = tail[i]
      <4>1. i \in 1 .. l + 1
        BY <1>1
      <4> QED
        BY <2>4, <2>5, <4>1
    <3> QED
      BY <2>5, <3>1, <3>2
<1>3. CASE padding # PADDING_MODE_ISO7816_4
  <2> DEFINE x == Block - l
             z == Filled(x, x)
  <2>1. x \in Nat /\ z \in Seq(Int) /\ Len(z) = x /\ \A i \in 1 .. x : z[i] = x
    BY <1>1 DEF Filled
  <2>2. pad = tail \o z
    BY <1>3 DEF add_padding, padding_add_pkcs7
  <2> HIDE DEF z
  <2>3. /\ pad \in Seq(Int) /\ Len(pad) = Block
        /\ \A i \in 1 .. l : pad[i] = tail[i]
        /\ \A i \in 1 .. x : pad[l + i] = z[i]
    <3>1. /\ pad \in Seq(Int) /\ Len(pad) = Len(tail) + Len(z)
      BY <1>1, <2>1, <2>2, Concat
    <3>2. /\ \A i \in 1 .. Len(tail) : pad[i] = tail[i]
          /\ \A i \in 1 .. Len(z) : pad[Len(tail) + i] = z[i]
      BY <1>1, <2>1, <2>2, ConcatAt
    <3> QED
      BY <1>1, <2>1, <3>1, <3>2
  <2>4. ASSUME NEW i \in 0 .. x - 1 PROVE pad[Block - i] = x
    <3>1. x - i \in 1 .. x /\ Block - i = l + (x - i)
      BY <1>1
    <3>2. pad[l + (x - i)] = z[x - i] /\ z[x - i] = x
      BY <2>1, <2>3, <3>1
    <3> QED
      BY <3>1, <3>2
  <2> QED
    BY <1>1, <1>3, <2>3, <2>4 DEF PaddedBy
<1> QED
  BY <1>2, <1>3

LEMMA RemovePadding ==
    ASSUME NEW s \in Seq(Int), NEW p \in 1 .. Block, Len(s) >= Block, NEW padding \in Mode,
           PaddedBy(s, p, padding)
    PROVE  remove_padding(s, padding) = p
<1> DEFINE n == Len(s)
<1>1. n \in Nat /\ Block \in Nat /\ p \in Nat
  BY DesAssumption
<1>2. CASE padding = PADDING_MODE_ISO7816_4
  <2> DEFINE Marked(q) == s[n - q + 1] = Marker /\ \A i \in 1 .. q - 1 : s[n - i + 1] = 0
  <2>1. Marked(p)
    BY <1>2 DEF PaddedBy
  <2>2. ASSUME NEW q \in 1 .. Block, Marked(q) PROVE q = p
    <3>1. ~(q < p)
      BY <2>1, <2>2 DEF Marker
    <3>2. ~(p < q)
      BY <2>1, <2>2 DEF Marker
    <3> QED
      BY <1>1, <3>1, <3>2
  <2>3. padding_remove_iso7816_4(s)
          = IF \E q \in 1 .. Block : Marked(q)
            THEN CHOOSE q \in 1 .. Block : Marked(q) ELSE 0
    BY DEF padding_remove_iso7816_4
  <2> HIDE DEF Marked
  <2>4. (CHOOSE q \in 1 .. Block : Marked(q)) = p
    <3>1. PICK c : c = CHOOSE q \in 1 .. Block : Marked(q)
      OBVIOUS
    <3>2. c \in 1 .. Block /\ Marked(c)
      BY <2>1, <3>1, Zenon
    <3> QED
      BY <2>2, <3>1, <3>2
  <2> QED
    BY <1>2, <2>1, <2>3, <2>4 DEF remove_padding
<1>3. CASE padding # PADDING_MODE_ISO7816_4
  <2>1. \A i \in 0 .. p - 1 : s[n - i] = p
    BY <1>3 DEF PaddedBy
  <2>2. s[n] = p
    <3>1. 0 \in 0 .. p - 1 /\ n - 0 = n
      BY <1>1
    <3>2. s[n - 0] = p
      BY <2>1, <3>1, Zenon
    <3> QED
      BY <3>1, <3>2, Zenon
  <2>3. padding_remove_pkcs7(s) = p
    BY <1>1, <2>1, <2>2 DEF padding_remove_pkcs7
  <2> QED
    BY <1>3, <2>3 DEF remove_padding
<1> QED
  BY <1>2, <1>3

LEMMA Divided ==
    ASSUME NEW a \in Nat, NEW b \in Nat, b > 0
    PROVE  (a \div b + 1) * b = (a \div b) * b + b
OBVIOUS

\* What is encrypted and decrypted comes back.
LEMMA TextReturns ==
    ASSUME NEW t \in Seq(Byte), NEW padding \in Mode
    PROVE  ldesdecode(ldesencode(t, padding), padding) = [ok |-> TRUE, text |-> t]
<1>1. Block \in Nat /\ Block >= 2 /\ Byte \subseteq Int
  BY DesAssumption
<1>2. PICK L : L = Len(t)
  OBVIOUS
<1>3. PICK q : q = L \div Block
  OBVIOUS
<1>4. PICK r : r = (L % Block)
  OBVIOUS
<1>5. PICK w : w = q * Block
  OBVIOUS
<1>6. PICK n : n = (q + 1) * Block
  OBVIOUS
<1>7. PICK tail : tail = SubSeq(t, w + 1, L)
  OBVIOUS
<1>8. PICK pad : pad = add_padding(tail, padding)
  OBVIOUS
<1>9. PICK b : b = ldesencode(t, padding)
  OBVIOUS
<1>10. /\ L \in Nat /\ q \in Nat /\ r \in 0 .. Block - 1 /\ w \in Nat
       /\ L = w + r /\ n = w + Block /\ n \in Nat
  <2>1. L \in Nat
    BY <1>2
  <2>2. q \in Nat /\ r \in 0 .. Block - 1 /\ L = q * Block + r
    BY <1>1, <1>3, <1>4, <2>1, DivMod
  <2>3. w \in Nat
    BY <1>1, <1>5, <2>2, MulMono
  <2>4. n = w + Block
    BY <1>1, <1>3, <1>5, <1>6, <2>1, Divided
  <2> QED
    BY <1>1, <1>5, <2>1, <2>2, <2>3, <2>4
<1>11. /\ tail \in Seq(Byte) /\ Len(tail) = r
       /\ \A i \in 1 .. r : tail[i] = t[w + i]
  <2>1. w \in 0 .. Len(t) /\ Len(t) - w = r
    BY <1>2, <1>10
  <2> QED
    BY <1>2, <1>7, <2>1, Suffix
<1>12. /\ pad \in Seq(Int) /\ Len(pad) = Block
       /\ \A i \in 1 .. r : pad[i] = tail[i]
       /\ PaddedBy(pad, Block - r, padding)
  <2>1. Len(tail) < Block
    BY <1>1, <1>10, <1>11
  <2> QED
    BY <1>8, <1>11, <2>1, AddPadding
<1>13. /\ Len(b) = q + 1
       /\ \A i \in 1 .. q : des_uncrypt(b[i]) = SubSeq(t, (i - 1) * Block + 1, i * Block)
       /\ des_uncrypt(b[q + 1]) = pad
  <2>1. b = [i \in 1 .. q + 1 |->
               des_crypt(IF i <= q THEN SubSeq(t, (i - 1) * Block + 1, i * Block)
                                   ELSE pad)]
    BY <1>2, <1>3, <1>5, <1>7, <1>8, <1>9 DEF ldesencode
  <2>2. Len(b) = q + 1
    BY <1>10, <2>1
  <2>3. ASSUME NEW i \in 1 .. q + 1
        PROVE  des_uncrypt(b[i]) = IF i <= q THEN SubSeq(t, (i - 1) * Block + 1, i * Block)
                                             ELSE pad
    BY <2>1 DEF des_crypt, des_uncrypt
  <2>4. ASSUME NEW i \in 1 .. q
        PROVE  des_uncrypt(b[i]) = SubSeq(t, (i - 1) * Block + 1, i * Block)
    <3>1. i \in 1 .. q + 1 /\ i <= q
      BY <1>10
    <3> QED
      BY <2>3, <3>1
  <2>5. q + 1 \in 1 .. q + 1 /\ ~(q + 1 <= q)
    BY <1>10
  <2> QED
    BY <2>2, <2>3, <2>4, <2>5
<1>14. PICK s : s = [i \in 1 .. n |->
                       des_uncrypt(b[(i - 1) \div Block + 1])[((i - 1) % Block) + 1]]
  OBVIOUS
<1>15. ASSUME NEW k \in 1 .. w PROVE s[k] = t[k]
  <2>1. PICK d : d = (k - 1) \div Block
    OBVIOUS
  <2>2. PICK e : e = ((k - 1) % Block)
    OBVIOUS
  <2>3. k \in 1 .. n /\ k - 1 \in Nat /\ k - 1 < q * Block
    BY <1>1, <1>5, <1>10
  <2>4. d \in Nat /\ e \in 0 .. Block - 1 /\ k - 1 = d * Block + e
    BY <1>1, <2>1, <2>2, <2>3, DivMod
  <2>5. d < q
    BY <1>1, <1>10, <2>1, <2>3, DivLess
  <2>6. s[k] = SubSeq(t, d * Block + 1, (d + 1) * Block)[e + 1]
    <3>1. s[k] = des_uncrypt(b[d + 1])[e + 1]
      BY <1>14, <2>1, <2>2, <2>3
    <3>2. d + 1 \in 1 .. q /\ (d + 1) - 1 = d
      BY <1>10, <2>4, <2>5
    <3>3. des_uncrypt(b[d + 1]) = SubSeq(t, ((d + 1) - 1) * Block + 1, (d + 1) * Block)
      BY <1>13, <3>2
    <3> QED
      BY <3>1, <3>2, <3>3
  <2>7. PICK f : f = d * Block
    OBVIOUS
  <2>8. f \in Nat /\ (d + 1) * Block = f + Block /\ f + Block <= L
    <3>1. f \in Nat
      BY <1>1, <2>4, <2>7, MulMono
    <3>2. (d + 1) * Block = f + Block
      <4>1. Block > 0 /\ k - 1 \in Nat
        BY <1>1, <2>3
      <4>2. ((k - 1) \div Block + 1) * Block = ((k - 1) \div Block) * Block + Block
        BY <1>1, <4>1, Divided
      <4> QED
        BY <2>1, <2>7, <4>2
    <3>3. (d + 1) * Block <= q * Block
      <4>1. d + 1 \in Nat /\ d + 1 <= q
        BY <1>10, <2>4, <2>5
      <4> QED
        BY <1>1, <1>10, <4>1, MulMono
    <3> QED
      BY <1>1, <1>5, <1>10, <3>1, <3>2, <3>3
  <2>9. SubSeq(t, f + 1, f + Block)[e + 1] = t[f + (e + 1)]
    BY <1>1, <1>2, <1>10, <2>4, <2>8
  <2>10. f + (e + 1) = k
    BY <2>4, <2>7, <2>8
  <2> QED
    BY <2>6, <2>7, <2>8, <2>9, <2>10
<1>16. ASSUME NEW i \in 1 .. Block PROVE s[w + i] = pad[i]
  <2>1. w + i \in 1 .. n /\ i - 1 \in Nat /\ i - 1 < Block /\ (w + i) - 1 = q * Block + (i - 1)
    BY <1>1, <1>5, <1>10
  <2>2. ((w + i) - 1) \div Block = q /\ (((w + i) - 1) % Block) = i - 1
    <3>1. PICK j : j = i - 1
      OBVIOUS
    <3>2. j \in Nat /\ j < Block /\ (w + i) - 1 = q * Block + j
      BY <2>1, <3>1
    <3>3. (q * Block + j) \div Block = q /\ ((q * Block + j) % Block) = j
      BY <1>1, <1>10, <3>2, DivUnique
    <3> QED
      BY <3>1, <3>2, <3>3
  <2>3. s[w + i] = des_uncrypt(b[q + 1])[(i - 1) + 1]
    BY <1>14, <2>1, <2>2
  <2>4. (i - 1) + 1 = i
    OBVIOUS
  <2> QED
    BY <1>13, <2>3, <2>4
<1>17. s \in Seq(Int) /\ Len(s) = n
  <2>1. ASSUME NEW k \in 1 .. n PROVE s[k] \in Int
    <3>1. CASE k <= w
      <4>1. k \in 1 .. w /\ k \in 1 .. Len(t)
        BY <1>2, <1>10, <3>1
      <4>2. t[k] \in Byte
        BY <4>1
      <4> QED
        BY <1>1, <1>15, <4>1, <4>2
    <3>2. CASE k > w
      <4>1. k - w \in 1 .. Block /\ w + (k - w) = k
        BY <1>1, <1>10, <3>2
      <4>2. s[k] = pad[k - w]
        BY <1>16, <4>1
      <4> QED
        BY <1>12, <4>1, <4>2
    <3> QED
      BY <1>10, <3>1, <3>2
  <2>2. s = [k \in 1 .. n |-> s[k]]
    BY <1>14
  <2>3. s \in [1 .. n -> Int]
    BY <2>1, <2>2
  <2> HIDE <1>14
  <2> QED
    BY <1>10, <2>3
<1>18. PaddedBy(s, Block - r, padding)
  <2>1. ASSUME NEW i \in 0 .. Block - 1 PROVE s[n - i] = pad[Block - i]
    <3>1. Block - i \in 1 .. Block /\ n - i = w + (Block - i)
      BY <1>1, <1>10
    <3> QED
      BY <1>16, <3>1
  <2>2. CASE padding = PADDING_MODE_ISO7816_4
    <3>1. /\ pad[Block - (Block - r) + 1] = Marker
          /\ \A i \in 1 .. (Block - r) - 1 : pad[Block - i + 1] = 0
      BY <1>12, <2>2 DEF PaddedBy
    <3>2. s[n - (Block - r) + 1] = Marker
      <4>1. (Block - r) - 1 \in 0 .. Block - 1
        BY <1>1, <1>10
      <4>2. s[n - ((Block - r) - 1)] = pad[Block - ((Block - r) - 1)]
        BY <2>1, <4>1
      <4>3. /\ n - ((Block - r) - 1) = n - (Block - r) + 1
            /\ Block - ((Block - r) - 1) = Block - (Block - r) + 1
        BY <1>1, <1>10
      <4> QED
        BY <3>1, <4>2, <4>3
    <3>3. ASSUME NEW i \in 1 .. (Block - r) - 1 PROVE s[n - i + 1] = 0
      <4>1. i - 1 \in 0 .. Block - 1
        BY <1>1, <1>10
      <4>2. s[n - (i - 1)] = pad[Block - (i - 1)]
        BY <2>1, <4>1
      <4>3. n - (i - 1) = n - i + 1 /\ Block - (i - 1) = Block - i + 1
        BY <1>1, <1>10
      <4> QED
        BY <3>1, <4>2, <4>3
    <3> QED
      BY <1>17, <2>2, <3>2, <3>3 DEF PaddedBy
  <2>3. CASE padding # PADDING_MODE_ISO7816_4
    <3>1. \A i \in 0 .. (Block - r) - 1 : pad[Block - i] = Block - r
      BY <1>12, <2>3 DEF PaddedBy
    <3>2. ASSUME NEW i \in 0 .. (Block - r) - 1 PROVE s[n - i] = Block - r
      <4>1. i \in 0 .. Block - 1
        BY <1>1, <1>10
      <4> QED
        BY <2>1, <3>1, <4>1
    <3> QED
      BY <1>17, <2>3, <3>2 DEF PaddedBy
  <2> QED
    BY <2>2, <2>3
<1>19. remove_padding(s, padding) = Block - r
  <2>1. Block - r \in 1 .. Block /\ Len(s) >= Block
    BY <1>1, <1>10, <1>17
  <2> QED
    BY <1>17, <1>18, <2>1, RemovePadding
<1>20. SubSeq(s, 1, L) = t
  <2>1. L \in 0 .. Len(s)
    BY <1>1, <1>10, <1>17
  <2>2. PICK x : x = SubSeq(s, 1, L)
    OBVIOUS
  <2>3. /\ x \in Seq(Int) /\ Len(x) = L
        /\ \A i \in 1 .. L : x[i] = s[i]
    BY <1>17, <2>1, <2>2, Prefix
  <2>4. ASSUME NEW k \in 1 .. L PROVE s[k] = t[k]
    <3>1. CASE k <= w
      BY <1>10, <1>15, <3>1
    <3>2. CASE k > w
      <4>1. k - w \in 1 .. r /\ k - w \in 1 .. Block /\ w + (k - w) = k
        BY <1>1, <1>10, <3>2
      <4>2. s[k] = pad[k - w] /\ pad[k - w] = tail[k - w] /\ tail[k - w] = t[k]
        BY <1>11, <1>12, <1>16, <4>1
      <4> QED
        BY <4>2
    <3> QED
      BY <1>10, <3>1, <3>2
  <2>5. \A i \in 1 .. L : x[i] = t[i]
    BY <2>3, <2>4
  <2>6. t \in Seq(Int)
    BY <1>1, SeqMonotonic
  <2>7. x = t
    BY <1>2, <2>3, <2>5, <2>6, SeqEqual
  <2> QED
    BY <2>2, <2>7
<1>21. ldesdecode(b, padding) = [ok |-> TRUE, text |-> SubSeq(s, 1, n - (Block - r))]
  <2>1. Len(b) * Block = n /\ n # 0 /\ ~(Block - r <= 0 \/ Block - r > Block)
    BY <1>1, <1>6, <1>10, <1>13
  <2> QED
    BY <1>14, <1>19, <2>1 DEF ldesdecode
<1>22. n - (Block - r) = L
  BY <1>1, <1>10
<1> QED
  BY <1>9, <1>20, <1>21, <1>22

\* A cipher that nobody has decrypted yet is that of the text, and one that
\* was decrypted whole stays as it is.
CipherIsOfText ==
    (cipher.blocks # <<>> /\ decrypted = NoAnswer) =>
        cipher.blocks = ldesencode(text, cipher.mode)

WholeStays == decrypted.of = "whole" => cipher.blocks # <<>>

DesInv ==
    /\ text \in Seq(Byte) /\ cipher.mode \in Mode
    /\ CipherIsOfText /\ WholeStays /\ RoundTrip

LEMMA DesInitInv == DesInit => DesInv
<1> SUFFICES ASSUME DesInit PROVE DesInv
  OBVIOUS
<1>1. text \in Seq(Byte)
  <2>1. PICK n \in 0 .. MaxText : text \in [1 .. n -> Byte]
    BY DEF DesInit, Texts
  <2>2. n \in Nat
    BY DesAssumption
  <2> QED
    BY <2>1, <2>2
<1> QED
  BY <1>1 DEF DesInit, DesInv, CipherIsOfText, WholeStays, RoundTrip, NoAnswer, Mode

LEMMA DesStepInv == DesInv /\ [DesNext]_desVars => DesInv'
<1> SUFFICES ASSUME DesInv, [DesNext]_desVars PROVE DesInv'
  OBVIOUS
<1> USE DEF DesInv
<1>1. ASSUME NEW padding \in Mode, Encode(padding) PROVE DesInv'
  <2>1. WholeStays'
    BY <1>1 DEF Encode, WholeStays
  <2>2. RoundTrip'
    BY <1>1 DEF Encode, WholeStays, RoundTrip
  <2>3. cipher'.mode = padding /\ cipher'.blocks = ldesencode(text, padding) /\ UNCHANGED text
    BY <1>1 DEF Encode
  <2> QED
    BY <2>1, <2>2, <2>3 DEF CipherIsOfText
<1>2. ASSUME NEW padding \in Mode, Decode(padding) PROVE DesInv'
  <2>1. /\ cipher.blocks # <<>> /\ decrypted = NoAnswer
        /\ decrypted'.of = "whole" /\ decrypted'.mode = padding
        /\ decrypted'.result = ldesdecode(cipher.blocks, padding)
        /\ UNCHANGED <<text, cipher>>
    BY <1>2 DEF Decode
  <2>2. RoundTrip'
    BY <2>1, TextReturns DEF CipherIsOfText, RoundTrip
  <2>3. decrypted' # NoAnswer
    BY <2>1 DEF NoAnswer
  <2> QED
    BY <2>1, <2>2, <2>3 DEF CipherIsOfText, WholeStays
<1>3. CASE Truncate
  <2>1. decrypted'.of = "part" /\ cipher'.mode = cipher.mode /\ UNCHANGED text
    BY <1>3 DEF Truncate
  <2>2. decrypted' # NoAnswer
    BY <2>1 DEF NoAnswer
  <2> QED
    BY <2>1, <2>2 DEF CipherIsOfText, WholeStays, RoundTrip
<1>4. CASE UNCHANGED desVars
  BY <1>4 DEF desVars, CipherIsOfText, WholeStays, RoundTrip
<1> QED
  BY <1>1, <1>2, <1>3, <1>4 DEF DesNext

\* Whatever its length and its bytes, a text comes back from ldesencode and
\* ldesdecode with one padding.
THEOREM TextsComeBack == DesSpec => []RoundTrip
<1>1. DesInv => RoundTrip
  BY DEF DesInv
<1> QED
  BY <1>1, DesInitInv, DesStepInv, PTL DEF DesSpec

-----------------------------------------------------------------------------
(* The logger *)

\* The file that is open is of an hour that has come, and every line since
\* then came at the same hour of a day.
Since(file, hours) == \A h \in hours : h >= file => h % Day = file % Day

LogInv ==
    /\ now \in Nat /\ busy \subseteq 0 .. now
    /\ close \in BOOLEAN
    /\ status \in {"none", "running", "crashed", "released"}
    /\ status = "none" => output = NoFile /\ busy = {} /\ streams = {}
    /\ status = "running" =>
          IF close
          THEN output \in 0 .. now /\ time = output % Day /\ Since(output, busy)
          ELSE output = Stdout
    /\ LinesInTheirFile

LEMMA LogInitInv == LogInit => LogInv
<1> SUFFICES ASSUME LogInit PROVE LogInv
  OBVIOUS
<1>1. now \in Nat
  BY LogAssumption DEF LogInit
<1>2. LinesInTheirFile
  BY <1>1 DEF LogInit, LinesInTheirFile
<1> QED
  BY <1>1, <1>2 DEF LogInit, LogInv

\* new_file leaves the file it found, or opens that of this hour or none.
LEMMA NewFileStep ==
    ASSUME LogInv, NEW toFile \in BOOLEAN, NewFile(toFile)
    PROVE  /\ streams' \subseteq {output'}
           /\ \/ (~toFile \/ now % Day = time) /\ time' = time /\ output' = output
              \/ toFile /\ time' = now % Day /\ output' \in {now, NoFile}
BY DEF LogInv, LinesInTheirFile, NewFile

LEMMA LoggerInitInv ==
    ASSUME LogInv, NEW parm \in BOOLEAN, LoggerInit(parm)
    PROVE  LogInv'
<1>1. /\ now' = now /\ line' = line /\ busy' = busy /\ close' = parm
      /\ status' = IF output' = NoFile THEN "crashed" ELSE "running"
      /\ status = "none"
  BY DEF LoggerInit
<1>2. output = NoFile /\ busy = {} /\ streams \subseteq {output}
  BY <1>1 DEF LogInv, LinesInTheirFile
<1>3. CASE parm
  <2>1. NewFile(TRUE)
    BY <1>3 DEF LoggerInit
  <2>2. /\ streams' \subseteq {output'}
        /\ output' = NoFile \/ (time' = now % Day /\ output' = now)
    BY <1>2, <2>1, NewFileStep
  <2> QED
    BY <1>1, <1>2, <1>3, <2>2 DEF LogInv, LinesInTheirFile, Since
<1>4. CASE ~parm
  <2>1. output' = Stdout /\ streams' = streams
    BY <1>4 DEF LoggerInit
  <2>2. streams = {}
    BY <1>1 DEF LogInv
  <2> QED
    BY <1>1, <1>2, <1>4, <2>1, <2>2 DEF LogInv, LinesInTheirFile, Since
<1> QED
  BY <1>3, <1>4

LEMMA LoggerInv == LogInv /\ Logger => LogInv'
<1> SUFFICES ASSUME LogInv, Logger PROVE LogInv'
  OBVIOUS
<1>1. /\ status = "running" /\ NewFile(close) /\ close' = close /\ now' = now
      /\ close \in BOOLEAN /\ now \in Nat /\ busy \subseteq 0 .. now
  BY DEF Logger, LogInv
<1>2. streams' \subseteq {output'}
  BY <1>1, NewFileStep
<1>3. CASE output' = NoFile
  BY <1>1, <1>2, <1>3 DEF Logger, LogInv, LinesInTheirFile
<1>4. CASE output' # NoFile
  <2>1. /\ line' = [hour |-> now, file |-> output'] /\ busy' = busy \union {now}
        /\ status' = "running"
    BY <1>1, <1>4 DEF Logger
  <2>2. CASE ~close
    <3>1. output' = Stdout
      BY <1>1, <2>2, NewFileStep DEF LogInv
    <3> QED
      BY <1>1, <1>2, <2>1, <2>2, <3>1 DEF LogInv, LinesInTheirFile
  <2>3. CASE close
    <3>1. /\ output \in 0 .. now /\ time = output % Day /\ Since(output, busy)
      BY <1>1, <2>3 DEF LogInv
    <3>2. output' \in 0 .. now /\ time' = output' % Day /\ now % Day = output' % Day
      <4>1. CASE output' = output /\ time' = time /\ now % Day = time
        BY <1>1, <3>1, <4>1
      <4>2. CASE time' = now % Day /\ output' = now
        BY <1>1, <4>2
      <4> QED
        BY <1>1, <1>4, <2>3, <4>1, <4>2, NewFileStep
    <3>3. output' = output \/ output' = now
      BY <1>1, <1>4, <2>3, NewFileStep
    <3>4. Since(output', busy')
      BY <1>1, <2>1, <3>1, <3>2, <3>3 DEF Since
    <3>5. /\ line'.file = output' /\ line'.hour = now
          /\ output' < now \/ output' = now
      BY <1>1, <2>1, <3>2
    <3>6. ASSUME NEW h \in busy' \union {output'}, h \in output' .. now
          PROVE  h % Day = now % Day
      BY <3>2, <3>4, <3>6 DEF Since
    <3>7. LinesInTheirFile'
      BY <1>2, <3>5, <3>6 DEF LinesInTheirFile
    <3> QED
      BY <1>1, <2>1, <2>3, <3>2, <3>4, <3>7 DEF LogInv, Since
  <2> QED
    BY <2>2, <2>3
<1> QED
  BY <1>3, <1>4

LEMMA LogNextInv == LogInv /\ [LogNext]_logVars => LogInv'
<1> SUFFICES ASSUME LogInv, [LogNext]_logVars PROVE LogInv'
  OBVIOUS
<1>1. ASSUME NEW parm \in BOOLEAN, LoggerInit(parm) PROVE LogInv'
  BY <1>1, LoggerInitInv
<1>2. CASE Logger
  BY <1>2, LoggerInv
<1>3. CASE LoggerRelease
  BY <1>3 DEF LoggerRelease, LogInv, LinesInTheirFile
<1>4. CASE Hour
  <2>1. /\ now' = now + 1
        /\ UNCHANGED <<close, time, output, streams, line, busy, status>>
    BY <1>4 DEF Hour
  <2>2. LinesInTheirFile' /\ (Since(output, busy) => Since(output, busy)')
    BY <2>1 DEF LogInv, LinesInTheirFile, Since
  <2> QED
    BY <2>1, <2>2 DEF LogInv
<1>5. CASE UNCHANGED logVars
  BY <1>5 DEF LogInv, LinesInTheirFile, Since, logVars
<1> QED
  BY <1>1, <1>2, <1>3, <1>4, <1>5 DEF LogNext

\* The logger writes a line to the file of its hour, and keeps no other file
\* open, whatever the length of a day and whichever opening of a file fails.
THEOREM LinesFindTheirFile == LogSpec => []LinesInTheirFile
<1>1. LogInv => LinesInTheirFile
  BY DEF LogInv
<1> QED
  BY <1>1, LogInitInv, LogNextInv, PTL DEF LogSpec
=============================================================================
