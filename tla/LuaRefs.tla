------------------------------ MODULE LuaRefs ------------------------------
(***************************************************************************)
(* How a KCP object of lkcp.c keeps its Lua callback: a reference into the *)
(* registry (luaL_ref, luaL_unref of lauxlib.c), taken when the object is  *)
(* made, used for every packet that goes out, given back when the object   *)
(* is collected.  Slots that were given back form a list through the slots *)
(* themselves, so a slot holds a callback or the number of another slot.   *)
(* The Lua state kept in c->L, the coroutine that made the object, is taken *)
(* to outlive it: lkcp.c does not anchor it, and the model has one state.  *)
(***************************************************************************)
EXTENDS Integers

CONSTANTS
    Kcp,         \* KCP objects
    Callback,    \* what a caller passes last: its callback
    Nil,         \* no callback
    First,       \* the first slot after the predefined values
    MaxSlot      \* bound: slots of the registry

ASSUME RefsAssumption ==
    /\ First \in Nat \ {0}
    /\ MaxSlot \in Nat
    /\ Nil \notin Callback
    /\ Callback \intersect Int = {}

VARIABLES
    registry,    \* the slots from First to the length of the table
    freelist,    \* t[freelist]: a slot that is free, or 0
    state,       \* a KCP object: "none", "live" or "collected"
    handle,      \* its reference
    callback     \* the callback it was made with

refsVars == <<registry, freelist, state, handle, callback>>

LUA_REFNIL == -1

Slot == First .. MaxSlot

Used == DOMAIN registry

RefsTypeOK ==
    /\ Used \subseteq Slot
    /\ registry \in [Used -> Callback \union {0} \union Slot]
    /\ freelist \in {0} \union Slot
    /\ state \in [Kcp -> {"none", "live", "collected"}]
    /\ handle \in [Kcp -> {LUA_REFNIL} \union Slot]
    /\ callback \in [Kcp -> Callback \union {Nil}]

RefsInit ==
    /\ registry = [i \in {} |-> 0]
    /\ freelist = 0
    /\ state = [k \in Kcp |-> "none"]
    /\ handle = [k \in Kcp |-> LUA_REFNIL]
    /\ callback = [k \in Kcp |-> Nil]

\* The slot after the last one: lua_rawlen(L, t) + 1.
IsNext(n) == n \in Slot \ Used /\ \A i \in Slot : i < n => i \in Used

\* Mutant of luaL_ref: a free slot is taken and stays on the list.
luaL_ref_NoUnlink(f, r) ==
    \/ /\ f = Nil
       /\ r = LUA_REFNIL
       /\ UNCHANGED <<registry, freelist>>
    \/ /\ f # Nil /\ freelist # 0
       /\ r = freelist
       /\ registry' = [registry EXCEPT ![r] = f]
       /\ UNCHANGED freelist
    \/ /\ f # Nil /\ freelist = 0
       /\ IsNext(r)
       /\ registry' = [i \in Used \union {r} |-> IF i = r THEN f ELSE registry[i]]
       /\ UNCHANGED freelist

\* luaL_ref(f) answers r.
luaL_ref(f, r) ==
    \/ /\ f = Nil
       /\ r = LUA_REFNIL
       /\ UNCHANGED <<registry, freelist>>
    \/ /\ f # Nil /\ freelist # 0
       /\ r = freelist
       /\ freelist' = registry[r]
       /\ registry' = [registry EXCEPT ![r] = f]
    \/ /\ f # Nil /\ freelist = 0
       /\ IsNext(r)
       /\ registry' = [i \in Used \union {r} |-> IF i = r THEN f ELSE registry[i]]
       /\ UNCHANGED freelist

luaL_unref(r) ==
    IF r >= 0 THEN /\ registry' = [registry EXCEPT ![r] = freelist]
                   /\ freelist' = r
              ELSE UNCHANGED <<registry, freelist>>

\* lkcp_create.
Create(k, f) ==
    /\ state[k] = "none"
    /\ \E r \in {LUA_REFNIL} \union Slot :
          /\ luaL_ref(f, r)
          /\ handle' = [handle EXCEPT ![k] = r]
    /\ callback' = [callback EXCEPT ![k] = f]
    /\ state' = [state EXCEPT ![k] = "live"]

\* lkcp_create fails after luaL_ref, in luaL_checkinteger or in ikcp_create:
\* the slot is taken for good.
CreateFails(f) ==
    /\ \E r \in {LUA_REFNIL} \union Slot : luaL_ref(f, r)
    /\ UNCHANGED <<state, handle, callback>>

\* kcp_gc.
Collect(k) ==
    /\ state[k] = "live"
    /\ luaL_unref(handle[k])
    /\ state' = [state EXCEPT ![k] = "collected"]
    /\ UNCHANGED <<handle, callback>>

RefsNext ==
    \/ \E k \in Kcp, f \in Callback \union {Nil} : Create(k, f)
    \/ \E f \in Callback : CreateFails(f)
    \/ \E k \in Kcp : Collect(k)

RefsSpec == RefsInit /\ [][RefsNext]_refsVars

-----------------------------------------------------------------------------
(* Properties *)

\* kcp_output_callback calls the callback its own object was made with,
\* whatever other objects were made, failed and collected since, although
\* their slots are handed out again.
CallbackIsOwn ==
    \A k \in Kcp :
        (state[k] = "live" /\ callback[k] # Nil) =>
            /\ handle[k] \in Used
            /\ registry[handle[k]] = callback[k]

=============================================================================
