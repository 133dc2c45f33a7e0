----------------------------- MODULE CodeCache -----------------------------
(***************************************************************************)
(* The code cache of src_encrypt/lauxlib.c: the threads of a process share *)
(* the functions of the files they load.  A file is compiled in a Lua      *)
(* state of its own, whose function is shared and entered into the cache;  *)
(* loading it again clones that function.  The cache is locked for one     *)
(* look at a time, not from the miss to the entry, so two threads may both *)
(* compile a file.                                                         *)
(***************************************************************************)
EXTENDS Integers, FiniteSets

CONSTANTS
    Thread,
    File,
    State,       \* Lua states a file is compiled in
    NULL,
    MaxClears    \* bound: how often the cache is cleared

ASSUME CacheAssumption ==
    /\ NULL \notin State
    /\ MaxClears \in Nat

VARIABLES
    cache,       \* CC.L: the state of the function of a file; NULL is as empty
    mode,        \* the cache level of a thread
    load,        \* the call of luaL_loadfilex a thread is in
    open,        \* the states that are not closed
    entered,     \* the states whose function was entered, by file
    running,     \* the states whose functions a thread has cloned
    clears       \* how often the cache was cleared

cacheVars == <<cache, mode, load, open, entered, running, clears>>

CACHE_OFF == "OFF"
CACHE_EXIST == "EXIST"
CACHE_ON == "ON"

Levels == {CACHE_OFF, CACHE_EXIST, CACHE_ON}

\* Where a call is: before "compile" and "save" it holds no lock.
NoLoad == [step |-> "idle", file |-> NULL, eL |-> NULL, proto |-> NULL]

CacheTypeOK ==
    /\ cache \in [File -> State \union {NULL}]
    /\ mode \in [Thread -> Levels]
    /\ load \in [Thread -> [step : {"idle", "compile", "save", "clone"},
                            file : File \union {NULL},
                            eL : State \union {NULL},
                            proto : State \union {NULL}]]
    /\ open \subseteq State
    /\ entered \in [File -> SUBSET State]
    /\ running \in [Thread -> SUBSET State]
    /\ clears \in Nat

CacheInit ==
    /\ cache = [k \in File |-> NULL]
    /\ mode = [t \in Thread |-> CACHE_ON]
    /\ load = [t \in Thread |-> NoLoad]
    /\ open = {}
    /\ entered = [k \in File |-> {}]
    /\ running = [t \in Thread |-> {}]
    /\ clears = 0

\* Mutant of LoadFile: a hit puts the file where the state belongs.
LoadFile_Swapped(t, k) ==
    /\ load[t] = NoLoad
    /\ \/ /\ mode[t] # CACHE_OFF /\ cache[k] # NULL
          /\ load' = [load EXCEPT ![t] = [step |-> "clone", file |-> NULL,
                                          eL |-> k, proto |-> cache[k]]]
       \/ /\ mode[t] = CACHE_ON /\ cache[k] = NULL
          /\ load' = [load EXCEPT ![t] = [NoLoad EXCEPT !.step = "compile",
                                                      !.file = k]]
    /\ UNCHANGED <<cache, mode, open, entered, running, clears>>

\* luaL_loadfilex up to load_proto.  With the cache off, or nothing to find
\* and no leave to enter, the file is compiled in the caller's state.
LoadFile(t, k) ==
    /\ load[t] = NoLoad
    /\ \/ /\ mode[t] # CACHE_OFF /\ cache[k] # NULL
          /\ load' = [load EXCEPT ![t] = [step |-> "clone", file |-> k,
                                          eL |-> NULL, proto |-> cache[k]]]
       \/ /\ mode[t] = CACHE_ON /\ cache[k] = NULL
          /\ load' = [load EXCEPT ![t] = [NoLoad EXCEPT !.step = "compile",
                                                      !.file = k]]
    /\ UNCHANGED <<cache, mode, open, entered, running, clears>>

\* luaL_newstate and luaL_loadfilex_ in it.
Compile(t, eL) ==
    /\ load[t].step = "compile"
    /\ eL \in State \ (open \union UNION {entered[k] : k \in File})
    /\ open' = open \union {eL}
    /\ load' = [load EXCEPT ![t].step = "save", ![t].eL = eL]
    /\ UNCHANGED <<cache, mode, entered, running, clears>>

\* No state, or a file that does not compile: what was opened is closed.
CompileFails(t) ==
    /\ load[t].step = "compile"
    /\ load' = [load EXCEPT ![t] = NoLoad]
    /\ UNCHANGED <<cache, mode, open, entered, running, clears>>

\* save_proto: the first to enter a file wins.
SaveProto(t) ==
    LET k == load[t].file
        eL == load[t].eL
    IN /\ load[t].step = "save"
       /\ IF cache[k] = NULL
          THEN /\ cache' = [cache EXCEPT ![k] = eL]
               /\ entered' = [entered EXCEPT ![k] = @ \union {eL}]
               /\ load' = [load EXCEPT ![t].step = "clone", ![t].eL = NULL,
                                       ![t].proto = eL]
          ELSE /\ load' = [load EXCEPT ![t].step = "clone", ![t].proto = cache[k]]
               /\ UNCHANGED <<cache, entered>>
       /\ UNCHANGED <<mode, open, running, clears>>

\* Mutant of Clone: the state that came second is not closed.
Clone_NoClose(t) ==
    /\ load[t].step = "clone"
    /\ running' = [running EXCEPT ![t] = @ \union {load[t].proto}]
    /\ load' = [load EXCEPT ![t] = NoLoad]
    /\ UNCHANGED <<cache, mode, open, entered, clears>>

\* lua_clonefunction, after lua_close of the state that came second.
Clone(t) ==
    /\ load[t].step = "clone"
    /\ open' = open \ {load[t].eL}
    /\ running' = [running EXCEPT ![t] = @ \union {load[t].proto}]
    /\ load' = [load EXCEPT ![t] = NoLoad]
    /\ UNCHANGED <<cache, mode, entered, clears>>

\* Mutant of Clear: the states of the cached functions are closed with it.
Clear_Closes(t) ==
    /\ load[t] = NoLoad
    /\ clears < MaxClears
    /\ clears' = clears + 1
    /\ cache' = [k \in File |-> NULL]
    /\ open' = open \ {cache[k] : k \in File}
    /\ UNCHANGED <<mode, load, entered, running>>

\* clearcache closes CC.L, not the states whose functions it refers to.
Clear(t) ==
    /\ load[t] = NoLoad
    /\ clears < MaxClears
    /\ clears' = clears + 1
    /\ cache' = [k \in File |-> NULL]
    /\ UNCHANGED <<mode, load, open, entered, running>>

CacheMode(t, level) ==
    /\ load[t] = NoLoad
    /\ mode' = [mode EXCEPT ![t] = level]
    /\ UNCHANGED <<cache, load, open, entered, running, clears>>

CacheNext ==
    \E t \in Thread :
        \/ \E k \in File : LoadFile(t, k)
        \/ \E eL \in State : Compile(t, eL)
        \/ CompileFails(t)
        \/ SaveProto(t)
        \/ Clone(t)
        \/ Clear(t)
        \/ \E level \in Levels : CacheMode(t, level)

CacheSpec == CacheInit /\ [][CacheNext]_cacheVars

-----------------------------------------------------------------------------
(* Properties *)

\* No function hangs in a state that was closed: neither one that some
\* thread runs, nor one about to be cloned, nor one the cache still offers,
\* however misses, entries and clears of several threads interleave.
SharedAlive ==
    /\ \A t \in Thread : running[t] \subseteq open
    /\ \A t \in Thread : load[t].step = "clone" => load[t].proto \in open
    /\ \A k \in File : cache[k] # NULL => cache[k] \in open

\* "Never close it. notice: memory leak" (lauxlib.c:1282) costs one state for
\* each file between two clears, however many threads compile it at once:
\* what came second is closed.
LeakIsBounded ==
    /\ \A k \in File : Cardinality(entered[k]) <= clears + 1
    /\ open = (UNION {entered[k] : k \in File})
              \union ({load[t].eL : t \in Thread} \ {NULL})

=============================================================================
