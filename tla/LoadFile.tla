------------------------------ MODULE LoadFile ------------------------------
(***************************************************************************)
(* Loading a file in the modified Lua of src_encrypt: loadfile, dofile and *)
(* load of lbaselib.c over luaL_loadfilexx of lauxlib.c, which takes plain *)
(* source through the code cache and, when that fails, decrypts the file.  *)
(* What these functions leave on the Lua stack matters, so the stack is a  *)
(* sequence; a caller's own frame is never below it.                       *)
(***************************************************************************)
EXTENDS Integers, Sequences

CONSTANTS
    Path,
    Chunk,      \* programs
    Env         \* tables a caller passes as environment

\* What a file holds: source, a compiled chunk, something that is neither, or
\* the encryption of one of these, whose text may exceed SMALL_CHUNK or may be
\* damaged.  A short file is no source, and shorter than the first line of an
\* encrypted one; an empty file is source.  An oversized file is an encrypted
\* one whose size is damaged so that malloc fails.  No file name, which means
\* the standard input, is left out.
Plain == [kind : {"text", "binary", "garbage"}, chunk : Chunk]
Encrypted == [kind : {"encrypted"}, plain : Plain, large : BOOLEAN, valid : BOOLEAN]
Absent == [kind |-> "missing"]
Short == [kind |-> "short"]
Oversized == [kind |-> "oversized"]
Content == Plain \union Encrypted \union {Absent, Short, Oversized}

ASSUME LoadAssumption == Chunk # {} /\ Env # {}

VARIABLES
    disk,       \* what the files hold
    chunks,     \* the chunk of a file in the code cache, if any
    since,      \* the programs a file stood for since the cache was cleared
    call,       \* the last call
    result      \* what it returned or raised

loadVars == <<disk, chunks, since, call, result>>

NoValue == [type |-> "none"]
Str(what) == [type |-> "string", what |-> what]
Fn(c, env) == [type |-> "function", chunk |-> c, env |-> env]
Table(e) == [type |-> "table", env |-> e]
Userdata == [type |-> "userdata"]
Globals == [type |-> "globals"]
Error == Str("message")

Top(stack) == stack[Len(stack)]

\* A status, the stack it comes with, and whether an error was raised.
Ok(stack) == [ok |-> TRUE, raised |-> FALSE, stack |-> stack]
Fails(stack) == [ok |-> FALSE, raised |-> FALSE, stack |-> stack]
Raises == [ok |-> FALSE, raised |-> TRUE, stack |-> <<Error>>]

LoadInit ==
    /\ disk = [k \in Path |-> Absent]
    /\ chunks = [k \in Path |-> NoValue]
    /\ since = [k \in Path |-> {}]
    /\ call = [op |-> "none"]
    /\ result = <<>>

\* lua_load: a mode "t" takes no compiled chunk.
lua_load(stack, content, mode) ==
    IF content.kind = "text" \/ (content.kind = "binary" /\ mode # "t")
    THEN Ok(Append(stack, Fn(content.chunk, Globals)))
    ELSE Fails(Append(stack, Error))

luaL_loadfilex(stack, k, mode) ==
    IF chunks[k] # NoValue THEN Ok(Append(stack, Fn(chunks[k].chunk, Globals)))
                       ELSE lua_load(stack, disk[k], mode)

\* With the key and the cipher on the stack; a large text goes through a
\* userdata that stays there.
Decoded(stack, content) ==
    IF content.valid
    THEN Ok(stack \o (IF content.large THEN <<Userdata>> ELSE <<>>)
                  \o <<Str(content.plain)>>)
    ELSE Raises

\* Mutant of luaL_loadfilexx: the text is expected right above the cipher.
luaL_loadfilexx_NoUserdata(stack, k) ==
    LET first == luaL_loadfilex(stack, k, "t")
        decoded == Decoded(<<Str("key"), Str("cipher")>>, disk[k])
        there == decoded.ok /\ decoded.stack[3].type = "string"
        loaded == lua_load(decoded.stack, decoded.stack[3].what, "bt")
    IN CASE first.ok -> first
         [] ~first.ok /\ disk[k].kind \in {"missing", "short", "oversized"} ->
              Fails(Append(first.stack, Error))
         [] ~first.ok /\ disk[k].kind \in {"text", "binary", "garbage"} -> first
         [] ~first.ok /\ disk[k].kind = "encrypted" ->
              IF there /\ loaded.ok THEN loaded ELSE Raises

luaL_loadfilexx(stack, k) ==
    LET first == luaL_loadfilex(stack, k, "t")
        decoded == Decoded(<<Str("key"), Str("cipher")>>, disk[k])
        at == IF decoded.stack[3].type = "userdata" THEN 4 ELSE 3
        loaded == lua_load(decoded.stack, decoded.stack[at].what, "bt")
    IN CASE first.ok -> first
         [] ~first.ok /\ disk[k].kind \in {"missing", "short", "oversized"} ->
              Fails(Append(first.stack, Error))
         [] ~first.ok /\ disk[k].kind \in {"text", "binary", "garbage"} -> first
         [] ~first.ok /\ disk[k].kind = "encrypted" ->
              IF decoded.ok /\ loaded.ok THEN loaded ELSE Raises

\* load_aux: the environment is what the stack holds at envidx.
load_aux(state, envidx) ==
    IF state.raised THEN <<[type |-> "raised"]>>
    ELSE IF ~state.ok THEN <<[type |-> "fail"], Error>>
    ELSE IF envidx # 0
         THEN <<[Top(state.stack) EXCEPT !.env = state.stack[envidx]]>>
         ELSE <<Top(state.stack)>>

\* luaL_loadfilex enters what it compiled into the cache.
Enter(k) ==
    chunks' = [chunks EXCEPT ![k] = IF @ = NoValue /\ disk[k].kind = "text"
                                  THEN disk[k] ELSE @]

luaB_loadfile(k, env) ==
    LET args == <<Str("name")>> \o (IF env = NoValue THEN <<>> ELSE <<Str("mode"), env>>)
    IN /\ result' = load_aux(luaL_loadfilexx(args, k), IF env = NoValue THEN 0 ELSE 3)
       /\ call' = [op |-> "loadfile", file |-> k, env |-> env]
       /\ Enter(k)
       /\ UNCHANGED <<disk, since>>

\* The chunk returns one value; dofilecont counts all that is above the name.
luaB_dofile(k) ==
    LET loaded == luaL_loadfilexx(<<Str("name")>>, k)
        n == Len(loaded.stack)
        after == SubSeq(loaded.stack, 1, n - 1) \o <<Str(Top(loaded.stack))>>
    IN /\ result' = IF loaded.ok THEN SubSeq(after, 2, n) ELSE <<[type |-> "raised"]>>
       /\ call' = [op |-> "dofile", file |-> k]
       /\ Enter(k)
       /\ UNCHANGED <<disk, since>>

\* load of a string or, with a reserved slot 5, of a reader's pieces.
luaB_load(content, env, reader) ==
    LET args == <<Str("chunk"), Str("name"), Str("mode")>>
                \o (IF env = NoValue THEN <<>> ELSE <<env>>)
        slots == IF reader
                 THEN [i \in 1 .. 5 |-> IF i <= Len(args) THEN args[i] ELSE NoValue]
                 ELSE args
    IN /\ result' = load_aux(lua_load(slots, content, "bt"),
                             IF env = NoValue THEN 0 ELSE 4)
       /\ call' = [op |-> "load", content |-> content, env |-> env]
       /\ UNCHANGED <<disk, chunks, since>>

\* The program a file stands for, if any: a packed file stands for what was
\* packed.
Program(content) ==
    CASE content.kind = "text" -> {content.chunk}
      [] content.kind = "encrypted" /\ content.valid
         /\ content.plain.kind # "garbage" -> {content.plain.chunk}
      [] OTHER -> {}

\* The file is deployed anew; the cache is cleared.
Deploy(k, content) ==
    /\ disk' = [disk EXCEPT ![k] = content]
    /\ since' = [since EXCEPT ![k] = @ \union Program(content)]
    /\ call' = [op |-> "write"] /\ result' = <<>>
    /\ UNCHANGED chunks

ClearCache ==
    /\ chunks' = [k \in Path |-> NoValue]
    /\ since' = [k \in Path |-> Program(disk[k])]
    /\ call' = [op |-> "clear"] /\ result' = <<>>
    /\ UNCHANGED disk

Envs == {NoValue} \union {Table(e) : e \in Env}

LoadNext ==
    \/ \E k \in Path, env \in Envs : luaB_loadfile(k, env)
    \/ \E k \in Path : luaB_dofile(k)
    \/ \E content \in Plain, env \in Envs, reader \in BOOLEAN :
          luaB_load(content, env, reader)
    \/ \E k \in Path, content \in Content : Deploy(k, content)
    \/ ClearCache

LoadSpec == LoadInit /\ [][LoadNext]_loadVars

-----------------------------------------------------------------------------
(* Properties *)

\* A file that was deployed as source, or packed whole by encrycode.lua from
\* source or from a compiled chunk, loads, large or small.  What is loaded is
\* a program the file has stood for since the cache was cleared.  No other
\* file loads (a compiled chunk on disk, garbage, a damaged, short or missing
\* file) unless the cache still has what the file was before.
GoodFilesLoad ==
    call.op = "loadfile" =>
        /\ Program(disk[call.file]) # {} => result[1].type = "function"
        /\ result[1].type = "function" => result[1].chunk \in since[call.file]
        /\ Program(disk[call.file]) = {} /\ chunks[call.file] = NoValue
             => result[1].type # "function"

=============================================================================
