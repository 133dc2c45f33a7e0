------------------------------ MODULE DesText ------------------------------
(***************************************************************************)
(* Encryption of a text of any length with a block cipher: ldesencode and  *)
(* ldesdecode of src_encrypt/lauxlib.c, with their two paddings.  The text *)
(* is always padded, by a whole block if need be, and the padding is found *)
(* again from the last byte.  DES under the one key of the loader is a     *)
(* bijection of blocks: a block that is marked as encrypted.               *)
(***************************************************************************)
EXTENDS Integers, Sequences

CONSTANTS
    Block,       \* bytes of a block (8)
    Byte,        \* bytes of texts: 0, 0x80 and the lengths of paddings among them
    MaxText      \* bound: bytes of a text

PADDING_MODE_ISO7816_4 == 0
PADDING_MODE_PKCS7 == 1
Mode == {PADDING_MODE_ISO7816_4, PADDING_MODE_PKCS7}
Marker == 128

ASSUME DesAssumption ==
    /\ Block \in 2 .. 127
    /\ Byte \subseteq 0 .. 255
    /\ MaxText \in Nat

VARIABLES
    text,        \* what the user encrypted
    cipher,      \* what came of it
    decrypted    \* what decrypting gave: a text, or an error

desVars == <<text, cipher, decrypted>>

Texts == UNION {[1 .. n -> Byte] : n \in 0 .. MaxText}

NoAnswer == [of |-> "none"]

DesInit ==
    /\ text \in Texts
    /\ cipher = [mode |-> PADDING_MODE_ISO7816_4, blocks |-> <<>>]
    /\ decrypted = NoAnswer

des_crypt(block) == [encrypted |-> block]
des_uncrypt(c) == c.encrypted

Filled(n, b) == [i \in 1 .. n |-> b]

padding_add_iso7816_4(tail) == tail \o <<Marker>> \o Filled(Block - 1 - Len(tail), 0)

padding_add_pkcs7(tail) ==
    LET x == Block - Len(tail) IN tail \o Filled(x, x)

add_padding(tail, mode) ==
    IF mode = PADDING_MODE_ISO7816_4 THEN padding_add_iso7816_4(tail)
                                     ELSE padding_add_pkcs7(tail)

\* Mutant of padding_remove_iso7816_4: a padding of a whole block is missed.
padding_remove_iso7816_4_Short(s) ==
    LET n == Len(s)
        Marked(p) == s[n - p + 1] = Marker /\ \A i \in 1 .. p - 1 : s[n - i + 1] = 0
    IN IF \E p \in 1 .. Block - 1 : Marked(p)
       THEN CHOOSE p \in 1 .. Block - 1 : Marked(p) ELSE 0

\* How many bytes to take away: from the marker on, looking back one block;
\* 0 when there is none.
padding_remove_iso7816_4(s) ==
    LET n == Len(s)
        Marked(p) == s[n - p + 1] = Marker /\ \A i \in 1 .. p - 1 : s[n - i + 1] = 0
    IN IF \E p \in 1 .. Block : Marked(p)
       THEN CHOOSE p \in 1 .. Block : Marked(p) ELSE 0

\* As many equal bytes as the last one says; one that says more than a block
\* is refused below, whatever lies before the text.
padding_remove_pkcs7(s) ==
    LET n == Len(s)
        p == s[n]
    IN IF \A i \in 1 .. p - 1 : n - i >= 1 => s[n - i] = p THEN p ELSE 0

remove_padding(s, mode) ==
    IF mode = PADDING_MODE_ISO7816_4 THEN padding_remove_iso7816_4(s)
                                     ELSE padding_remove_pkcs7(s)

\* The blocks of a text and its padding, encrypted one by one.
ldesencode(s, mode) ==
    LET whole == Len(s) \div Block
        tail == SubSeq(s, whole * Block + 1, Len(s))
        Nth(i) == IF i <= whole THEN SubSeq(s, (i - 1) * Block + 1, i * Block)
                                ELSE add_padding(tail, mode)
    IN [i \in 1 .. whole + 1 |-> des_crypt(Nth(i))]

ldesdecode(blocks, mode) ==
    LET n == Len(blocks) * Block
        s == [i \in 1 .. n |->
                des_uncrypt(blocks[(i - 1) \div Block + 1])[((i - 1) % Block) + 1]]
        padding == remove_padding(s, mode)
    IN IF n = 0 THEN [ok |-> FALSE, why |-> "length"]
       ELSE IF padding <= 0 \/ padding > Block THEN [ok |-> FALSE, why |-> "padding"]
       ELSE [ok |-> TRUE, text |-> SubSeq(s, 1, n - padding)]

Encode(mode) ==
    /\ cipher.blocks = <<>>
    /\ cipher' = [mode |-> mode, blocks |-> ldesencode(text, mode)]
    /\ UNCHANGED <<text, decrypted>>

Decode(mode) ==
    /\ cipher.blocks # <<>> /\ decrypted = NoAnswer
    /\ decrypted' = [of |-> "whole", mode |-> mode,
                  result |-> ldesdecode(cipher.blocks, mode)]
    /\ UNCHANGED <<text, cipher>>

\* The end of the cipher is lost on its way.
Truncate ==
    /\ cipher.blocks # <<>> /\ decrypted = NoAnswer
    /\ cipher' = [cipher EXCEPT !.blocks = SubSeq(@, 1, Len(@) - 1)]
    /\ decrypted' = [of |-> "part", mode |-> cipher.mode,
                  result |-> ldesdecode(cipher'.blocks, cipher.mode)]
    /\ UNCHANGED text

DesNext ==
    \/ \E mode \in Mode : Encode(mode) \/ Decode(mode)
    \/ Truncate

DesSpec == DesInit /\ [][DesNext]_desVars

-----------------------------------------------------------------------------
(* Properties *)

\* Decrypting with the padding it was encrypted with gives back the text, whatever its
\* length and however much its end looks like a padding.
RoundTrip ==
    (decrypted.of = "whole" /\ decrypted.mode = cipher.mode) =>
        decrypted.result = [ok |-> TRUE, text |-> text]

=============================================================================
