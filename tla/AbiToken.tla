-------------------------------- MODULE AbiToken --------------------------------
(***************************************************************************)
(* The arguments of a call of the AVM, as avm_abi/src/abi_token.rs writes  *)
(* them.  A token is [kind, v], v an integer, bytes or a sequence of them; *)
(* a float is the integer its bits are.                                    *)
(***************************************************************************)
EXTENDS Integers, SequencesExt

(* Width of the scalars, in the order of their tags 1 to 8 and, as arrays, *)
(* 17 to 24.                                                               *)
Scalars == <<"UCHAR", "BOOL", "INT8", "INT16", "INT32", "INT64", "FLOAT", "DOUBLE">>
Arrays == <<"AUCHAR", "ABOOL", "AINT8", "AINT16", "AINT32", "AINT64", "AFLOAT", "ADOUBLE">>
Widths == <<1, 1, 1, 2, 4, 8, 4, 8>>
IndexIn(kinds, kind) == CHOOSE i \in DOMAIN kinds : kinds[i] = kind

(* to_vm_bytes: n bytes of v in two's complement, the highest first. *)
to_vm_bytes(v, n) ==
    [i \in 1..n |-> FoldLeft(LAMBDA x, k : x \div 256, v, [k \in 1..(n - i) |-> k]) % 256]

BoolByte(v) == IF v THEN <<1>> ELSE <<0>>
BoolItem(v) == IF v THEN <<1>> ELSE <<2>>

(* Mutant: the length is that of the name of a method. *)
StringLengthFixed(v) == <<0, 11>>

StringLength(v) == to_vm_bytes(Len(v), 2)

encode(token) ==
    CASE token.kind \in Range(Scalars) ->
            LET i == IndexIn(Scalars, token.kind)
            IN  <<i>> \o (IF token.kind = "BOOL" THEN BoolByte(token.v)
                                                 ELSE to_vm_bytes(token.v, Widths[i]))
      [] token.kind \in Range(Arrays) ->
            LET i == IndexIn(Arrays, token.kind)
            IN  <<16 + i>> \o FlattenSeq([n \in DOMAIN token.v |->
                    IF token.kind = "ABOOL" THEN BoolItem(token.v[n])
                                            ELSE to_vm_bytes(token.v[n], Widths[i])])
      [] token.kind = "STRING" -> <<33>> \o StringLength(token.v) \o token.v
      [] token.kind = "METHOD" -> <<33, 0, 11>> \o token.v
      [] token.kind = "ADDRESS" -> <<34>> \o token.v

Encoded(call) == FlattenSeq([i \in DOMAIN call |-> encode(call[i])])
-------------------------------------------------------------------------------
(* What is encoded one after the other can be told apart: no other call,   *)
(* of any number of tokens, has the same bytes.  Scalars, strings and      *)
(* addresses know their length; an array must be the last, and a method    *)
(* must have a name of 11 bytes, which makes it the string of its name.    *)
AsStrings(call) == [i \in DOMAIN call |->
    IF call[i].kind = "METHOD" THEN [call[i] EXCEPT !.kind = "STRING"] ELSE call[i]]
Unambiguous(call, calls) ==
    \A other \in calls : Encoded(other) = Encoded(call) => AsStrings(other) = AsStrings(call)
===============================================================================
