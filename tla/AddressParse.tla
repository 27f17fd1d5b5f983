---------------------------- MODULE AddressParse ----------------------------
(***************************************************************************)
(* The RtdAddress GraphQL scalar of the two GraphQL services, and the      *)
(* owner parser of the consistent store's balance service:                 *)
(*   rpc: crates/rtd-graphql-rpc/src/types/rtd_address.rs                  *)
(*   alt: crates/rtd-indexer-alt-graphql/src/api/scalars/rtd_address.rs    *)
(*   own: crates/sui-indexer-alt-consistent-store/src/rpc/                 *)
(*        consistent_service/address_balances.rs, fn owner                 *)
(* Both parse "0x" followed by 1..2*RTD_ADDRESS_LENGTH hex digits, left-   *)
(* padding short input with zeroes; rpc pads the string and hex-decodes   *)
(* it, alt decodes single-character slices from the back.  Both print     *)
(* "0x" and two digits per byte.                                          *)
(*                                                                         *)
(* A string is the sequence of its UTF-8 bytes, as str::len and slicing   *)
(* see it.  The bytes are the ASCII digits "0" and "f", the non-hex       *)
(* ASCII "g", and the two bytes "e1", "e2" of one two-byte         *)
(* character (e2 is a continuation byte).  A GraphQL request hands the    *)
(* service any such string; Parse is one request.                          *)
(***************************************************************************)
EXTENDS Naturals, Sequences, SequencesExt

CONSTANTS
    AddressLength,  \* RTD_ADDRESS_LENGTH (32 in the code)
    MaxBody         \* most bytes after the prefix

Width == 2 * AddressLength

HexVal == ("0" :> 0) @@ ("f" :> 15)
IsHex(b) == b \in DOMAIN HexVal
Digit == [v \in {0, 15} |-> CHOOSE d \in DOMAIN HexVal : HexVal[d] = v]

\* Characters of an input and their UTF-8 bytes.
Encoding == ("0" :> <<"0">>) @@ ("f" :> <<"f">>)
            @@ ("g" :> <<"g">>) @@ ("e" :> <<"e1", "e2">>)
Continuation(b) == b = "e2"

Utf8(chars) == FlattenSeq([i \in DOMAIN chars |-> Encoding[chars[i]]])

InputPrefixes == {<<"0", "x">>, <<"1", "x">>, <<>>}
Bodies == {b \in {Utf8(c) : c \in BoundedSeq(DOMAIN Encoding, MaxBody)} : Len(b) <= MaxBody}
Inputs == {p \o b : p \in InputPrefixes, b \in Bodies}

\* Results: an address (a sequence of AddressLength bytes), an error with
\* the position it reports, or a panic of the request.
Ok(bytes) == [kind |-> "ok", val |-> bytes, pos |-> 0]
Err(k, p) == [kind |-> k, val |-> <<>>, pos |-> p]
Panic == Err("panic", 0)

\* str::strip_prefix("0x"), or the empty set when it is missing.
StripPrefix(s) ==
    IF Len(s) >= 2 /\ s[1] = "0" /\ s[2] = "x" THEN {SubSeq(s, 3, Len(s))} ELSE {}

\* Mutant: the high digit shifted by a byte instead of a nibble.
ByteShift8(hi, lo) == 256 * HexVal[hi] + HexVal[lo]

\* A byte pair of the decoded array: high digit << 4 | low digit.
Byte(hi, lo) == 16 * HexVal[hi] + HexVal[lo]

-----------------------------------------------------------------------------
(***************************************************************************)
(* rpc: RtdAddress::from_str.  format!("{:0>width$}") left-pads to width  *)
(* characters (not bytes).  hex::decode_to_slice refuses an odd length     *)
(* and a length other than two digits per byte, both mapped to            *)
(* unreachable!(), then checks the digits left to right; the index of an   *)
(* InvalidHexCharacter, counted in the padded string, is reported as       *)
(* BadHex(c, index + 2).                                                   *)
(***************************************************************************)
\* str::chars().count(): the bytes that start a character.
NumChars(t) == Len(SelectSeq(t, LAMBDA b : ~Continuation(b)))

\* Mutant: padding on the right.
PadRight(t) == t \o [i \in 1..Width - NumChars(t) |-> "0"]

Pad(t) == [i \in 1..Width - NumChars(t) |-> "0"] \o t

\* hex::decode_to_slice(padded, &mut arr) and the map_err that follows it.
DecodeToSlice(p) ==
    LET bad == SelectInSeq(p, LAMBDA b : ~IsHex(b))
    IN IF Len(p) # Width THEN Panic
       ELSE IF bad # 0 THEN Err("badhex", bad - 1 + 2)
       ELSE Ok([k \in 1..AddressLength |-> Byte(p[2 * k - 1], p[2 * k])])

RpcFromStr(s) ==
    IF StripPrefix(s) = {} THEN Err("noprefix", 0)
    ELSE LET t == CHOOSE t \in StripPrefix(s) : TRUE
         IN IF Len(t) = 0 \/ Len(t) > Width THEN Err("length", Len(t))
            ELSE DecodeToSlice(Pad(t))

(***************************************************************************)
(* alt: RtdAddress::from_str.  hex(i) parses the slice s[i..=i] with       *)
(* u8::from_str_radix; slicing panics when either end falls inside a       *)
(* character.  The array is filled from the back, two digits at a time    *)
(* while more than two remain (the high digit first), then the last one    *)
(* or two.                                                                 *)
(***************************************************************************)
\* s[i..=i] (0-based i) is one whole character.
OnBoundary(t, i) == ~Continuation(t[i + 1]) /\ (i + 2 > Len(t) \/ ~Continuation(t[i + 2]))

\* Mutant: the error offset leaves out one byte of the "0x" prefix.
HexAtOff(t, i) ==
    IF ~OnBoundary(t, i) THEN Panic
    ELSE IF IsHex(t[i + 1]) THEN Ok(HexVal[t[i + 1]]) ELSE Err("badhex", i + 1)

\* The closure hex(i): a digit value, an error, or a panic.
HexAt(t, i) ==
    IF ~OnBoundary(t, i) THEN Panic
    ELSE IF IsHex(t[i + 1]) THEN Ok(HexVal[t[i + 1]]) ELSE Err("badhex", i + 2)

\* (hex(a)? << 4) | hex(b)? : the first failure, or the byte.
HexPair(t, a, b) ==
    IF HexAt(t, a).kind # "ok" THEN HexAt(t, a)
    ELSE IF HexAt(t, b).kind # "ok" THEN HexAt(t, b)
    ELSE Ok(16 * HexAt(t, a).val + HexAt(t, b).val)

\* Mutant: the loop also takes the last full pair (j > 1 for j > 2).
RECURSIVE FillFromEarly(_, _, _, _)
FillFromEarly(t, arr, i, j) ==
    IF j > 1
    THEN LET r == HexPair(t, j - 2, j - 1)
         IN IF r.kind # "ok" THEN r
            ELSE FillFromEarly(t, [arr EXCEPT ![i] = r.val], i - 1, j - 2)
    ELSE LET r == IF j = 2 THEN HexPair(t, 0, 1) ELSE HexAt(t, 0)
         IN IF r.kind # "ok" THEN r ELSE Ok([arr EXCEPT ![i] = r.val])

\* The while loop over (i, j), then the if j == 2 branch; i is 1-based.
RECURSIVE FillFrom(_, _, _, _)
FillFrom(t, arr, i, j) ==
    IF j > 2
    THEN LET r == HexPair(t, j - 2, j - 1)
         IN IF r.kind # "ok" THEN r
            ELSE FillFrom(t, [arr EXCEPT ![i] = r.val], i - 1, j - 2)
    ELSE LET r == IF j = 2 THEN HexPair(t, 0, 1) ELSE HexAt(t, 0)
         IN IF r.kind # "ok" THEN r ELSE Ok([arr EXCEPT ![i] = r.val])

AltFromStr(s) ==
    IF StripPrefix(s) = {} THEN Err("noprefix", 0)
    ELSE LET t == CHOOSE t \in StripPrefix(s) : TRUE
         IN IF Len(t) = 0 \/ Len(t) > Width THEN Err("length", Len(t))
            ELSE FillFrom(t, [k \in 1..AddressLength |-> 0], AddressLength, Len(t))

(***************************************************************************)
(* own: owner(input).  The same prefix and length checks; a body shorter   *)
(* than 64 bytes is formatted as "0x{s:0>64}" (again padded to 64         *)
(* characters), a full one is used as it is.  SuiAddress::from_str then   *)
(* hex-decodes the digits after "0x" and requires exactly the address's   *)
(* bytes: any other length or a non-hex digit is InvalidOwner.            *)
(***************************************************************************)
SuiAddressFromStr(p) ==
    LET t == SubSeq(p, 3, Len(p))
    IN IF Len(t) = Width /\ \A k \in DOMAIN t : IsHex(t[k])
       THEN Ok([k \in 1..AddressLength |-> Byte(t[2 * k - 1], t[2 * k])])
       ELSE Err("invalid", 0)

OwnerFromStr(s) ==
    IF StripPrefix(s) = {} THEN Err("invalid", 0)
    ELSE LET t == CHOOSE t \in StripPrefix(s) : TRUE
         IN IF Len(t) = 0 \/ Len(t) > Width THEN Err("invalid", 0)
            ELSE IF Len(t) # Width THEN SuiAddressFromStr(<<"0", "x">> \o Pad(t))
            ELSE SuiAddressFromStr(s)

(***************************************************************************)
(* Display: "0x" and each byte as two lower-case digits (hex::encode in    *)
(* rpc, write!("{:02x}") in alt).                                          *)
(***************************************************************************)
\* Mutant: {:x} without the zero padding.
HexByteShort(v) == IF v < 16 THEN <<Digit[v % 16]>> ELSE <<Digit[v \div 16], Digit[v % 16]>>

HexByte(v) == <<Digit[v \div 16], Digit[v % 16]>>

Display(bytes) == <<"0", "x">> \o FlattenSeq([k \in DOMAIN bytes |-> HexByte(bytes[k])])

-----------------------------------------------------------------------------
VARIABLES input, rpc, alt, own

vars == <<input, rpc, alt, own>>

\* A request: ScalarType::parse of a string value in each GraphQL service,
\* and the owner field of a ListAddressBalances request.
Parse(s) ==
    /\ input' = s /\ rpc' = RpcFromStr(s) /\ alt' = AltFromStr(s)
    /\ own' = OwnerFromStr(s)

Init ==
    \E s \in Inputs :
        /\ input = s /\ rpc = RpcFromStr(s) /\ alt = AltFromStr(s)
        /\ own = OwnerFromStr(s)

Request == \E s \in Inputs : Parse(s)

Next == Request

Spec == Init /\ [][Next]_vars

-----------------------------------------------------------------------------
Results == [kind : {"ok", "noprefix", "length", "badhex", "invalid", "panic"},
            val : Seq(0..255), pos : Nat]

TypeOK == input \in Inputs /\ rpc \in Results /\ alt \in Results /\ own \in Results

\* The digits after the prefix, when the input is "0x" and 1..Width of them.
Digits == IF StripPrefix(input) = {} THEN <<>> ELSE CHOOSE t \in StripPrefix(input) : TRUE

\* What the digits denote: the number they spell, as AddressLength bytes.
RECURSIVE NumberOf(_)
NumberOf(t) == IF t = <<>> THEN 0 ELSE 16 * NumberOf(Front(t)) + HexVal[Last(t)]

Reference ==
    LET n == NumberOf(Digits)
    IN [k \in 1..AddressLength |-> (n \div (256 ^ (AddressLength - k))) % 256]

WellFormed ==
    /\ StripPrefix(input) # {}
    /\ Len(Digits) \in 1..Width
    /\ \A k \in DOMAIN Digits : IsHex(Digits[k])

(***************************************************************************)
(* All three parsers accept exactly the well-formed inputs, short ones     *)
(* included, and decode them to the number the digits spell, however many *)
(* leading zeroes were left out: the services agree on every address.      *)
(***************************************************************************)
ParsesToNumber ==
    \A r \in {rpc, alt, own} :
        /\ (r.kind = "ok") = WellFormed
        /\ WellFormed => r.val = Reference

(***************************************************************************)
(* Display is what the alt doc comment promises: always "0x" and          *)
(* 2*RTD_ADDRESS_LENGTH digits, and it parses back to the same address in  *)
(* both services (test_round_trip, test_round_trip_short).                 *)
(***************************************************************************)
DisplayRoundTrip ==
    rpc.kind = "ok" =>
        /\ Len(Display(rpc.val)) = 2 + Width
        /\ RpcFromStr(Display(rpc.val)) = rpc /\ AltFromStr(Display(rpc.val)) = rpc

(***************************************************************************)
(* A BadHex error points at a character of the input that is not a hex    *)
(* digit: position p is byte p of the input, counting "0x", as             *)
(* test_parse_invalid_characters expects (BadHex('g', 2) for "0xg...").   *)
(***************************************************************************)
RpcBadHexPointsAtInput ==
    rpc.kind = "badhex" => rpc.pos < Len(input) /\ ~IsHex(input[rpc.pos + 1])

AltBadHexPointsAtInput ==
    alt.kind = "badhex" => alt.pos < Len(input) /\ ~IsHex(input[alt.pos + 1])

(***************************************************************************)
(* Parsing a GraphQL input never panics the request: any string is        *)
(* accepted or refused with an InputValueError, in both services.  rpc     *)
(* says so in its "SAFETY: Prevented by padding / by bounds check"         *)
(* comments.                                                               *)
(***************************************************************************)
ParseNeverPanics == rpc.kind # "panic" /\ alt.kind # "panic"
=============================================================================
