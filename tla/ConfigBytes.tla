---------------------------- MODULE ConfigBytes ----------------------------
(***************************************************************************)
(* types.Config and Config.Bytes (src/core/types/config.go): the bytes a   *)
(* round's configuration is persisted and hashed as.                       *)
(*                                                                         *)
(* A byte has Byte values, 256 in the code.  A uint32 is four bytes and an *)
(* int, an int64 and a time.Duration are eight, as on the 64-bit builds.   *)
(* TLC's integers have 32 bits, so the runs take a smaller Byte; the       *)
(* widths, the conversions between them and the layout are the code's.     *)
(***************************************************************************)
EXTENDS Integers, Sequences, SequencesExt

CONSTANTS
    Byte,       \* the number of values of a byte
    Uint32s,    \* the values of NumChains the runs take
    Ints,       \* the values of K and of the three set sizes
    Durations,  \* the values of the five durations, in nanoseconds
    FloatBits   \* the exponents and mantissas of PhiRatio

VARIABLES
    config,     \* the Config of the round
    enc         \* config.Bytes()

vars == <<config, enc>>

Uint32  == 0..(Byte^4 - 1)
Int64   == -(Byte^8 \div 2)..(Byte^8 \div 2 - 1)
\* A float32 is its sign and the bits of its exponent and mantissa.
Float32 == [sign : {0, 1}, bits : 0..(Byte^4 \div 2 - 1)]

\* The least and the greatest int a uint32 holds, and an int it does not.
ExtremeInts == {-1, 0, Byte^4 - 1}

\* The least and the greatest duration.
ExtremeDurations == {-(Byte^8 \div 2), Byte^8 \div 2 - 1}

ASSUME /\ Uint32s \subseteq Uint32 /\ FloatBits \subseteq 0..(Byte^4 \div 2 - 1)
       /\ Ints \subseteq Int64 /\ Durations \subseteq Int64

\* The values each field takes.
Values ==
    [NumChains |-> Uint32s,
     LambdaBA |-> Durations, LambdaDKG |-> Durations,
     K |-> Ints, PhiRatio |-> [sign : {0, 1}, bits : FloatBits],
     NumNotarySet |-> Ints, NumWitnessSet |-> Ints, NumDKGSet |-> Ints,
     RoundInterval |-> Durations, MinBlockInterval |-> Durations,
     MaxBlockInterval |-> Durations]

Config ==
    [NumChains : Values.NumChains,
     LambdaBA : Values.LambdaBA, LambdaDKG : Values.LambdaDKG,
     K : Values.K, PhiRatio : Values.PhiRatio,
     NumNotarySet : Values.NumNotarySet, NumWitnessSet : Values.NumWitnessSet,
     NumDKGSet : Values.NumDKGSet,
     RoundInterval : Values.RoundInterval,
     MinBlockInterval : Values.MinBlockInterval,
     MaxBlockInterval : Values.MaxBlockInterval]

\* uint32(i) and uint64(i) of a signed i
ToUint32(i) == i % Byte^4
ToUint64(i) == i % Byte^8

Float32bits(f) == f.sign * (Byte^4 \div 2) + f.bits

\* binary.LittleEndian.PutUint32 and PutUint64 into a slice of their size
PutUint(size, v) == [i \in 1..size |-> (v \div Byte^(i - 1)) % Byte]
PutUint32(v)     == PutUint(4, v)
PutUint64(v)     == PutUint(8, v)

\* The eleven slices, in the order they are appended.
Slices(c) ==
    << PutUint32(c.NumChains),
       PutUint64(ToUint64(c.LambdaBA)), PutUint64(ToUint64(c.LambdaDKG)),
       PutUint32(ToUint32(c.K)), PutUint32(Float32bits(c.PhiRatio)),
       PutUint32(ToUint32(c.NumNotarySet)),
       PutUint32(ToUint32(c.NumWitnessSet)),
       PutUint32(ToUint32(c.NumDKGSet)),
       PutUint64(ToUint64(c.RoundInterval)),
       PutUint64(ToUint64(c.MinBlockInterval)),
       PutUint64(ToUint64(c.MaxBlockInterval)) >>

\* Mutant: enc has the 40 bytes its capacity names, and no more.
Bytes_FortyBytes(c) == SubSeq(FlattenSeq(Slices(c)), 1, 40)

\* Mutant: PhiRatio is appended before K.
Bytes_PhiRatioBeforeK(c) ==
    FlattenSeq([Slices(c) EXCEPT ![4] = Slices(c)[5], ![5] = Slices(c)[4]])

Bytes(c) == FlattenSeq(Slices(c))

Init ==
    /\ config \in Config
    /\ enc = Bytes(config)

\* Governance gives the next round a config that differs in one parameter,
\* and the config is encoded.
Reconfigure(f, v) ==
    /\ config' = [config EXCEPT ![f] = v]
    /\ enc' = Bytes(config')

Next == \E f \in DOMAIN Values : \E v \in Values[f] \ {config[f]} : Reconfigure(f, v)

Spec == Init /\ [][Next]_vars

-----------------------------------------------------------------------------

TypeOK ==
    /\ config \in Config
    /\ enc \in [1..64 -> 0..(Byte - 1)]

\* The persisted wire format: field, size in bytes, and whether the field is
\* read back as unsigned, signed or as the bits of a float.
WireFormat ==
    << <<"NumChains", 4, "u">>, <<"LambdaBA", 8, "i">>, <<"LambdaDKG", 8, "i">>,
       <<"K", 4, "u">>, <<"PhiRatio", 4, "f">>, <<"NumNotarySet", 4, "u">>,
       <<"NumWitnessSet", 4, "u">>, <<"NumDKGSet", 4, "u">>,
       <<"RoundInterval", 8, "i">>, <<"MinBlockInterval", 8, "i">>,
       <<"MaxBlockInterval", 8, "i">> >>

RECURSIVE Offset(_)
Offset(n) == IF n = 1 THEN 0 ELSE Offset(n - 1) + WireFormat[n - 1][2]

RECURSIVE LittleEndian(_)
LittleEndian(bytes) ==
    IF bytes = <<>> THEN 0 ELSE Head(bytes) + Byte * LittleEndian(Tail(bytes))

\* What a reader of the wire format takes field n of the bytes to be.
Decoded(bytes, n) ==
    LET size == WireFormat[n][2]
        u    == LittleEndian(SubSeq(bytes, Offset(n) + 1, Offset(n) + size))
    IN  CASE WireFormat[n][3] = "u" -> u
          [] WireFormat[n][3] = "i" -> IF u >= Byte^size \div 2 THEN u - Byte^size ELSE u
          [] WireFormat[n][3] = "f" ->
                 [sign |-> u \div (Byte^size \div 2), bits |-> u % (Byte^size \div 2)]

\* v is what a reader finds where x was written as a field of the kind.
\* K and the set sizes are ints written as uint32(...): the reader finds
\* the low 32 bits, which are x itself for the values a uint32 has.
ReadBack(kind, v, x) ==
    IF kind = "u" THEN v \in Uint32 /\ (v - x) % Byte^4 = 0 ELSE v = x

\* Config.Bytes writes the persisted wire format: every field of the config
\* is read back from its offset and size, little-endian, the durations as
\* signed 64-bit nanoseconds, K and the set sizes as unsigned 32-bit numbers
\* (of a negative K or one above 2^32 - 1, the low 32 bits), PhiRatio as the
\* bits of the float.
BytesFollowWireFormat ==
    \A n \in DOMAIN WireFormat :
        ReadBack(WireFormat[n][3], Decoded(enc, n), config[WireFormat[n][1]])

=============================================================================
