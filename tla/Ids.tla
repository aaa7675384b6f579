-------------------------------- MODULE Ids --------------------------------
(***************************************************************************)
(* Identifiers: the UUIDs and base 62 of pkg/util (uuid.go, base62.go), and *)
(* the channel ids of common/msg.go and config/config.go.  The generator of *)
(* time-based UUIDs is in TimeUuids; the other ids are functions of their   *)
(* input.                                                                   *)
(***************************************************************************)
EXTENDS TimeUuids, SequencesExt

CONSTANTS
    SampleUUIDs,    \* UUIDs written as texts: 32 hexadecimal digits
    UidParts,       \* uids, as the sequences strings.Split makes of them
    Hash(_)         \* util.HashCrc32

HexDigits == {"0", "1", "2", "3", "4", "5", "6", "7", "8", "9", "a", "b", "c", "d", "e", "f"}

\* strings.Split makes at least one part of a uid; the hash is a uint32.
IdAssumption ==
    /\ SampleUUIDs \subseteq [1..32 -> HexDigits]
    /\ \A u \in UidParts : u \in Seq(Range(u)) /\ u # <<>>
    /\ \A u \in UidParts : Hash(u) \in Nat
ASSUME IdAssumption

----------------------------------------------------------------------------
(* Bytes 6 and 8.  The masks of uuid.go keep or test the high bits of a     *)
(* byte, so that what they leave is a remainder and what they test a bound.  *)

Bytes == 0..255
SetVersion(byte, v) == (byte % 16) + ((v * 16) % 256)
Version(byte) == byte \div 16
SetVariant(byte) == (byte % 64) + 128
VariantRFC4122 == 1
Variant(byte) ==
    IF byte < 128 THEN 0 ELSE IF byte < 192 THEN VariantRFC4122 ELSE IF byte < 224 THEN 2 ELSE 3

\* What NewV3, NewV4 and NewV5 make of a hash or of random bytes.
Stamped(bytes, v) == [bytes EXCEPT ![7] = SetVersion(@, v), ![9] = SetVariant(@)]

\* The stamp is read back, and leaves the other bits alone.
StampsAreRead ==
    \A byte \in Bytes, v \in 3..5 :
        LET u == Stamped([i \in 1..16 |-> byte], v)
        IN  /\ Version(u[7]) = v /\ u[7] % 16 = byte % 16
            /\ Variant(u[9]) = VariantRFC4122 /\ u[9] % 64 = byte % 64

----------------------------------------------------------------------------
(* Texts.  A UUID is its 32 hexadecimal digits, a text is a sequence of     *)
(* characters, of which "urn" stands for the nine of the prefix.            *)

OpenBrace == "{"
CloseBrace == "}"
\* What may stand before the canonical text.
Leads == {<<>>, <<"urn">>, <<OpenBrace>>}

Groups == <<8, 4, 4, 4, 12>>
TextStart == <<1, 10, 15, 20, 25>>
Dashes == {9, 14, 19, 24}
\* Where digit k of a UUID stands in its text, and the digit at a place.
Place(k) ==
    k + (IF k <= 8 THEN 0 ELSE IF k <= 12 THEN 1 ELSE IF k <= 16 THEN 2 ELSE IF k <= 20 THEN 3 ELSE 4)
DigitAt(p) ==
    p - (IF p < 9 THEN 0 ELSE IF p < 14 THEN 1 ELSE IF p < 19 THEN 2 ELSE IF p < 24 THEN 3 ELSE 4)

TextOf(u) == [p \in 1..36 |-> IF p \in Dashes THEN "-" ELSE u[DigitAt(p)]]
TextLen(text) == Len(text) + (IF text # <<>> /\ text[1] = "urn" THEN 8 ELSE 0)

Refused == "error"
Panics == "panic"

\* What becomes of group i of t, when those before it were read.
ReadGroup(t, braced, i) ==
    LET from == TextStart[i]
        beyond == from + Groups[i]
    IN  IF i > 1 /\ Len(t) < from - 1 THEN Panics
        ELSE IF i > 1 /\ t[from - 1] # "-" THEN Refused
        ELSE IF Len(t) < beyond - 1 THEN Refused
        ELSE IF i = 5 /\ Len(t) >= beyond
                /\ (~braced \/ Len(t) > beyond \/ t[beyond] # CloseBrace)
             THEN Refused
        ELSE IF \E p \in from..(beyond - 1) : t[p] \notin HexDigits THEN Refused
        ELSE "read"

ReadText(text) ==
    LET braced == text # <<>> /\ text[1] = OpenBrace
        t == IF braced \/ (text # <<>> /\ text[1] = "urn") THEN Tail(text) ELSE text
        stops == {i \in 1..5 : ReadGroup(t, braced, i) # "read"}
    IN  IF TextLen(text) < 32 THEN <<Refused>>
        ELSE IF stops # {} THEN <<ReadGroup(t, braced, CHOOSE i \in stops : \A j \in stops : i <= j)>>
        ELSE [k \in 1..32 |-> t[Place(k)]]

\* hex.Decode reads a capital digit as the small one; no other letter's case is left
\* open ("urn:uuid:" is compared as it stands).
Lower(c) ==
    CASE c = "A" -> "a" [] c = "B" -> "b" [] c = "C" -> "c"
      [] c = "D" -> "d" [] c = "E" -> "e" [] c = "F" -> "f"
      [] OTHER -> c
Lowered(text) == [i \in DOMAIN text |-> Lower(text[i])]
UnmarshalText(text) == ReadText(Lowered(text))

NilUUID == [i \in 1..32 |-> "0"]
UnmarshalBinaryUUID(data) == IF Len(data) # 32 THEN <<Refused>> ELSE data
\* ScanUUID tells 16 bytes from a text by their number; nil makes a NullUUID invalid.
ScanUUID(src) ==
    CASE src.kind = "bytes" -> UnmarshalBinaryUUID(src.data)
      [] src.kind = "text" -> UnmarshalText(src.data)
      [] OTHER -> <<Refused>>
NullScanUUID(src) ==
    IF src.kind = "nil" THEN [Valid |-> FALSE, UUID |-> NilUUID] ELSE [Valid |-> TRUE, UUID |-> ScanUUID(src)]

----------------------------------------------------------------------------
(* Base 62: the digits 0 to 8 are written as nothing at all (cases of a Go  *)
(* switch do not run into the next), 33 as the letter of 28 and 59 as the   *)
(* letter of 54.                                                            *)

tenValue2Char(n) ==
    IF n \in 0..8 THEN <<>> ELSE IF n = 33 THEN <<28>> ELSE IF n = 59 THEN <<54>> ELSE <<n>>
Ten2Hex[n \in Nat] ==
    IF n >= 62 THEN Ten2Hex[n \div 62] \o tenValue2Char(n % 62)
    ELSE IF n # 0 THEN tenValue2Char(n) ELSE <<>>

----------------------------------------------------------------------------
(* Channel ids.  A uid is what its parts joined by "@" are.                 *)

\* A plausible bug, for the mutants: whoever writes first comes first.
GetFakeChannelIDInOrder(fromUID, toUID) == fromUID \o toUID
GetFakeChannelIDWith(fromUID, toUID) ==
    IF Hash(fromUID) > Hash(toUID) THEN fromUID \o toUID ELSE toUID \o fromUID
IsFakeChannel(channelID) == Len(channelID) > 1
GetToChannelIDWithFakeChannelID(fakeChannelID, uid) ==
    IF Len(fakeChannelID) # 2 THEN fakeChannelID
    ELSE IF <<fakeChannelID[1]>> = uid THEN <<fakeChannelID[2]>> ELSE <<fakeChannelID[1]>>

\* A customer service channel: the visitor's id and the channel's, joined by
\* "|", which is split into its parts likewise.
ComposeCustomerServiceChannelID(vid, channelID) == vid \o channelID
GetCustomerServiceChannelID(channelID) == IF Len(channelID) = 1 THEN <<>> ELSE <<channelID[2]>>
GetCustomerServiceVisitorUID(channelID) == IF Len(channelID) = 1 THEN <<>> ELSE <<channelID[1]>>

----------------------------------------------------------------------------
(* What the ids promise.                                                   *)

\* All the texts that an edit makes of a UUID's.
Edited(text) ==
    {text, Append(text, CloseBrace), Append(text, "0"), Front(text), SubSeq(text, 1, 23)}
        \cup {[text EXCEPT ![k] = c] : k \in {1, 9, 36}, c \in {"-", "g", OpenBrace, "A"}}
Texts == UNION {Edited(TextOf(u)) \cup {<<lead>> \o t : t \in Edited(TextOf(u)), lead \in {"urn", OpenBrace}}
                   : u \in SampleUUIDs}

\* A text is read as the UUID whose digits it has, capital or small, in canonical
\* groups; the canonical text is read, with a prefix or in braces too.  (A prefix
\* and 23 characters panic.)
TextsAreRead ==
    /\ \A u \in SampleUUIDs :
         /\ \A lead \in Leads : UnmarshalText(lead \o TextOf(u)) = u
         /\ NullScanUUID([kind |-> "text", data |-> <<OpenBrace>> \o TextOf(u) \o <<CloseBrace>>]).UUID = u
         /\ NullScanUUID([kind |-> "bytes", data |-> u]).UUID = u
         /\ ~NullScanUUID([kind |-> "nil"]).Valid
    /\ \A t \in Texts :
         LET u == UnmarshalText(t)
         IN  IF u = <<Panics>> THEN TextLen(t) = 32 /\ t[1] = "urn"
             ELSE u # <<Refused>> =>
                    /\ \E lead \in Leads, tail \in {<<>>, <<CloseBrace>>} :
                         Lowered(t) = lead \o TextOf(u) \o tail
                    /\ Last(t) = CloseBrace => t[1] = OpenBrace

\* The conversion to base 62 keeps apart the numbers whose digits it writes.
Digits62(n) == {n % 62, (n \div 62) % 62}
Written == {n \in 62 * 9..62 * 62 - 1 : Digits62(n) \cap (0..8 \cup {33, 59}) = {}}
Base62IsKept == \A n \in Written : Len(Ten2Hex[n]) = 2 /\ 62 * Ten2Hex[n][1] + Ten2Hex[n][2] = n

\* Two users find one channel from either side, and each the other in it;
\* no other two users find it.  (Unless their hashes are equal, or a uid has
\* an "@" itself.)
Plain == {u \in UidParts : Len(u) = 1}
PairsShareOneChannel ==
    \A a, b \in Plain : Hash(a) # Hash(b) =>
        LET c == GetFakeChannelIDWith(a, b)
        IN  /\ c = GetFakeChannelIDWith(b, a) /\ IsFakeChannel(c)
            /\ GetToChannelIDWithFakeChannelID(c, a) = b
            /\ GetToChannelIDWithFakeChannelID(c, b) = a
            /\ \A u, v \in UidParts : GetFakeChannelIDWith(u, v) = c => {u, v} = {a, b}
            /\ GetCustomerServiceVisitorUID(ComposeCustomerServiceChannelID(a, b)) = a
            /\ GetCustomerServiceChannelID(ComposeCustomerServiceChannelID(a, b)) = b

\* Every id that is read back is the one that was written: by UnmarshalText and
\* Scan, by Version and Variant, from base 62, and by
\* GetToChannelIDWithFakeChannelID and the customer service channels.
IdsAreReadBack ==
    calls > 0 => StampsAreRead /\ TextsAreRead /\ Base62IsKept /\ PairsShareOneChannel
============================================================================
