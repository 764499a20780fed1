------------------------------- MODULE Helpers -------------------------------
(***************************************************************************)
(* What the expat tests keep their evidence in and compute with, one of    *)
(* the helpers at a time ("unit"), for they share nothing:                 *)
(*   tracker     the allocation tracker of Memcheck                        *)
(*   chardata    the text that handlers collect (chardata.c)               *)
(*   structdata  the list of records they collect (structdata.c)           *)
(*   siphash     a hash of a text that comes in pieces (siphash.h)         *)
(*   text        the functions of Internal, for a text that grows by bytes *)
(***************************************************************************)
EXTENDS Memcheck, SipHash, Internal

CONSTANTS
  MaxChars,        \* size of the buffer of character data
  MaxText,         \* bound: characters a test may pass on
  ExtensionCount,  \* STRUCT_EXTENSION_COUNT
  MaxItems,        \* bound: records a test may add between two disposals
  MaxBytes         \* bound: bytes of a text

ASSUME HelperAssumption ==
  /\ {MaxChars, ExtensionCount} \subseteq Nat \ {0}
  /\ {MaxText, MaxItems, MaxBytes} \subseteq Nat

VARIABLES
  unit,
  chars,      \* CharData: the characters in the buffer, count of them; or -1
  text,       \* history: all characters the handlers have passed on
  items,      \* StructData: the records, count of them
  max_count,
  room,       \* records the memory at "entries" has room for
  overrun,    \* a record was written where there is no room for it
  disposed,   \* history: entries given back since StructData_Init()
  H, hashed,  \* the state of the hash, history: the bytes it has been fed
  bytes       \* the text that grows

charVars   == <<chars, text>>
structVars == <<items, max_count, room, overrun, disposed>>
hashVars   == <<H, hashed>>
helperVars == <<unit, charVars, structVars, hashVars, bytes, vars>>

Units == {"tracker", "chardata", "structdata", "siphash", "text"}

(* test_siphash_spec: the key 00 01 .. 0f, the message 00 01 .. 0e.        *)
SpecKey     == [k \in 1 .. 16 |-> k - 1]
SpecMessage == [k \in 1 .. 15 |-> k - 1]

(* The test of the hash itself: each message at once.                      *)
sip24_valid ==
  \A n \in 0 .. Len(SpecMessage) :
    siphash24(SubSeq(SpecMessage, 1, n), sip_tokey(SpecKey)) = SIP_U8TO64_LE(vectors[n + 1])

HelpersInit ==
  /\ unit \in Units
  /\ Init
  /\ chars = <<>> /\ text = <<>>
  /\ items = <<>> /\ max_count = 0 /\ room = 0 /\ overrun = FALSE /\ disposed = FALSE
  /\ H = sip24_init(sip_tokey(SpecKey)) /\ hashed = <<>>
  /\ bytes = <<>>

-------------------------------------------------------------------------------
(* CharData.  A character is the position it has in the text.              *)

Piece(len) == [k \in 1 .. len |-> Len(text) + k]

(* Mutant: what does not fit is clipped, and then stored.                  *)
AppendClipped(len) ==
  LET n == IF len + Len(chars) > MaxChars THEN MaxChars - Len(chars) ELSE len
  IN  chars' = chars \o SubSeq(Piece(len), 1, n)

(* The piece is clipped to what fits, and not stored if that is all of it. *)
AppendPiece(len) ==
  LET n == IF len + Len(chars) > MaxChars THEN MaxChars - Len(chars) ELSE len
  IN  chars' = IF n + Len(chars) < MaxChars THEN chars \o SubSeq(Piece(len), 1, n) ELSE chars

CharData_AppendXMLChars ==
  /\ unit = "chardata"
  /\ \E len \in 0 .. MaxText - Len(text) : AppendPiece(len) /\ text' = text \o Piece(len)
  /\ UNCHANGED <<unit, structVars, hashVars, bytes, vars>>

(* CharData_Init(): the next test, or the next attempt of one.             *)
CharData_Init ==
  /\ unit = "chardata"
  /\ chars' = <<>>
  /\ text' = <<>>
  /\ UNCHANGED <<unit, structVars, hashVars, bytes, vars>>

(* The verdict on an expected text.                                        *)
CharData_CheckXMLChars(expected) == Len(expected) = Len(chars) /\ expected = chars

-------------------------------------------------------------------------------
(* StructData.                                                             *)

(* Mutant: the memory is extended when it has been used up already.        *)
GrowLate ==
  IF Len(items) > max_count
  THEN max_count' = max_count + ExtensionCount /\ room' = max_count'
  ELSE UNCHANGED <<max_count, room>>

(* realloc(), which succeeds.                                              *)
Grow ==
  IF Len(items) = max_count
  THEN max_count' = max_count + ExtensionCount /\ room' = max_count'
  ELSE UNCHANGED <<max_count, room>>

StructData_AddItem ==
  /\ unit = "structdata"
  /\ ~overrun
  /\ Len(items) < MaxItems
  /\ Grow
  /\ overrun' = (Len(items) >= room')
  /\ items' = Append(items, Len(items) + 1)
  /\ UNCHANGED <<unit, disposed, charVars, hashVars, bytes, vars>>

StructData_Init ==
  /\ unit = "structdata"
  /\ ~overrun
  /\ items' = <<>> /\ max_count' = 0 /\ room' = 0 /\ disposed' = FALSE
  /\ UNCHANGED <<unit, overrun, charVars, hashVars, bytes, vars>>

(* Everything is given back, and max_count stays as it is.                 *)
StructData_Dispose ==
  /\ unit = "structdata"
  /\ ~overrun
  /\ items' = <<>> /\ room' = 0 /\ disposed' = TRUE
  /\ UNCHANGED <<unit, max_count, overrun, charVars, hashVars, bytes, vars>>

(* StructData_CheckItems() disposes before it fails.                       *)
StructData_CheckItems ==
  /\ \E expected \in 0 .. MaxItems : expected # Len(items)
  /\ StructData_Dispose

-------------------------------------------------------------------------------
(* The hash, and the text.                                                 *)

Update ==
  /\ unit = "siphash"
  /\ \E len \in 0 .. Len(SpecMessage) - Len(hashed) :
       LET piece == SubSeq(SpecMessage, Len(hashed) + 1, Len(hashed) + len)
       IN  H' = sip24_update(H, piece) /\ hashed' = hashed \o piece
  /\ UNCHANGED <<unit, charVars, structVars, bytes, vars>>

(* One byte of each kind.                                                  *)
SomeBytes == {65, 128, 195, 226, 240}

NextByte ==
  /\ unit = "text"
  /\ Len(bytes) < MaxBytes
  /\ \E b \in SomeBytes : bytes' = Append(bytes, b)
  /\ UNCHANGED <<unit, charVars, structVars, hashVars, vars>>

TrackerStep ==
  /\ unit = "tracker"
  /\ Next
  /\ UNCHANGED <<unit, charVars, structVars, hashVars, bytes>>

HelpersNext ==
  \/ TrackerStep
  \/ CharData_AppendXMLChars \/ CharData_Init
  \/ StructData_AddItem \/ StructData_Init \/ StructData_Dispose \/ StructData_CheckItems
  \/ Update
  \/ NextByte

HelpersSpec == HelpersInit /\ [][HelpersNext]_helperVars

-------------------------------------------------------------------------------

(* The comparison of a collected text succeeds if and only if all of it    *)
(* fits into the buffer with room to spare: no test passes with a text     *)
(* that was clipped, or that has lost a piece in between.                  *)
ChecksWholeText == CharData_CheckXMLChars(text) <=> Len(text) < MaxChars

(* A record is never written beyond the memory that was allocated for it,  *)
(* unless records are added after a disposal without StructData_Init(),    *)
(* for max_count survives.                                                 *)
OverrunOnlyAfterDisposal == overrun => disposed

(* However a text is cut into pieces, empty ones included, the hash is the *)
(* one the vectors of sip24_valid() have for the whole.                    *)
PiecesHashAlike ==
  unit = "siphash" => sip24_final(H) = SIP_U8TO64_LE(vectors[Len(hashed) + 1])

(* The characters of a text that are complete.                             *)
IsCharacter(s) ==
  /\ s # <<>>
  /\ Len(s) = LeadOf(s[1])
  /\ \A k \in 2 .. Len(s) : LeadOf(s[k]) = 0

(* The ends of the characters of a text, and of its well-formed prefixes.  *)
Ends(s) ==
  LET End[n \in 0 .. Len(s)] ==
        n = 0 \/ \E m \in 0 .. n - 1 : End[m] /\ IsCharacter(SubSeq(s, m + 1, n))
  IN  {n \in 0 .. Len(s) : End[n]}

(* A text that may continue in a well-formed way after its last character. *)
Beginning(s) ==
  \E n \in Ends(s) :
    \/ n = Len(s)
    \/ /\ LeadOf(s[n + 1]) > Len(s) - n
       /\ \A k \in n + 2 .. Len(s) : LeadOf(s[k]) = 0

(* Trimming takes away the incomplete character at the end of a text that  *)
(* is well-formed so far, and nothing else, wherever the text is cut.      *)
TrimsToComplete ==
  Beginning(bytes) =>
    LET n == trim_to_complete_utf8_characters(bytes)
    IN  n \in Ends(bytes) /\ \A m \in Ends(bytes) : m <= n

(* Bytes print differently, in graphic ASCII, and nothing that is printed  *)
(* for one byte can be taken for the beginning of an escape or the end of  *)
(* a string.                                                               *)
PrintsApart ==
  LET image == [c \in 0 .. 255 |-> unsignedCharToPrintable(c)] IN
  \A c \in {bytes[k] : k \in DOMAIN bytes} \union {0, 34, Backslash} :
    /\ \A d \in 0 .. 255 : image[d] = image[c] => d = c
    /\ \A k \in DOMAIN image[c] : image[c][k] \in 32 .. 126
    /\ image[c][1] = Backslash <=> Len(image[c]) > 1

===============================================================================
