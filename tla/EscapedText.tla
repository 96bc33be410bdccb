---------------------------- MODULE EscapedText ----------------------------
(***************************************************************************)
(* The escapes of src/escape.rs, byte by byte.                             *)
(***************************************************************************)
EXTENDS Unicode, SequencesExt

Quote == 34
Backslash == 92
ShortForms == 8 :> 98 @@ 9 :> 116 @@ 10 :> 110 @@ 12 :> 102 @@ 13 :> 114
Hex(nibble) == IF nibble < 10 THEN 48 + nibble ELSE 87 + nibble

NeedsEscapeC1(byte) == byte \in {Quote, Backslash} \/ byte < 32 \/ byte \in 127 .. 159
NeedsEscape(byte) == byte \in {Quote, Backslash} \/ byte < 32

EscapeOf(byte) ==
    IF byte \in {Quote, Backslash} THEN <<Backslash, byte>>
    ELSE IF byte \in DOMAIN ShortForms THEN <<Backslash, ShortForms[byte]>>
    ELSE <<Backslash, 117, 48, 48, Hex(byte \div 16), Hex(byte % 16)>>

(* A name or a string, as its UTF-8 and as the text that stands for it.    *)
Bytes(text) == FlattenSeq([i \in DOMAIN text |-> Utf8(text[i])])
Units(text) == FlattenSeq([i \in DOMAIN text |-> Utf16(text[i])])
Escaped(bytes) ==
    FlattenSeq([i \in DOMAIN bytes |->
                  IF NeedsEscape(bytes[i]) THEN EscapeOf(bytes[i]) ELSE <<bytes[i]>>])
=============================================================================
