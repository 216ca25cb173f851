------------------------------ MODULE AutoKeys ------------------------------
(***************************************************************************)
(* -autokeys: a text typed into the SMC's key ring one event at a time,    *)
(* with the Shift key around a character of the shifted layer              *)
(* (autokeys_step of keyboard.c), against a guest that reads the ring when *)
(* it likes and tracks Shift by its presses and releases.                  *)
(*                                                                         *)
(* A key is its number, its release the number with bit 7 set.  What the   *)
(* timer does, a wait between two events, is left open.                    *)
(***************************************************************************)
EXTENDS ByteRing

CONSTANTS KeySize,      \* KBD_SIZE
          Letters,      \* the characters of a text, "enter" for a line's end
          Texts,        \* what the user may ask to have typed
          MaxResets     \* bounds the machine resets

\* The ring holds a byte, and a text is one of characters.
ASSUME AutoAssumption ==
    /\ KeySize \in Nat /\ KeySize >= 2
    /\ {"a", "A", "\\", "n", "enter"} \subseteq Letters /\ Texts \subseteq Seq(Letters)

\* Some of them: a key unshifted and shifted, the two of a `\n', and Enter;
\* any other is on neither layer.
autokey_ascii == [c \in {"a", "\\", "n", "enter"} |->
                     CASE c = "a" -> 31 [] c = "\\" -> 29 [] c = "n" -> 51 [] OTHER -> 43]
autokey_shift == [c \in {"A"} |-> 31]
LShift == 44
Up(key) == key + 128
Keys == {29, 31, 43, 51}

\* What the guest makes of a key.
Typed(key, shifted) ==
    LET layer == IF shifted THEN autokey_shift ELSE autokey_ascii
    IN  {c \in DOMAIN layer : layer[c] = key}

VARIABLES
    autokeys_text,      \* what is left of it
    autokeys_pending, autokeys_shifted, autokeys_phase,
    kbd_ring,           \* kbd_buffer, kbd_head, kbd_tail
    shift_down, keys_down, \* of the guest: Shift, and the keys it thinks are held
    typed,              \* and what it has read
    whole_text,              \* history: the whole text
    missed,             \* history: a byte was dropped or flushed
    resets

autoVars == <<autokeys_text, autokeys_pending, autokeys_shifted, autokeys_phase, kbd_ring,
              shift_down, keys_down, typed, whole_text, missed, resets>>

reader == <<shift_down, keys_down, typed>>

-----------------------------------------------------------------------------

\* i2c_kbd_buffer_add, noting a byte that has no room.
Add(b) ==
    /\ kbd_ring' = RingAdd(KeySize, kbd_ring, b)
    /\ missed' = (missed \/ NextSlot(KeySize, kbd_ring.head) = kbd_ring.tail)

\* How many characters of s make the next one, and which it is.
Escaped(s) == Len(s) >= 2 /\ s[1] = "\\" /\ s[2] = "n"
Width(s) == IF Escaped(s) THEN 2 ELSE 1
Next1(s) == IF Escaped(s) THEN "enter" ELSE s[1]

\* Mutation: the text moves on when a key is pressed, and a character of no key
\* is looked up again and again.
TextAfter_stuck(s) ==
    IF Next1(s) \in DOMAIN autokey_ascii \cup DOMAIN autokey_shift
    THEN SubSeq(s, Width(s) + 1, Len(s)) ELSE s

\* The text without its next character.
TextAfter(s) == SubSeq(s, Width(s) + 1, Len(s))

\* A character is fetched and its first key pressed, unless it cannot be typed.
Fetch ==
    /\ autokeys_phase = 0 /\ autokeys_text # <<>>
    /\ LET c == Next1(autokeys_text)
       IN  /\ autokeys_text' = TextAfter(autokeys_text)
           /\ autokeys_shifted' = (c \in DOMAIN autokey_shift)
           /\ \/ /\ c \in DOMAIN autokey_ascii
                 /\ autokeys_pending' = autokey_ascii[c] /\ autokeys_phase' = 2
                 /\ Add(autokey_ascii[c])
              \/ /\ c \in DOMAIN autokey_shift
                 /\ autokeys_pending' = autokey_shift[c] /\ autokeys_phase' = 1
                 /\ Add(LShift)
              \/ /\ c \notin DOMAIN autokey_ascii \cup DOMAIN autokey_shift
                 /\ UNCHANGED <<autokeys_pending, autokeys_phase, kbd_ring, missed>>

\* Mutation: Shift is left to the next key that needs none.
AfterKeyUp_shift == 0

\* The phase after a key's release.
AfterKeyUp == IF autokeys_shifted THEN 3 ELSE 0

\* One event of the sequence: key down, key up, Shift up.
Event ==
    /\ \/ autokeys_phase = 1 /\ Add(autokeys_pending) /\ autokeys_phase' = 2
       \/ autokeys_phase = 2 /\ Add(Up(autokeys_pending)) /\ autokeys_phase' = AfterKeyUp
       \/ autokeys_phase = 3 /\ Add(Up(LShift)) /\ autokeys_phase' = 0
    /\ UNCHANGED <<autokeys_text, autokeys_pending, autokeys_shifted>>

\* autokeys_step when its timer has run out.
autokeys_step == (Fetch \/ Event) /\ UNCHANGED <<reader, whole_text, resets>>

-----------------------------------------------------------------------------
(* The guest. *)

\* It reads a byte of the SMC's key register.
GuestReads ==
    /\ kbd_ring.head # kbd_ring.tail
    /\ LET b == RingFront(kbd_ring)
       IN  /\ shift_down' = IF b = LShift THEN TRUE ELSE IF b = Up(LShift) THEN FALSE
                            ELSE shift_down
           /\ keys_down' = IF b < 128 THEN keys_down \cup {b} ELSE keys_down \ {b - 128}
           /\ \/ b \in Keys /\ \E c \in Typed(b, shift_down) : typed' = Append(typed, c)
              \/ ~ (b \in Keys /\ Typed(b, shift_down) # {}) /\ UNCHANGED typed
    /\ kbd_ring' = RingNext(KeySize, kbd_ring)
    /\ UNCHANGED <<autokeys_text, autokeys_pending, autokeys_shifted, autokeys_phase, whole_text,
                   missed, resets>>

\* A machine reset empties the ring (i2c_reset_state) under the typing, which
\* goes on, and the guest starts over.
ResetUnderTyping ==
    /\ resets < MaxResets /\ resets' = resets + 1
    /\ kbd_ring' = RingFlush(kbd_ring)
    /\ shift_down' = FALSE /\ keys_down' = {}
    /\ missed' = (missed \/ kbd_ring.head # kbd_ring.tail \/ autokeys_phase # 0)
    /\ UNCHANGED <<autokeys_text, autokeys_pending, autokeys_shifted, autokeys_phase, typed, whole_text>>

AutoInit ==
    /\ whole_text \in Texts /\ autokeys_text = whole_text
    /\ autokeys_pending = 0 /\ autokeys_shifted = FALSE /\ autokeys_phase = 0
    /\ kbd_ring = EmptyRing(KeySize)
    /\ shift_down = FALSE /\ keys_down = {} /\ typed = <<>>
    /\ missed = FALSE /\ resets = 0

Finished == autokeys_phase = 0 /\ autokeys_text = <<>>
Over == Finished /\ kbd_ring.head = kbd_ring.tail /\ UNCHANGED autoVars

AutoNext == autokeys_step \/ GuestReads \/ ResetUnderTyping \/ Over

AutoSpec == AutoInit /\ [][AutoNext]_autoVars

\* The loop steps the typing after every instruction, and the guest goes on
\* polling the SMC.
AutoFairSpec == AutoSpec /\ WF_autoVars(autokeys_step) /\ WF_autoVars(GuestReads)

-----------------------------------------------------------------------------
(* Properties. *)

\* The characters that a text types from its i-th on.
Meant ==
    LET from[i \in 1 .. Len(whole_text) + 1] ==
            IF i > Len(whole_text) THEN <<>>
            ELSE LET rest == SubSeq(whole_text, i, Len(whole_text))
                     c == Next1(rest)
                 IN  (IF c \in DOMAIN autokey_ascii \cup DOMAIN autokey_shift THEN <<c>> ELSE <<>>)
                         \o from[i + Width(rest)]
    IN  from[1]

\* The guest reads the text, each character on its own layer, and when it is
\* over no key is held, Shift included ("it would leave Shift stuck down for
\* ever, since a modifier IS the gap between its two edges", keyboard.c:370),
\* as long as the ring had room and no reset emptied it.
TypesTheText ==
    ~ missed =>
        /\ Len(typed) <= Len(Meant) /\ typed = SubSeq(Meant, 1, Len(typed))
        /\ Finished /\ kbd_ring.head = kbd_ring.tail =>
              typed = Meant /\ keys_down = {} /\ ~ shift_down

\* The whole text gets to the guest and its last key comes up, or something of
\* it was lost.
TypingArrives == <>[](missed \/ (typed = Meant /\ keys_down = {} /\ ~ shift_down))
=============================================================================
