-------------------------------- MODULE Input --------------------------------
(***************************************************************************)
(* Decoding PS/2 bytes: drivers/ps2.c and drivers/keyboard.c.              *)
(*                                                                         *)
(* Keyboard and mouse (external) send reports byte by byte and the         *)
(* controller passes on one byte at a time, of either, with the status     *)
(* that ps2_irq reads; a byte with a parity or timeout error is lost.  A   *)
(* byte is an action: the handler runs with interrupts off.  The two rings *)
(* are queues here, which module Ring shows them to be.                    *)
(***************************************************************************)
EXTENDS Integers, Sequences

CONSTANTS
  KeyReports,   \* the byte sequences the keyboard may send
  Packets,      \* the three-byte reports the mouse may send
  NoisyReports, NoisyPackets,   \* the same while bytes may arrive damaged
  Room          \* entries a queue holds

VARIABLES
  kbd, mouse,         \* the report each device is sending and the bytes still to come
  mouse_present,
  noise,              \* whether bytes may arrive damaged; this does not change
  packet,             \* the bytes collected, packet_used of them
  pause_bytes, extended_key, shift_pressed, caps_lock_active,
  events, chars       \* the event ring and the key buffer

decode == <<pause_bytes, extended_key, shift_pressed, caps_lock_active>>
queues == <<events, chars>>
vars == <<kbd, mouse, mouse_present, noise, packet, decode, queues>>

LSHIFT == 42
RSHIFT == 54
CAPS == 58
PAUSE == <<225, 29, 69, 225, 157, 197>>

Bit(b, n) == (b \div 2^n) % 2 = 1

(* A key sends its code or release code, some behind a prefix, and Pause   *)
(* its own sequence; the first byte of a mouse packet has bit 3 set.  With *)
(* noise a key has no prefix to lose, and no data byte of a packet looks   *)
(* like a first byte.                                                      *)
Byte == 0 .. 255
Codes == Byte \ {224, 225}

ReportAssumption ==
  /\ Room \in Nat
  /\ \A r \in KeyReports : r = PAUSE \/ \E b \in Codes : r \in {<<b>>, <<224, b>>}
  /\ \A r \in NoisyReports : \E b \in Codes : r = <<b>>
  /\ \A p \in Packets \cup NoisyPackets : p \in Seq(Byte) /\ Len(p) = 3 /\ Bit(p[1], 3)
  /\ \A p \in NoisyPackets : ~Bit(p[2], 3) /\ ~Bit(p[3], 3)

Idle == [report |-> <<>>, left |-> <<>>, lost |-> FALSE, down |-> {}]

Init ==
  /\ kbd = Idle /\ mouse = Idle
  /\ mouse_present \in BOOLEAN /\ noise \in BOOLEAN /\ packet = <<>>
  /\ pause_bytes = 0 /\ extended_key = FALSE
  /\ shift_pressed = FALSE /\ caps_lock_active = FALSE
  /\ events = <<>> /\ chars = <<>>

Pushed(queue, e) == IF Len(queue) < Room THEN Append(queue, e) ELSE queue

(***************************************************************************)
(* keyboard_handler: a character is its scancode and which of the two      *)
(* tables it comes from; a special key stands for itself.                  *)
(***************************************************************************)
Letters == 16 .. 25 \cup 30 .. 38 \cup 44 .. 50
Printable == 1 .. 57 \ {29, 42, 54, 56}
SpecialKeys == {72, 80, 75, 77, 73, 81}

Upper(code) ==
  IF code \in Letters THEN shift_pressed # caps_lock_active ELSE shift_pressed

\* Mutant: extended codes reach the modifiers.
Modify_Extended(code, make) ==
  /\ shift_pressed' = IF code \in {LSHIFT, RSHIFT} THEN make ELSE shift_pressed
  /\ caps_lock_active' = (caps_lock_active # (make /\ code = CAPS))

Modify(code, make) ==
  /\ shift_pressed' =
       IF ~extended_key /\ code \in {LSHIFT, RSHIFT} THEN make ELSE shift_pressed
  /\ caps_lock_active' = (caps_lock_active # (~extended_key /\ make /\ code = CAPS))

Char(code, make) ==
  CASE extended_key /\ make /\ code \in SpecialKeys -> <<[special |-> code]>>
    [] ~extended_key /\ make /\ code \in Printable ->
         <<[code |-> code, upper |-> Upper(code)]>>
    [] OTHER -> <<>>

Key(code, make) ==
  /\ events' = Pushed(events, [code |-> code + (IF extended_key THEN 256 ELSE 0),
                               value |-> make])
  /\ chars' = IF Char(code, make) = <<>> THEN chars ELSE Pushed(chars, Char(code, make)[1])
  /\ Modify(code, make)
  /\ extended_key' = FALSE
  /\ UNCHANGED pause_bytes

\* Mutant: the prefix of Pause skips one byte less.
keyboard_handler_Short(b) ==
  \/ /\ pause_bytes > 0
     /\ pause_bytes' = pause_bytes - 1
     /\ UNCHANGED <<extended_key, shift_pressed, caps_lock_active, queues>>
  \/ /\ pause_bytes = 0 /\ b = 225
     /\ pause_bytes' = 4 /\ extended_key' = FALSE
     /\ UNCHANGED <<shift_pressed, caps_lock_active, queues>>
  \/ /\ pause_bytes = 0 /\ b = 224
     /\ extended_key' = TRUE
     /\ UNCHANGED <<pause_bytes, shift_pressed, caps_lock_active, queues>>
  \/ pause_bytes = 0 /\ b \notin {224, 225} /\ Key(b % 128, b < 128)

keyboard_handler(b) ==
  \/ /\ pause_bytes > 0
     /\ pause_bytes' = pause_bytes - 1
     /\ UNCHANGED <<extended_key, shift_pressed, caps_lock_active, queues>>
  \/ /\ pause_bytes = 0 /\ b = 225
     /\ pause_bytes' = 5 /\ extended_key' = FALSE
     /\ UNCHANGED <<shift_pressed, caps_lock_active, queues>>
  \/ /\ pause_bytes = 0 /\ b = 224
     /\ extended_key' = TRUE
     /\ UNCHANGED <<pause_bytes, shift_pressed, caps_lock_active, queues>>
  \/ pause_bytes = 0 /\ b \notin {224, 225} /\ Key(b % 128, b < 128)

(***************************************************************************)
(* ps2_mouse_byte                                                          *)
(***************************************************************************)
Signed(b, negative) == b - (IF negative THEN 256 ELSE 0)

Movement(p) == [buttons |-> p[1] % 8,
                dx |-> Signed(p[2], Bit(p[1], 4)),
                dy |-> -Signed(p[3], Bit(p[1], 5))]

Overflowed(p) == Bit(p[1], 6) \/ Bit(p[1], 7)

ps2_mouse_byte(b) ==
  LET whole == Append(packet, b)
      first == packet = <<>>
  IN \/ first /\ ~Bit(b, 3) /\ UNCHANGED <<packet, events>>
     \/ (first => Bit(b, 3)) /\ Len(whole) < 3 /\ packet' = whole /\ UNCHANGED events
     \/ /\ (first => Bit(b, 3)) /\ Len(whole) >= 3
        /\ packet' = <<>>
        /\ events' = IF Overflowed(whole) THEN events ELSE Pushed(events, Movement(whole))

(***************************************************************************)
(* The devices, and one turn of the loop of ps2_irq                        *)
(***************************************************************************)
Made(b, down) == IF b < 128 THEN down \cup {b} ELSE down \ {b - 128}

Sent(dev) == [dev EXCEPT !.left = Tail(dev.left)]

KeyReport(r) ==
  /\ kbd.left = <<>>
  /\ kbd' = [kbd EXCEPT !.report = r, !.left = r, !.lost = FALSE,
                        !.down = IF Len(r) = 1 THEN Made(r[1], kbd.down) ELSE kbd.down]
  /\ UNCHANGED <<mouse, mouse_present, noise, packet, decode, queues>>

MouseReport(p) ==
  /\ mouse.left = <<>>
  /\ mouse' = [mouse EXCEPT !.report = p, !.left = p, !.lost = FALSE]
  /\ UNCHANGED <<kbd, mouse_present, noise, packet, decode, queues>>

KeyByte ==
  /\ kbd.left # <<>>
  /\ kbd' = Sent(kbd)
  /\ keyboard_handler(Head(kbd.left))
  /\ UNCHANGED <<mouse, mouse_present, noise, packet>>

MouseByte ==
  /\ mouse.left # <<>>
  /\ mouse' = Sent(mouse)
  /\ IF mouse_present THEN ps2_mouse_byte(Head(mouse.left)) ELSE UNCHANGED <<packet, events>>
  /\ UNCHANGED <<kbd, mouse_present, noise, decode, chars>>

\* Mutant: a damaged byte leaves the packet as it was.
Reset_Kept == UNCHANGED packet

Reset == packet' = <<>>

KeyError ==
  /\ noise /\ kbd.left # <<>>
  /\ kbd' = [Sent(kbd) EXCEPT !.lost = TRUE]
  /\ mouse' = [mouse EXCEPT !.lost = @ \/ mouse.left \notin {<<>>, mouse.report}]
  /\ Reset /\ UNCHANGED <<mouse_present, noise, decode, queues>>

MouseError ==
  /\ noise /\ mouse.left # <<>>
  /\ mouse' = [Sent(mouse) EXCEPT !.lost = TRUE]
  /\ Reset /\ UNCHANGED <<kbd, mouse_present, noise, decode, queues>>

(* input_peek with input_consume, and keyboard_get_char                    *)
TakeEvent ==
  /\ events # <<>>
  /\ events' = Tail(events)
  /\ UNCHANGED <<kbd, mouse, mouse_present, noise, packet, decode, chars>>

keyboard_get_char ==
  /\ chars # <<>>
  /\ chars' = Tail(chars)
  /\ UNCHANGED <<kbd, mouse, mouse_present, noise, packet, decode, events>>

Next ==
  \/ \E r \in IF noise THEN NoisyReports ELSE KeyReports : KeyReport(r)
  \/ \E p \in IF noise THEN NoisyPackets ELSE Packets : MouseReport(p)
  \/ KeyByte \/ MouseByte \/ KeyError \/ MouseError
  \/ TakeEvent \/ keyboard_get_char

Spec == Init /\ [][Next]_vars

-----------------------------------------------------------------------------
Event == [code : 0 .. 511, value : BOOLEAN]
           \cup [buttons : 0 .. 7, dx : -256 .. 255, dy : -255 .. 256]

(* The packet has room for the next byte, at most five bytes are skipped,  *)
(* and the queues hold events and characters, never more than fit.         *)
TypeOK ==
  /\ mouse_present \in BOOLEAN /\ noise \in BOOLEAN
  /\ Len(packet) < 3 /\ \A i \in DOMAIN packet : packet[i] \in Byte
  /\ pause_bytes \in 0 .. 5 /\ extended_key \in BOOLEAN
  /\ shift_pressed \in BOOLEAN /\ caps_lock_active \in BOOLEAN
  /\ Len(events) <= Room /\ \A i \in DOMAIN events : events[i] \in Event
  /\ Len(chars) <= Room

(* With a clean line, capitals need a finger: shift_pressed is never left  *)
(* set when both shift keys are up, whatever prefixed reports, which       *)
(* contain the shift codes too, and mouse bytes come between.              *)
ShiftHeld ==
  ~noise /\ shift_pressed => \/ kbd.down \cap {LSHIFT, RSHIFT} # {}
                             \/ kbd.left # <<>>

(* What a keyboard report means: its last byte, with 256 for the prefix;   *)
(* Pause means nothing to this system.                                     *)
KeyMeaning(r) ==
  IF r = PAUSE THEN <<>>
  ELSE <<[code |-> (r[Len(r)] % 128) + (IF Len(r) = 2 THEN 256 ELSE 0),
          value |-> r[Len(r)] < 128]>>

MouseMeaning(p) ==
  IF ~mouse_present \/ Overflowed(p) THEN <<>> ELSE <<Movement(p)>>

Due ==
  CASE kbd'.left # kbd.left /\ kbd'.left = <<>> /\ ~kbd'.lost -> KeyMeaning(kbd.report)
    [] mouse'.left # mouse.left /\ mouse'.left = <<>> /\ ~mouse'.lost ->
         MouseMeaning(mouse.report)
    [] OTHER -> <<>>

(* Bytes of the two devices may mix in any order, and packets may lose     *)
(* bytes: the last byte of an undamaged report, and no other byte, yields  *)
(* that report's event and no other, unless the queue is full; only a      *)
(* reader takes events out; only the end of a key's report yields a        *)
(* character.                                                              *)
OneEventPerReport ==
  [][ /\ \/ Due # <<>> /\ events' = Pushed(events, Due[1])
         \/ Due = <<>> /\ (events' = events \/ TakeEvent)
      /\ chars' # chars => keyboard_get_char \/ (kbd.left # <<>> /\ Due # <<>>) ]_vars

(* The safety invariants together: decoder state fits the bytes so far.    *)
Safety ==
  /\ TypeOK
  /\ ShiftHeld
=============================================================================
